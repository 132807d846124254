----------------------------- MODULE ProcessProofs -----------------------------
(***************************************************************************)
(* Proofs about one server process: the configuration file it stores and   *)
(* reloads (ConfigFile), its readiness and its end (Readiness), and the    *)
(* requests for an asset that it serves (AssetUploads).                    *)
(***************************************************************************)
EXTENDS ConfigFile, Readiness, AssetUploads, TLAPS

(***************************************************************************)
(* Proofs about ConfigFile, for any documents, clients, edits, failed      *)
(* calls and restarts: a PUT replaces the document its client has named.   *)
(*                                                                         *)
(* The client that renames holds write_lock, so no other client's rename   *)
(* can come between its second comparison and its own; what can is a hand  *)
(* edit, and then the file says so.                                        *)
(***************************************************************************)

(***************************************************************************)
(* What the reload loop and the clients carry along.                       *)
(***************************************************************************)
LoopTyped ==
    /\ loop.at \in {"versioned", "loaded", "booting"} => loop.version \in Docs
    /\ loop.at = "loaded" => loop.doc \in Docs /\ loop.doc.valid

Holding == {"compared", "staged", "renaming"}

WritersFollow ==
    /\ writer = [w \in Writers |-> writer[w]]
    /\ \A w \in Writers :
          writer[w].at \in Holding \cup {"putting"} => writer[w].new \in Docs
    /\ \A w \in Writers :
          writer[w].at = "renaming" => file.doc = writer[w].version \/ file.by = Editor

FileInv == DocumentsTyped /\ LockTyped /\ BoundsTyped /\ LoopTyped /\ WritersFollow

LEMMA FileBegins ==
    ASSUME FileAssumption, Init
    PROVE  FileInv
<1>1. DocumentsTyped
  BY DEF FileAssumption, Init, DocumentsTyped
<1>2. LockTyped
  BY DEF FileAssumption, Init, LockTyped, Idle
<1>3. BoundsTyped
  BY DEF FileAssumption, Init, BoundsTyped
<1>4. LoopTyped /\ WritersFollow
  BY DEF Init, LoopTyped, WritersFollow, Waiting, Idle, Holding
<1> QED
  BY <1>1, <1>2, <1>3, <1>4 DEF FileInv

(***************************************************************************)
(* No bound is passed.                                                     *)
(***************************************************************************)
LEMMA BoundsKeep ==
    ASSUME FileAssumption, BoundsTyped, [Next]_vars
    PROVE  BoundsTyped'
<1>0. /\ edits \in 0..MaxEdits /\ boots \in 0..MaxBoots /\ faults \in 0..MaxFaults
      /\ MaxEdits \in Nat /\ MaxBoots \in Nat /\ MaxFaults \in Nat
  BY DEF FileAssumption, BoundsTyped
<1>1. /\ edits' = edits \/ (edits < MaxEdits /\ edits' = edits + 1)
      /\ boots' = boots \/ (boots < MaxBoots /\ boots' = boots + 1)
      /\ faults' = faults \/ (faults < MaxFaults /\ faults' = faults + 1)
  BY DEF Next, vars, bounds, Edit, Trigger, GetVersion, GetDocument, PutConfig, Write, LockFile,
         StageFile, CompareAgain, RenameFile, WriteFails, Reload, StartBurst, ExtendBurst,
         StartReload, LoadDocument,
         DeclineUnchanged, RefuseDocument, ActivateDocument, Crash, BootVersion, BootDocument,
         StartWatching
<1> QED
  BY <1>0, <1>1 DEF BoundsTyped

(***************************************************************************)
(* A step of one client.  It alone may hold write_lock, and only its       *)
(* rename changes the file.                                                *)
(***************************************************************************)
LEMMA WriterKeeps ==
    ASSUME FileAssumption, FileInv, NEW w \in Writers, NEW x,
           writer' = [writer EXCEPT ![w] = x],
           UNCHANGED <<active, loop, missed>>, pending' \in BOOLEAN, backup' \in Docs,
           file' = file \/ (writer[w].at = "renaming" /\ file' = [doc |-> writer[w].new, by |-> w]),
           \/ lock' = lock /\ (x.at \in Holding <=> writer[w].at \in Holding)
           \/ lock = Editor /\ lock' = w /\ x.at \in Holding
           \/ lock = w /\ lock' = Editor /\ x.at \notin Holding,
           x.at \in Holding \cup {"putting"} => x.new \in Docs,
           x.at = "renaming" => file' = file /\ file.doc = x.version
    PROVE  DocumentsTyped' /\ LockTyped' /\ LoopTyped' /\ WritersFollow'
<1>0. DocumentsTyped /\ LockTyped /\ LoopTyped /\ WritersFollow
  BY DEF FileInv
<1>1. writer'[w] = x /\ \A v \in Writers : v # w => writer'[v] = writer[v]
  BY <1>0 DEF WritersFollow
<1>2. writer[w].at \in Holding => lock = w
  BY <1>0 DEF LockTyped, Holding
<1>3. \A v \in Writers : v # Editor
  BY DEF FileAssumption
<1>4. DocumentsTyped'
  BY <1>0 DEF DocumentsTyped, WritersFollow, Holding
<1>5. LockTyped'
  <2>1. \A v \in Writers : lock = v <=> writer[v].at \in Holding
    BY <1>0 DEF LockTyped, Holding
  <2>2. lock' \in Writers \cup {Editor}
    BY <1>0 DEF LockTyped
  <2>3. \A v \in Writers : lock' = v <=> writer'[v].at \in Holding
    BY <1>1, <1>3, <2>1
  <2> QED
    BY <2>2, <2>3 DEF LockTyped, Holding
<1>6. LoopTyped'
  BY <1>0 DEF LoopTyped
<1>7. WritersFollow'
  <2>1. writer' = [v \in Writers |-> writer'[v]]
    BY <1>0 DEF WritersFollow
  <2>2. \A v \in Writers : writer'[v].at \in Holding \cup {"putting"} => writer'[v].new \in Docs
    BY <1>0, <1>1 DEF WritersFollow
  <2>3. ASSUME NEW v \in Writers, writer'[v].at = "renaming"
        PROVE  file'.doc = writer'[v].version \/ file'.by = Editor
    <3>1. CASE v = w
      BY <1>1, <2>3, <3>1
    <3>2. CASE v # w
      <4>1. writer'[v] = writer[v] /\ lock = v
        BY <1>0, <1>1, <2>3, <3>2 DEF LockTyped
      <4>2. file' = file
        BY <1>2, <3>2, <4>1 DEF Holding
      <4> QED
        BY <1>0, <2>3, <4>1, <4>2 DEF WritersFollow
    <3> QED
      BY <3>1, <3>2
  <2> QED
    BY <2>1, <2>2, <2>3 DEF WritersFollow
<1> QED
  BY <1>4, <1>5, <1>6, <1>7

LEMMA ClientsKeep ==
    ASSUME FileAssumption, FileInv, NEW w \in Writers,
           \/ GetVersion(w) \/ GetDocument(w) \/ Write(w) \/ WriteFails(w)
           \/ \E d \in Docs : PutConfig(w, d)
    PROVE  DocumentsTyped' /\ LockTyped' /\ LoopTyped' /\ WritersFollow'
<1>0. /\ file.doc \in Docs /\ backup \in Docs /\ pending \in BOOLEAN
      /\ lock = w <=> writer[w].at \in Holding
      /\ writer[w].at \in Holding \cup {"putting"} => writer[w].new \in Docs
  BY DEF FileInv, DocumentsTyped, LockTyped, WritersFollow, Holding
<1>1. CASE GetVersion(w)
  <2>1. [at |-> "getting", version |-> file.doc].at \notin Holding \cup {"putting"}
    BY DEF Holding
  <2> QED
    BY <1>0, <1>1, <2>1, WriterKeeps DEF GetVersion, Holding, bounds
<1>2. CASE GetDocument(w)
  <2> DEFINE x == IF file.doc.valid
                  THEN [at |-> "got", version |-> writer[w].version, doc |-> file.doc] ELSE Idle
  <2>1. x.at \notin Holding \cup {"putting"}
    BY DEF Idle, Holding
  <2>2. writer' = [writer EXCEPT ![w] = x]
    BY <1>2 DEF GetDocument
  <2> HIDE DEF x
  <2> QED
    BY <1>0, <1>2, <2>1, <2>2, WriterKeeps DEF GetDocument, Holding, bounds
<1>3. ASSUME NEW d \in Docs, PutConfig(w, d)
      PROVE  DocumentsTyped' /\ LockTyped' /\ LoopTyped' /\ WritersFollow'
  <2> DEFINE x == IF d.valid
                  THEN [at |-> "putting", version |-> writer[w].version, doc |-> writer[w].doc,
                        new |-> d]
                  ELSE [at |-> "answered", invalid |-> d]
  <2>1. x.at \notin Holding /\ (x.at = "putting" => x.new \in Docs)
    BY DEF Holding
  <2>2. writer' = [writer EXCEPT ![w] = x]
    BY <1>3 DEF PutConfig
  <2> HIDE DEF x
  <2> QED
    BY <1>0, <1>3, <2>1, <2>2, WriterKeeps DEF PutConfig, Holding
<1>4. CASE LockFile(w)
  <2>1. CASE file.doc # writer[w].version
    <3>1. [at |-> "answered", conflict |-> file.doc].at \notin Holding \cup {"putting"}
      BY DEF Holding
    <3> QED
      BY <1>0, <1>4, <2>1, <3>1, WriterKeeps DEF LockFile, Conflict, Holding, bounds
  <2>2. CASE file.doc = writer[w].version
    <3> DEFINE x == [writer[w] EXCEPT !.at = "compared"]
    <3>1. x.at = "compared" /\ x.new = writer[w].new
      BY <1>4 DEF LockFile
    <3>2. writer' = [writer EXCEPT ![w] = x]
      BY <1>4, <2>2 DEF LockFile
    <3> HIDE DEF x
    <3> QED
      BY <1>0, <1>4, <2>2, <3>1, <3>2, WriterKeeps DEF LockFile, Holding, bounds
  <2> QED
    BY <2>1, <2>2
<1>5. CASE StageFile(w)
  <2> DEFINE x == [writer[w] EXCEPT !.at = "staged"]
  <2>1. x.at = "staged" /\ x.new = writer[w].new
    BY <1>5 DEF StageFile
  <2>2. writer' = [writer EXCEPT ![w] = x]
    BY <1>5 DEF StageFile
  <2> HIDE DEF x
  <2> QED
    BY <1>0, <1>5, <2>1, <2>2, WriterKeeps DEF StageFile, Holding, bounds
<1>6. CASE CompareAgain(w)
  <2>1. CASE file.doc # writer[w].version
    <3>1. [at |-> "answered", conflict |-> file.doc].at \notin Holding \cup {"putting"}
      BY DEF Holding
    <3> QED
      BY <1>0, <1>6, <2>1, <3>1, WriterKeeps DEF CompareAgain, Conflict, Holding, bounds
  <2>2. CASE file.doc = writer[w].version
    <3> DEFINE x == [writer[w] EXCEPT !.at = "renaming"]
    <3>1. x.at = "renaming" /\ x.new = writer[w].new /\ x.version = writer[w].version
      BY <1>6 DEF CompareAgain
    <3>2. writer' = [writer EXCEPT ![w] = x]
      BY <1>6, <2>2 DEF CompareAgain
    <3> HIDE DEF x
    <3> QED
      BY <1>0, <1>6, <2>2, <3>1, <3>2, WriterKeeps DEF CompareAgain, Holding, bounds
  <2> QED
    BY <2>1, <2>2
<1>7. CASE RenameFile(w)
  <2> DEFINE x == [at |-> "answered", version |-> writer[w].new]
  <2>1. x.at \notin Holding \cup {"putting"}
    BY DEF Holding
  <2>2. writer' = [writer EXCEPT ![w] = x]
    BY <1>7 DEF RenameFile
  <2>3. file' = [doc |-> writer[w].new, by |-> w] /\ pending' \in BOOLEAN
    BY <1>0, <1>7 DEF RenameFile, Storing, Watching
  <2> HIDE DEF x
  <2> QED
    BY <1>0, <1>7, <2>1, <2>2, <2>3, WriterKeeps DEF RenameFile, Holding, bounds
<1>8. CASE WriteFails(w)
  <2>1. [at |-> "answered", failed |-> TRUE].at \notin Holding \cup {"putting"}
    BY DEF Holding
  <2> QED
    BY <1>0, <1>8, <2>1, WriterKeeps DEF WriteFails, Holding
<1> QED
  BY <1>1, <1>2, <1>3, <1>4, <1>5, <1>6, <1>7, <1>8 DEF Write

(***************************************************************************)
(* Hand edits, the reload loop, crashes and boots.                         *)
(***************************************************************************)
LEMMA LoopKeeps ==
    ASSUME FileAssumption, FileInv,
           \/ \E d \in Docs : Edit(d)
           \/ Trigger \/ Reload \/ Crash \/ BootVersion \/ BootDocument \/ StartWatching
    PROVE  DocumentsTyped' /\ LockTyped' /\ LoopTyped' /\ WritersFollow'
<1>0. DocumentsTyped /\ LockTyped /\ LoopTyped /\ WritersFollow
  BY DEF FileInv
<1>1. ASSUME NEW d \in Docs, Edit(d)
      PROVE  DocumentsTyped' /\ LockTyped' /\ LoopTyped' /\ WritersFollow'
  <2>1. /\ file' = [doc |-> d, by |-> Editor] /\ pending' \in BOOLEAN
        /\ UNCHANGED <<backup, lock, writer, active, loop, missed>>
    BY <1>0, <1>1 DEF Edit, Storing, Watching, DocumentsTyped
  <2>2. DocumentsTyped'
    BY <1>0, <2>1 DEF DocumentsTyped
  <2> QED
    BY <1>0, <2>1, <2>2 DEF LockTyped, LoopTyped, WritersFollow
<1>2. CASE Trigger \/ Reload \/ BootVersion \/ BootDocument \/ StartWatching
  <2>1. UNCHANGED <<file, backup, lock, writer>>
    BY <1>2 DEF Trigger, Reload, StartBurst, ExtendBurst, StartReload, LoadDocument,
                DeclineUnchanged, RefuseDocument,
                ActivateDocument, BootVersion, BootDocument, StartWatching
  <2>2. LockTyped' /\ WritersFollow'
    BY <1>0, <2>1 DEF LockTyped, WritersFollow
  <2>3. pending' \in BOOLEAN /\ missed' \in BOOLEAN
    BY <1>0, <1>2 DEF Trigger, Reload, StartBurst, ExtendBurst, StartReload, LoadDocument,
                DeclineUnchanged, RefuseDocument,
                ActivateDocument, BootVersion, BootDocument, StartWatching, bounds, DocumentsTyped
  <2>4. /\ active' \in [doc : Docs, version : Docs] /\ active'.doc.valid /\ active'.doc.builds
        /\ LoopTyped'
    BY <1>0, <1>2 DEF Trigger, Reload, StartBurst, ExtendBurst, StartReload, LoadDocument,
                DeclineUnchanged, RefuseDocument,
                ActivateDocument, Activatable, BootVersion, BootDocument, StartWatching,
                DocumentsTyped, LoopTyped, Waiting
  <2> QED
    BY <1>0, <2>1, <2>2, <2>3, <2>4 DEF DocumentsTyped
<1>3. CASE Crash
  <2>1. /\ UNCHANGED <<file, backup, active, missed>> /\ pending' = FALSE /\ lock' = Editor
        /\ loop' = [at |-> "down"]
    BY <1>3 DEF Crash
  <2>2. writer' = [w \in Writers |-> IF writer[w].at \in {"idle", "got", "answered"}
                                     THEN writer[w] ELSE [at |-> "answered", failed |-> TRUE]]
    BY <1>3 DEF Crash
  <2>3. \A w \in Writers : writer'[w].at \in {"idle", "got", "answered"}
    BY <2>2
  <2>4. DocumentsTyped' /\ LoopTyped'
    BY <1>0, <2>1 DEF DocumentsTyped, LoopTyped
  <2>5. LockTyped'
    BY <2>1, <2>3 DEF LockTyped, FileAssumption
  <2>6. WritersFollow'
    BY <2>2, <2>3 DEF WritersFollow, Holding
  <2> QED
    BY <2>4, <2>5, <2>6
<1> QED
  BY <1>1, <1>2, <1>3

-----------------------------------------------------------------------------

(***************************************************************************)
(* The inductive invariant of the configuration file.                      *)
(***************************************************************************)
THEOREM FileInvariance ==
    ASSUME FileAssumption
    PROVE  Spec => []FileInv
<1>1. Init => FileInv
  BY FileBegins
<1>2. FileInv /\ [Next]_vars => FileInv'
  <2> SUFFICES ASSUME FileInv, [Next]_vars PROVE FileInv'
    OBVIOUS
  <2>1. BoundsTyped'
    BY BoundsKeep DEF FileInv
  <2>2. CASE UNCHANGED vars
    BY <2>1, <2>2 DEF vars, FileInv, DocumentsTyped, LockTyped, LoopTyped, WritersFollow
  <2>3. CASE Next
    <3>1. DocumentsTyped' /\ LockTyped' /\ LoopTyped' /\ WritersFollow'
      BY <2>3, ClientsKeep, LoopKeeps DEF Next
    <3> QED
      BY <2>1, <3>1 DEF FileInv
  <2> QED
    BY <2>2, <2>3
<1> QED
  BY <1>1, <1>2, PTL DEF Spec

(***************************************************************************)
(* Documents, lock and bounds stay well formed; in particular one client   *)
(* at most holds write_lock, and what is in force is valid and builds.     *)
(***************************************************************************)
THEOREM FileTypeCorrect ==
    ASSUME FileAssumption
    PROVE  Spec => []TypeOK
<1>1. FileInv => TypeOK
  BY DEF FileInv, TypeOK
<1> QED
  BY <1>1, FileInvariance, PTL

(***************************************************************************)
(* A PUT replaces the document its client has read, or a later hand edit,  *)
(* never the write of another client (FileConfigStore::write, write_lock). *)
(***************************************************************************)
THEOREM PutsNeverOverwriteEachOther ==
    ASSUME FileAssumption
    PROVE  Spec => PutsReplaceWhatTheyName
<1>1. FileInv => \A w \in Writers :
                writer[w].at = "renaming" => file.doc = writer[w].version \/ file.by = Editor
  BY DEF FileInv, WritersFollow
<1>2. FileInv /\ [Next]_vars =>
         [\A w \in Writers :
            writer[w].at = "renaming" /\ writer'[w].at = "answered" /\ file' # file =>
                \/ file.doc = writer[w].version
                \/ file.by = Editor]_vars
  BY <1>1
<1> QED
  BY <1>2, FileInvariance, PTL DEF Spec, PutsReplaceWhatTheyName
-----------------------------------------------------------------------------
(***************************************************************************)
(* Proofs about Readiness, for any number of activations, outages,         *)
(* requests and tasks: the verdict in force is about the context in force. *)
(*                                                                         *)
(* A probe reads the context, then the generation, and later compares the  *)
(* context again.  A context only moves forward, and the n-th is of        *)
(* generation n - 1.  Before it compares, a probe's context can only be    *)
(* older than its generation; once it has compared they match; and when    *)
(* the generation is still the same at the end, so is the context.         *)
(***************************************************************************)

(***************************************************************************)
(* What the probe has read and found.                                      *)
(***************************************************************************)
ProbeFollows ==
    /\ probe.at \in {"resting", "started", "probing", "answered", "compared"}
    /\ probe.at # "resting" => probe.context \in 1..context
    /\ probe.at \in {"probing", "answered", "compared"} =>
          probe.generation \in Nat /\ probe.generation + 1 <= context
    /\ probe.at \in {"probing", "answered"} => probe.context <= probe.generation + 1
    /\ probe.at = "compared" => probe.context = probe.generation + 1
    /\ probe.at \in {"answered", "compared"} =>
          IF probe.up THEN probe.context \in succeeded ELSE probe.context \in failed

ReadinessInv == StateTyped /\ ProcessTyped /\ ProbeFollows /\ VerdictIsOfTheContextInForce

-----------------------------------------------------------------------------

LEMMA ReadinessBegins ==
    ASSUME ReadinessAssumption, ReadinessInit
    PROVE  ReadinessInv
<1>1. StateTyped
  BY DEF ReadinessAssumption, ReadinessInit, StateTyped, Statuses
<1>2. ProcessTyped
  BY DEF ReadinessInit, ProcessTyped
<1>3. ProbeFollows /\ VerdictIsOfTheContextInForce
  BY DEF ReadinessInit, ProbeFollows, VerdictIsOfTheContextInForce
<1> QED
  BY <1>1, <1>2, <1>3 DEF ReadinessInv

(***************************************************************************)
(* An activation, and dependencies that come and go.                       *)
(***************************************************************************)
LEMMA ContextsKeep ==
    ASSUME ReadinessAssumption, ReadinessInv, SwapContext \/ Invalidate \/ Flip
    PROVE  ReadinessInv'
<1>0. StateTyped /\ ProbeFollows /\ VerdictIsOfTheContextInForce
  BY DEF ReadinessInv
<1>n. /\ context \in Nat /\ context \in 1..MaxContexts
      /\ MaxContexts \in Nat /\ MaxFlips \in Nat
  BY <1>0 DEF StateTyped, ReadinessAssumption
<1>a. ProcessTyped
  BY DEF ReadinessInv
<1>1. ASSUME SwapContext
      PROVE  ReadinessInv'
  <2>1. /\ context' = context + 1 /\ context < MaxContexts /\ swapping' = TRUE /\ ~swapping
        /\ UNCHANGED <<flips, status, generation, probe, succeeded, failed, server, request, task>>
    BY <1>1 DEF SwapContext, probing, process
  <2>2. answering' \subseteq 1..context'
    BY <1>0, <1>n, <1>1, <2>1 DEF SwapContext, StateTyped
  <2>3. generation' = context' - 2
    BY <1>0, <1>n, <2>1 DEF StateTyped
  <2>4. StateTyped'
    BY <1>0, <1>n, <2>1, <2>2, <2>3 DEF StateTyped, ReadinessAssumption
  <2>5. ProbeFollows'
    BY <1>0, <1>n, <2>1 DEF StateTyped, ProbeFollows
  <2>6. VerdictIsOfTheContextInForce'
    BY <1>0, <1>n, <2>1 DEF VerdictIsOfTheContextInForce
  <2> QED
    BY <1>a, <2>1, <2>4, <2>5, <2>6 DEF ReadinessInv, ProcessTyped
<1>2. ASSUME Invalidate
      PROVE  ReadinessInv'
  <2>1. /\ swapping /\ swapping' = FALSE /\ generation' = generation + 1
        /\ status' = IF status = "draining" THEN status ELSE "initial"
        /\ UNCHANGED <<context, answering, flips, probe, succeeded, failed, server, request, task>>
    BY <1>2 DEF Invalidate, health, probing, process
  <2>2. generation' = context' - 1
    BY <1>0, <1>n, <2>1 DEF StateTyped
  <2>3. StateTyped'
    BY <1>0, <1>n, <2>1, <2>2 DEF StateTyped, Statuses
  <2>4. ProbeFollows'
    BY <1>0, <1>n, <2>1 DEF ProbeFollows
  <2>5. VerdictIsOfTheContextInForce'
    BY <1>0, <1>n, <2>1 DEF VerdictIsOfTheContextInForce
  <2> QED
    BY <1>a, <2>1, <2>3, <2>4, <2>5 DEF ReadinessInv, ProcessTyped
<1>3. ASSUME Flip
      PROVE  ReadinessInv'
  <2>1. /\ flips < MaxFlips /\ flips' = flips + 1
        /\ answering' \in {answering \ {context}, answering \cup {context}}
        /\ UNCHANGED <<context, status, generation, swapping, probe, succeeded, failed, server,
                       request, task>>
    BY <1>3 DEF Flip, state, probing, process
  <2>2. answering' \subseteq 1..context /\ flips' \in 0..MaxFlips
    BY <1>0, <1>n, <2>1 DEF StateTyped, ReadinessAssumption
  <2>3. StateTyped'
    BY <1>0, <1>n, <2>1, <2>2 DEF StateTyped
  <2>4. ProbeFollows'
    BY <1>0, <1>n, <2>1 DEF ProbeFollows
  <2>5. VerdictIsOfTheContextInForce'
    BY <1>0, <1>n, <2>1 DEF VerdictIsOfTheContextInForce
  <2> QED
    BY <1>a, <2>1, <2>3, <2>4, <2>5 DEF ReadinessInv, ProcessTyped
<1> QED
  BY <1>1, <1>2, <1>3

LEMMA ProbeKeeps ==
    ASSUME ReadinessAssumption, ReadinessInv, Probe
    PROVE  ReadinessInv'
<1>0. StateTyped /\ ProbeFollows /\ VerdictIsOfTheContextInForce
  BY DEF ReadinessInv
<1>n. /\ context \in Nat /\ context \in 1..MaxContexts
      /\ MaxContexts \in Nat /\ MaxFlips \in Nat
  BY <1>0 DEF StateTyped, ReadinessAssumption
<1>a. ProcessTyped
  BY DEF ReadinessInv
<1>1. ASSUME StartProbe \/ ReadGeneration \/ CompareContext
      PROVE  ReadinessInv'
  <2>1. UNCHANGED <<context, answering, flips, status, generation, swapping, succeeded, failed,
                    signalled, server, accepting, request, supervisor, task, call, dropping,
                    exited>>
    BY <1>1 DEF StartProbe, ReadGeneration, CompareContext, health, state, process
  <2>2. StateTyped'
    BY <1>0, <1>n, <2>1 DEF StateTyped
  <2>3. VerdictIsOfTheContextInForce'
    BY <1>0, <1>n, <2>1 DEF VerdictIsOfTheContextInForce
  <2>4. CASE StartProbe
    <3>1. ProbeFollows'
      BY <1>0, <1>n, <2>1, <2>4 DEF StartProbe, ProbeFollows, StateTyped
    <3> QED
      BY <1>a, <2>1, <2>2, <2>3, <3>1 DEF ReadinessInv, ProcessTyped
  <2>5. CASE ReadGeneration
    <3>1. generation = context - 1
      BY <1>0, <1>n, <2>5 DEF ReadGeneration, StateTyped
    <3>2. ProbeFollows'
      BY <1>0, <1>n, <2>1, <2>5, <3>1 DEF ReadGeneration, ProbeFollows, StateTyped
    <3> QED
      BY <1>a, <2>1, <2>2, <2>3, <3>2 DEF ReadinessInv, ProcessTyped
  <2>6. CASE CompareContext
    <3>1. ProbeFollows'
      BY <1>0, <1>n, <2>1, <2>6 DEF CompareContext, StillInForce, ProbeFollows, StateTyped
    <3> QED
      BY <1>a, <2>1, <2>2, <2>3, <3>1 DEF ReadinessInv, ProcessTyped
  <2> QED
    BY <1>1, <2>4, <2>5, <2>6
<1>2. ASSUME ProbeDependencies
      PROVE  ReadinessInv'
  <2>1. UNCHANGED <<context, answering, flips, status, generation, swapping,
                    signalled, server, accepting, request, supervisor, task, call, dropping,
                    exited>>
    BY <1>2 DEF ProbeDependencies, health, state, process
  <2>2. StateTyped'
    BY <1>0, <1>n, <1>2, <2>1 DEF ProbeDependencies, ProbeFollows, StateTyped
  <2>3. ProbeFollows'
    BY <1>0, <1>n, <1>2, <2>1 DEF ProbeDependencies, ProbeFollows, StateTyped
  <2>4. succeeded \subseteq succeeded' /\ failed \subseteq failed'
    BY <1>2 DEF ProbeDependencies
  <2>5. VerdictIsOfTheContextInForce'
    BY <1>0, <1>n, <2>1, <2>4 DEF VerdictIsOfTheContextInForce
  <2> QED
    BY <1>a, <2>1, <2>2, <2>3, <2>5 DEF ReadinessInv, ProcessTyped
<1>3. ASSUME RecordVerdict
      PROVE  ReadinessInv'
  <2>1. /\ UNCHANGED <<context, answering, flips, generation, swapping, succeeded, failed,
                       signalled, server, accepting, request, supervisor, task, call, dropping,
                       exited>>
        /\ probe.at = "compared" /\ ~swapping /\ probe' = [at |-> "resting"]
        /\ status' = IF ~Counts THEN status ELSE IF probe.up THEN "ready" ELSE "failed"
    BY <1>3 DEF RecordVerdict, health, process
  <2>2. status' \in Statuses
    BY <1>0, <1>n, <2>1 DEF StateTyped, Statuses
  <2>3. StateTyped'
    BY <1>0, <1>n, <2>1, <2>2 DEF StateTyped
  <2>4. ProbeFollows'
    BY <2>1 DEF ProbeFollows
  <2>5. CASE ~Counts
    <3>1. VerdictIsOfTheContextInForce'
      BY <1>0, <1>n, <2>1, <2>5 DEF VerdictIsOfTheContextInForce
    <3> QED
      BY <1>a, <2>1, <2>3, <2>4, <3>1 DEF ReadinessInv, ProcessTyped
  <2>6. CASE Counts
    <3>1. server = "serving"
      BY <1>0, <1>n, <2>6 DEF Counts, VerdictIsOfTheContextInForce
    <3>2. generation = context - 1
      BY <1>0, <1>n, <2>1 DEF StateTyped
    <3>3. probe.generation = generation /\ context \in Nat
      BY <1>0, <1>n, <2>6 DEF Counts, StateTyped
    <3>4. context = probe.context
      BY <1>0, <1>n, <2>1, <3>2, <3>3 DEF ProbeFollows
    <3>5. IF probe.up THEN context \in succeeded ELSE context \in failed
      BY <1>0, <1>n, <2>1, <3>4 DEF ProbeFollows
    <3>6. VerdictIsOfTheContextInForce'
      BY <2>1, <2>6, <3>1, <3>5 DEF VerdictIsOfTheContextInForce
    <3> QED
      BY <1>a, <2>1, <2>3, <2>4, <3>6 DEF ReadinessInv, ProcessTyped
  <2> QED
    BY <2>5, <2>6
<1> QED
  BY <1>1, <1>2, <1>3 DEF Probe

(***************************************************************************)
(* Requests, tasks, and the way out.                                       *)
(***************************************************************************)
LEMMA ProcessKeeps ==
    ASSUME ReadinessAssumption, ReadinessInv,
           \/ Signal \/ Shutdown
           \/ \E q \in Requests : Admit(q) \/ Respond(q)
           \/ \E t \in Tasks : TaskStops(t) \/ TaskAborts(t)
           \/ \E x \in Requests \cup Tasks : StartCall(x) \/ CallReturns(x)
    PROVE  ReadinessInv'
<1>0. StateTyped /\ ProbeFollows /\ VerdictIsOfTheContextInForce
  BY DEF ReadinessInv
<1>a. ProcessTyped
  BY DEF ReadinessInv
<1>1. ASSUME BeginDraining
      PROVE  ReadinessInv'
  <2>1. /\ status' = "draining" /\ server' = "draining"
        /\ UNCHANGED <<health, generation, swapping, probing, request, task>>
    BY <1>1 DEF BeginDraining
  <2>2. StateTyped' /\ ProbeFollows'
    BY <1>0, <2>1 DEF StateTyped, ProbeFollows, Statuses, health, probing
  <2>3. VerdictIsOfTheContextInForce'
    BY <2>1 DEF VerdictIsOfTheContextInForce
  <2> QED
    BY <1>a, <2>1, <2>2, <2>3 DEF ReadinessInv, ProcessTyped
<1>2. ASSUME ServingCompletes \/ DrainDeadline
      PROVE  ReadinessInv'
  <2>1. /\ server = "draining" /\ server' \in {"completed", "forced"}
        /\ UNCHANGED <<health, state, probing, request, task>>
    BY <1>2 DEF ServingCompletes, DrainDeadline
  <2>2. StateTyped' /\ ProbeFollows'
    BY <1>0, <2>1 DEF StateTyped, ProbeFollows, health, state, probing
  <2>3. VerdictIsOfTheContextInForce'
    BY <1>0, <2>1 DEF VerdictIsOfTheContextInForce, health, state, probing
  <2> QED
    BY <1>a, <2>1, <2>2, <2>3 DEF ReadinessInv, ProcessTyped, state
<1>3. ASSUME \/ Signal \/ NotifyServer \/ TasksCompleted \/ TaskDeadline \/ TasksAborted
             \/ BodyEnds \/ Exit
             \/ \E q \in Requests : Admit(q) \/ Respond(q)
             \/ \E t \in Tasks : TaskStops(t) \/ TaskAborts(t)
             \/ \E x \in Requests \cup Tasks : StartCall(x) \/ CallReturns(x)
      PROVE  ReadinessInv'
  <2>1. UNCHANGED <<health, state, probing, server>>
    BY <1>3 DEF Signal, NotifyServer, TasksCompleted, TaskDeadline, TasksAborted, BodyEnds, Exit,
                Admit, Respond, TaskStops, TaskAborts, StartCall, CallReturns
  <2>2. request' \in [Requests -> {"none", "in flight", "answered"}]
    BY <1>a, <1>3 DEF Signal, NotifyServer, TasksCompleted, TaskDeadline, TasksAborted, BodyEnds,
                      Exit, Admit, Respond, TaskStops, TaskAborts, StartCall, CallReturns,
                      ProcessTyped
  <2>3. task' \in [Tasks -> {"running", "stopped", "aborting", "aborted"}]
    BY <1>a, <1>3 DEF Signal, NotifyServer, TasksCompleted, TaskDeadline, TasksAborted, BodyEnds,
                      Exit, Admit, Respond, TaskStops, TaskAborts, StartCall, CallReturns,
                      ProcessTyped
  <2>4. StateTyped' /\ ProbeFollows'
    BY <1>0, <2>1 DEF StateTyped, ProbeFollows, health, state, probing
  <2>5. VerdictIsOfTheContextInForce'
    BY <1>0, <2>1 DEF VerdictIsOfTheContextInForce, health, state, probing
  <2> QED
    BY <1>a, <2>1, <2>2, <2>3, <2>4, <2>5 DEF ReadinessInv, ProcessTyped, state
<1> QED
  BY <1>1, <1>2, <1>3 DEF Shutdown

-----------------------------------------------------------------------------

(***************************************************************************)
(* The inductive invariant of readiness.                                   *)
(***************************************************************************)
THEOREM ReadinessInvariance ==
    ASSUME ReadinessAssumption
    PROVE  ReadinessSpec => []ReadinessInv
<1>1. ReadinessInit => ReadinessInv
  BY ReadinessBegins
<1>2. ReadinessInv /\ [ReadinessNext]_readiness => ReadinessInv'
  <2> SUFFICES ASSUME ReadinessInv, ReadinessNext \/ UNCHANGED readiness PROVE ReadinessInv'
    OBVIOUS
  <2>1. CASE UNCHANGED readiness
    <3>1. UNCHANGED <<context, answering, flips, status, generation, swapping, probe,
                      succeeded, failed, server, request, task>>
      BY <2>1 DEF readiness, health, state, probing, process
    <3>2. StateTyped' /\ ProbeFollows'
      BY <3>1 DEF ReadinessInv, StateTyped, ProbeFollows
    <3>3. VerdictIsOfTheContextInForce' /\ ProcessTyped'
      BY <3>1 DEF ReadinessInv, ProcessTyped, VerdictIsOfTheContextInForce
    <3> QED
      BY <3>2, <3>3 DEF ReadinessInv
  <2>2. CASE ReadinessNext
    BY <2>2, ContextsKeep, ProbeKeeps, ProcessKeeps DEF ReadinessNext
  <2> QED
    BY <2>1, <2>2
<1> QED
  BY <1>1, <1>2, PTL DEF ReadinessSpec

(***************************************************************************)
(* Contexts, generations and verdicts stay well formed: the generation     *)
(* counts the activations, whatever the probe and the drain do meanwhile.  *)
(***************************************************************************)
THEOREM ReadinessTypeCorrect ==
    ASSUME ReadinessAssumption
    PROVE  ReadinessSpec => []ReadinessTypeOK
<1>1. ReadinessInv => ReadinessTypeOK
  BY DEF ReadinessInv, ReadinessTypeOK
<1> QED
  BY <1>1, ReadinessInvariance, PTL

(***************************************************************************)
(* /readyz never reports on a context that is no longer in force, nor      *)
(* takes a drain back, whatever races (probe_once, transition,             *)
(* reload_and_invalidate).                                                 *)
(***************************************************************************)
THEOREM VerdictsAreCurrent ==
    ASSUME ReadinessAssumption
    PROVE  ReadinessSpec => []VerdictIsOfTheContextInForce
BY ReadinessInvariance, PTL DEF ReadinessInv

-----------------------------------------------------------------------------

(***************************************************************************)
(* The assets, for any slots, contents, settings and bounds.               *)
(*                                                                         *)
(* What any setting keeps: nothing is under way that the store or the      *)
(* clients do not have.                                                    *)
(***************************************************************************)
Possible(q) ==
    /\ q.at \in {"commit", "hold", "fetch", "abort", "head"} => Profile = "s3"
    /\ q.at = "flush" => Profile = "fs"
    /\ q.at \in {"take", "commit", "hold", "fetch"} => "complete" \in Operations
    /\ q.at = "head" => "finalize" \in Operations
    /\ q.at \in Late => setting.cancels

SupportedOnly ==
    /\ urls # {} => Profile = "s3" /\ "presign" \in Operations
    /\ Profile = "fs" => \A i \in Ids : \A u \in upload[i] : ~u.hold
    /\ \A s \in Slots : Possible(slot[s])

(***************************************************************************)
(* Where bytes are compared first, whoever is about to write them has      *)
(* those of the id it writes to, and what is stored begins as declared.    *)
(***************************************************************************)
DeclaredAs(i, b) == i <= Len(registered) /\ b = Content(registered[i])

BeginsAs(i, b) == i <= Len(registered) /\ b = SubSeq(Content(registered[i]), 1, Len(b))

WritesDeclared(q) == q.at \in {"store", "putting"} => DeclaredAs(q.id, q.bytes)

WritersCompared ==
    ComparedFirst =>
        /\ \A i \in Ids : \A b \in object[i] : BeginsAs(i, b)
        /\ \A s \in Slots : WritesDeclared(slot[s])

(***************************************************************************)
(* With one request at a time: which record and which object a request     *)
(* relies on at each of its steps; ...                                     *)
(***************************************************************************)
PendingAs(i) == \E r \in record : r.id = i /\ r.kind = "managed" /\ r.state = "pending"

Holds(i, b) == object[i] # {} /\ (ThroughTheServer => object[i] = {b})

ReliesOnRecord(q) ==
    /\ q.at \in {"take", "commit", "hold", "fetch"} => q.began = q.id /\ PendingAs(q.id)
    /\ q.at \in {"head", "cleanup", "store", "available", "failed"} => PendingAs(q.id)
    /\ q.at = "read" /\ q.began # 0 => PendingAs(q.began)
    /\ q.at \in {"erase", "remove"} => \E r \in record : r.id = q.id
    /\ q.at = "erase" => \A r \in record : r.kind = "managed"

ReliesOnObject(q) ==
    /\ q.at = "store" => DeclaredAs(q.id, q.bytes)
    /\ q.at \in {"hold", "fetch"} => Holds(q.id, q.bytes)
    /\ q.at = "read" /\ q.committed => q.began # 0 /\ Holds(q.began, q.bytes)
    /\ q.at = "available" => Holds(q.id, Content(registered[q.id]))
    /\ q.at = "remove" /\ ThroughTheServer => object[q.id] = {}

(***************************************************************************)
(* ... and whose request will release a hold, why an available asset is    *)
(* whole, and which record an object belongs to.                           *)
(***************************************************************************)
Completing == {"fetch", "read", "cleanup", "store", "available", "failed", "release"}

OneBusy == \A s, t \in Slots : slot[s] # Vacant /\ slot[t] # Vacant => s = t

HoldsFollow ==
    \A i \in Ids : (\E u \in upload[i] : u.hold) =>
        \E s \in Slots : slot[s].at \in Completing /\ slot[s].began = i

AvailableAreIntact ==
    \A r \in record : (r.kind = "managed" /\ r.state = "available" /\ r.id \notin halved)
        => Intact(r) \/ \E s \in Slots : slot[s].at = "remove"

ObjectsAreOwned ==
    ThroughTheServer =>
        \A i \in Ids : object[i] # {} => \E r \in record : r.id = i /\ r.kind = "managed"

AloneInv ==
    OneAtATime => /\ OneBusy
                  /\ \A s \in Slots : ReliesOnRecord(slot[s]) /\ ReliesOnObject(slot[s])
                  /\ HoldsFollow /\ AvailableAreIntact /\ ObjectsAreOwned

AssetInv == AssetTypeOK /\ SupportedOnly /\ WritersCompared /\ AloneInv

-----------------------------------------------------------------------------
(***************************************************************************)
(* What a setting is, and that nothing of it changes.                      *)
(***************************************************************************)
LEMMA SettingFacts ==
    ASSUME setting \in Settings
    PROVE  /\ Size \in Nat \ {0} /\ setting.records \in Nat /\ setting.failures \in Nat
           /\ Profile \in {"fs", "s3"}
           /\ setting.alone \in BOOLEAN /\ setting.cancels \in BOOLEAN
  BY AssetAssumption DEF Size, Profile

LEMMA SettingStays ==
    ASSUME UNCHANGED setting
    PROVE  /\ Ids' = Ids /\ Size' = Size /\ Chunk' = Chunk /\ Bytes' = Bytes
           /\ Profile' = Profile /\ Operations' = Operations
           /\ setting.records' = setting.records /\ setting.failures' = setting.failures
           /\ setting.cancels' = setting.cancels
           /\ Request' = Request /\ UploadRecord' = UploadRecord
           /\ \A c : Content(c)' = Content(c)
           /\ OneAtATime' = OneAtATime /\ ComparedFirst' = ComparedFirst
           /\ ThroughTheServer' = ThroughTheServer /\ WritesAreAwaited' = WritesAreAwaited
<1>1. /\ Ids' = Ids /\ Size' = Size /\ Chunk' = Chunk
      /\ Profile' = Profile /\ Operations' = Operations
      /\ setting.records' = setting.records /\ setting.failures' = setting.failures
      /\ setting.cancels' = setting.cancels
  BY DEF Ids, Size, Chunk, Profile, Operations
<1>2. Bytes' = Bytes
  BY <1>1 DEF Bytes
<1>3. Request' = Request /\ UploadRecord' = UploadRecord
  BY <1>1, <1>2 DEF Request, UploadRecord
<1>4. ASSUME NEW c PROVE Content(c)' = Content(c)
  BY <1>1 DEF Content
<1>5. /\ OneAtATime' = OneAtATime /\ ComparedFirst' = ComparedFirst
      /\ ThroughTheServer' = ThroughTheServer /\ WritesAreAwaited' = WritesAreAwaited
  BY <1>1 DEF OneAtATime, ComparedFirst, ThroughTheServer, WritesAreAwaited
<1> QED
  BY <1>1, <1>2, <1>3, <1>4, <1>5

(***************************************************************************)
(* Content as bytes, and the beginnings of bytes.                          *)
(***************************************************************************)
LEMMA ContentIsBytes ==
    ASSUME setting \in Settings, NEW c \in Contents
    PROVE  Content(c) \in Bytes /\ Len(Content(c)) = Size
<1>1. Size \in Nat \ {0}
  BY SettingFacts
<1>2. Content(c) \in Seq(Chunk)
  BY <1>1 DEF Content, Chunk
<1>3. Len(Content(c)) = Size
  BY <1>1 DEF Content
<1> QED
  BY <1>1, <1>2, <1>3 DEF Bytes

LEMMA BeginningIsBytes ==
    ASSUME setting \in Settings, NEW b \in Bytes, NEW n \in 0..(Size - 1), Len(b) = Size
    PROVE  SubSeq(b, 1, n) \in Bytes /\ Len(SubSeq(b, 1, n)) = n
  BY SettingFacts DEF Bytes

(***************************************************************************)
(* What a request carries, by where it is.                                 *)
(***************************************************************************)
LEMMA Shapes ==
    ASSUME NEW q \in Request
    PROVE  /\ q.at = "idle" => q = Vacant
           /\ q.at = "register" => q \in [at : {"register"}, kind : {"managed", "remote"}]
           /\ q.at \in {"erase", "remove", "deleting", "probe", "create", "creating", "abandon", "removing"} =>
                 q.id \in Ids
           /\ q.at \in {"append", "flush"} =>
                 q \in [at : {"append", "flush"}, id : Ids, offset : 0..(Size - 1), chunk : Chunk]
           /\ q.at \in {"take", "head"} =>
                 q \in [at : {"take", "head"}, id : Ids, began : 0..setting.records]
           /\ q.at \in {"abort", "putting"} => q \in [at : {"abort", "putting"}, id : Ids, bytes : Bytes]
           /\ q.at = "read" =>
                 q \in [at : {"read"}, bytes : Bytes, committed : BOOLEAN, began : 0..setting.records]
           /\ q.at \in {"cleanup", "store", "commit", "hold", "fetch"} =>
                 q \in [at : {"cleanup", "store", "commit", "hold", "fetch"}, id : Ids, bytes : Bytes,
                        began : 0..setting.records]
           /\ q.at \in {"available", "failed"} => q.id \in Ids
  BY DEF Request, Vacant

LEMMA GoesTyped ==
    ASSUME NEW q \in Request
    PROVE  /\ q.at = "erase" => [q EXCEPT !.at = "remove"] \in Request
           /\ q.at = "probe" => [q EXCEPT !.at = "create"] \in Request
           /\ q.at = "append" => [q EXCEPT !.at = "flush"] \in Request
           /\ q.at = "cleanup" => [q EXCEPT !.at = "failed"] \in Request
           /\ q.at = "store" => [q EXCEPT !.at = "available"] \in Request
                                /\ [q EXCEPT !.at = "failed"] \in Request
           /\ q.at \in {"read", "available", "failed", "commit", "fetch"} =>
                 [q EXCEPT !.at = "release"] \in Request
           /\ q.at = "commit" => [q EXCEPT !.at = "hold"] \in Request
           /\ q.at = "hold" => [q EXCEPT !.at = "fetch"] \in Request
           /\ q.at = "head" => [q EXCEPT !.at = "available"] \in Request
                               /\ [q EXCEPT !.at = "failed"] \in Request
  BY DEF Request

LEMMA GoesAt ==
    ASSUME NEW q \in Request, NEW a
    PROVE  /\ [q EXCEPT !.at = a].at = a /\ [q EXCEPT !.at = a].bytes = q.bytes
           /\ [q EXCEPT !.at = a].id = q.id /\ [q EXCEPT !.at = a].chunk = q.chunk
           /\ [q EXCEPT !.at = a].offset = q.offset
  BY DEF Request

-----------------------------------------------------------------------------
(***************************************************************************)
(* A request that is alone; then every other slot is vacant.               *)
(***************************************************************************)
LEMMA VacantIsIdle == Vacant \in Request /\ Vacant.at = "idle"
  BY DEF Vacant, Request

LEMMA Sole ==
    ASSUME AssetInv, OneAtATime, NEW s \in Slots, slot[s].at # "idle"
    PROVE  /\ \A t \in Slots \ {s} : slot[t] = Vacant
           /\ ReliesOnRecord(slot[s]) /\ ReliesOnObject(slot[s])
           /\ \A i \in Ids : (\E u \in upload[i] : u.hold) =>
                 slot[s].at \in Completing /\ slot[s].began = i
           /\ AvailableAreIntact /\ ObjectsAreOwned
  BY VacantIsIdle DEF AssetInv, AloneInv, OneBusy, HoldsFollow, Completing

LEMMA NoneBusy ==
    ASSUME AssetInv, OneAtATime, \A t \in Slots : slot[t] = Vacant
    PROVE  /\ \A i \in Ids : \A u \in upload[i] : ~u.hold
           /\ AvailableAreIntact /\ ObjectsAreOwned
           /\ \A r \in record : r.kind = "managed" /\ r.state = "available" /\ r.id \notin halved
                 => Intact(r)
  BY VacantIsIdle DEF AssetInv, AloneInv, HoldsFollow, Completing, AvailableAreIntact

(***************************************************************************)
(* A step of the slot s to q keeps the invariant if q has what it should,  *)
(* and the stores are left as they should be.                              *)
(***************************************************************************)
LEMMA StepKeeps ==
    ASSUME AssetInv, NEW s \in Slots, NEW q \in Request, AssetTypeOK',
           UNCHANGED <<setting, urls>>, slot' = [slot EXCEPT ![s] = q],
           \A i \in Ids : \A u \in upload'[i] : u.hold => Profile # "fs",
           Possible(q),
           Len(registered) <= Len(registered'),
           \A i \in 1..Len(registered) : registered'[i] = registered[i],
           ComparedFirst => /\ \A i \in Ids : \A b \in object'[i] : BeginsAs(i, b)
                            /\ WritesDeclared(q),
           OneAtATime => /\ slot[s] = Vacant => \A t \in Slots : slot[t] = Vacant
                         /\ ReliesOnRecord(q)' /\ ReliesOnObject(q)'
                         /\ HoldsFollow' /\ AvailableAreIntact' /\ ObjectsAreOwned'
    PROVE  AssetInv'
<1>t. /\ setting \in Settings /\ slot \in [Slots -> Request] /\ registered \in Seq(Contents)
      /\ Ids \subseteq Nat \ {0} /\ Len(registered) \in Nat /\ Len(registered') \in Nat
  BY SettingFacts DEF AssetInv, AssetTypeOK, Ids
<1>1. slot'[s] = q /\ \A t \in Slots \ {s} : slot'[t] = slot[t]
  BY <1>t
<1>3. ASSUME NEW p PROVE Possible(p)' = Possible(p)
  BY SettingStays DEF Possible, Late
<1>4. SupportedOnly'
  BY <1>1, <1>3, SettingStays DEF AssetInv, SupportedOnly
<1>5. ASSUME NEW i \in Ids, NEW b
      PROVE  (BeginsAs(i, b) => BeginsAs(i, b)') /\ (DeclaredAs(i, b) => DeclaredAs(i, b)')
  <2>1. i <= Len(registered) => i <= Len(registered') /\ registered'[i] = registered[i]
    BY <1>t
  <2> QED
    BY <2>1, SettingStays DEF BeginsAs, DeclaredAs
<1>6. ASSUME NEW p \in Request, WritesDeclared(p) PROVE WritesDeclared(p)'
  <2>1. p.at \in {"store", "putting"} => p.id \in Ids
    BY Shapes
  <2> QED
    BY <1>5, <1>6, <2>1 DEF WritesDeclared
<1>7. WritersCompared'
  <2> SUFFICES ASSUME ComparedFirst' PROVE WritersCompared'
    BY DEF WritersCompared
  <2>1. ComparedFirst /\ Ids' = Ids
    BY SettingStays
  <2>2. \A i \in Ids : \A b \in object'[i] : BeginsAs(i, b)'
    BY <1>5, <2>1
  <2>3. ASSUME NEW t \in Slots PROVE WritesDeclared(slot[t])'
    <3>1. CASE t = s
      BY <1>1, <1>6, <2>1, <3>1
    <3>2. CASE t # s
      <4>1. WritesDeclared(slot[t]) /\ slot[t] \in Request /\ slot'[t] = slot[t]
        BY <1>t, <1>1, <2>1, <3>2 DEF AssetInv, WritersCompared
      <4> QED
        BY <4>1, <1>6 DEF WritesDeclared
    <3> QED
      BY <3>1, <3>2
  <2> QED
    BY <2>1, <2>2, <2>3 DEF WritersCompared
<1>8. AloneInv'
  <2> SUFFICES ASSUME OneAtATime' PROVE AloneInv'
    BY DEF AloneInv
  <2>1. OneAtATime
    BY SettingStays
  <2>2. \A t \in Slots \ {s} : slot[t] = Vacant
    BY <2>1 DEF AssetInv, AloneInv, OneBusy
  <2>3. \A t \in Slots \ {s} : slot'[t] = Vacant
    BY <1>1, <2>2
  <2>4. OneBusy'
    BY <2>3 DEF OneBusy
  <2>5. ReliesOnRecord(Vacant)' /\ ReliesOnObject(Vacant)'
    BY VacantIsIdle DEF ReliesOnRecord, ReliesOnObject
  <2>6. ASSUME NEW t \in Slots PROVE ReliesOnRecord(slot[t])' /\ ReliesOnObject(slot[t])'
    <3>1. CASE t = s
      BY <1>1, <2>1, <3>1 DEF ReliesOnRecord, ReliesOnObject
    <3>2. CASE t # s
      BY <2>3, <2>5, <3>2 DEF ReliesOnRecord, ReliesOnObject
    <3> QED
      BY <3>1, <3>2
  <2> QED
    BY <2>1, <2>4, <2>6 DEF AloneInv
<1> QED
  BY <1>4, <1>7, <1>8 DEF AssetInv

(***************************************************************************)
(* A step that moves the slot s to q and nothing else.                     *)
(***************************************************************************)
LEMMA MoveKeeps ==
    ASSUME AssetInv, NEW s \in Slots, NEW q \in Request,
           UNCHANGED <<setting, registered, record, object, upload, urls, halved>>,
           failures' \in 0..setting.failures, slot' = [slot EXCEPT ![s] = q],
           Possible(q), ComparedFirst => WritesDeclared(q),
           OneAtATime => /\ slot[s] = Vacant => \A t \in Slots : slot[t] = Vacant
                         /\ slot[s].at # "remove"
                         /\ ReliesOnRecord(q) /\ ReliesOnObject(q)
                         /\ \A i \in Ids : (\E u \in upload[i] : u.hold) =>
                               q.at \in Completing /\ q.began = i
    PROVE  AssetInv'
<1>t. AssetTypeOK /\ slot \in [Slots -> Request] /\ registered \in Seq(Contents)
  BY DEF AssetInv, AssetTypeOK
<1>1. slot'[s] = q /\ \A t \in Slots \ {s} : slot'[t] = slot[t]
  BY <1>t
<1>2. AssetTypeOK'
  BY <1>t, SettingStays DEF AssetTypeOK, AtMostOne
<1>3. \A i \in Ids : \A u \in upload'[i] : u.hold => Profile # "fs"
  BY DEF AssetInv, SupportedOnly
<1>4. ComparedFirst => \A i \in Ids : \A b \in object'[i] : BeginsAs(i, b)
  BY DEF AssetInv, WritersCompared
<1>5. ASSUME OneAtATime
      PROVE  /\ ReliesOnRecord(q)' /\ ReliesOnObject(q)'
             /\ HoldsFollow' /\ AvailableAreIntact' /\ ObjectsAreOwned'
  <2>1. AvailableAreIntact /\ ObjectsAreOwned
    BY <1>5 DEF AssetInv, AloneInv
  <2>2. \A t \in Slots : slot[t].at # "remove"
    <3>1. CASE slot[s].at = "idle"
      <4>1. slot[s] = Vacant
        BY <1>t, <3>1, Shapes
      <4> QED
        BY <1>5, <4>1, VacantIsIdle
    <3>2. CASE slot[s].at # "idle"
      BY <1>5, <3>2, Sole, VacantIsIdle
    <3> QED
      BY <3>1, <3>2
  <2>3. ObjectsAreOwned' /\ AvailableAreIntact'
    <3>1. \A r : Intact(r)' = Intact(r)
      BY SettingStays DEF Intact
    <3>2. ObjectsAreOwned'
      BY <2>1, SettingStays DEF ObjectsAreOwned
    <3>3. AvailableAreIntact'
      BY <2>1, <2>2, <3>1 DEF AvailableAreIntact
    <3> QED
      BY <3>2, <3>3
  <2>4. ReliesOnRecord(q)' /\ ReliesOnObject(q)'
    BY <1>5, SettingStays DEF ReliesOnRecord, ReliesOnObject, PendingAs, Holds, DeclaredAs
  <2>5. HoldsFollow'
    BY <1>1, <1>5, SettingStays DEF HoldsFollow
  <2> QED
    BY <2>3, <2>4, <2>5
<1>6. /\ UNCHANGED <<setting, urls>> /\ Len(registered) <= Len(registered')
      /\ \A i \in 1..Len(registered) : registered'[i] = registered[i]
  BY <1>t
<1>7. ComparedFirst => /\ \A i \in Ids : \A b \in object'[i] : BeginsAs(i, b)
                       /\ WritesDeclared(q)
  BY <1>4
<1>8. OneAtATime => /\ slot[s] = Vacant => \A t \in Slots : slot[t] = Vacant
                    /\ ReliesOnRecord(q)' /\ ReliesOnObject(q)'
                    /\ HoldsFollow' /\ AvailableAreIntact' /\ ObjectsAreOwned'
  BY <1>5
<1> QED
  BY <1>2, <1>3, <1>6, <1>7, <1>8, StepKeeps, ZenonT(30)

LEMMA FailuresTyped ==
    ASSUME AssetInv, Quiet \/ Fault
    PROVE  failures' \in 0..setting.failures
  BY SettingFacts DEF AssetInv, AssetTypeOK, Quiet, Fault

LEMMA PendingFacts ==
    ASSUME AssetInv, Pending
    PROVE  /\ Id \in Ids /\ Id \in 1..Len(registered) /\ PendingAs(Id)
           /\ \A r \in record : r.id = Id /\ r.kind = "managed" /\ r.state = "pending"
<1>1. PICK r \in record : r.kind = "managed" /\ r.state = "pending"
  BY DEF Pending
<1>2. Id = r.id /\ \A p \in record : p = r
  BY DEF AssetInv, AssetTypeOK, AtMostOne, Id
<1>3. r.id \in 1..Len(registered) /\ Len(registered) \in Nat /\ Len(registered) <= setting.records
      /\ setting.records \in Nat
  BY SettingFacts DEF AssetInv, AssetTypeOK
<1> QED
  BY <1>1, <1>2, <1>3 DEF PendingAs, Ids

-----------------------------------------------------------------------------
(***************************************************************************)
(* A request comes in.                                                     *)
(***************************************************************************)
LEMMA ReceiveKeeps ==
    ASSUME AssetInv, NEW s \in Slots, UNCHANGED setting, Receive(s)
    PROVE  AssetInv'
<1>t. /\ setting \in Settings /\ slot[s] = Vacant /\ failures' \in 0..setting.failures
      /\ UNCHANGED <<registered, record, object, upload, urls, halved>>
  BY FailuresTyped DEF AssetInv, AssetTypeOK, Receive, ReadToRegister, ReadToDelete, PutData,
     ReadToFinalize, Resumable, Quiet
<1>s. /\ Size \in Nat \ {0} /\ setting.records \in Nat
  BY <1>t, SettingFacts
<1> DEFINE Comes(q) == /\ Possible(q)
                       /\ ComparedFirst => WritesDeclared(q)
                       /\ OneAtATime => ReliesOnRecord(q) /\ ReliesOnObject(q)
<1>1. ASSUME NEW q \in Request, slot' = [slot EXCEPT ![s] = q], Comes(q) PROVE AssetInv'
  <2>1. ASSUME OneAtATime
        PROVE  \A t \in Slots : slot[t] = Vacant
    BY <2>1 DEF OneAtATime, Receive
  <2>2. OneAtATime => \A i \in Ids : \A u \in upload[i] : ~u.hold
    BY <2>1, NoneBusy
  <2> QED
    <3>1. /\ Possible(q) /\ (ComparedFirst => WritesDeclared(q))
          /\ UNCHANGED <<setting, registered, record, object, upload, urls, halved>>
      BY <1>1, <1>t
    <3>2. OneAtATime => /\ slot[s] = Vacant => \A t \in Slots : slot[t] = Vacant
                        /\ slot[s].at # "remove"
                        /\ ReliesOnRecord(q) /\ ReliesOnObject(q)
                        /\ \A i \in Ids : (\E u \in upload[i] : u.hold) =>
                              q.at \in Completing /\ q.began = i
      BY <1>1, <1>t, <2>1, <2>2, VacantIsIdle
    <3> QED
      BY <1>t, <1>1, <3>1, <3>2, MoveKeeps, ZenonT(30)
<1>2. ASSUME "register" \in Operations, ReadToRegister(s) PROVE AssetInv'
  <2>1. PICK k \in {"managed", "remote"} : To(s, [at |-> "register", kind |-> k])
    BY <1>2 DEF ReadToRegister
  <2> DEFINE q == [at |-> "register", kind |-> k]
  <2>2. q \in Request /\ q.at = "register"
    BY DEF Request
  <2>3. Comes(q)
    BY <2>2 DEF Possible, Late, WritesDeclared, ReliesOnRecord, ReliesOnObject
  <2> QED
    BY <1>1, <2>1, <2>2, <2>3 DEF To
<1>3. ASSUME ReadToDelete(s) PROVE AssetInv'
  <2>1. PICK r \in record :
           To(s, [at |-> IF r.kind = "managed" THEN "erase" ELSE "remove", id |-> r.id])
    BY <1>3 DEF ReadToDelete
  <2> DEFINE a == IF r.kind = "managed" THEN "erase" ELSE "remove"
             q == [at |-> a, id |-> r.id]
  <2>2. r.id \in Ids /\ \A p \in record : p = r
    BY <1>s DEF AssetInv, AssetTypeOK, Ids, AtMostOne
  <2>3. q \in Request /\ q.at = a /\ q.id = r.id /\ a \in {"erase", "remove"}
    BY <2>2 DEF Request
  <2>4. OneAtATime => ReliesOnRecord(q)
    BY <2>2, <2>3 DEF ReliesOnRecord
  <2>5. OneAtATime => ReliesOnObject(q)
    <3> SUFFICES ASSUME OneAtATime, a = "remove", ThroughTheServer PROVE object[r.id] = {}
      BY <2>3 DEF ReliesOnObject
    <3>1. ObjectsAreOwned
      BY DEF AssetInv, AloneInv
    <3> QED
      BY <2>2, <3>1 DEF ObjectsAreOwned
  <2>6. Comes(q)
    BY <2>3, <2>4, <2>5 DEF Possible, Late, WritesDeclared
  <2> QED
    BY <1>1, <2>1, <2>3, <2>6 DEF To
<1>4. ASSUME PutData(s) PROVE AssetInv'
  <2>1. PICK c \in Contents :
           To(s, [at |-> "read", bytes |-> Content(c), committed |-> FALSE, began |-> 0])
    BY <1>4 DEF PutData
  <2> DEFINE q == [at |-> "read", bytes |-> Content(c), committed |-> FALSE, began |-> 0]
  <2>2. q \in Request /\ q.at = "read" /\ q.began = 0 /\ q.committed = FALSE
    BY <1>t, <1>s, ContentIsBytes DEF Request
  <2>3. Comes(q)
    BY <2>2 DEF Possible, Late, WritesDeclared, ReliesOnRecord, ReliesOnObject
  <2> QED
    BY <1>1, <2>1, <2>2, <2>3 DEF To
<1>5. ASSUME "finalize" \in Operations, ReadToFinalize(s) PROVE AssetInv'
  <2> DEFINE q == [at |-> "head", id |-> Id, began |-> 0]
  <2>1. Profile = "s3" /\ Id \in Ids /\ PendingAs(Id) /\ To(s, q)
    BY <1>5, PendingFacts DEF ReadToFinalize
  <2>2. q \in Request /\ q.at = "head" /\ q.id = Id
    BY <1>s, <2>1 DEF Request
  <2>3. Comes(q)
    BY <1>5, <2>1, <2>2 DEF Possible, Late, WritesDeclared, ReliesOnRecord, ReliesOnObject
  <2> QED
    BY <1>1, <2>1, <2>2, <2>3 DEF To
<1>6. ASSUME Resumable(s) PROVE AssetInv'
  <2>p. Id \in Ids /\ PendingAs(Id) /\ Id <= setting.records
    BY <1>6, <1>s, PendingFacts DEF Resumable, Ids
  <2>1. ASSUME NEW a \in {"probe", "abandon"}, To(s, [at |-> a, id |-> Id]) PROVE AssetInv'
    <3> DEFINE q == [at |-> a, id |-> Id]
    <3>1. q \in Request /\ q.at = a
      BY <2>p DEF Request
    <3>2. Comes(q)
      BY <3>1 DEF Possible, Late, WritesDeclared, ReliesOnRecord, ReliesOnObject
    <3> QED
      BY <1>1, <2>1, <3>1, <3>2 DEF To
  <2>2. ASSUME "complete" \in Operations, To(s, [at |-> "take", id |-> Id, began |-> Id]) PROVE AssetInv'
    <3> DEFINE q == [at |-> "take", id |-> Id, began |-> Id]
    <3>1. q \in Request /\ q.at = "take" /\ q.id = Id /\ q.began = Id
      BY <1>s, <2>p DEF Request, Ids
    <3>2. Comes(q)
      BY <2>p, <2>2, <3>1 DEF Possible, Late, WritesDeclared, ReliesOnRecord, ReliesOnObject
    <3> QED
      BY <1>1, <2>2, <3>1, <3>2 DEF To
  <2>3. ASSUME NEW c \in Contents, NEW o \in 0..(Size - 1),
               To(s, [at |-> "append", id |-> Id, offset |-> o, chunk |-> <<c, o + 1>>])
        PROVE  AssetInv'
    <3> DEFINE q == [at |-> "append", id |-> Id, offset |-> o, chunk |-> <<c, o + 1>>]
    <3>1. q \in Request /\ q.at = "append" /\ q.chunk[2] = q.offset + 1
      BY <1>s, <2>p DEF Request, Chunk
    <3>2. Comes(q)
      BY <3>1 DEF Possible, Late, WritesDeclared, ReliesOnRecord, ReliesOnObject
    <3> QED
      BY <1>1, <2>3, <3>1, <3>2 DEF To
  <2> QED
    BY <1>6, <2>1, <2>2, <2>3 DEF Resumable
<1> QED
  BY <1>2, <1>3, <1>4, <1>5, <1>6 DEF Receive

-----------------------------------------------------------------------------
(***************************************************************************)
(* Where a request that is over, or has nothing in hand, may be: it relies *)
(* on nothing.                                                             *)
(***************************************************************************)
Easy == {"idle", "register", "probe", "create", "abandon", "release"}

LEMMA EasyRelies ==
    ASSUME NEW q, q.at \in Easy
    PROVE  /\ Possible(q) /\ WritesDeclared(q)
           /\ ReliesOnRecord(q) /\ ReliesOnObject(q)
           /\ ReliesOnRecord(q)' /\ ReliesOnObject(q)'
  BY DEF Easy, Possible, Late, WritesDeclared, ReliesOnRecord, ReliesOnObject

LEMMA EndsAt ==
    ASSUME AssetInv, NEW s \in Slots, slot[s].at \in {"read", "available", "failed"}, Ends(s)
    PROVE  \E q \in Request : /\ slot' = [slot EXCEPT ![s] = q] /\ q.at \in {"idle", "release"}
                              /\ slot[s].began # 0 => q.at = "release" /\ q.began = slot[s].began
<1>1. slot[s] \in Request
  BY DEF AssetInv, AssetTypeOK
<1>2. CASE slot[s].began = 0
  BY <1>2, VacantIsIdle DEF Ends, Done, To
<1>3. CASE slot[s].began # 0
  <2> DEFINE q == [slot[s] EXCEPT !.at = "release"]
  <2>1. q \in Request
    BY <1>1, GoesTyped
  <2>2. q.at = "release" /\ q.began = slot[s].began
    BY <1>1, GoesTyped DEF Request
  <2> QED
    BY <1>3, <2>1, <2>2 DEF Ends, Goes, To
<1> QED
  BY <1>2, <1>3

(***************************************************************************)
(* The steps that only move their own slot.                                *)
(***************************************************************************)
MovesWell(s, q) ==
    /\ slot' = [slot EXCEPT ![s] = q]
    /\ Possible(q) /\ WritesDeclared(q)
    /\ OneAtATime => ReliesOnRecord(q) /\ ReliesOnObject(q)

Completes(s, q) == q.at \in Completing /\ q.began = slot[s].began

LEMMA ProbeUploadKeeps ==
    ASSUME AssetInv, NEW s \in Slots, UNCHANGED setting, ProbeUpload(s)
    PROVE  AssetInv'
<1>t. /\ slot[s] \in Request /\ slot[s].at = "probe" /\ failures' \in 0..setting.failures
      /\ UNCHANGED <<setting, registered, record, object, upload, urls, halved>>
  BY FailuresTyped DEF AssetInv, AssetTypeOK, ProbeUpload, Quiet
<1>1. PICK q \in Request : slot' = [slot EXCEPT ![s] = q] /\ q.at \in {"idle", "create"}
  <2>1. [slot[s] EXCEPT !.at = "create"] \in Request /\ [slot[s] EXCEPT !.at = "create"].at = "create"
    BY <1>t, GoesTyped, GoesAt
  <2> QED
    BY <2>1, VacantIsIdle DEF ProbeUpload, Done, Goes, To
<1>2. /\ Possible(q) /\ (ComparedFirst => WritesDeclared(q))
      /\ ReliesOnRecord(q) /\ ReliesOnObject(q)
  BY <1>1, EasyRelies DEF Easy
<1>3. OneAtATime => /\ slot[s] = Vacant => \A t \in Slots : slot[t] = Vacant
                    /\ slot[s].at # "remove"
                    /\ ReliesOnRecord(q) /\ ReliesOnObject(q)
                    /\ \A i \in Ids : (\E u \in upload[i] : u.hold) =>
                          q.at \in Completing /\ q.began = i
  BY <1>t, <1>2, Sole, VacantIsIdle DEF Completing
<1> QED
  BY <1>t, <1>1, <1>2, <1>3, MoveKeeps, ZenonT(30)

LEMMA ReadRecordKeeps ==
    ASSUME AssetInv, NEW s \in Slots, UNCHANGED setting, ReadRecord(s)
    PROVE  AssetInv'
<1>t. /\ slot[s] \in Request /\ slot[s].at = "read" /\ failures' \in 0..setting.failures
      /\ UNCHANGED <<setting, registered, record, object, upload, urls, halved>>
      /\ setting.records \in Nat /\ slot[s].bytes \in Bytes /\ slot[s].began \in 0..setting.records
  BY FailuresTyped, SettingFacts, Shapes DEF AssetInv, AssetTypeOK, ReadRecord, Quiet
<1>h. OneAtATime => \A i \in Ids : (\E u \in upload[i] : u.hold) => slot[s].began = i
  BY <1>t, Sole
<1>1. PICK q \in Request : /\ MovesWell(s, q)
                           /\ slot[s].began # 0 => q.at \in Completing /\ q.began = slot[s].began
  <2>1. CASE ~Pending
    <3>1. PICK q \in Request : /\ slot' = [slot EXCEPT ![s] = q] /\ q.at \in {"idle", "release"}
                               /\ slot[s].began # 0 => q.at = "release" /\ q.began = slot[s].began
      BY <1>t, <2>1, EndsAt DEF ReadRecord
    <3>2. q.at \in Easy /\ (q.at = "release" => q.at \in Completing)
      BY <3>1 DEF Easy, Completing
    <3>3. MovesWell(s, q)
      BY <3>1, <3>2, EasyRelies DEF MovesWell
    <3> QED
      BY <3>1, <3>2, <3>3
  <2>2. CASE Pending
    <3> DEFINE a == IF slot[s].bytes # Content(registered[Id]) THEN "cleanup"
                    ELSE IF slot[s].committed THEN "available" ELSE "store"
               q == [at |-> a, id |-> Id, bytes |-> slot[s].bytes, began |-> slot[s].began]
    <3>1. Id \in Ids /\ Id \in 1..Len(registered) /\ PendingAs(Id)
          /\ \A r \in record : r.id = Id /\ r.kind = "managed" /\ r.state = "pending"
      BY <2>2, PendingFacts
    <3>2. /\ q \in Request /\ q.at = a /\ q.id = Id /\ q.bytes = slot[s].bytes
          /\ q.began = slot[s].began /\ a \in {"cleanup", "store", "available"}
      BY <1>t, <3>1 DEF Request
    <3>3. slot' = [slot EXCEPT ![s] = q]
      BY <2>2 DEF ReadRecord, To
    <3>4. Possible(q)
      BY <3>2 DEF Possible, Late
    <3>5. WritesDeclared(q)
      BY <3>1, <3>2 DEF WritesDeclared, DeclaredAs
    <3>6. OneAtATime => ReliesOnRecord(q)
      BY <3>1, <3>2 DEF ReliesOnRecord
    <3>7. OneAtATime => ReliesOnObject(q)
      <4> SUFFICES ASSUME OneAtATime, a = "available" PROVE Holds(Id, Content(registered[Id]))
        BY <3>2, <3>5 DEF ReliesOnObject, WritesDeclared
      <4>1. slot[s].bytes = Content(registered[Id]) /\ slot[s].committed
        OBVIOUS
      <4>2. ReliesOnRecord(slot[s]) /\ ReliesOnObject(slot[s])
        BY <1>t, Sole
      <4>3. slot[s].began # 0 /\ Holds(slot[s].began, slot[s].bytes) /\ PendingAs(slot[s].began)
        BY <1>t, <4>1, <4>2 DEF ReliesOnRecord, ReliesOnObject
      <4>4. slot[s].began = Id
        BY <3>1, <4>3 DEF PendingAs
      <4> QED
        BY <4>1, <4>3, <4>4
    <3>8. q.at \in Completing
      BY <3>2 DEF Completing
    <3>9. MovesWell(s, q)
      BY <3>3, <3>4, <3>5, <3>6, <3>7 DEF MovesWell
    <3> QED
      BY <3>2, <3>8, <3>9
  <2> QED
    BY <2>1, <2>2
<1>2. OneAtATime => /\ slot[s] = Vacant => \A t \in Slots : slot[t] = Vacant
                    /\ slot[s].at # "remove"
                    /\ ReliesOnRecord(q) /\ ReliesOnObject(q)
                    /\ \A i \in Ids : (\E u \in upload[i] : u.hold) =>
                          q.at \in Completing /\ q.began = i
  BY <1>t, <1>1, <1>h, VacantIsIdle DEF Ids, MovesWell
<1>3. /\ Possible(q) /\ (ComparedFirst => WritesDeclared(q))
      /\ slot' = [slot EXCEPT ![s] = q]
  BY <1>1 DEF MovesWell
<1> QED
  BY <1>t, <1>1, <1>2, <1>3, MoveKeeps, ZenonT(30)

LEMMA FetchKeeps ==
    ASSUME AssetInv, NEW s \in Slots, UNCHANGED setting, Fetch(s)
    PROVE  AssetInv'
<1>t. /\ slot[s] \in Request /\ slot[s].at = "fetch" /\ failures' \in 0..setting.failures
      /\ UNCHANGED <<setting, registered, record, object, upload, urls, halved>>
      /\ setting.records \in Nat /\ slot[s].id \in Ids /\ slot[s].began \in 0..setting.records
      /\ object[slot[s].id] \subseteq Bytes /\ \A x, y \in object[slot[s].id] : x = y
  BY FailuresTyped, SettingFacts, Shapes DEF AssetInv, AssetTypeOK, AtMostOne, Fetch
<1>h. OneAtATime => /\ \A i \in Ids : (\E u \in upload[i] : u.hold) => slot[s].began = i
                    /\ ReliesOnRecord(slot[s]) /\ ReliesOnObject(slot[s])
  BY <1>t, Sole
<1>g. OneAtATime => slot[s].began = slot[s].id /\ PendingAs(slot[s].id) /\ object[slot[s].id] # {}
  BY <1>t, <1>h DEF ReliesOnRecord, ReliesOnObject, Holds
<1>1. PICK q \in Request : /\ MovesWell(s, q)
                           /\ OneAtATime => Completes(s, q)
  <2>1. CASE object[slot[s].id] = {} /\ Done(s)
    <3>1. ~OneAtATime
      BY <2>1, <1>g
    <3>2. MovesWell(s, Vacant)
      BY <2>1, <3>1, VacantIsIdle, EasyRelies DEF Easy, MovesWell, Done, To
    <3> QED
      BY <3>1, <3>2, VacantIsIdle
  <2>2. CASE \E b \in object[slot[s].id] :
              To(s, [at |-> "read", bytes |-> b, committed |-> TRUE, began |-> slot[s].began])
    <3>0. PICK b \in object[slot[s].id] :
              To(s, [at |-> "read", bytes |-> b, committed |-> TRUE, began |-> slot[s].began])
      BY <2>2
    <3> DEFINE q == [at |-> "read", bytes |-> b, committed |-> TRUE, began |-> slot[s].began]
    <3>1. q \in Request /\ q.at = "read" /\ q.began = slot[s].began /\ q.bytes = b /\ q.committed
      BY <1>t DEF Request
    <3>2. Possible(q) /\ WritesDeclared(q)
      BY <3>1 DEF Possible, Late, WritesDeclared
    <3>3. OneAtATime => ReliesOnRecord(q)
      BY <1>g, <3>1 DEF ReliesOnRecord
    <3>4. object[slot[s].id] = {b}
      BY <1>t
    <3>5. OneAtATime => ReliesOnObject(q)
      BY <1>g, <1>t, <3>1, <3>4 DEF ReliesOnObject, Holds, Ids
    <3>6. slot' = [slot EXCEPT ![s] = q]
      BY <3>0 DEF To
    <3>7. MovesWell(s, q)
      BY <3>2, <3>3, <3>5, <3>6 DEF MovesWell
    <3>8. Completes(s, q)
      BY <3>1 DEF Completes, Completing
    <3> QED
      BY <3>1, <3>7, <3>8
  <2>3. CASE Goes(s, "release")
    <3> DEFINE q == [slot[s] EXCEPT !.at = "release"]
    <3>1. q \in Request
      BY <1>t, GoesTyped
    <3>2. q.at = "release" /\ q.began = slot[s].began
      BY <1>t, Shapes
    <3>3. slot' = [slot EXCEPT ![s] = q]
      BY <2>3 DEF Goes, To
    <3> HIDE DEF q
    <3>4. MovesWell(s, q)
      BY <3>2, <3>3, EasyRelies DEF Easy, MovesWell
    <3>5. Completes(s, q)
      BY <3>2 DEF Completes, Completing
    <3> QED
      BY <3>1, <3>4, <3>5
  <2>4. \/ object[slot[s].id] = {} /\ Done(s)
        \/ \E b \in object[slot[s].id] :
              To(s, [at |-> "read", bytes |-> b, committed |-> TRUE, began |-> slot[s].began])
        \/ Goes(s, "release")
    BY DEF Fetch
  <2> QED
    BY <2>1, <2>2, <2>3, <2>4
<1>2. OneAtATime => /\ slot[s] = Vacant => \A t \in Slots : slot[t] = Vacant
                    /\ slot[s].at # "remove"
                    /\ ReliesOnRecord(q) /\ ReliesOnObject(q)
                    /\ \A i \in Ids : (\E u \in upload[i] : u.hold) =>
                          q.at \in Completing /\ q.began = i
  BY <1>t, <1>1, <1>h, VacantIsIdle DEF MovesWell, Completes
<1>3. /\ Possible(q) /\ (ComparedFirst => WritesDeclared(q))
      /\ slot' = [slot EXCEPT ![s] = q]
  BY <1>1 DEF MovesWell
<1> QED
  BY <1>t, <1>1, <1>2, <1>3, MoveKeeps, ZenonT(30)

LEMMA HeadObjectKeeps ==
    ASSUME AssetInv, NEW s \in Slots, UNCHANGED setting, HeadObject(s)
    PROVE  AssetInv'
<1>t. /\ slot[s] \in Request /\ slot[s].at = "head" /\ failures' \in 0..setting.failures
      /\ UNCHANGED <<setting, registered, record, object, upload, urls, halved>>
      /\ slot[s].id \in Ids
  BY FailuresTyped, Shapes DEF AssetInv, AssetTypeOK, HeadObject
<1>h. OneAtATime => (\A i \in Ids : \A u \in upload[i] : ~u.hold) /\ ReliesOnRecord(slot[s])
  BY <1>t, Sole DEF Completing
<1>f. ~ThroughTheServer
  BY <1>t DEF AssetInv, SupportedOnly, Possible, Late, ThroughTheServer
<1> DEFINE right == object[slot[s].id] = {Content(registered[slot[s].id])}
           sized == \E b \in object[slot[s].id] : Len(b) = Size
<1>1. PICK q \in Request : MovesWell(s, q)
  <2>1. ASSUME NEW a \in {"available", "failed"}, Goes(s, a),
               a = "available" => object[slot[s].id] # {}
        PROVE  \E q \in Request : MovesWell(s, q)
    <3> DEFINE q == [slot[s] EXCEPT !.at = a]
    <3>1. q \in Request
      BY <1>t, GoesTyped
    <3>2. q.at = a /\ q.id = slot[s].id
      BY <1>t, Shapes
    <3>3. Possible(q) /\ WritesDeclared(q)
      BY <3>2 DEF Possible, Late, WritesDeclared
    <3>4. OneAtATime => ReliesOnRecord(q)
      BY <1>t, <1>h, <3>2 DEF ReliesOnRecord
    <3>5. ReliesOnObject(q)
      BY <1>f, <2>1, <3>2 DEF ReliesOnObject, Holds
    <3>6. MovesWell(s, q)
      BY <2>1, <3>3, <3>4, <3>5 DEF MovesWell, Goes, To
    <3> QED
      BY <3>1, <3>6
  <2>2. CASE Done(s)
    <3>1. MovesWell(s, Vacant)
      BY <2>2, VacantIsIdle, EasyRelies DEF Easy, MovesWell, Done, To
    <3> QED
      BY <3>1, VacantIsIdle
  <2>3. CASE Goes(s, IF right THEN "available" ELSE "failed")
    <3>1. CASE right
      BY <2>1, <2>3, <3>1
    <3>2. CASE ~right
      BY <2>1, <2>3, <3>2
    <3> QED
      BY <3>1, <3>2
  <2>4. CASE sized /\ Goes(s, "available")
    BY <2>1, <2>4
  <2> QED
    BY <2>2, <2>3, <2>4 DEF HeadObject
<1>2. OneAtATime => /\ slot[s] = Vacant => \A t \in Slots : slot[t] = Vacant
                    /\ slot[s].at # "remove"
                    /\ ReliesOnRecord(q) /\ ReliesOnObject(q)
                    /\ \A i \in Ids : (\E u \in upload[i] : u.hold) =>
                          q.at \in Completing /\ q.began = i
  BY <1>t, <1>1, <1>h, VacantIsIdle DEF MovesWell
<1>3. /\ Possible(q) /\ (ComparedFirst => WritesDeclared(q))
      /\ slot' = [slot EXCEPT ![s] = q]
  BY <1>1 DEF MovesWell
<1> QED
  BY <1>t, <1>1, <1>2, <1>3, MoveKeeps, ZenonT(30)

-----------------------------------------------------------------------------
(***************************************************************************)
(* A step of the slot s to q that puts the objects O and the uploads U at  *)
(* the id i, and leaves the records alone.                                 *)
(***************************************************************************)
UploadFits(i, U) ==
    /\ U \subseteq UploadRecord /\ AtMostOne(U)
    /\ \A u \in U : u.hold => Profile # "fs"

HoldsPass(q, i, U) ==
    OneAtATime =>
        /\ (\E u \in U : u.hold) => q.at \in Completing /\ q.began = i
        /\ \A j \in Ids \ {i} : (\E u \in upload[j] : u.hold) => q.at \in Completing /\ q.began = j

ObjectFits(i, O) ==
    /\ O \subseteq Bytes /\ AtMostOne(O)
    /\ ComparedFirst => \A b \in O : BeginsAs(i, b)

ObjectPasses(q, i, O) ==
    OneAtATime =>
        /\ O = object[i] \/ q.at = "remove" \/ i \in halved' \/ PendingAs(i)
        /\ O # {} => object[i] # {} \/ PendingAs(i)

LEMMA StoresKeep ==
    ASSUME AssetInv, NEW s \in Slots, NEW q \in Request, NEW i \in Ids, NEW O, NEW U,
           UNCHANGED <<setting, registered, record, urls>>, slot' = [slot EXCEPT ![s] = q],
           object' = [object EXCEPT ![i] = O], upload' = [upload EXCEPT ![i] = U],
           halved \subseteq halved', halved' \subseteq Ids, failures' \in 0..setting.failures,
           UploadFits(i, U), HoldsPass(q, i, U), ObjectFits(i, O), ObjectPasses(q, i, O),
           Possible(q), ComparedFirst => WritesDeclared(q),
           OneAtATime => /\ slot[s].at \notin {"idle", "remove"}
                         /\ ReliesOnRecord(q) /\ ReliesOnObject(q)'
    PROVE  AssetInv'
<1>t. /\ AssetTypeOK /\ slot \in [Slots -> Request] /\ registered \in Seq(Contents)
      /\ setting \in Settings
  BY DEF AssetInv, AssetTypeOK
<1>1. slot'[s] = q /\ \A t \in Slots \ {s} : slot'[t] = slot[t]
  BY <1>t
<1>o. object'[i] = O /\ \A j \in Ids \ {i} : object'[j] = object[j]
  BY <1>t DEF AssetTypeOK
<1>u. upload'[i] = U /\ \A j \in Ids \ {i} : upload'[j] = upload[j]
  BY <1>t DEF AssetTypeOK
<1>2. AssetTypeOK'
  <2>1. Request' = Request /\ Ids' = Ids /\ Bytes' = Bytes /\ UploadRecord' = UploadRecord
    BY SettingStays
  <2>2. slot' \in [Slots -> Request']
    BY <1>t, <2>1
  <2>3. object' \in [Ids' -> SUBSET Bytes'] /\ \A j \in Ids' : AtMostOne(object'[j])
    BY <1>t, <1>o, <2>1 DEF AssetTypeOK, ObjectFits
  <2>4. /\ upload' \in [Ids' -> SUBSET UploadRecord']
        /\ \A j \in Ids' : AtMostOne(upload'[j])
    BY <1>t, <1>u, <2>1 DEF AssetTypeOK, UploadFits
  <2> QED
    BY <1>t, <2>1, <2>2, <2>3, <2>4 DEF AssetTypeOK, AtMostOne
<1>3. \A j \in Ids : \A u \in upload'[j] : u.hold => Profile # "fs"
  BY <1>u DEF AssetInv, SupportedOnly, UploadFits
<1>4. ComparedFirst => \A j \in Ids : \A b \in object'[j] : BeginsAs(j, b)
  BY <1>o DEF AssetInv, WritersCompared, ObjectFits
<1>5. ASSUME OneAtATime
      PROVE  /\ slot[s] = Vacant => \A t \in Slots : slot[t] = Vacant
             /\ ReliesOnRecord(q)' /\ ReliesOnObject(q)'
             /\ HoldsFollow' /\ AvailableAreIntact' /\ ObjectsAreOwned'
  <2>1. /\ AvailableAreIntact /\ ObjectsAreOwned /\ \A t \in Slots \ {s} : slot[t] = Vacant
        /\ \A t \in Slots : slot[t].at # "remove"
    BY <1>5, Sole, VacantIsIdle
  <2>2. HoldsFollow'
    BY <1>1, <1>5, <1>u, SettingStays DEF HoldsFollow, HoldsPass
  <2>3. PendingAs(i) => \A r \in record : r.state = "pending"
    BY <1>t DEF PendingAs, AssetTypeOK, AtMostOne
  <2>4. ASSUME NEW r \in record, r.kind = "managed", r.state = "available", r.id \notin halved'
        PROVE  Intact(r)' \/ \E t \in Slots : slot'[t].at = "remove"
    <3>1. Intact(r) /\ r.id \in Ids
      BY <1>t, <2>1, <2>4, SettingFacts DEF AvailableAreIntact, AssetTypeOK, Ids
    <3>2. r.id = i => O = object[i] \/ q.at = "remove"
      BY <1>5, <2>3, <2>4 DEF ObjectPasses
    <3>3. CASE q.at = "remove"
      BY <1>1, <3>3
    <3>4. CASE object'[r.id] = object[r.id]
      BY <3>1, <3>4, SettingStays DEF Intact
    <3> QED
      BY <1>o, <3>1, <3>2, <3>3, <3>4
  <2>5. AvailableAreIntact'
    BY <2>4 DEF AvailableAreIntact
  <2>6. ASSUME ThroughTheServer, NEW j \in Ids, object'[j] # {}
        PROVE  \E r \in record : r.id = j /\ r.kind = "managed"
    <3>1. object[j] # {} \/ PendingAs(j)
      BY <1>5, <1>o, <2>6 DEF ObjectPasses
    <3> QED
      BY <2>1, <2>6, <3>1 DEF ObjectsAreOwned, PendingAs
  <2>7. ObjectsAreOwned'
    BY <2>6, SettingStays DEF ObjectsAreOwned
  <2>8. ReliesOnRecord(q)' /\ ReliesOnObject(q)'
    BY <1>5 DEF ReliesOnRecord, PendingAs
  <2> QED
    BY <1>5, <2>1, <2>2, <2>5, <2>7, <2>8, VacantIsIdle
<1>6. /\ UNCHANGED <<setting, urls>> /\ Len(registered) <= Len(registered')
      /\ \A j \in 1..Len(registered) : registered'[j] = registered[j]
  BY <1>t
<1>7. ComparedFirst => /\ \A j \in Ids : \A b \in object'[j] : BeginsAs(j, b)
                       /\ WritesDeclared(q)
  BY <1>4
<1>8. OneAtATime => /\ slot[s] = Vacant => \A t \in Slots : slot[t] = Vacant
                    /\ ReliesOnRecord(q)' /\ ReliesOnObject(q)'
                    /\ HoldsFollow' /\ AvailableAreIntact' /\ ObjectsAreOwned'
  BY <1>5
<1> QED
  BY <1>2, <1>3, <1>6, <1>7, <1>8, StepKeeps, ZenonT(30)

(***************************************************************************)
(* The steps that change uploads only.                                     *)
(***************************************************************************)
LEMMA UploadKeeps ==
    ASSUME AssetInv, NEW s \in Slots, NEW q \in Request, NEW i \in Ids, NEW U,
           UNCHANGED <<setting, registered, record, object, urls, halved>>,
           upload' = [upload EXCEPT ![i] = U], failures' \in 0..setting.failures,
           UploadFits(i, U), HoldsPass(q, i, U), MovesWell(s, q),
           slot[s].at \notin {"idle", "remove"}
    PROVE  AssetInv'
<1>1. object' = [object EXCEPT ![i] = object[i]]
  BY DEF AssetInv, AssetTypeOK
<1>2. ObjectFits(i, object[i]) /\ ObjectPasses(q, i, object[i])
  BY DEF AssetInv, AssetTypeOK, WritersCompared, ObjectFits, ObjectPasses
<1>3. halved \subseteq halved' /\ halved' \subseteq Ids
  BY DEF AssetInv, AssetTypeOK
<1>4. /\ UNCHANGED <<setting, registered, record, urls>> /\ slot' = [slot EXCEPT ![s] = q]
      /\ Possible(q) /\ (ComparedFirst => WritesDeclared(q))
  BY DEF MovesWell
<1>5. OneAtATime => /\ slot[s].at \notin {"idle", "remove"}
                    /\ ReliesOnRecord(q) /\ ReliesOnObject(q)'
  BY SettingStays DEF MovesWell, ReliesOnObject, Holds, DeclaredAs
<1> QED
  BY <1>1, <1>2, <1>3, <1>4, <1>5, StoresKeep, ZenonT(30)

LEMMA EasyMoves ==
    ASSUME NEW s, NEW q, slot' = [slot EXCEPT ![s] = q], q.at \in Easy
    PROVE  MovesWell(s, q)
  BY EasyRelies DEF MovesWell

LEMMA EmptiedFits ==
    ASSUME AssetInv, NEW i \in Ids
    PROVE  Emptied(i) \subseteq UploadRecord /\ UploadFits(i, Emptied(i))
<1>1. upload[i] \subseteq UploadRecord
  BY DEF AssetInv, AssetTypeOK
<1>2. UNION {u.writing : u \in upload[i]} \subseteq Slots \X Chunk
  BY <1>1 DEF UploadRecord
<1>3. <<>> \in Bytes
  BY DEF Bytes
<1>4. Emptied(i) \subseteq UploadRecord
  BY <1>2, <1>3 DEF Emptied, UploadRecord
<1> QED
  BY <1>4 DEF Emptied, UploadFits, AtMostOne

LEMMA UploadTyped ==
    ASSUME NEW b \in Bytes, NEW h \in BOOLEAN
    PROVE  /\ Upload(b, h) \subseteq UploadRecord /\ AtMostOne(Upload(b, h))
           /\ \A u \in Upload(b, h) : u.hold = h
  BY DEF Upload, UploadRecord, AtMostOne

LEMMA CreateKeeps ==
    ASSUME AssetInv, NEW s \in Slots, UNCHANGED setting, Create(s)
    PROVE  AssetInv'
<1> DEFINE i == slot[s].id
<1>t. /\ slot[s] \in Request /\ slot[s].at = "create" /\ failures' \in 0..setting.failures
      /\ UNCHANGED <<setting, registered, record, object, urls, halved>>
      /\ i \in Ids /\ slot' = [slot EXCEPT ![s] = Vacant]
      /\ upload \in [Ids -> SUBSET UploadRecord]
  BY FailuresTyped, Shapes DEF AssetInv, AssetTypeOK, Create, Done, To
<1>h. OneAtATime => \A j \in Ids : \A u \in upload[j] : ~u.hold
  BY <1>t, Sole DEF Completing
<1>1. PICK U : /\ upload' = [upload EXCEPT ![i] = U]
               /\ U \in {Emptied(i), {}, upload[i]}
  BY <1>t DEF Create, SetUpload
<1>2. UploadFits(i, U)
  <2>1. CASE U = Emptied(i)
    BY <1>t, <2>1, EmptiedFits
  <2>2. CASE U = {}
    BY <2>2 DEF UploadFits, AtMostOne
  <2>3. CASE U = upload[i]
    BY <1>t, <2>3 DEF UploadFits, AssetInv, AssetTypeOK, SupportedOnly
  <2> QED
    BY <1>1, <2>1, <2>2, <2>3
<1>3. HoldsPass(Vacant, i, U)
  BY <1>t, <1>h, <1>1 DEF HoldsPass, Emptied
<1>4. MovesWell(s, Vacant) /\ slot[s].at \notin {"idle", "remove"}
  BY <1>t, VacantIsIdle, EasyMoves DEF Easy
<1> QED
  BY <1>t, <1>1, <1>2, <1>3, <1>4, VacantIsIdle, UploadKeeps

LEMMA AppendKeeps ==
    ASSUME AssetInv, NEW s \in Slots, UNCHANGED setting, AppendChunk(s)
    PROVE  AssetInv'
<1> DEFINE i == slot[s].id
           c == slot[s].chunk
           matching == {u \in upload[i] : ~u.hold /\ Len(u.bytes) = slot[s].offset}
<1>t. /\ slot[s] \in Request /\ slot[s].at = "append" /\ failures' \in 0..setting.failures
      /\ UNCHANGED <<setting, registered, record, object, urls, halved>>
      /\ i \in Ids /\ c \in Chunk
      /\ upload \in [Ids -> SUBSET UploadRecord] /\ AtMostOne(upload[i])
  BY FailuresTyped, Shapes DEF AssetInv, AssetTypeOK, AppendChunk, Quiet
<1>h. OneAtATime => \A j \in Ids : \A u \in upload[j] : ~u.hold
  BY <1>t, Sole DEF Completing
<1>v. MovesWell(s, Vacant) \/ ~Done(s)
  BY VacantIsIdle, EasyMoves DEF Easy, Done, To
<1>1. PICK q \in Request, U \in SUBSET UploadRecord :
         /\ upload' = [upload EXCEPT ![i] = U] /\ MovesWell(s, q)
         /\ U = upload[i] \/ (AtMostOne(U) /\ \A u \in U : ~u.hold)
  <2>1. CASE Done(s) /\ UNCHANGED upload
    BY <1>t, <1>v, <2>1, VacantIsIdle
  <2>2. CASE Done(s) /\ \E u \in matching : SetUpload(i, {[u EXCEPT !.bytes = Append(@, c)]})
    <3>1. PICK u \in matching : SetUpload(i, {[u EXCEPT !.bytes = Append(@, c)]})
      BY <2>2
    <3> DEFINE v == [u EXCEPT !.bytes = Append(@, c)]
    <3> DEFINE U == {v}
    <3>2. v \in UploadRecord /\ ~v.hold
      <4>1. u \in UploadRecord /\ ~u.hold
        BY <1>t
      <4>2. Append(u.bytes, c) \in Bytes
        BY <1>t, <4>1 DEF UploadRecord, Bytes
      <4> QED
        BY <4>1, <4>2 DEF UploadRecord
    <3>3. upload' = [upload EXCEPT ![i] = U]
      BY <3>1 DEF SetUpload
    <3> HIDE DEF v
    <3>4. U \in SUBSET UploadRecord /\ AtMostOne(U) /\ \A w \in U : ~w.hold
      BY <3>2 DEF AtMostOne
    <3>5. MovesWell(s, Vacant)
      BY <1>v, <2>2
    <3> HIDE DEF U
    <3> QED
      BY <3>3, <3>4, <3>5, VacantIsIdle
  <2>3. CASE /\ Profile = "fs" /\ Goes(s, "flush")
             /\ \E u \in matching : SetUpload(i, {[u EXCEPT !.writing = @ \cup {<<s, c>>}]})
    <3>1. PICK u \in matching : SetUpload(i, {[u EXCEPT !.writing = @ \cup {<<s, c>>}]})
      BY <2>3
    <3> DEFINE v == [u EXCEPT !.writing = @ \cup {<<s, c>>}]
               U == {v}
               q == [slot[s] EXCEPT !.at = "flush"]
    <3>2. v \in UploadRecord /\ ~v.hold
      BY <1>t DEF UploadRecord
    <3>3. upload' = [upload EXCEPT ![i] = U]
      BY <3>1 DEF SetUpload
    <3>4. q \in Request /\ q.at = "flush"
      BY <1>t, GoesTyped, GoesAt
    <3>5. slot' = [slot EXCEPT ![s] = q]
      BY <2>3 DEF Goes, To
    <3> HIDE DEF v, q
    <3>6. MovesWell(s, q)
      BY <2>3, <3>4, <3>5 DEF MovesWell, Possible, Late, WritesDeclared, ReliesOnRecord, ReliesOnObject
    <3>7. U \in SUBSET UploadRecord /\ AtMostOne(U) /\ \A w \in U : ~w.hold
      BY <3>2 DEF AtMostOne
    <3> HIDE DEF U
    <3> QED
      BY <3>3, <3>4, <3>6, <3>7
  <2> QED
    BY <2>1, <2>2, <2>3 DEF AppendChunk
<1>2. UploadFits(i, U)
  BY <1>t, <1>1 DEF UploadFits, AssetInv, AssetTypeOK, SupportedOnly
<1>3. HoldsPass(q, i, U)
  BY <1>t, <1>h, <1>1 DEF HoldsPass
<1>4. slot[s].at \notin {"idle", "remove"}
  BY <1>t
<1> QED
  BY <1>t, <1>1, <1>2, <1>3, <1>4, UploadKeeps

LEMMA FlushKeeps ==
    ASSUME AssetInv, NEW s \in Slots, UNCHANGED setting, Flush(s)
    PROVE  AssetInv'
<1> DEFINE i == slot[s].id
           rid(u) == [u EXCEPT !.writing = @ \ {<<s, slot[s].chunk>>}]
<1>t. /\ slot[s] \in Request /\ slot[s].at = "flush" /\ failures' \in 0..setting.failures
      /\ UNCHANGED <<setting, registered, record, object, urls, halved>>
      /\ i \in Ids /\ slot' = [slot EXCEPT ![s] = Vacant]
      /\ upload \in [Ids -> SUBSET UploadRecord] /\ AtMostOne(upload[i])
  BY FailuresTyped, Shapes DEF AssetInv, AssetTypeOK, Flush, Done, To
<1>h. OneAtATime => \A j \in Ids : \A u \in upload[j] : ~u.hold
  BY <1>t, Sole DEF Completing
<1>1. PICK U : /\ upload' = [upload EXCEPT ![i] = U]
               /\ U = upload[i] \/ U = {rid(u) : u \in upload[i]}
  <2>1. upload = [upload EXCEPT ![i] = upload[i]]
    BY <1>t
  <2> QED
    BY <2>1 DEF Flush, SetUpload
<1>2. \A u \in upload[i] : rid(u) \in UploadRecord /\ rid(u).hold = u.hold
  BY <1>t DEF UploadRecord
<1>3. \A u \in upload[i] : u.hold => Profile # "fs"
  BY <1>t DEF AssetInv, SupportedOnly
<1>4. UploadFits(i, U)
  <2>1. AtMostOne(U)
    BY <1>t, <1>1 DEF AtMostOne
  <2>2. CASE U = upload[i]
    BY <1>t, <1>3, <2>1, <2>2 DEF UploadFits
  <2>3. CASE U = {rid(u) : u \in upload[i]}
    <3>1. \A v \in U : v \in UploadRecord /\ (v.hold => Profile # "fs")
      BY <1>2, <1>3, <2>3
    <3> QED
      BY <2>1, <3>1 DEF UploadFits
  <2> QED
    BY <1>1, <2>2, <2>3
<1>5. HoldsPass(Vacant, i, U)
  <2>1. ASSUME OneAtATime PROVE \A u \in U : ~u.hold
    <3>1. \A u \in upload[i] : ~u.hold
      BY <1>t, <1>h, <2>1
    <3>2. CASE U = upload[i]
      BY <3>1, <3>2
    <3>3. CASE U = {rid(u) : u \in upload[i]}
      BY <1>2, <3>1, <3>3
    <3> QED
      BY <1>1, <3>2, <3>3
  <2> QED
    BY <1>h, <2>1 DEF HoldsPass
<1>6. MovesWell(s, Vacant) /\ slot[s].at \notin {"idle", "remove"}
  BY <1>t, VacantIsIdle, EasyMoves DEF Easy
<1> QED
  BY <1>t, <1>1, <1>4, <1>5, <1>6, VacantIsIdle, UploadKeeps

LEMMA HoldKeyKeeps ==
    ASSUME AssetInv, NEW s \in Slots, UNCHANGED setting, HoldKey(s)
    PROVE  AssetInv'
<1> DEFINE i == slot[s].id
           q == [slot[s] EXCEPT !.at = "fetch"]
           U == Upload(slot[s].bytes, TRUE)
<1>t. /\ slot[s] \in Request /\ slot[s].at = "hold" /\ failures' \in 0..setting.failures
      /\ UNCHANGED <<setting, registered, record, object, urls, halved>>
      /\ i \in Ids /\ slot[s].bytes \in Bytes
      /\ slot' = [slot EXCEPT ![s] = q] /\ upload' = [upload EXCEPT ![i] = U]
      /\ setting \in Settings
  BY FailuresTyped, Shapes DEF AssetInv, AssetTypeOK, HoldKey, Goes, To, SetUpload, Quiet
<1>q. /\ q \in Request /\ q.at = "fetch" /\ q.id = i /\ q.bytes = slot[s].bytes
      /\ q.began = slot[s].began
  BY <1>t, GoesTyped, Shapes
<1>h. OneAtATime => /\ \A j \in Ids : (\E u \in upload[j] : u.hold) => slot[s].began = j
                    /\ ReliesOnRecord(slot[s]) /\ ReliesOnObject(slot[s])
  BY <1>t, Sole
<1>p. Possible(slot[s])
  BY DEF AssetInv, SupportedOnly
<1> HIDE DEF q
<1>2. UploadFits(i, U)
  <2>1. Profile # "fs"
    BY <1>t, <1>p DEF Possible, Late
  <2> QED
    BY <1>t, <2>1, UploadTyped DEF UploadFits
<1>3. HoldsPass(q, i, U)
  BY <1>t, <1>h, <1>q DEF HoldsPass, Upload, Completing, ReliesOnRecord
<1>4. MovesWell(s, q) /\ slot[s].at \notin {"idle", "remove"}
  <2>1. OneAtATime => ReliesOnRecord(q) /\ ReliesOnObject(q)
    BY <1>t, <1>h, <1>q DEF ReliesOnRecord, ReliesOnObject
  <2>2. Possible(q) /\ WritesDeclared(q)
    BY <1>t, <1>p, <1>q DEF Possible, Late, WritesDeclared
  <2> QED
    BY <1>t, <2>1, <2>2 DEF MovesWell
<1> QED
  BY <1>t, <1>q, <1>2, <1>3, <1>4, UploadKeeps

LEMMA ReleaseKeeps ==
    ASSUME AssetInv, NEW s \in Slots, UNCHANGED setting, ReleaseHold(s)
    PROVE  AssetInv'
<1> DEFINE i == slot[s].began
           U == {u \in upload[i] : ~u.hold}
<1>t. /\ slot[s] \in Request /\ slot[s].at = "release" /\ failures' \in 0..setting.failures
      /\ UNCHANGED <<setting, registered, record, object, urls, halved>>
      /\ slot' = [slot EXCEPT ![s] = Vacant] /\ upload' = [upload EXCEPT ![i] = U]
      /\ upload \in [Ids -> SUBSET UploadRecord]
  BY FailuresTyped DEF AssetInv, AssetTypeOK, ReleaseHold, Done, To, Quiet
<1>h. OneAtATime => \A j \in Ids : (\E u \in upload[j] : u.hold) => i = j
  BY <1>t, Sole
<1>4. MovesWell(s, Vacant) /\ slot[s].at \notin {"idle", "remove"}
  BY <1>t, VacantIsIdle, EasyMoves DEF Easy
<1>5. CASE i \in Ids
  <2>1. UploadFits(i, U)
    BY <1>t, <1>5 DEF UploadFits, AssetInv, AssetTypeOK, AtMostOne, SupportedOnly
  <2>2. HoldsPass(Vacant, i, U)
    BY <1>h DEF HoldsPass
  <2> HIDE DEF U
  <2> QED
    BY <1>t, <1>4, <1>5, <2>1, <2>2, VacantIsIdle, UploadKeeps
<1>6. CASE i \notin Ids
  <2>1. UNCHANGED <<setting, registered, record, object, upload, urls, halved>>
    BY <1>t, <1>6
  <2>2. OneAtATime => /\ slot[s] = Vacant => \A t \in Slots : slot[t] = Vacant
                      /\ slot[s].at # "remove"
                      /\ ReliesOnRecord(Vacant) /\ ReliesOnObject(Vacant)
                      /\ \A j \in Ids : (\E u \in upload[j] : u.hold) =>
                            Vacant.at \in Completing /\ Vacant.began = j
    BY <1>t, <1>4, <1>6, <1>h, VacantIsIdle DEF MovesWell
  <2>3. Possible(Vacant) /\ (ComparedFirst => WritesDeclared(Vacant))
    BY <1>4 DEF MovesWell
  <2> QED
    BY <1>t, <2>1, <2>2, <2>3, VacantIsIdle, MoveKeeps, ZenonT(30)
<1> QED
  BY <1>5, <1>6

LEMMA AbandonKeeps ==
    ASSUME AssetInv, NEW s \in Slots, UNCHANGED setting, AbandonUpload(s)
    PROVE  AssetInv'
<1> DEFINE i == slot[s].id
           taken == {u \in upload[i] : ~u.hold}
           U == upload[i] \ taken
<1>t. /\ slot[s] \in Request /\ slot[s].at = "abandon" /\ failures' \in 0..setting.failures
      /\ UNCHANGED <<setting, registered, record, object, urls, halved>>
      /\ i \in Ids /\ upload' = [upload EXCEPT ![i] = U]
      /\ upload \in [Ids -> SUBSET UploadRecord]
      /\ Profile \in {"fs", "s3"}
  BY FailuresTyped, Shapes, SettingFacts DEF AssetInv, AssetTypeOK, AbandonUpload, SetUpload, Quiet
<1>h. OneAtATime => \A j \in Ids : \A u \in upload[j] : ~u.hold
  BY <1>t, Sole DEF Completing
<1>1. UploadFits(i, U)
  BY <1>t DEF UploadFits, AssetInv, AssetTypeOK, AtMostOne, SupportedOnly
<1>2. ASSUME NEW q PROVE HoldsPass(q, i, U)
  BY <1>h, <1>t DEF HoldsPass
<1>3. PICK q \in Request : MovesWell(s, q)
  <2>1. CASE Profile = "fs" \/ taken = {}
    <3>1. MovesWell(s, Vacant)
      BY <2>1, VacantIsIdle, EasyMoves DEF Easy, AbandonUpload, Done, To
    <3> QED
      BY <3>1, VacantIsIdle
  <2>2. CASE ~(Profile = "fs" \/ taken = {})
    <3>1. PICK u \in taken : To(s, [at |-> "abort", id |-> i, bytes |-> u.bytes])
      BY <2>2 DEF AbandonUpload
    <3> DEFINE q == [at |-> "abort", id |-> i, bytes |-> u.bytes]
    <3>2. q \in Request /\ q.at = "abort" /\ q.bytes = u.bytes
      BY <1>t, <3>1 DEF Request, UploadRecord
    <3>3. slot' = [slot EXCEPT ![s] = q]
      BY <3>1 DEF To
    <3> HIDE DEF q
    <3>4. Profile = "s3"
      BY <1>t, <2>2
    <3>5. MovesWell(s, q)
      BY <3>2, <3>3, <3>4 DEF MovesWell, Possible, Late, WritesDeclared,
         ReliesOnRecord, ReliesOnObject
    <3> QED
      BY <3>2, <3>5
  <2> QED
    BY <2>1, <2>2
<1>4. slot[s].at \notin {"idle", "remove"}
  BY <1>t
<1> HIDE DEF U
<1> QED
  BY <1>t, <1>1, <1>2, <1>3, <1>4, UploadKeeps

LEMMA AbortKeeps ==
    ASSUME AssetInv, NEW s \in Slots, UNCHANGED setting, Abort(s)
    PROVE  AssetInv'
<1> DEFINE i == slot[s].id
<1>a. /\ slot[s] \in Request /\ slot[s].at = "abort" /\ failures' \in 0..setting.failures
      /\ UNCHANGED <<setting, registered, record, object, urls, halved>>
      /\ slot' = [slot EXCEPT ![s] = Vacant]
      /\ upload \in [Ids -> SUBSET UploadRecord]
  BY FailuresTyped DEF AssetInv, AssetTypeOK, Abort, Done, To
<1>t. i \in Ids /\ slot[s].bytes \in Bytes
  BY <1>a, Shapes
<1>h. OneAtATime => \A j \in Ids : \A u \in upload[j] : ~u.hold
  BY <1>a, <1>t, Sole DEF Completing
<1>1. PICK U : /\ upload' = [upload EXCEPT ![i] = U]
               /\ U \in {Upload(slot[s].bytes, FALSE), upload[i]}
  BY <1>a, <1>t DEF Abort, SetUpload
<1>2. UploadFits(i, U)
  <2>1. CASE U = Upload(slot[s].bytes, FALSE)
    BY <1>t, <2>1, UploadTyped DEF UploadFits
  <2>2. CASE U = upload[i]
    BY <1>a, <1>t, <2>2 DEF UploadFits, AssetInv, AssetTypeOK, SupportedOnly
  <2> QED
    BY <1>1, <2>1, <2>2
<1>3. HoldsPass(Vacant, i, U)
  BY <1>a, <1>t, <1>h, <1>1 DEF HoldsPass, Upload
<1>4. MovesWell(s, Vacant) /\ slot[s].at \notin {"idle", "remove"}
  BY <1>a, <1>t, VacantIsIdle, EasyMoves DEF Easy
<1> QED
  BY <1>a, <1>t, <1>1, <1>2, <1>3, <1>4, VacantIsIdle, UploadKeeps

LEMMA TakeKeeps ==
    ASSUME AssetInv, NEW s \in Slots, UNCHANGED setting, Take(s)
    PROVE  AssetInv'
<1> DEFINE i == slot[s].id
           taken == {u \in upload[i] : ~u.hold}
<1>t. /\ slot[s] \in Request /\ slot[s].at = "take" /\ failures' \in 0..setting.failures
      /\ UNCHANGED <<setting, registered, record, object, urls, halved>>
      /\ i \in Ids /\ upload \in [Ids -> SUBSET UploadRecord]
      /\ Profile \in {"fs", "s3"} /\ setting.records \in Nat
  BY FailuresTyped, Shapes, SettingFacts DEF AssetInv, AssetTypeOK, Take
<1>h. OneAtATime => /\ \A j \in Ids : \A u \in upload[j] : ~u.hold
                    /\ slot[s].began = i /\ PendingAs(i)
  BY <1>t, Sole DEF Completing, ReliesOnRecord
<1>p. "complete" \in Operations
  BY <1>t DEF AssetInv, SupportedOnly, Possible, Late
<1>1. PICK q \in Request, U \in {{}, upload[i]} :
         MovesWell(s, q) /\ upload' = [upload EXCEPT ![i] = U]
  <2>1. CASE Done(s) /\ (UNCHANGED upload \/ SetUpload(i, {}))
    <3>1. MovesWell(s, Vacant)
      BY <2>1, VacantIsIdle, EasyMoves DEF Easy, Done, To
    <3>2. upload' = [upload EXCEPT ![i] = upload[i]] \/ upload' = [upload EXCEPT ![i] = {}]
      BY <1>t, <2>1 DEF SetUpload
    <3> QED
      BY <3>1, <3>2, VacantIsIdle
  <2>2. CASE /\ SetUpload(i, {})
             /\ \E u \in taken :
                   To(s, IF Profile = "fs"
                         THEN [at |-> "read", bytes |-> u.bytes, committed |-> FALSE, began |-> i]
                         ELSE [at |-> "commit", id |-> i, bytes |-> u.bytes, began |-> i])
    <3>1. PICK u \in taken :
                   To(s, IF Profile = "fs"
                         THEN [at |-> "read", bytes |-> u.bytes, committed |-> FALSE, began |-> i]
                         ELSE [at |-> "commit", id |-> i, bytes |-> u.bytes, began |-> i])
      BY <2>2
    <3>2. u.bytes \in Bytes /\ i \in 0..setting.records
      BY <1>t DEF UploadRecord, Ids
    <3>3. PICK q \in Request : MovesWell(s, q)
      <4>1. CASE Profile = "fs"
        <5> DEFINE q == [at |-> "read", bytes |-> u.bytes, committed |-> FALSE, began |-> i]
        <5>1. q \in Request /\ q.at = "read" /\ q.began = i /\ q.committed = FALSE
          BY <3>2 DEF Request
        <5>2. slot' = [slot EXCEPT ![s] = q]
          BY <3>1, <4>1 DEF To
        <5> HIDE DEF q
        <5>3. MovesWell(s, q)
          BY <1>h, <5>1, <5>2 DEF MovesWell, Possible, Late, WritesDeclared,
             ReliesOnRecord, ReliesOnObject
        <5> QED
          BY <5>1, <5>3
      <4>2. CASE Profile = "s3"
        <5> DEFINE q == [at |-> "commit", id |-> i, bytes |-> u.bytes, began |-> i]
        <5>1. q \in Request /\ q.at = "commit" /\ q.id = i /\ q.began = i /\ q.bytes = u.bytes
          BY <1>t, <3>2 DEF Request
        <5>2. slot' = [slot EXCEPT ![s] = q]
          BY <3>1, <4>2 DEF To
        <5> HIDE DEF q
        <5>3. MovesWell(s, q)
          BY <1>h, <1>p, <3>2, <4>2, <5>1, <5>2 DEF MovesWell, Possible, Late,
             WritesDeclared, ReliesOnRecord, ReliesOnObject
        <5> QED
          BY <5>1, <5>3
      <4> QED
        BY <1>t, <4>1, <4>2
    <3> QED
      BY <2>2, <3>3 DEF SetUpload
  <2> QED
    BY <2>1, <2>2 DEF Take
<1>2. UploadFits(i, U)
  <2>1. CASE U = {}
    BY <2>1 DEF UploadFits, AtMostOne
  <2>2. CASE U = upload[i]
    BY <1>t, <2>2 DEF UploadFits, AssetInv, AssetTypeOK, SupportedOnly
  <2> QED
    BY <1>1, <2>1, <2>2
<1>3. HoldsPass(q, i, U)
  BY <1>t, <1>h, <1>1 DEF HoldsPass
<1>4. slot[s].at \notin {"idle", "remove"}
  BY <1>t
<1> QED
  BY <1>t, <1>1, <1>2, <1>3, <1>4, UploadKeeps

-----------------------------------------------------------------------------
(***************************************************************************)
(* What a write leaves, whole or cut short, fits its id.                   *)
(***************************************************************************)
LEMMA DeclaredBegins ==
    ASSUME AssetInv, NEW i \in Ids, NEW b, DeclaredAs(i, b)
    PROVE  /\ b \in Bytes /\ Len(b) = Size /\ BeginsAs(i, b)
           /\ \A n \in 0..(Size - 1) : BeginsAs(i, SubSeq(b, 1, n))
<1>t. /\ setting \in Settings /\ registered \in Seq(Contents) /\ Size \in Nat \ {0}
      /\ i \in Nat \ {0}
  BY SettingFacts DEF AssetInv, AssetTypeOK, Ids
<1>1. registered[i] \in Contents /\ i <= Len(registered)
  BY <1>t DEF DeclaredAs
<1>2. b \in Bytes /\ Len(b) = Size /\ b = Content(registered[i])
  BY <1>t, <1>1, ContentIsBytes DEF DeclaredAs
<1>3. b \in Seq(Chunk)
  BY <1>2 DEF Bytes
<1>4. SubSeq(b, 1, Size) = b
  BY <1>t, <1>2, <1>3
<1>5. ASSUME NEW n \in 0..(Size - 1) PROVE BeginsAs(i, SubSeq(b, 1, n))
  <2>1. Len(SubSeq(b, 1, n)) = n
    BY <1>t, <1>2, BeginningIsBytes
  <2> QED
    BY <1>1, <1>2, <2>1 DEF BeginsAs
<1> QED
  BY <1>1, <1>2, <1>4, <1>5 DEF BeginsAs

LEMMA CutShortFits ==
    ASSUME AssetInv, NEW i \in Ids, NEW b \in Bytes, ComparedFirst => DeclaredAs(i, b),
           NEW O \in CutShort(object[i], b)
    PROVE  ObjectFits(i, O)
<1>t. setting \in Settings /\ object[i] \subseteq Bytes /\ AtMostOne(object[i])
  BY DEF AssetInv, AssetTypeOK
<1>1. CASE O = object[i]
  BY <1>t, <1>1 DEF ObjectFits, AssetInv, WritersCompared
<1>2. CASE O = {b}
  BY <1>2, DeclaredBegins DEF ObjectFits, AtMostOne
<1>3. ASSUME Profile = "fs", NEW n \in 0..(Size - 1), O = {SubSeq(b, 1, n)} PROVE ObjectFits(i, O)
  <2>1. DeclaredAs(i, b)
    BY <1>3 DEF ComparedFirst
  <2>2. SubSeq(b, 1, n) \in Bytes /\ BeginsAs(i, SubSeq(b, 1, n))
    BY <1>t, <2>1, DeclaredBegins, BeginningIsBytes
  <2> QED
    BY <1>3, <2>2 DEF ObjectFits, AtMostOne
<1> QED
  BY <1>1, <1>2, <1>3 DEF CutShort

LEMMA SameUpload ==
    ASSUME AssetInv, UNCHANGED upload, NEW i \in Ids
    PROVE  upload' = [upload EXCEPT ![i] = upload[i]] /\ UploadFits(i, upload[i])
  BY DEF UploadFits, AssetInv, AssetTypeOK, SupportedOnly

LEMMA SameHalved ==
    ASSUME AssetInv, UNCHANGED halved
    PROVE  halved \subseteq halved' /\ halved' \subseteq Ids
  BY DEF AssetInv, AssetTypeOK

(***************************************************************************)
(* The steps that change objects.                                          *)
(***************************************************************************)
LEMMA StoreObjectKeeps ==
    ASSUME AssetInv, NEW s \in Slots, UNCHANGED setting, StoreObject(s)
    PROVE  AssetInv'
<1> DEFINE i == slot[s].id
<1>a. /\ slot[s] \in Request /\ slot[s].at = "store" /\ failures' \in 0..setting.failures
      /\ UNCHANGED <<setting, registered, record, urls>> /\ UNCHANGED <<upload, halved>>
      /\ object \in [Ids -> SUBSET Bytes] /\ setting \in Settings
  BY FailuresTyped DEF AssetInv, AssetTypeOK, StoreObject
<1>t. i \in Ids /\ slot[s].bytes \in Bytes
  BY <1>a, Shapes
<1>h. OneAtATime => /\ \A j \in Ids : (\E u \in upload[j] : u.hold) => slot[s].began = j
                    /\ PendingAs(i) /\ DeclaredAs(i, slot[s].bytes)
  BY <1>a, Sole DEF ReliesOnRecord, ReliesOnObject
<1>d. ComparedFirst => DeclaredAs(i, slot[s].bytes)
  BY <1>a DEF AssetInv, WritersCompared, WritesDeclared
<1>1. PICK q \in Request, O \in CutShort(object[i], slot[s].bytes) :
         /\ slot' = [slot EXCEPT ![s] = q] /\ object' = [object EXCEPT ![i] = O]
         /\ q.at \in {"available", "failed"} /\ q.id = i /\ q.began = slot[s].began
         /\ q.at = "available" => O = {slot[s].bytes}
  <2>1. ASSUME NEW a \in {"available", "failed"}
        PROVE  LET q == [slot[s] EXCEPT !.at = a]
               IN  q \in Request /\ q.at = a /\ q.id = i /\ q.began = slot[s].began
    BY <1>a, GoesTyped, Shapes
  <2>2. CASE Goes(s, "available") /\ object' = [object EXCEPT ![i] = {slot[s].bytes}]
    <3> DEFINE q == [slot[s] EXCEPT !.at = "available"]
    <3>1. slot' = [slot EXCEPT ![s] = q]
      BY <2>2 DEF Goes, To
    <3>2. q \in Request /\ q.at = "available" /\ q.id = i /\ q.began = slot[s].began
      BY <2>1
    <3>3. {slot[s].bytes} \in CutShort(object[i], slot[s].bytes)
      BY DEF CutShort
    <3> HIDE DEF q
    <3> QED
      BY <2>2, <3>1, <3>2, <3>3
  <2>3. CASE /\ Goes(s, "failed")
             /\ \E O \in CutShort(object[i], slot[s].bytes) : object' = [object EXCEPT ![i] = O]
    <3> DEFINE q == [slot[s] EXCEPT !.at = "failed"]
    <3>1. slot' = [slot EXCEPT ![s] = q]
      BY <2>3 DEF Goes, To
    <3>2. q \in Request /\ q.at = "failed" /\ q.id = i /\ q.began = slot[s].began
      BY <2>1
    <3> HIDE DEF q
    <3> QED
      BY <2>3, <3>1, <3>2
  <2> QED
    BY <2>2, <2>3 DEF StoreObject
<1>2. ObjectFits(i, O) /\ ObjectPasses(q, i, O)
  BY <1>t, <1>d, <1>h, CutShortFits DEF ObjectPasses
<1>3. HoldsPass(q, i, upload[i])
  BY <1>t, <1>h, <1>1 DEF HoldsPass, Completing
<1>4. Possible(q) /\ (ComparedFirst => WritesDeclared(q))
  BY <1>1 DEF Possible, Late, WritesDeclared
<1>5. OneAtATime => /\ slot[s].at \notin {"idle", "remove"}
                    /\ ReliesOnRecord(q) /\ ReliesOnObject(q)'
  <2>1. OneAtATime => ReliesOnRecord(q)
    BY <1>h, <1>1 DEF ReliesOnRecord
  <2>2. object'[i] = O
    BY <1>a, <1>t, <1>1
  <2>3. OneAtATime => ReliesOnObject(q)'
    BY <1>a, <1>h, <1>1, <2>2, SettingStays DEF ReliesOnObject, Holds, DeclaredAs
  <2> QED
    BY <1>a, <2>1, <2>3
<1>6. upload' = [upload EXCEPT ![i] = upload[i]] /\ UploadFits(i, upload[i])
      /\ halved \subseteq halved' /\ halved' \subseteq Ids
  BY <1>a, <1>t, SameUpload, SameHalved
<1> QED
  BY <1>a, <1>t, <1>1, <1>2, <1>3, <1>4, <1>5, <1>6, StoresKeep, ZenonT(30)

LEMMA CleanUpKeeps ==
    ASSUME AssetInv, NEW s \in Slots, UNCHANGED setting, CleanUp(s)
    PROVE  AssetInv'
<1> DEFINE i == slot[s].id
<1>a. /\ slot[s] \in Request /\ slot[s].at = "cleanup" /\ failures' \in 0..setting.failures
      /\ UNCHANGED <<setting, registered, record, urls>> /\ UNCHANGED <<upload, halved>>
      /\ object \in [Ids -> SUBSET Bytes] /\ setting \in Settings
  BY FailuresTyped DEF AssetInv, AssetTypeOK, CleanUp
<1>t. i \in Ids
  BY <1>a, Shapes
<1>h. OneAtATime => /\ \A j \in Ids : (\E u \in upload[j] : u.hold) => slot[s].began = j
                    /\ PendingAs(i)
  BY <1>a, Sole DEF ReliesOnRecord
<1>q. PICK q \in Request : /\ slot' = [slot EXCEPT ![s] = q]
                           /\ q.at = "failed" /\ q.id = i /\ q.began = slot[s].began
  <2> DEFINE p == [slot[s] EXCEPT !.at = "failed"]
  <2>1. p \in Request /\ p.at = "failed" /\ p.id = i /\ p.began = slot[s].began
    BY <1>a, GoesTyped, Shapes
  <2>2. slot' = [slot EXCEPT ![s] = p]
    BY DEF CleanUp, Goes, To
  <2> HIDE DEF p
  <2> QED
    BY <2>1, <2>2
<1>1. PICK O : O \in {{}, object[i]} /\ object' = [object EXCEPT ![i] = O]
  <2>1. object' = [object EXCEPT ![i] = {}] \/ object' = object
    BY DEF CleanUp
  <2>2. object = [object EXCEPT ![i] = object[i]]
    BY <1>a, <1>t
  <2> QED
    BY <2>1, <2>2
<1>2. ObjectFits(i, O) /\ ObjectPasses(q, i, O)
  BY <1>t, <1>h, <1>1 DEF ObjectFits, ObjectPasses, AssetInv, AssetTypeOK, WritersCompared, AtMostOne
<1>3. HoldsPass(q, i, upload[i])
  BY <1>t, <1>h, <1>q DEF HoldsPass, Completing
<1>4. Possible(q) /\ (ComparedFirst => WritesDeclared(q))
  BY <1>q DEF Possible, Late, WritesDeclared
<1>5. OneAtATime => /\ slot[s].at \notin {"idle", "remove"}
                    /\ ReliesOnRecord(q) /\ ReliesOnObject(q)'
  BY <1>a, <1>h, <1>q DEF ReliesOnRecord, ReliesOnObject
<1>6. upload' = [upload EXCEPT ![i] = upload[i]] /\ UploadFits(i, upload[i])
      /\ halved \subseteq halved' /\ halved' \subseteq Ids
  BY <1>a, <1>t, SameUpload, SameHalved
<1> QED
  BY <1>a, <1>t, <1>q, <1>1, <1>2, <1>3, <1>4, <1>5, <1>6, StoresKeep, ZenonT(30)

LEMMA CommitKeeps ==
    ASSUME AssetInv, NEW s \in Slots, UNCHANGED setting, CommitUpload(s)
    PROVE  AssetInv'
<1> DEFINE i == slot[s].id
           b == slot[s].bytes
<1>a. /\ slot[s] \in Request /\ slot[s].at = "commit" /\ failures' \in 0..setting.failures
      /\ UNCHANGED <<setting, registered, record, urls>> /\ UNCHANGED halved
      /\ object \in [Ids -> SUBSET Bytes] /\ setting \in Settings
  BY FailuresTyped DEF AssetInv, AssetTypeOK, CommitUpload
<1>t. i \in Ids /\ b \in Bytes
  BY <1>a, Shapes
<1>h. OneAtATime => /\ \A j \in Ids : \A u \in upload[j] : ~u.hold
                    /\ PendingAs(i) /\ slot[s].began = i
  BY <1>a, Sole DEF ReliesOnRecord, Completing
<1>d. ~ComparedFirst /\ Profile = "s3" /\ "complete" \in Operations
  BY <1>a DEF AssetInv, SupportedOnly, Possible, Late, ComparedFirst
<1>1. PICK q \in Request, O \in {{b}, object[i]}, U \in {upload[i], Upload(b, FALSE)} :
         /\ slot' = [slot EXCEPT ![s] = q] /\ object' = [object EXCEPT ![i] = O]
         /\ upload' = [upload EXCEPT ![i] = U]
         /\ \/ q.at = "hold" /\ q.id = i /\ q.began = slot[s].began /\ q.bytes = b /\ O = {b}
            \/ q.at = "release"
  <2>1. CASE /\ object' = [object EXCEPT ![i] = {b}] /\ UNCHANGED upload /\ Goes(s, "hold")
    <3> DEFINE q == [slot[s] EXCEPT !.at = "hold"]
    <3>1. q \in Request /\ q.at = "hold" /\ q.id = i /\ q.began = slot[s].began /\ q.bytes = b
      BY <1>a, GoesTyped, Shapes
    <3>2. slot' = [slot EXCEPT ![s] = q]
      BY <2>1 DEF Goes, To
    <3>3. upload' = [upload EXCEPT ![i] = upload[i]]
      BY <1>t, <2>1, SameUpload
    <3> HIDE DEF q
    <3> QED
      BY <2>1, <3>1, <3>2, <3>3
  <2>2. CASE /\ SetUpload(i, Upload(b, FALSE))
             /\ object' \in {object, [object EXCEPT ![i] = {b}]}
             /\ Goes(s, "release")
    <3> DEFINE q == [slot[s] EXCEPT !.at = "release"]
    <3>1. q \in Request /\ q.at = "release"
      BY <1>a, GoesTyped, Shapes
    <3>2. slot' = [slot EXCEPT ![s] = q]
      BY <2>2 DEF Goes, To
    <3>3. object = [object EXCEPT ![i] = object[i]]
      BY <1>a, <1>t
    <3>4. upload' = [upload EXCEPT ![i] = Upload(b, FALSE)]
      BY <2>2 DEF SetUpload
    <3>5. PICK O \in {{b}, object[i]} : object' = [object EXCEPT ![i] = O]
      BY <2>2, <3>3
    <3> HIDE DEF q
    <3> QED
      BY <3>1, <3>2, <3>4, <3>5
  <2> QED
    BY <2>1, <2>2 DEF CommitUpload
<1>2. ObjectFits(i, O) /\ ObjectPasses(q, i, O)
  BY <1>a, <1>t, <1>d, <1>h DEF ObjectFits, ObjectPasses, AssetInv, AssetTypeOK, AtMostOne
<1>u. UploadFits(i, U)
  <2>1. UploadFits(i, Upload(b, FALSE))
    BY <1>t, UploadTyped DEF UploadFits
  <2>2. UploadFits(i, upload[i])
    BY <1>t DEF UploadFits, AssetInv, AssetTypeOK, SupportedOnly
  <2> QED
    BY <1>1, <2>1, <2>2
<1>3. HoldsPass(q, i, U)
  BY <1>t, <1>h, <1>1 DEF HoldsPass, Upload
<1>4. Possible(q) /\ (ComparedFirst => WritesDeclared(q))
  BY <1>1, <1>d DEF Possible, Late
<1>5. OneAtATime => /\ slot[s].at \notin {"idle", "remove"}
                    /\ ReliesOnRecord(q) /\ ReliesOnObject(q)'
  <2>1. OneAtATime => ReliesOnRecord(q)
    BY <1>h, <1>1 DEF ReliesOnRecord
  <2>2. object'[i] = O
    BY <1>a, <1>t, <1>1
  <2>3. OneAtATime => ReliesOnObject(q)'
    BY <1>h, <1>1, <2>2 DEF ReliesOnObject, Holds
  <2> QED
    BY <1>a, <2>1, <2>3
<1>6. halved \subseteq halved' /\ halved' \subseteq Ids
  BY <1>a, SameHalved
<1> QED
  BY <1>a, <1>t, <1>1, <1>2, <1>u, <1>3, <1>4, <1>5, <1>6, StoresKeep, ZenonT(30)

LEMMA EraseKeeps ==
    ASSUME AssetInv, NEW s \in Slots, UNCHANGED setting, Erase(s)
    PROVE  AssetInv'
<1> DEFINE i == slot[s].id
<1>a. /\ slot[s] \in Request /\ slot[s].at = "erase" /\ failures' \in 0..setting.failures
      /\ UNCHANGED <<setting, registered, record, urls>> /\ UNCHANGED upload
      /\ object \in [Ids -> SUBSET Bytes] /\ slot \in [Slots -> Request] /\ halved \subseteq Ids
  BY FailuresTyped DEF AssetInv, AssetTypeOK, Erase
<1>t. i \in Ids
  BY <1>a, Shapes
<1>h. OneAtATime => /\ \A j \in Ids : \A u \in upload[j] : ~u.hold
                    /\ \E r \in record : r.id = i
  BY <1>a, Sole DEF ReliesOnRecord, Completing
<1>1. PICK q \in Request, O \in {{}, object[i]} :
         /\ slot' = [slot EXCEPT ![s] = q] /\ object' = [object EXCEPT ![i] = O]
         /\ \/ q.at = "remove" /\ q.id = i /\ O = {}
            \/ q = Vacant
  <2>1. CASE object' = [object EXCEPT ![i] = {}] /\ Goes(s, "remove")
    <3> DEFINE q == [slot[s] EXCEPT !.at = "remove"]
    <3>1. q \in Request /\ q.at = "remove" /\ q.id = i
      BY <1>a, GoesTyped, GoesAt
    <3>2. slot' = [slot EXCEPT ![s] = q]
      BY <2>1 DEF Goes, To
    <3> HIDE DEF q
    <3> QED
      BY <2>1, <3>1, <3>2
  <2>2. CASE Done(s) /\ object' \in {object, [object EXCEPT ![i] = {}]}
    <3>1. object = [object EXCEPT ![i] = object[i]]
      BY <1>a, <1>t
    <3>2. PICK O \in {{}, object[i]} : object' = [object EXCEPT ![i] = O]
      BY <2>2, <3>1
    <3> QED
      BY <2>2, <3>2, VacantIsIdle DEF Done, To
  <2> QED
    BY <2>1, <2>2 DEF Erase
<1>o. slot'[s] = q /\ object'[i] = O
  BY <1>a, <1>t, <1>1
<1>6. /\ halved \subseteq halved' /\ halved' \subseteq Ids
      /\ q = Vacant /\ O = {} => i \in halved'
  BY <1>a, <1>t, <1>o DEF Erase
<1>2. ObjectFits(i, O) /\ ObjectPasses(q, i, O)
  BY <1>t, <1>1, <1>6 DEF ObjectFits, ObjectPasses, AssetInv, AssetTypeOK, WritersCompared, AtMostOne
<1>3. HoldsPass(q, i, upload[i])
  BY <1>t, <1>h DEF HoldsPass
<1>4. Possible(q) /\ (ComparedFirst => WritesDeclared(q))
  BY <1>1, VacantIsIdle DEF Possible, Late, WritesDeclared
<1>5. OneAtATime => /\ slot[s].at \notin {"idle", "remove"}
                    /\ ReliesOnRecord(q) /\ ReliesOnObject(q)'
  BY <1>a, <1>o, <1>h, <1>1, VacantIsIdle DEF ReliesOnRecord, ReliesOnObject
<1>7. upload' = [upload EXCEPT ![i] = upload[i]] /\ UploadFits(i, upload[i])
  BY <1>a, <1>t, SameUpload
<1> QED
  BY <1>a, <1>t, <1>1, <1>2, <1>3, <1>4, <1>5, <1>6, <1>7, StoresKeep, ZenonT(30)

LEMMA LandsKeeps ==
    ASSUME AssetInv, NEW s \in Slots, UNCHANGED setting, Lands(s)
    PROVE  AssetInv'
<1> DEFINE i == slot[s].id
<1>a. /\ slot[s] \in Request /\ slot[s].at \in Late
      /\ failures' \in 0..setting.failures
      /\ UNCHANGED <<setting, registered, record, urls>> /\ UNCHANGED halved
      /\ slot' = [slot EXCEPT ![s] = Vacant]
      /\ object \in [Ids -> SUBSET Bytes]
  BY FailuresTyped DEF AssetInv, AssetTypeOK, Lands, Quiet, Done, To
<1>t. i \in Ids /\ (slot[s].at = "putting" => slot[s].bytes \in Bytes)
  BY <1>a, Shapes DEF Late
<1>o. ~OneAtATime
  BY <1>a DEF AssetInv, SupportedOnly, Possible, Late, OneAtATime
<1>d. ComparedFirst /\ slot[s].at = "putting" => DeclaredAs(i, slot[s].bytes)
  BY <1>a DEF AssetInv, WritersCompared, WritesDeclared
<1>1. PICK O, U :
         /\ object' = [object EXCEPT ![i] = O] /\ upload' = [upload EXCEPT ![i] = U]
         /\ O \in {{}, object[i]} \/ (slot[s].at = "putting" /\ O = {slot[s].bytes})
         /\ U \in {{}, upload[i], Emptied(i)}
  <2>1. upload = [upload EXCEPT ![i] = upload[i]] /\ object = [object EXCEPT ![i] = object[i]]
    BY <1>a, <1>t DEF AssetInv, AssetTypeOK
  <2> QED
    BY <2>1 DEF Lands, SetUpload
<1>2. ObjectFits(i, O) /\ ObjectPasses(Vacant, i, O)
  <2>1. ObjectFits(i, {}) /\ ObjectFits(i, object[i])
    BY <1>t DEF ObjectFits, AtMostOne, AssetInv, AssetTypeOK, WritersCompared
  <2>2. slot[s].at = "putting" => ObjectFits(i, {slot[s].bytes})
    BY <1>t, <1>d, DeclaredBegins DEF ObjectFits, AtMostOne
  <2> QED
    BY <1>1, <1>o, <2>1, <2>2 DEF ObjectPasses
<1>3. UploadFits(i, U) /\ HoldsPass(Vacant, i, U)
  <2>1. UploadFits(i, {})
    BY DEF UploadFits, AtMostOne
  <2>2. UploadFits(i, upload[i])
    BY <1>t DEF UploadFits, AssetInv, AssetTypeOK, SupportedOnly
  <2>3. UploadFits(i, Emptied(i))
    BY <1>t, EmptiedFits
  <2> QED
    BY <1>o, <1>1, <2>1, <2>2, <2>3 DEF HoldsPass
<1>4. Possible(Vacant) /\ (ComparedFirst => WritesDeclared(Vacant))
  BY VacantIsIdle, EasyRelies DEF Easy
<1>5. OneAtATime => /\ slot[s].at \notin {"idle", "remove"}
                    /\ ReliesOnRecord(Vacant) /\ ReliesOnObject(Vacant)'
  BY <1>o
<1>6. halved \subseteq halved' /\ halved' \subseteq Ids
  BY <1>a, SameHalved
<1> QED
  BY <1>a, <1>t, <1>1, <1>2, <1>3, <1>4, <1>5, <1>6, VacantIsIdle, StoresKeep, ZenonT(30)

-----------------------------------------------------------------------------
(***************************************************************************)
(* The steps that change the record.                                       *)
(***************************************************************************)
LEMMA RegisterKeeps ==
    ASSUME AssetInv, NEW s \in Slots, UNCHANGED setting, Register(s)
    PROVE  AssetInv'
<1>a. /\ slot[s] \in Request /\ slot[s].at = "register" /\ failures' \in 0..setting.failures
      /\ UNCHANGED <<setting, object, upload, urls, halved>> /\ UNCHANGED failures
      /\ slot' = [slot EXCEPT ![s] = Vacant] /\ AssetTypeOK
      /\ Len(registered) < setting.records
  BY FailuresTyped DEF AssetInv, AssetTypeOK, Register, Quiet, Done, To
<1>k. slot[s].kind \in {"managed", "remote"}
  BY <1>a, Shapes
<1>h. OneAtATime => /\ \A j \in Ids : \A u \in upload[j] : ~u.hold
                    /\ AvailableAreIntact /\ ObjectsAreOwned
                    /\ \A t \in Slots \ {s} : slot[t] = Vacant
  BY <1>a, Sole DEF Completing
<1>v. /\ Possible(Vacant) /\ WritesDeclared(Vacant)
      /\ ReliesOnRecord(Vacant) /\ ReliesOnObject(Vacant)
      /\ ReliesOnRecord(Vacant)' /\ ReliesOnObject(Vacant)'
  BY VacantIsIdle, EasyRelies DEF Easy, Vacant
<1>1. CASE record # {}
  <2>1. UNCHANGED <<setting, registered, record, object, upload, urls, halved>>
    BY <1>a, <1>1 DEF Register
  <2>2. OneAtATime => /\ slot[s] = Vacant => \A t \in Slots : slot[t] = Vacant
                      /\ slot[s].at # "remove"
                      /\ ReliesOnRecord(Vacant) /\ ReliesOnObject(Vacant)
                      /\ \A j \in Ids : (\E u \in upload[j] : u.hold) =>
                            Vacant.at \in Completing /\ Vacant.began = j
    BY <1>a, <1>h, <1>v, VacantIsIdle
  <2>3. Possible(Vacant) /\ (ComparedFirst => WritesDeclared(Vacant))
    BY <1>v
  <2> QED
    BY <1>a, <2>1, <2>2, <2>3, VacantIsIdle, MoveKeeps, ZenonT(30)
<1>2. CASE record = {}
  <2>1. PICK c \in Contents :
          /\ registered' = Append(registered, c)
          /\ record' = {[id |-> Len(registered) + 1, kind |-> slot[s].kind,
                         state |-> IF slot[s].kind = "managed" THEN "pending" ELSE "available"]}
    BY <1>2 DEF Register
  <2> DEFINE new == [id |-> Len(registered) + 1, kind |-> slot[s].kind,
                     state |-> IF slot[s].kind = "managed" THEN "pending" ELSE "available"]
  <2>2. /\ registered' \in Seq(Contents) /\ Len(registered) \in Nat
        /\ Len(registered') = Len(registered) + 1 /\ Len(registered') <= setting.records
        /\ \A i \in 1..Len(registered) : registered'[i] = registered[i]
    BY <1>a, <2>1, SettingFacts DEF AssetTypeOK
  <2>3. /\ new.id \in 1..Len(registered') /\ new.kind = slot[s].kind
        /\ new \in [id : 1..Len(registered'), kind : {"managed", "remote"},
                    state : {"pending", "available", "failed"}]
        /\ ~(new.kind = "managed" /\ new.state = "available")
    BY <1>k, <2>2
  <2>4. record' = {new}
    BY <2>1
  <2> HIDE DEF new
  <2>5. AssetTypeOK'
    <3>1. slot' \in [Slots -> Request]
      BY <1>a, VacantIsIdle DEF AssetTypeOK
    <3> QED
      BY <1>a, <2>2, <2>3, <2>4, <3>1, SettingStays DEF AssetTypeOK, AtMostOne
  <2>6. \A i \in Ids : \A u \in upload'[i] : u.hold => Profile # "fs"
    BY <1>a DEF AssetInv, SupportedOnly
  <2>7. ComparedFirst => /\ \A i \in Ids : \A b \in object'[i] : BeginsAs(i, b)
                         /\ WritesDeclared(Vacant)
    BY <1>a, <1>v DEF AssetInv, WritersCompared
  <2>8. ASSUME OneAtATime PROVE HoldsFollow' /\ AvailableAreIntact' /\ ObjectsAreOwned'
    <3>1. HoldsFollow'
      BY <1>a, <1>h, <2>8, SettingStays DEF HoldsFollow
    <3>2. AvailableAreIntact'
      BY <2>3, <2>4 DEF AvailableAreIntact
    <3>3. ObjectsAreOwned'
      BY <1>a, <1>h, <1>2, <2>8, SettingStays DEF ObjectsAreOwned
    <3> QED
      BY <3>1, <3>2, <3>3
  <2>9. OneAtATime => /\ slot[s] = Vacant => \A t \in Slots : slot[t] = Vacant
                      /\ ReliesOnRecord(Vacant)' /\ ReliesOnObject(Vacant)'
                      /\ HoldsFollow' /\ AvailableAreIntact' /\ ObjectsAreOwned'
    BY <1>a, <1>v, <2>8, VacantIsIdle
  <2>10. UNCHANGED <<setting, urls>> /\ Len(registered) <= Len(registered')
         /\ Possible(Vacant)
    BY <1>a, <1>v, <2>2
  <2> QED
    BY <1>a, <2>2, <2>5, <2>6, <2>7, <2>9, <2>10, VacantIsIdle, StepKeeps, ZenonT(30)
<1> QED
  BY <1>1, <1>2

LEMMA RemoveKeeps ==
    ASSUME AssetInv, NEW s \in Slots, UNCHANGED setting, Remove(s)
    PROVE  AssetInv'
<1> DEFINE i == slot[s].id
<1>a. /\ slot[s] \in Request /\ slot[s].at = "remove" /\ failures' \in 0..setting.failures
      /\ UNCHANGED <<setting, registered, object, upload, urls>>
      /\ slot' = [slot EXCEPT ![s] = Vacant] /\ AssetTypeOK
      /\ \/ record' = {} /\ UNCHANGED halved
         \/ record' \in {{}, record} /\ halved' = halved \cup {i}
  BY FailuresTyped DEF AssetInv, AssetTypeOK, Remove, Done, To
<1>t. i \in Ids
  BY <1>a, Shapes
<1>h. OneAtATime => /\ \A j \in Ids : \A u \in upload[j] : ~u.hold
                    /\ ObjectsAreOwned /\ \E r \in record : r.id = i
                    /\ ThroughTheServer => object[i] = {}
  BY <1>a, Sole DEF Completing, ReliesOnRecord, ReliesOnObject
<1>v. /\ Possible(Vacant) /\ WritesDeclared(Vacant)
      /\ ReliesOnRecord(Vacant)' /\ ReliesOnObject(Vacant)'
  BY VacantIsIdle, EasyRelies DEF Easy, Vacant
<1>5. AssetTypeOK'
  <2>1. slot' \in [Slots -> Request]
    BY <1>a, VacantIsIdle DEF AssetTypeOK
  <2>2. record' \subseteq record /\ halved' \subseteq Ids
    BY <1>a, <1>t DEF AssetTypeOK
  <2> QED
    BY <1>a, <2>1, <2>2, SettingStays DEF AssetTypeOK, AtMostOne
<1>6. \A j \in Ids : \A u \in upload'[j] : u.hold => Profile # "fs"
  BY <1>a DEF AssetInv, SupportedOnly
<1>7. ComparedFirst => /\ \A j \in Ids : \A b \in object'[j] : BeginsAs(j, b)
                       /\ WritesDeclared(Vacant)
  BY <1>a, <1>v DEF AssetInv, WritersCompared
<1>8. ASSUME OneAtATime PROVE HoldsFollow' /\ AvailableAreIntact' /\ ObjectsAreOwned'
  <2>0. \A r \in record : r.id = i
    BY <1>a, <1>h, <1>8 DEF AssetTypeOK, AtMostOne
  <2>1. HoldsFollow'
    BY <1>a, <1>h, <1>8, SettingStays DEF HoldsFollow
  <2>2. AvailableAreIntact'
    BY <1>a, <2>0 DEF AvailableAreIntact
  <2>3. ThroughTheServer => \A j \in Ids : object[j] = {}
    BY <1>h, <1>8, <2>0 DEF ObjectsAreOwned
  <2>4. ObjectsAreOwned'
    BY <1>a, <2>3, SettingStays DEF ObjectsAreOwned
  <2> QED
    BY <2>1, <2>2, <2>4
<1>9. OneAtATime => /\ slot[s] = Vacant => \A t \in Slots : slot[t] = Vacant
                    /\ ReliesOnRecord(Vacant)' /\ ReliesOnObject(Vacant)'
                    /\ HoldsFollow' /\ AvailableAreIntact' /\ ObjectsAreOwned'
  BY <1>a, <1>v, <1>8, VacantIsIdle
<1>10. /\ UNCHANGED <<setting, urls>> /\ Len(registered) <= Len(registered')
       /\ \A j \in 1..Len(registered) : registered'[j] = registered[j]
       /\ Possible(Vacant)
  BY <1>a, <1>v DEF AssetTypeOK
<1> QED
  BY <1>a, <1>5, <1>6, <1>7, <1>9, <1>10, VacantIsIdle, StepKeeps, ZenonT(30)

LEMMA FinalizeKeeps ==
    ASSUME AssetInv, NEW s \in Slots, UNCHANGED setting, Finalize(s)
    PROVE  AssetInv'
<1> DEFINE i == slot[s].id
           updated == {[r EXCEPT !.state = slot[s].at] : r \in record}
<1>a. /\ slot[s] \in Request /\ slot[s].at \in {"available", "failed"} /\ Ends(s)
      /\ failures' \in 0..setting.failures /\ record' \in {record, updated}
      /\ UNCHANGED <<setting, registered, object, upload, urls, halved>>
      /\ AssetTypeOK
  BY FailuresTyped DEF AssetInv, AssetTypeOK, Finalize
<1>t. i \in Ids
  BY <1>a, Shapes
<1>h. OneAtATime => /\ \A j \in Ids : (\E u \in upload[j] : u.hold) => slot[s].began = j
                    /\ PendingAs(i) /\ ObjectsAreOwned
                    /\ slot[s].at = "available" => Holds(i, Content(registered[i]))
  BY <1>a, Sole DEF ReliesOnRecord, ReliesOnObject
<1>q. PICK q \in Request : /\ slot' = [slot EXCEPT ![s] = q] /\ q.at \in {"idle", "release"}
                           /\ slot[s].began # 0 => q.at = "release" /\ q.began = slot[s].began
  BY <1>a, EndsAt
<1>v. /\ Possible(q) /\ WritesDeclared(q)
      /\ ReliesOnRecord(q)' /\ ReliesOnObject(q)'
  BY <1>q, EasyRelies DEF Easy
<1>e. \A r \in record : LET p == [r EXCEPT !.state = slot[s].at]
                       IN  /\ p.id = r.id /\ p.kind = r.kind
                           /\ p \in [id : 1..Len(registered), kind : {"managed", "remote"},
                                     state : {"pending", "available", "failed"}]
  BY <1>a DEF AssetTypeOK
<1>r. \A p \in record' : \E r \in record :
         /\ p.id = r.id /\ p.kind = r.kind /\ (p = r \/ p = [r EXCEPT !.state = slot[s].at])
         /\ p \in [id : 1..Len(registered), kind : {"managed", "remote"},
                   state : {"pending", "available", "failed"}]
  <2>1. CASE record' = record
    BY <1>a, <2>1 DEF AssetTypeOK
  <2>2. CASE record' = updated
    BY <1>e, <2>2
  <2> QED
    BY <1>a, <2>1, <2>2
<1>m. AtMostOne(record')
  BY <1>a DEF AssetTypeOK, AtMostOne
<1>5. AssetTypeOK'
  <2>1. slot' \in [Slots -> Request]
    BY <1>a, <1>q DEF AssetTypeOK
  <2>2. record' \subseteq [id : 1..Len(registered), kind : {"managed", "remote"},
                           state : {"pending", "available", "failed"}]
    BY <1>r
  <2> QED
    BY <1>a, <1>m, <2>1, <2>2, SettingStays DEF AssetTypeOK, AtMostOne
<1>6. \A j \in Ids : \A u \in upload'[j] : u.hold => Profile # "fs"
  BY <1>a DEF AssetInv, SupportedOnly
<1>7. ComparedFirst => /\ \A j \in Ids : \A b \in object'[j] : BeginsAs(j, b)
                       /\ WritesDeclared(q)
  BY <1>a, <1>v DEF AssetInv, WritersCompared
<1>8. ASSUME OneAtATime PROVE HoldsFollow' /\ AvailableAreIntact' /\ ObjectsAreOwned'
  <2>0. \A r \in record : r.id = i /\ r.kind = "managed" /\ r.state = "pending"
    BY <1>a, <1>h, <1>8 DEF AssetTypeOK, AtMostOne, PendingAs
  <2>s. slot'[s] = q
    BY <1>a, <1>q DEF AssetTypeOK
  <2>1. HoldsFollow'
    BY <1>a, <1>h, <1>q, <1>8, <2>s, SettingStays DEF HoldsFollow, Completing, Ids
  <2>2. ASSUME NEW p \in record', p.state = "available" PROVE p.id = i /\ slot[s].at = "available"
    <3>1. PICK r \in record : p.id = r.id /\ (p = r \/ p = [r EXCEPT !.state = slot[s].at])
      BY <1>r
    <3>2. p.state = r.state \/ p.state = slot[s].at
      BY <1>a, <3>1 DEF AssetTypeOK
    <3> QED
      BY <1>a, <2>0, <2>2, <3>1, <3>2
  <2>3. AvailableAreIntact'
    BY <1>a, <1>h, <1>8, <2>2, SettingStays DEF AvailableAreIntact, Intact, Holds
  <2>4. \E p \in record' : p.id = i /\ p.kind = "managed"
    <3>1. PICK r \in record : r.id = i /\ r.kind = "managed"
      BY <1>h, <1>8 DEF PendingAs
    <3>2. CASE record' = record
      BY <3>1, <3>2
    <3>3. CASE record' = updated
      <4>1. [r EXCEPT !.state = slot[s].at] \in record'
        BY <3>3
      <4>2. [r EXCEPT !.state = slot[s].at].id = i /\ [r EXCEPT !.state = slot[s].at].kind = "managed"
        BY <1>a, <3>1 DEF AssetTypeOK
      <4> QED
        BY <4>1, <4>2
    <3> QED
      BY <1>a, <3>2, <3>3
  <2>5. ThroughTheServer => \A j \in Ids : object[j] # {} => j = i
    BY <1>h, <1>8, <2>0 DEF ObjectsAreOwned
  <2>6. ObjectsAreOwned'
    BY <1>a, <2>4, <2>5, SettingStays DEF ObjectsAreOwned
  <2> QED
    BY <2>1, <2>3, <2>6
<1>9. OneAtATime => /\ slot[s] = Vacant => \A t \in Slots : slot[t] = Vacant
                    /\ ReliesOnRecord(q)' /\ ReliesOnObject(q)'
                    /\ HoldsFollow' /\ AvailableAreIntact' /\ ObjectsAreOwned'
  BY <1>a, <1>v, <1>8, VacantIsIdle
<1>10. /\ UNCHANGED <<setting, urls>> /\ Len(registered) <= Len(registered')
       /\ \A j \in 1..Len(registered) : registered'[j] = registered[j]
       /\ Possible(q)
  BY <1>a, <1>v DEF AssetTypeOK
<1> QED
  BY <1>q, <1>5, <1>6, <1>7, <1>9, <1>10, StepKeeps, ZenonT(30)

-----------------------------------------------------------------------------
(***************************************************************************)
(* A client goes away; a URL is given out and used; the process restarts.  *)
(***************************************************************************)
LEMMA CancelKeeps ==
    ASSUME AssetInv, NEW s \in Slots, UNCHANGED setting, Cancel(s)
    PROVE  AssetInv'
<1>a. /\ slot[s] \in Request
      /\ failures' \in 0..setting.failures /\ setting.cancels /\ Halved({s})
      /\ UNCHANGED <<setting, registered, record, object, urls>>
      /\ AssetTypeOK
      /\ upload' = upload \/ (slot[s].at = "create" /\ SetUpload(slot[s].id, {}))
  BY FailuresTyped DEF AssetInv, AssetTypeOK, Cancel
<1>o. ~OneAtATime
  BY <1>a DEF OneAtATime
<1>b. WritesDeclared(slot[s]) \/ ~ComparedFirst
  BY DEF AssetInv, WritersCompared
<1>q. PICK q \in Request : /\ slot' = [slot EXCEPT ![s] = q]
                           /\ Possible(q)
                           /\ ComparedFirst => WritesDeclared(q)
  <2>1. CASE Done(s)
    <3>1. Possible(Vacant) /\ WritesDeclared(Vacant)
      BY VacantIsIdle, EasyRelies DEF Easy
    <3>2. slot' = [slot EXCEPT ![s] = Vacant]
      BY <2>1 DEF Done, To
    <3> QED
      BY <3>1, <3>2, VacantIsIdle
  <2>2. CASE /\ slot[s].at \in {"store", "commit"}
             /\ To(s, [at |-> "putting", id |-> slot[s].id, bytes |-> slot[s].bytes])
    <3> DEFINE q == [at |-> "putting", id |-> slot[s].id, bytes |-> slot[s].bytes]
    <3>1. slot[s].id \in Ids /\ slot[s].bytes \in Bytes
      BY <1>a, <2>2, Shapes
    <3>2. q \in Request /\ q.at = "putting" /\ q.id = slot[s].id /\ q.bytes = slot[s].bytes
      BY <3>1 DEF Request
    <3>3. slot' = [slot EXCEPT ![s] = q]
      BY <2>2 DEF To
    <3> HIDE DEF q
    <3>4. slot[s].at = "commit" => ~ComparedFirst
      BY DEF AssetInv, SupportedOnly, Possible, Late, ComparedFirst
    <3>5. ComparedFirst => WritesDeclared(q)
      BY <1>b, <2>2, <3>2, <3>4 DEF WritesDeclared
    <3>6. Possible(q)
      BY <1>a, <3>2 DEF Possible, Late
    <3> QED
      BY <3>2, <3>3, <3>5, <3>6
  <2>3. CASE /\ slot[s].at \in {"erase", "cleanup"}
             /\ To(s, [at |-> "deleting", id |-> slot[s].id])
    <3> DEFINE q == [at |-> "deleting", id |-> slot[s].id]
    <3>1. slot[s].id \in Ids
      BY <1>a, <2>3, Shapes
    <3>2. q \in Request /\ q.at = "deleting"
      BY <3>1 DEF Request
    <3>3. slot' = [slot EXCEPT ![s] = q]
      BY <2>3 DEF To
    <3> HIDE DEF q
    <3>4. Possible(q) /\ WritesDeclared(q)
      BY <1>a, <3>2 DEF Possible, Late, WritesDeclared
    <3> QED
      BY <3>2, <3>3, <3>4
  <2>4. ASSUME NEW late \in Files(s), To(s, [at |-> late, id |-> slot[s].id])
        PROVE  \E q \in Request : /\ slot' = [slot EXCEPT ![s] = q] /\ Possible(q)
                                  /\ ComparedFirst => WritesDeclared(q)
    <3> DEFINE q == [at |-> late, id |-> slot[s].id]
    <3>1. /\ late \in {"creating", "removing"}
          /\ slot[s].at \in {"create", "take", "abandon"}
      BY DEF Files
    <3>2. slot[s].id \in Ids
      BY <1>a, <3>1, Shapes
    <3>3. q \in Request /\ q.at \in {"creating", "removing"}
      BY <3>1, <3>2 DEF Request
    <3>4. slot' = [slot EXCEPT ![s] = q]
      BY <2>4 DEF To
    <3> HIDE DEF q
    <3>5. Possible(q) /\ WritesDeclared(q)
      BY <1>a, <3>3 DEF Possible, Late, WritesDeclared
    <3> QED
      BY <3>3, <3>4, <3>5
  <2> QED
    BY <2>1, <2>2, <2>3, <2>4 DEF Cancel
<1>u. \A j \in Ids : upload'[j] \subseteq upload[j]
  BY <1>a DEF AssetTypeOK, SetUpload
<1>c. upload' \in [Ids -> SUBSET UploadRecord] /\ \A j \in Ids : AtMostOne(upload'[j])
  <2>1. upload' = [j \in Ids |-> upload'[j]]
    BY <1>a DEF AssetTypeOK, SetUpload
  <2> QED
    BY <1>a, <1>u, <2>1 DEF AssetTypeOK, AtMostOne
<1>5. AssetTypeOK'
  <2>1. slot' \in [Slots -> Request]
    BY <1>a, <1>q DEF AssetTypeOK
  <2>2. slot[s].at = "remove" => slot[s].id \in Ids
    BY <1>a, Shapes
  <2>3. halved' \subseteq Ids
    BY <1>a, <2>2 DEF Halved, AssetTypeOK
  <2> QED
    BY <1>a, <1>c, <2>1, <2>3, SettingStays DEF AssetTypeOK, AtMostOne
<1>6. \A j \in Ids : \A u \in upload'[j] : u.hold => Profile # "fs"
  BY <1>u DEF AssetInv, SupportedOnly
<1>7. ComparedFirst => /\ \A j \in Ids : \A b \in object'[j] : BeginsAs(j, b)
                       /\ WritesDeclared(q)
  BY <1>a, <1>q DEF AssetInv, WritersCompared
<1>9. OneAtATime => /\ slot[s] = Vacant => \A t \in Slots : slot[t] = Vacant
                    /\ ReliesOnRecord(q)' /\ ReliesOnObject(q)'
                    /\ HoldsFollow' /\ AvailableAreIntact' /\ ObjectsAreOwned'
  BY <1>o
<1>10. /\ UNCHANGED <<setting, urls>> /\ Len(registered) <= Len(registered')
       /\ \A j \in 1..Len(registered) : registered'[j] = registered[j]
       /\ Possible(q) /\ slot' = [slot EXCEPT ![s] = q]
  BY <1>a, <1>q DEF AssetTypeOK
<1> QED
  BY <1>q, <1>5, <1>6, <1>7, <1>9, <1>10, StepKeeps, ZenonT(30)

LEMMA StoresAside ==
    ASSUME AssetInv, AssetTypeOK',
           UNCHANGED <<setting, registered, record, object, slot, halved>>,
           \A i \in Ids : (\E v \in upload'[i] : v.hold) => \E u \in upload[i] : u.hold,
           urls' # {} => Profile = "s3" /\ "presign" \in Operations
    PROVE  AssetInv'
<1>a. /\ UNCHANGED <<setting, registered, record, object, slot, halved>>
      /\ \A i \in Ids : (\E v \in upload'[i] : v.hold) => \E u \in upload[i] : u.hold
  OBVIOUS
<1>1. AssetTypeOK'
  OBVIOUS
<1>3. SupportedOnly'
  BY <1>a, SettingStays DEF AssetInv, SupportedOnly, Possible, Late
<1>c. \A j : Content(registered[j])' = Content(registered[j])
  BY <1>a, SettingStays
<1>d. ASSUME NEW j, NEW b
      PROVE  (BeginsAs(j, b)' <=> BeginsAs(j, b)) /\ (DeclaredAs(j, b)' <=> DeclaredAs(j, b))
             /\ (Holds(j, b)' <=> Holds(j, b)) /\ (PendingAs(j)' <=> PendingAs(j))
  BY <1>a, <1>c, SettingStays DEF BeginsAs, DeclaredAs, Holds, PendingAs
<1>4. WritersCompared'
  <2>1. \A s \in Slots : WritesDeclared(slot[s])' <=> WritesDeclared(slot[s])
    BY <1>a, <1>d DEF WritesDeclared
  <2> QED
    BY <1>a, <1>d, <2>1, SettingStays DEF AssetInv, WritersCompared
<1>5. AloneInv'
  <2>1. ASSUME NEW s \in Slots
        PROVE  /\ ReliesOnRecord(slot[s])' <=> ReliesOnRecord(slot[s])
               /\ ReliesOnObject(slot[s])' <=> ReliesOnObject(slot[s])
    BY <1>a, <1>c, <1>d, SettingStays DEF ReliesOnRecord, ReliesOnObject
  <2>2. /\ OneBusy => OneBusy'
        /\ HoldsFollow => HoldsFollow'
        /\ ObjectsAreOwned => ObjectsAreOwned'
    BY <1>a, SettingStays DEF OneBusy, HoldsFollow, ObjectsAreOwned
  <2>3. AvailableAreIntact => AvailableAreIntact'
    BY <1>a, <1>c, SettingStays DEF AvailableAreIntact, Intact
  <2> QED
    BY <2>1, <2>2, <2>3, SettingStays DEF AssetInv, AloneInv
<1> QED
  BY <1>1, <1>3, <1>4, <1>5 DEF AssetInv

LEMMA WriteLandsKeeps ==
    ASSUME AssetInv, UNCHANGED setting, WriteLands
    PROVE  AssetInv'
<1>a. /\ UNCHANGED <<setting, registered, record, object, urls, slot, halved, failures>>
      /\ upload \in [Ids -> SUBSET UploadRecord] /\ \A j \in Ids : AtMostOne(upload[j])
  BY DEF WriteLands, AssetInv, AssetTypeOK
<1>i. PICK i \in Ids : \E u \in upload[i] : \E w \in u.writing :
         upload' = [upload EXCEPT ![i] = {[u EXCEPT !.bytes = Append(@, w[2]), !.writing = @ \ {w}]}]
  BY DEF WriteLands, SetUpload
<1>u. PICK u \in upload[i] : \E w \in u.writing :
         upload' = [upload EXCEPT ![i] = {[u EXCEPT !.bytes = Append(@, w[2]), !.writing = @ \ {w}]}]
  BY <1>i
<1>1. PICK w \in u.writing :
         upload' = [upload EXCEPT ![i] = {[u EXCEPT !.bytes = Append(@, w[2]), !.writing = @ \ {w}]}]
  BY <1>u
<1> DEFINE v == [u EXCEPT !.bytes = Append(@, w[2]), !.writing = @ \ {w}]
<1>2. v \in UploadRecord /\ v.hold = u.hold
  <2>1. u \in UploadRecord /\ w \in Slots \X Chunk
    BY <1>a DEF UploadRecord
  <2>2. Append(u.bytes, w[2]) \in Bytes
    BY <2>1 DEF UploadRecord, Bytes
  <2> QED
    BY <2>1, <2>2 DEF UploadRecord
<1>3. upload' = [upload EXCEPT ![i] = {v}]
  BY <1>1
<1> HIDE DEF v
<1>4. upload'[i] = {v} /\ \A j \in Ids \ {i} : upload'[j] = upload[j]
  BY <1>a, <1>3
<1>5. upload' \in [Ids -> SUBSET UploadRecord] /\ \A j \in Ids : AtMostOne(upload'[j])
  BY <1>a, <1>2, <1>3, <1>4 DEF AtMostOne
<1>6. AssetTypeOK'
  BY <1>a, <1>5, SettingStays DEF AssetInv, AssetTypeOK, AtMostOne
<1>7. \A j \in Ids : (\E x \in upload'[j] : x.hold) => \E y \in upload[j] : y.hold
  BY <1>2, <1>4
<1>8. urls' # {} => Profile = "s3" /\ "presign" \in Operations
  BY <1>a DEF AssetInv, SupportedOnly
<1> QED
  BY <1>a, <1>6, <1>7, <1>8, StoresAside

LEMMA PresignKeeps ==
    ASSUME AssetInv, UNCHANGED setting, Presign
    PROVE  AssetInv'
<1>a. /\ UNCHANGED <<setting, registered, record, object, upload, slot, halved, failures>>
      /\ "presign" \in Operations /\ Profile = "s3" /\ Pending /\ urls' = urls \cup {Id}
  BY DEF Presign
<1>1. AssetTypeOK'
  BY <1>a, PendingFacts, SettingStays DEF AssetInv, AssetTypeOK, AtMostOne
<1> QED
  BY <1>a, <1>1, StoresAside

LEMMA ClientPutKeeps ==
    ASSUME AssetInv, UNCHANGED setting, ClientPut
    PROVE  AssetInv'
<1>a. /\ UNCHANGED <<setting, registered, record, upload, urls, slot, halved, failures>>
      /\ setting \in Settings /\ urls \subseteq Ids /\ object \in [Ids -> SUBSET Bytes]
  BY DEF ClientPut, AssetInv, AssetTypeOK
<1>b. PICK i \in urls, c \in Contents : object' = [object EXCEPT ![i] = {Content(c)}]
  BY DEF ClientPut
<1>c. ~ComparedFirst /\ ~ThroughTheServer /\ i \in Ids
  BY <1>a, <1>b DEF AssetInv, SupportedOnly, ComparedFirst, ThroughTheServer
<1>d. Content(c) \in Bytes
  BY <1>a, ContentIsBytes
<1>o. /\ object' \in [Ids -> SUBSET Bytes]
      /\ \A j \in Ids : object'[j] = object[j] \/ object'[j] = {Content(c)}
      /\ \A j \in Ids : object[j] # {} => object'[j] # {}
  BY <1>a, <1>b, <1>c, <1>d
<1>1. AssetTypeOK'
  BY <1>a, <1>o, SettingStays DEF AssetInv, AssetTypeOK, AtMostOne
<1>3. SupportedOnly'
  BY <1>a, SettingStays DEF AssetInv, SupportedOnly, Possible, Late
<1>4. WritersCompared'
  BY <1>c, SettingStays DEF WritersCompared
<1>5. AloneInv'
  <2> SUFFICES ASSUME OneAtATime' PROVE AloneInv'
    BY DEF AloneInv
  <2>1. /\ OneBusy /\ HoldsFollow /\ AvailableAreIntact
        /\ \A s \in Slots : ReliesOnRecord(slot[s]) /\ ReliesOnObject(slot[s])
    BY SettingStays DEF AssetInv, AloneInv
  <2>2. OneBusy' /\ HoldsFollow' /\ \A s \in Slots : ReliesOnRecord(slot[s])'
    BY <1>a, <2>1, SettingStays DEF OneBusy, HoldsFollow, ReliesOnRecord, PendingAs
  <2>3. ASSUME NEW s \in Slots PROVE ReliesOnObject(slot[s])'
    <3>1. slot[s] \in Request /\ setting.records \in Nat /\ slot'[s] = slot[s]
      BY <1>a, SettingFacts DEF AssetInv, AssetTypeOK
    <3>2. slot[s].at \in {"hold", "fetch", "available"} => slot[s].id \in Ids
      BY <3>1, Shapes
    <3>3. slot[s].at = "read" /\ slot[s].began # 0 => slot[s].began \in Ids
      BY <3>1, Shapes DEF Ids
    <3>4. ASSUME NEW j \in Ids, NEW b, Holds(j, b) PROVE Holds(j, b)'
      BY <1>c, <1>o, <3>4, SettingStays DEF Holds
    <3>5. \A j : Content(registered[j])' = Content(registered[j])
      BY <1>a, SettingStays
    <3> QED
      BY <1>a, <1>c, <2>1, <3>2, <3>3, <3>4, <3>5, SettingStays DEF ReliesOnObject, DeclaredAs
  <2>4. AvailableAreIntact'
    <3>1. \A r \in record : r.id \in Ids
      BY SettingFacts DEF AssetInv, AssetTypeOK, Ids
    <3> QED
      BY <1>a, <1>c, <1>o, <2>1, <3>1, SettingStays DEF AvailableAreIntact, Intact
  <2>5. ObjectsAreOwned'
    BY <1>c, SettingStays DEF ObjectsAreOwned
  <2> QED
    BY <2>2, <2>3, <2>4, <2>5 DEF AloneInv
<1> QED
  BY <1>1, <1>3, <1>4, <1>5 DEF AssetInv

LEMMA RebootKeeps ==
    ASSUME AssetInv, UNCHANGED setting, Reboot
    PROVE  AssetInv'
<1> DEFINE rid(u) == [u EXCEPT !.writing = {}]
           Writing(i) == {t \in Slots : slot[t].at \in {"store", "putting"} /\ slot[t].id = i}
<1>a. /\ UNCHANGED <<setting, registered, record, urls>> /\ failures' \in 0..setting.failures
      /\ slot' = [s \in Slots |-> Vacant] /\ Halved(Slots) /\ AssetTypeOK
      /\ setting \in Settings /\ Profile \in {"fs", "s3"}
      /\ upload' = [i \in Ids |-> IF Profile = "s3" THEN {} ELSE {rid(u) : u \in upload[i]}]
  BY FailuresTyped, SettingFacts DEF Reboot, AssetInv, AssetTypeOK
<1>b. ASSUME NEW i \in Ids, object'[i] # object[i]
      PROVE  \E t \in Writing(i) : object'[i] \in CutShort(object[i], slot[t].bytes)
  BY <1>b DEF Reboot
<1>c. object' = [i \in Ids |-> object'[i]]
  BY DEF Reboot
<1>d. ASSUME NEW i \in Ids, NEW t \in Writing(i)
      PROVE  slot[t].bytes \in Bytes /\ (ComparedFirst => DeclaredAs(i, slot[t].bytes))
  <2>1. slot[t].bytes \in Bytes
    BY <1>a, Shapes DEF AssetTypeOK
  <2>2. ComparedFirst => DeclaredAs(i, slot[t].bytes)
    BY DEF AssetInv, WritersCompared, WritesDeclared
  <2> QED
    BY <2>1, <2>2
<1>e. \A i \in Ids : ObjectFits(i, object'[i])
  <2> SUFFICES ASSUME NEW i \in Ids PROVE ObjectFits(i, object'[i])
    OBVIOUS
  <2>1. CASE object'[i] = object[i]
    BY <1>a, <2>1 DEF ObjectFits, AssetInv, WritersCompared, AssetTypeOK
  <2>2. CASE object'[i] # object[i]
    <3>1. PICK t \in Writing(i) : object'[i] \in CutShort(object[i], slot[t].bytes)
      BY <1>b, <2>2
    <3>2. slot[t].bytes \in Bytes /\ (ComparedFirst => DeclaredAs(i, slot[t].bytes))
      BY <1>d
    <3> QED
      BY <3>1, <3>2, CutShortFits
  <2> QED
    BY <2>1, <2>2
<1>u. \A i \in Ids : UploadFits(i, upload'[i]) /\ (\A u \in upload'[i] : ~u.hold)
  <2> SUFFICES ASSUME NEW i \in Ids
               PROVE  UploadFits(i, upload'[i]) /\ (\A u \in upload'[i] : ~u.hold)
    OBVIOUS
  <2>1. upload'[i] = {} \/ (Profile = "fs" /\ upload'[i] = {rid(u) : u \in upload[i]})
    BY <1>a
  <2>2. \A u \in upload[i] : rid(u) \in UploadRecord /\ rid(u).hold = u.hold
    BY <1>a DEF AssetTypeOK, UploadRecord
  <2>3. Profile = "fs" => \A u \in upload[i] : ~u.hold
    BY DEF AssetInv, SupportedOnly
  <2>4. AtMostOne(upload'[i])
    <3>1. \A x, y \in upload[i] : x = y
      BY <1>a DEF AssetTypeOK, AtMostOne
    <3>2. CASE upload'[i] = {}
      BY <3>2 DEF AtMostOne
    <3>3. CASE upload'[i] = {rid(u) : u \in upload[i]}
      <4> HIDE DEF rid
      <4> QED
        BY <3>1, <3>3 DEF AtMostOne
    <3> QED
      BY <2>1, <3>2, <3>3
  <2>5. ASSUME NEW v \in upload'[i] PROVE v \in UploadRecord /\ ~v.hold
    <3>1. Profile = "fs" /\ \E u \in upload[i] : v = rid(u)
      BY <2>1, <2>5
    <3>2. PICK u \in upload[i] : v = rid(u)
      BY <3>1
    <3>3. ~u.hold
      BY <2>3, <3>1
    <3> QED
      BY <2>2, <3>2, <3>3
  <2> QED
    BY <2>4, <2>5 DEF UploadFits
<1>1. AssetTypeOK'
  <2>1. slot' \in [Slots -> Request]
    BY <1>a, VacantIsIdle
  <2>2. object' \in [Ids -> SUBSET Bytes] /\ \A i \in Ids : AtMostOne(object'[i])
    BY <1>c, <1>e DEF ObjectFits
  <2>3. /\ upload' \in [Ids -> SUBSET UploadRecord]
        /\ \A i \in Ids : AtMostOne(upload'[i])
    <3>1. upload' = [i \in Ids |-> upload'[i]]
      BY <1>a DEF AssetTypeOK
    <3> QED
      BY <1>u, <3>1 DEF UploadFits
  <2>4. halved' \subseteq Ids
    <3>1. \A t \in Slots : slot[t].at = "remove" => slot[t].id \in Ids
      BY <1>a, Shapes DEF AssetTypeOK
    <3> QED
      BY <1>a, <3>1 DEF Halved, AssetTypeOK
  <2> QED
    BY <1>a, <2>1, <2>2, <2>3, <2>4, SettingStays DEF AssetTypeOK, AtMostOne
<1>v. /\ Possible(Vacant)' /\ WritesDeclared(Vacant)'
      /\ ReliesOnRecord(Vacant)' /\ ReliesOnObject(Vacant)'
  BY VacantIsIdle DEF Vacant, Possible, Late, WritesDeclared, ReliesOnRecord, ReliesOnObject
<1>w. \A s \in Slots : slot'[s] = Vacant
  BY <1>a
<1>3. SupportedOnly'
  BY <1>a, <1>u, <1>v, <1>w, SettingStays DEF AssetInv, SupportedOnly
<1>4. WritersCompared'
  <2>1. ASSUME ComparedFirst, NEW i \in Ids, NEW b \in object'[i] PROVE BeginsAs(i, b)'
    <3>1. BeginsAs(i, b)
      BY <1>e, <2>1 DEF ObjectFits
    <3> QED
      BY <1>a, <3>1, SettingStays DEF BeginsAs
  <2> QED
    BY <1>v, <1>w, <2>1, SettingStays DEF WritersCompared
<1>5. AloneInv'
  <2> SUFFICES ASSUME OneAtATime PROVE AloneInv'
    BY SettingStays DEF AloneInv
  <2>1. /\ OneBusy /\ AvailableAreIntact /\ ObjectsAreOwned
        /\ \A s \in Slots : ReliesOnRecord(slot[s]) /\ ReliesOnObject(slot[s])
    BY DEF AssetInv, AloneInv
  <2>2. OneBusy' /\ \A s \in Slots : ReliesOnRecord(slot[s])' /\ ReliesOnObject(slot[s])'
    BY <1>v, <1>w DEF OneBusy
  <2>3. HoldsFollow'
    BY <1>u, SettingStays DEF HoldsFollow
  <2>4. ASSUME NEW i \in Ids, object'[i] # object[i] PROVE PendingAs(i)
    <3>1. PICK t \in Writing(i) : TRUE
      BY <1>b, <2>4
    <3>2. slot[t].at # "putting"
      BY DEF OneAtATime, AssetInv, SupportedOnly, Possible, Late
    <3> QED
      BY <2>1, <3>1, <3>2 DEF ReliesOnRecord
  <2>5. ASSUME NEW r \in record, r.kind = "managed", r.state = "available", r.id \notin halved'
        PROVE  Intact(r)'
    <3>1. r.id \in Ids
      BY <1>a, SettingFacts DEF AssetTypeOK, Ids
    <3>2. \A t \in Slots : slot[t].at # "remove"
      <4> SUFFICES ASSUME NEW t \in Slots, slot[t].at = "remove" PROVE FALSE
        OBVIOUS
      <4>1. slot[t].id = r.id
        BY <1>a, <2>1 DEF ReliesOnRecord, AssetTypeOK, AtMostOne
      <4> QED
        BY <1>a, <2>5, <4>1 DEF Halved
    <3>3. Intact(r)
      BY <1>a, <2>1, <2>5, <3>2 DEF AvailableAreIntact, Halved
    <3>4. object'[r.id] = object[r.id]
      <4>1. ~PendingAs(r.id)
        BY <1>a, <2>5 DEF PendingAs, AssetTypeOK, AtMostOne
      <4> QED
        BY <2>4, <3>1, <4>1
    <3> QED
      BY <1>a, <3>3, <3>4, SettingStays DEF Intact
  <2>6. AvailableAreIntact'
    BY <1>a, <2>5 DEF AvailableAreIntact
  <2>7. ObjectsAreOwned'
    <3>1. ASSUME ThroughTheServer, NEW i \in Ids, object'[i] # {}
          PROVE  \E r \in record : r.id = i /\ r.kind = "managed"
      BY <2>1, <2>4, <3>1 DEF ObjectsAreOwned, PendingAs
    <3> QED
      BY <1>a, <3>1, SettingStays DEF ObjectsAreOwned
  <2> QED
    BY <2>2, <2>3, <2>6, <2>7 DEF AloneInv
<1> QED
  BY <1>1, <1>3, <1>4, <1>5 DEF AssetInv

-----------------------------------------------------------------------------
LEMMA AssetInitHolds == AssetInit => AssetInv
<1> SUFFICES ASSUME AssetInit PROVE AssetInv
  OBVIOUS
<1>1. /\ setting \in Settings /\ registered = <<>> /\ record = {} /\ urls = {} /\ halved = {}
      /\ failures = 0 /\ object = [i \in Ids |-> {}] /\ upload = [i \in Ids |-> {}]
      /\ slot = [s \in Slots |-> Vacant]
      /\ setting.records \in Nat /\ setting.failures \in Nat
  BY SettingFacts DEF AssetInit
<1>2. AssetTypeOK
  BY <1>1, VacantIsIdle DEF AssetTypeOK, AtMostOne
<1>v. /\ Possible(Vacant) /\ WritesDeclared(Vacant)
      /\ ReliesOnRecord(Vacant) /\ ReliesOnObject(Vacant)
  BY VacantIsIdle, EasyRelies DEF Easy
<1>w. \A s \in Slots : slot[s] = Vacant
  BY <1>1
<1>3. SupportedOnly /\ WritersCompared
  BY <1>1, <1>v, <1>w DEF SupportedOnly, WritersCompared
<1>4. AloneInv
  BY <1>1, <1>v, <1>w DEF AloneInv, OneBusy, HoldsFollow, AvailableAreIntact, ObjectsAreOwned
<1> QED
  BY <1>2, <1>3, <1>4 DEF AssetInv

LEMMA AssetStands ==
    ASSUME AssetInv, UNCHANGED assetVars
    PROVE  AssetInv'
<1>a. UNCHANGED <<setting, registered, record, object, upload, urls, slot, halved, failures>>
  BY DEF assetVars
<1>1. AssetTypeOK'
  BY <1>a, SettingStays DEF AssetInv, AssetTypeOK, AtMostOne
<1>2. urls' # {} => Profile = "s3" /\ "presign" \in Operations
  BY <1>a DEF AssetInv, SupportedOnly
<1> QED
  BY <1>a, <1>1, <1>2, StoresAside

(***************************************************************************)
(* Every step keeps the invariant.                                         *)
(***************************************************************************)
LEMMA AssetStepKeeps ==
    ASSUME AssetInv, AssetNext
    PROVE  AssetInv'
<1>1. CASE \E s \in Slots : Receive(s) \/ Continue(s) \/ Cancel(s) \/ Lands(s)
  <2> SUFFICES ASSUME NEW s \in Slots, UNCHANGED setting,
                      Receive(s) \/ Continue(s) \/ Cancel(s) \/ Lands(s)
               PROVE  AssetInv'
    BY <1>1 DEF AssetNext
  <2>1. CASE Receive(s)
    BY <2>1, ReceiveKeeps
  <2>2. CASE Register(s) \/ Erase(s) \/ Remove(s)
    BY <2>2, RegisterKeeps, EraseKeeps, RemoveKeeps
  <2>3. CASE ReadRecord(s) \/ CleanUp(s) \/ StoreObject(s) \/ Finalize(s) \/ ReleaseHold(s)
    BY <2>3, ReadRecordKeeps, CleanUpKeeps, StoreObjectKeeps, FinalizeKeeps, ReleaseKeeps
  <2>4. CASE ProbeUpload(s) \/ Create(s) \/ AppendChunk(s) \/ Flush(s)
    BY <2>4, ProbeUploadKeeps, CreateKeeps, AppendKeeps, FlushKeeps
  <2>5. CASE Take(s) \/ CommitUpload(s) \/ HoldKey(s) \/ Fetch(s)
    BY <2>5, TakeKeeps, CommitKeeps, HoldKeyKeeps, FetchKeeps
  <2>6. CASE AbandonUpload(s) \/ Abort(s) \/ HeadObject(s)
    BY <2>6, AbandonKeeps, AbortKeeps, HeadObjectKeeps
  <2>7. CASE Cancel(s) \/ Lands(s)
    BY <2>7, CancelKeeps, LandsKeeps
  <2> QED
    BY <2>1, <2>2, <2>3, <2>4, <2>5, <2>6, <2>7 DEF Continue
<1>2. CASE WriteLands \/ Presign \/ ClientPut \/ Reboot
  BY <1>2, WriteLandsKeeps, PresignKeeps, ClientPutKeeps, RebootKeeps DEF AssetNext
<1> QED
  BY <1>1, <1>2 DEF AssetNext

-----------------------------------------------------------------------------
(***************************************************************************)
(* Where writes are awaited: the uploads' chunks are in place, also those  *)
(* of an upload that a handler has taken and may put back; one handler at  *)
(* most has the lock for a write, and every write under way in a staging   *)
(* file is that handler's, which compared the length the file still has.   *)
(***************************************************************************)
InPlace(b) == \A n \in 1..Len(b) : b[n][2] = n

CarriesInPlace(q) ==
    /\ q.at \in {"commit", "hold", "abort"} => InPlace(q.bytes)
    /\ q.at \in {"append", "flush"} => q.chunk[2] = q.offset + 1

WritesFollow ==
    /\ \A s, t \in Slots : slot[s].at = "flush" /\ slot[t].at = "flush" => s = t
    /\ \A i \in Ids : \A u \in upload[i] : \A w \in u.writing :
         LET q == slot[w[1]]
         IN  q.at = "flush" /\ q.id = i /\ q.chunk = w[2] /\ q.offset = Len(u.bytes)

ChunksFollow ==
    WritesAreAwaited =>
        /\ \A i \in Ids : \A u \in upload[i] : InPlace(u.bytes)
        /\ \A s \in Slots : CarriesInPlace(slot[s])
        /\ WritesFollow

Plain(q) == q.at \notin {"commit", "hold", "abort", "append", "flush"}

(***************************************************************************)
(* A step of a slot that neither has nor gets the lock for a write keeps   *)
(* them, if what it leaves behind is an upload that was there, or one in   *)
(* place and without a write under way.                                    *)
(***************************************************************************)
LEMMA ChunksStay ==
    ASSUME AssetTypeOK, ChunksFollow, UNCHANGED setting, NEW s \in Slots, NEW q,
           slot' = [slot EXCEPT ![s] = q], slot[s].at # "flush", q.at # "flush",
           WritesAreAwaited =>
               /\ CarriesInPlace(q)
               /\ \A i \in Ids : \A u \in upload'[i] :
                    u \in upload[i] \/ (InPlace(u.bytes) /\ u.writing = {})
    PROVE  ChunksFollow'
<1> SUFFICES ASSUME WritesAreAwaited'
             PROVE  /\ \A i \in Ids : \A u \in upload'[i] : InPlace(u.bytes)
                    /\ \A t \in Slots : CarriesInPlace(slot'[t])
                    /\ WritesFollow'
  BY SettingStays DEF ChunksFollow, CarriesInPlace, InPlace
<1>a. WritesAreAwaited /\ Ids' = Ids
  BY SettingStays
<1>t. slot \in [Slots -> Request] /\ upload \in [Ids -> SUBSET UploadRecord]
  BY DEF AssetTypeOK
<1>1. slot'[s] = q /\ \A t \in Slots \ {s} : slot'[t] = slot[t]
  BY <1>t
<1>2. \A i \in Ids : \A u \in upload'[i] : InPlace(u.bytes)
  BY <1>a DEF ChunksFollow
<1>3. \A t \in Slots : CarriesInPlace(slot'[t])
  <2> SUFFICES ASSUME NEW t \in Slots PROVE CarriesInPlace(slot'[t])
    OBVIOUS
  <2>1. CASE t = s
    BY <1>1, <1>a, <2>1
  <2>2. CASE t # s
    BY <1>1, <1>a, <2>2 DEF ChunksFollow
  <2> QED
    BY <2>1, <2>2
<1>4. \A x, y \in Slots : slot'[x].at = "flush" /\ slot'[y].at = "flush" => x = y
  BY <1>1, <1>a DEF ChunksFollow, WritesFollow
<1>5. ASSUME NEW i \in Ids, NEW u \in upload'[i], NEW w \in u.writing
      PROVE  /\ slot'[w[1]].at = "flush" /\ slot'[w[1]].id = i
             /\ slot'[w[1]].chunk = w[2] /\ slot'[w[1]].offset = Len(u.bytes)
  <2>1. u \in upload[i]
    BY <1>a
  <2>2. w[1] \in Slots
    BY <1>t, <2>1 DEF UploadRecord
  <2>3. /\ slot[w[1]].at = "flush" /\ slot[w[1]].id = i
        /\ slot[w[1]].chunk = w[2] /\ slot[w[1]].offset = Len(u.bytes)
    BY <1>a, <2>1 DEF ChunksFollow, WritesFollow
  <2>4. slot'[w[1]] = slot[w[1]]
    BY <1>1, <2>2, <2>3
  <2> QED
    BY <2>3, <2>4
<1>6. WritesFollow'
  BY <1>a, <1>4, <1>5 DEF WritesFollow
<1> QED
  BY <1>2, <1>3, <1>6

LEMMA PlainMove ==
    ASSUME AssetTypeOK, ChunksFollow, UNCHANGED <<setting, upload>>, NEW s \in Slots, NEW q,
           slot' = [slot EXCEPT ![s] = q], slot[s].at # "flush", Plain(q)
    PROVE  ChunksFollow'
  BY ChunksStay DEF Plain, CarriesInPlace

(* With the lock free nothing is under way in a file.                      *)
LEMMA FilesAreQuiet ==
    ASSUME AssetTypeOK, ChunksFollow, WritesAreAwaited, FilesFree,
           NEW i \in Ids, NEW u \in upload[i]
    PROVE  u.writing = {}
<1>1. u.writing \subseteq Slots \X Chunk
  BY DEF AssetTypeOK, UploadRecord
<1>2. \A w \in u.writing : slot[w[1]].at = "flush"
  BY DEF ChunksFollow, WritesFollow
<1> QED
  BY <1>1, <1>2 DEF FilesFree

LEMMA PlainTo ==
    ASSUME NEW s, NEW q, To(s, q), Plain(q)
    PROVE  \E p : slot' = [slot EXCEPT ![s] = p] /\ Plain(p)
  BY DEF To

LEMMA CarriedTo ==
    ASSUME NEW s, NEW q, To(s, q), q.at # "flush", WritesAreAwaited => CarriesInPlace(q)
    PROVE  \E p : /\ slot' = [slot EXCEPT ![s] = p] /\ p.at # "flush"
                  /\ WritesAreAwaited => CarriesInPlace(p)
  BY DEF To

LEMMA GoesPlain ==
    ASSUME AssetTypeOK, NEW s \in Slots,
           \/ Done(s) \/ Ends(s)
           \/ \E a \in {"create", "remove", "failed", "available", "fetch", "release"} : Goes(s, a)
    PROVE  \E q : slot' = [slot EXCEPT ![s] = q] /\ Plain(q)
<1>1. slot[s] \in Request
  BY DEF AssetTypeOK
<1>2. CASE Done(s)
  BY <1>2, VacantIsIdle DEF Done, To, Plain
<1>3. ASSUME NEW a \in {"create", "remove", "failed", "available", "fetch", "release"}, Goes(s, a)
      PROVE  \E q : slot' = [slot EXCEPT ![s] = q] /\ Plain(q)
  <2>1. [slot[s] EXCEPT !.at = a].at = a
    BY <1>1, GoesAt
  <2> QED
    BY <1>3, <2>1 DEF Goes, To, Plain
<1> QED
  BY <1>2, <1>3 DEF Ends

(***************************************************************************)
(* The steps that leave the uploads alone.                                 *)
(***************************************************************************)
LEMMA ReceiveInPlace ==
    ASSUME AssetTypeOK, ChunksFollow, NEW s \in Slots, UNCHANGED setting, Receive(s)
    PROVE  ChunksFollow'
<1>1. UNCHANGED upload /\ slot[s].at = "idle"
  BY VacantIsIdle DEF Receive, ReadToRegister, ReadToDelete, PutData, ReadToFinalize, Resumable
<1>2. PICK q : /\ slot' = [slot EXCEPT ![s] = q] /\ q.at # "flush"
               /\ WritesAreAwaited => CarriesInPlace(q)
  <2>1. CASE ReadToRegister(s)
    BY <2>1, CarriedTo DEF ReadToRegister, CarriesInPlace
  <2>2. CASE ReadToDelete(s)
    BY <2>2, CarriedTo DEF ReadToDelete, CarriesInPlace
  <2>3. CASE PutData(s) \/ ReadToFinalize(s)
    BY <2>3, CarriedTo DEF PutData, ReadToFinalize, CarriesInPlace
  <2>4. CASE \/ To(s, [at |-> "probe", id |-> Id]) \/ To(s, [at |-> "abandon", id |-> Id])
             \/ To(s, [at |-> "take", id |-> Id, began |-> Id])
    BY <2>4, CarriedTo DEF CarriesInPlace
  <2>5. ASSUME NEW c \in Contents, NEW o \in 0..(Size - 1),
               To(s, [at |-> "append", id |-> Id, offset |-> o, chunk |-> <<c, o + 1>>])
        PROVE  \E q : /\ slot' = [slot EXCEPT ![s] = q] /\ q.at # "flush"
                      /\ WritesAreAwaited => CarriesInPlace(q)
    BY <2>5, CarriedTo DEF CarriesInPlace
  <2>6. CASE Resumable(s)
    BY <2>4, <2>5, <2>6 DEF Resumable
  <2> QED
    BY <2>1, <2>2, <2>3, <2>6 DEF Receive
<1> QED
  BY <1>1, <1>2, ChunksStay

LEMMA PlainInPlace ==
    ASSUME AssetTypeOK, ChunksFollow, NEW s \in Slots, UNCHANGED setting,
           \/ Register(s) \/ Erase(s) \/ Remove(s) \/ ReadRecord(s) \/ CleanUp(s)
           \/ StoreObject(s) \/ Finalize(s) \/ ProbeUpload(s) \/ Fetch(s) \/ HeadObject(s)
    PROVE  ChunksFollow'
<1>1. UNCHANGED upload /\ slot[s].at # "flush"
  BY DEF Register, Erase, Remove, ReadRecord, CleanUp, StoreObject, Finalize, ProbeUpload,
     Fetch, HeadObject
<1>2. PICK q : slot' = [slot EXCEPT ![s] = q] /\ Plain(q)
  <2>1. CASE Register(s) \/ Erase(s) \/ Remove(s) \/ CleanUp(s) \/ StoreObject(s) \/ Finalize(s)
             \/ ProbeUpload(s) \/ HeadObject(s)
    BY <2>1, GoesPlain DEF Register, Erase, Remove, CleanUp, StoreObject, Finalize, ProbeUpload,
       HeadObject
  <2>2. CASE ReadRecord(s)
    <3>1. CASE Ends(s)
      BY <3>1, GoesPlain
    <3>2. CASE ~Ends(s)
      BY <2>2, <3>2 DEF ReadRecord, To, Plain
    <3> QED
      BY <3>1, <3>2
  <2>3. CASE Fetch(s)
    <3>1. CASE Done(s) \/ Goes(s, "release")
      BY <3>1, GoesPlain
    <3>2. ASSUME NEW b, To(s, [at |-> "read", bytes |-> b, committed |-> TRUE, began |-> slot[s].began])
          PROVE  \E q : slot' = [slot EXCEPT ![s] = q] /\ Plain(q)
      BY <3>2, PlainTo DEF Plain
    <3> QED
      BY <2>3, <3>1, <3>2 DEF Fetch
  <2> QED
    BY <2>1, <2>2, <2>3
<1> QED
  BY <1>1, <1>2, PlainMove

(***************************************************************************)
(* The steps that make, take, remove or reinstate an upload.               *)
(***************************************************************************)
LEMMA EmptiedInPlace ==
    ASSUME AssetTypeOK, ChunksFollow, WritesAreAwaited, FilesFree, NEW i \in Ids,
           NEW u \in Emptied(i)
    PROVE  InPlace(u.bytes) /\ u.writing = {}
<1>1. \A v \in upload[i] : v.writing = {}
  BY FilesAreQuiet
<1> QED
  BY <1>1 DEF Emptied, InPlace

LEMMA UploadsInPlace ==
    ASSUME AssetTypeOK, ChunksFollow, NEW s \in Slots, UNCHANGED setting,
           \/ Create(s) \/ Take(s) \/ CommitUpload(s) \/ HoldKey(s) \/ ReleaseHold(s)
           \/ AbandonUpload(s) \/ Abort(s)
    PROVE  ChunksFollow'
<1> DEFINE i == slot[s].id
           Kept(U) == \A u \in U : u \in upload[i] \/ (InPlace(u.bytes) /\ u.writing = {})
<1>t. slot[s] \in Request /\ upload \in [Ids -> SUBSET UploadRecord]
  BY DEF AssetTypeOK
<1>i. ~ReleaseHold(s) => i \in Ids
  BY <1>t, Shapes DEF Create, Take, CommitUpload, HoldKey, AbandonUpload, Abort
<1>f. slot[s].at # "flush"
  BY DEF Create, Take, CommitUpload, HoldKey, ReleaseHold, AbandonUpload, Abort
<1>b. ASSUME WritesAreAwaited, CommitUpload(s) \/ HoldKey(s) \/ Abort(s), NEW h
      PROVE  Kept(Upload(slot[s].bytes, h))
  <2>1. InPlace(slot[s].bytes)
    BY <1>b DEF ChunksFollow, CarriesInPlace, CommitUpload, HoldKey, Abort
  <2> QED
    BY <2>1 DEF Upload
<1>1. ASSUME ~ReleaseHold(s), NEW U, SetUpload(i, U), WritesAreAwaited => Kept(U)
      PROVE  WritesAreAwaited => \A j \in Ids : \A u \in upload'[j] :
                u \in upload[j] \/ (InPlace(u.bytes) /\ u.writing = {})
  BY <1>t, <1>i, <1>1 DEF SetUpload
<1>u. WritesAreAwaited => \A j \in Ids : \A u \in upload'[j] :
         u \in upload[j] \/ (InPlace(u.bytes) /\ u.writing = {})
  <2>1. CASE UNCHANGED upload
    BY <2>1
  <2>2. CASE ReleaseHold(s)
    <3>1. upload' = [upload EXCEPT ![slot[s].began] = {u \in upload[slot[s].began] : ~u.hold}]
      BY <2>2 DEF ReleaseHold
    <3> QED
      BY <1>t, <3>1
  <2>3. CASE Create(s) /\ ~ReleaseHold(s)
    <3>1. WritesAreAwaited => Kept(Emptied(i)) /\ Kept({})
      BY <1>i, <2>3, EmptiedInPlace DEF Create
    <3> QED
      BY <1>1, <2>1, <2>3, <3>1 DEF Create
  <2>4. CASE Take(s) /\ ~ReleaseHold(s)
    <3>1. Kept({})
      OBVIOUS
    <3> QED
      BY <1>1, <2>1, <2>4, <3>1 DEF Take
  <2>5. CASE (CommitUpload(s) \/ HoldKey(s) \/ Abort(s)) /\ ~ReleaseHold(s)
    BY <1>1, <1>b, <2>1, <2>5 DEF CommitUpload, HoldKey, Abort
  <2>6. CASE AbandonUpload(s) /\ ~ReleaseHold(s)
    <3>1. Kept(upload[i] \ {u \in upload[i] : ~u.hold})
      OBVIOUS
    <3> QED
      BY <1>1, <2>6, <3>1 DEF AbandonUpload
  <2> QED
    BY <2>2, <2>3, <2>4, <2>5, <2>6
<1>q. PICK q : slot' = [slot EXCEPT ![s] = q] /\ q.at # "flush" /\ (WritesAreAwaited => CarriesInPlace(q))
  <2>0. ASSUME NEW q, slot' = [slot EXCEPT ![s] = q], Plain(q)
        PROVE  q.at # "flush" /\ CarriesInPlace(q)
    BY <2>0 DEF Plain, CarriesInPlace
  <2>1. CASE Done(s) \/ Goes(s, "release") \/ Goes(s, "fetch")
    BY <2>0, <2>1, GoesPlain
  <2>2. CASE Goes(s, "hold") /\ CommitUpload(s)
    <3> DEFINE q == [slot[s] EXCEPT !.at = "hold"]
    <3>1. q.at = "hold" /\ q.bytes = slot[s].bytes
      BY <1>t, GoesAt
    <3>2. WritesAreAwaited => InPlace(slot[s].bytes)
      BY <2>2 DEF ChunksFollow, CarriesInPlace, CommitUpload
    <3>3. slot' = [slot EXCEPT ![s] = q]
      BY <2>2 DEF Goes, To
    <3> HIDE DEF q
    <3> QED
      BY <3>1, <3>2, <3>3 DEF CarriesInPlace
  <2>3. ASSUME i \in Ids, NEW u \in upload[i],
               \/ To(s, [at |-> "read", bytes |-> u.bytes, committed |-> FALSE, began |-> i])
               \/ To(s, [at |-> "commit", id |-> i, bytes |-> u.bytes, began |-> i])
               \/ To(s, [at |-> "abort", id |-> i, bytes |-> u.bytes])
        PROVE  \E q : /\ slot' = [slot EXCEPT ![s] = q] /\ q.at # "flush"
                      /\ WritesAreAwaited => CarriesInPlace(q)
    <3>1. WritesAreAwaited => InPlace(u.bytes)
      BY <2>3 DEF ChunksFollow
    <3> QED
      BY <2>3, <3>1, CarriedTo DEF CarriesInPlace
  <2>4. CASE Take(s)
    <3>1. i \in Ids
      BY <1>t, <2>4, Shapes DEF Take
    <3> QED
      BY <2>1, <2>3, <2>4, <3>1 DEF Take
  <2>5. CASE AbandonUpload(s)
    <3>1. i \in Ids
      BY <1>t, <2>5, Shapes DEF AbandonUpload
    <3> QED
      BY <2>1, <2>3, <2>5, <3>1 DEF AbandonUpload
  <2>6. CASE Create(s) \/ CommitUpload(s) \/ HoldKey(s) \/ ReleaseHold(s) \/ Abort(s)
    BY <2>1, <2>2, <2>6 DEF Create, CommitUpload, HoldKey, ReleaseHold, Abort
  <2> QED
    BY <2>4, <2>5, <2>6
<1> QED
  BY <1>f, <1>q, <1>u, ChunksStay

(***************************************************************************)
(* An append: compared with the lock free, written with the lock held,     *)
(* and answered when the write is done or has failed.                      *)
(***************************************************************************)
LEMMA AppendedInPlace ==
    ASSUME NEW b \in Seq(Chunk), NEW c \in Chunk, InPlace(b), c[2] = Len(b) + 1
    PROVE  InPlace(Append(b, c))
<1>1. Len(b) \in Nat /\ Len(Append(b, c)) = Len(b) + 1
  OBVIOUS
<1>2. ASSUME NEW n \in 1..(Len(b) + 1) PROVE Append(b, c)[n][2] = n
  <2>1. CASE n = Len(b) + 1
    BY <2>1
  <2>2. CASE n # Len(b) + 1
    <3>1. n \in 1..Len(b)
      BY <1>1, <2>2
    <3>2. Append(b, c)[n] = b[n]
      BY <3>1
    <3> QED
      BY <3>1, <3>2 DEF InPlace
  <2> QED
    BY <2>1, <2>2
<1> QED
  BY <1>1, <1>2 DEF InPlace

LEMMA AppendInPlace ==
    ASSUME AssetTypeOK, ChunksFollow, NEW s \in Slots, UNCHANGED setting, AppendChunk(s)
    PROVE  ChunksFollow'
<1> DEFINE i == slot[s].id
           c == slot[s].chunk
           matching == {u \in upload[i] : ~u.hold /\ Len(u.bytes) = slot[s].offset}
<1>t. /\ slot \in [Slots -> Request] /\ slot[s] \in Request /\ slot[s].at = "append"
      /\ i \in Ids /\ c \in Chunk
      /\ upload \in [Ids -> SUBSET UploadRecord] /\ FilesFree
  BY Shapes DEF AssetTypeOK, AppendChunk
<1>c. WritesAreAwaited => c[2] = slot[s].offset + 1
  BY <1>t DEF ChunksFollow, CarriesInPlace
<1>1. CASE Done(s) /\ UNCHANGED upload
  BY <1>t, <1>1, GoesPlain, PlainMove
<1>2. CASE Done(s) /\ \E u \in matching : SetUpload(i, {[u EXCEPT !.bytes = Append(@, c)]})
  <2>1. PICK u \in matching : SetUpload(i, {[u EXCEPT !.bytes = Append(@, c)]})
    BY <1>2
  <2> DEFINE v == [u EXCEPT !.bytes = Append(@, c)]
  <2>2. u \in UploadRecord /\ u \in upload[i] /\ Len(u.bytes) = slot[s].offset
    BY <1>t
  <2>3. v.bytes = Append(u.bytes, c) /\ v.writing = u.writing
    BY <2>2 DEF UploadRecord
  <2>4. upload' = [upload EXCEPT ![i] = {v}]
    BY <2>1 DEF SetUpload
  <2> HIDE DEF v
  <2>5. ASSUME WritesAreAwaited PROVE InPlace(v.bytes) /\ v.writing = {}
    <3>1. v.writing = {}
      BY <1>t, <2>2, <2>3, <2>5, FilesAreQuiet
    <3>2. InPlace(u.bytes) /\ u.bytes \in Seq(Chunk)
      BY <1>t, <2>2, <2>5 DEF ChunksFollow, UploadRecord, Bytes
    <3> QED
      BY <1>t, <1>c, <2>2, <2>3, <2>5, <3>1, <3>2, AppendedInPlace
  <2>6. WritesAreAwaited => \A j \in Ids : \A x \in upload'[j] :
           x \in upload[j] \/ (InPlace(x.bytes) /\ x.writing = {})
    BY <1>t, <2>4, <2>5
  <2>7. /\ slot' = [slot EXCEPT ![s] = Vacant] /\ Vacant.at # "flush" /\ slot[s].at # "flush"
        /\ CarriesInPlace(Vacant)
    BY <1>t, <1>2, VacantIsIdle DEF Done, To, CarriesInPlace
  <2> QED
    BY <2>6, <2>7, ChunksStay
<1>3. CASE /\ Goes(s, "flush")
           /\ \E u \in matching : SetUpload(i, {[u EXCEPT !.writing = @ \cup {<<s, c>>}]})
  <2> SUFFICES ASSUME WritesAreAwaited'
               PROVE  /\ \A j \in Ids : \A x \in upload'[j] : InPlace(x.bytes)
                      /\ \A t \in Slots : CarriesInPlace(slot'[t])
                      /\ WritesFollow'
    BY SettingStays DEF ChunksFollow, CarriesInPlace, InPlace
  <2>a. WritesAreAwaited /\ Ids' = Ids
    BY SettingStays
  <2>1. PICK u \in matching : SetUpload(i, {[u EXCEPT !.writing = @ \cup {<<s, c>>}]})
    BY <1>3
  <2> DEFINE v == [u EXCEPT !.writing = @ \cup {<<s, c>>}]
             q == [slot[s] EXCEPT !.at = "flush"]
  <2>2. u \in UploadRecord /\ u \in upload[i] /\ Len(u.bytes) = slot[s].offset /\ u.writing = {}
    BY <1>t, <2>a, FilesAreQuiet
  <2>3. v.bytes = u.bytes /\ v.writing = {<<s, c>>}
    BY <2>2 DEF UploadRecord
  <2>4. upload' = [upload EXCEPT ![i] = {v}]
    BY <2>1 DEF SetUpload
  <2>5. q.at = "flush" /\ q.id = i /\ q.chunk = c /\ q.offset = slot[s].offset
    BY <1>t, GoesAt
  <2>6. slot' = [slot EXCEPT ![s] = q]
    BY <1>3 DEF Goes, To
  <2> HIDE DEF v, q
  <2>7. upload'[i] = {v} /\ \A j \in Ids \ {i} : upload'[j] = upload[j]
    BY <1>t, <2>4
  <2>8. slot'[s] = q /\ \A t \in Slots \ {s} : slot'[t] = slot[t]
    BY <1>t, <2>6
  <2>9. \A j \in Ids : \A x \in upload'[j] : InPlace(x.bytes)
    BY <2>a, <2>2, <2>3, <2>7 DEF ChunksFollow
  <2>10. \A t \in Slots : CarriesInPlace(slot'[t])
    <3>1. CarriesInPlace(q)
      BY <1>c, <2>a, <2>5 DEF CarriesInPlace
    <3> QED
      BY <2>a, <2>8, <3>1 DEF ChunksFollow
  <2>11. \A x, y \in Slots : slot'[x].at = "flush" /\ slot'[y].at = "flush" => x = y
    BY <1>t, <2>8 DEF FilesFree
  <2>12. ASSUME NEW j \in Ids, NEW x \in upload'[j], NEW w \in x.writing
         PROVE  /\ slot'[w[1]].at = "flush" /\ slot'[w[1]].id = j
                /\ slot'[w[1]].chunk = w[2] /\ slot'[w[1]].offset = Len(x.bytes)
    <3>1. j = i /\ x = v
      BY <1>t, <2>a, <2>7, FilesAreQuiet
    <3>2. w = <<s, c>>
      BY <2>3, <3>1
    <3> QED
      BY <2>2, <2>3, <2>5, <2>8, <3>1, <3>2
  <2>13. WritesFollow'
    BY <2>a, <2>11, <2>12 DEF WritesFollow
  <2> QED
    BY <2>9, <2>10, <2>13
<1> QED
  BY <1>1, <1>2, <1>3 DEF AppendChunk

LEMMA FlushInPlace ==
    ASSUME AssetTypeOK, ChunksFollow, NEW s \in Slots, UNCHANGED setting, Flush(s)
    PROVE  ChunksFollow'
<1> SUFFICES ASSUME WritesAreAwaited'
             PROVE  /\ \A i \in Ids : \A u \in upload'[i] : InPlace(u.bytes)
                    /\ \A t \in Slots : CarriesInPlace(slot'[t])
                    /\ WritesFollow'
  BY SettingStays DEF ChunksFollow, CarriesInPlace, InPlace
<1> DEFINE i == slot[s].id
           own == <<s, slot[s].chunk>>
           rid(u) == [u EXCEPT !.writing = @ \ {own}]
<1>a. WritesAreAwaited /\ Ids' = Ids
  BY SettingStays
<1>t. /\ slot \in [Slots -> Request] /\ slot[s] \in Request /\ slot[s].at = "flush" /\ i \in Ids
      /\ upload \in [Ids -> SUBSET UploadRecord]
  BY Shapes DEF AssetTypeOK, Flush
<1>1. slot'[s] = Vacant /\ \A t \in Slots \ {s} : slot'[t] = slot[t]
  BY <1>t DEF Flush, Done, To
<1>w. ASSUME NEW j \in Ids, NEW u \in upload[j], NEW w \in u.writing
      PROVE  j = i /\ w = own
  <2>1. w \in Slots \X Chunk
    BY <1>t, <1>w DEF UploadRecord
  <2>2. slot[w[1]].at = "flush" /\ slot[w[1]].id = j /\ slot[w[1]].chunk = w[2]
    BY <1>a, <1>w DEF ChunksFollow, WritesFollow
  <2>3. w[1] = s
    BY <1>a, <1>t, <2>1, <2>2 DEF ChunksFollow, WritesFollow
  <2> QED
    BY <2>1, <2>2, <2>3
<1>2. ASSUME NEW j \in Ids, NEW v \in upload'[j] PROVE InPlace(v.bytes) /\ v.writing = {}
  <2>1. CASE UNCHANGED upload /\ \A u \in upload[i] : own \notin u.writing
    <3>1. v \in upload[j]
      BY <2>1
    <3>2. v.writing = {}
      BY <1>w, <2>1, <3>1
    <3> QED
      BY <1>a, <3>1, <3>2 DEF ChunksFollow
  <2>2. CASE SetUpload(i, {rid(u) : u \in upload[i]})
    <3>1. upload'[i] = {rid(u) : u \in upload[i]} /\ \A k \in Ids \ {i} : upload'[k] = upload[k]
      BY <1>t, <2>2 DEF SetUpload
    <3>2. CASE j # i
      BY <1>a, <1>w, <3>1, <3>2 DEF ChunksFollow
    <3>3. CASE j = i
      <4>1. PICK u \in upload[i] : v = rid(u)
        BY <3>1, <3>3
      <4>2. v.bytes = u.bytes /\ v.writing = u.writing \ {own}
        BY <1>t, <4>1 DEF UploadRecord
      <4> QED
        BY <1>a, <1>t, <1>w, <4>2 DEF ChunksFollow
    <3> QED
      BY <3>2, <3>3
  <2> QED
    BY <2>1, <2>2 DEF Flush
<1>3. \A t \in Slots : CarriesInPlace(slot'[t])
  BY <1>1, <1>a, VacantIsIdle DEF ChunksFollow, CarriesInPlace
<1>4. WritesFollow'
  BY <1>1, <1>2, <1>a, VacantIsIdle DEF ChunksFollow, WritesFollow
<1> QED
  BY <1>2, <1>3, <1>4

LEMMA WriteInPlace ==
    ASSUME AssetTypeOK, ChunksFollow, UNCHANGED setting, WriteLands
    PROVE  ChunksFollow'
<1> SUFFICES ASSUME WritesAreAwaited'
             PROVE  /\ \A i \in Ids : \A u \in upload'[i] : InPlace(u.bytes)
                    /\ \A t \in Slots : CarriesInPlace(slot'[t])
                    /\ WritesFollow'
  BY SettingStays DEF ChunksFollow, CarriesInPlace, InPlace
<1>a. WritesAreAwaited /\ Ids' = Ids /\ UNCHANGED slot
  BY SettingStays DEF WriteLands
<1>t. slot \in [Slots -> Request] /\ upload \in [Ids -> SUBSET UploadRecord]
  BY DEF AssetTypeOK
<1>i. PICK i \in Ids : \E u \in upload[i] : \E w \in u.writing :
         upload' = [upload EXCEPT ![i] = {[u EXCEPT !.bytes = Append(@, w[2]), !.writing = @ \ {w}]}]
  BY DEF WriteLands, SetUpload
<1>u. PICK u \in upload[i] : \E w \in u.writing :
         upload' = [upload EXCEPT ![i] = {[u EXCEPT !.bytes = Append(@, w[2]), !.writing = @ \ {w}]}]
  BY <1>i
<1>1. PICK w \in u.writing :
         upload' = [upload EXCEPT ![i] = {[u EXCEPT !.bytes = Append(@, w[2]), !.writing = @ \ {w}]}]
  BY <1>u
<1> DEFINE v == [u EXCEPT !.bytes = Append(@, w[2]), !.writing = @ \ {w}]
<1>2. u \in UploadRecord /\ u.bytes \in Seq(Chunk) /\ u.writing \subseteq Slots \X Chunk
  BY <1>t DEF UploadRecord, Bytes
<1>3. v.bytes = Append(u.bytes, w[2]) /\ v.writing = u.writing \ {w}
  BY <1>2 DEF UploadRecord
<1>4. upload' = [upload EXCEPT ![i] = {v}]
  BY <1>1
<1> HIDE DEF v
<1>5. upload'[i] = {v} /\ \A j \in Ids \ {i} : upload'[j] = upload[j]
  BY <1>t, <1>4
<1>6. \A j \in Ids : \A y \in upload[j] : \A x \in y.writing :
         slot[x[1]].at = "flush" /\ slot[x[1]].id = j /\ slot[x[1]].chunk = x[2]
         /\ slot[x[1]].offset = Len(y.bytes)
  BY <1>a DEF ChunksFollow, WritesFollow
<1>7. \A x \in u.writing : x = w
  <2> SUFFICES ASSUME NEW x \in u.writing PROVE x = w
    OBVIOUS
  <2>1. x[1] \in Slots /\ w[1] \in Slots /\ x = <<x[1], x[2]>> /\ w = <<w[1], w[2]>>
    BY <1>2
  <2>2. x[1] = w[1]
    BY <1>a, <1>6, <2>1 DEF ChunksFollow, WritesFollow
  <2> QED
    BY <1>6, <2>1, <2>2
<1>8. InPlace(v.bytes) /\ v.writing = {}
  <2>1. w[1] \in Slots /\ w[2] \in Chunk
    BY <1>2
  <2>2. w[2][2] = Len(u.bytes) + 1
    BY <1>a, <1>6, <2>1 DEF ChunksFollow, CarriesInPlace
  <2>3. InPlace(u.bytes)
    BY <1>a DEF ChunksFollow
  <2>4. InPlace(Append(u.bytes, w[2]))
    BY <1>2, <2>1, <2>2, <2>3, AppendedInPlace
  <2> QED
    BY <1>3, <1>7, <2>4
<1>9. \A j \in Ids : \A y \in upload'[j] : InPlace(y.bytes)
  BY <1>a, <1>5, <1>8 DEF ChunksFollow
<1>10. \A t \in Slots : CarriesInPlace(slot'[t])
  BY <1>a DEF ChunksFollow
<1>11. \A j \in Ids : \A y \in upload'[j] : \A x \in y.writing :
          slot[x[1]].at = "flush" /\ slot[x[1]].id = j /\ slot[x[1]].chunk = x[2]
          /\ slot[x[1]].offset = Len(y.bytes)
  BY <1>5, <1>6, <1>8
<1>12. WritesFollow'
  BY <1>a, <1>11 DEF ChunksFollow, WritesFollow
<1> QED
  BY <1>9, <1>10, <1>12

(***************************************************************************)
(* A client goes away: on a filesystem then writes are not awaited, on s3  *)
(* nobody has the lock for one.  What goes on without its request.         *)
(***************************************************************************)
LEMMA CancelInPlace ==
    ASSUME AssetInv, ChunksFollow, NEW s \in Slots, UNCHANGED setting, Cancel(s) \/ Lands(s)
    PROVE  ChunksFollow'
<1> SUFFICES ASSUME WritesAreAwaited PROVE ChunksFollow'
  BY SettingStays DEF ChunksFollow
<1>t. /\ AssetTypeOK /\ slot[s] \in Request /\ upload \in [Ids -> SUBSET UploadRecord]
      /\ Possible(slot[s])
  BY DEF AssetInv, AssetTypeOK, SupportedOnly
<1>1. setting.cancels /\ Profile = "s3" /\ slot[s].at # "flush"
  <2>1. setting.cancels
    BY <1>t DEF Cancel, Lands, Possible, Late
  <2> QED
    BY <1>t, <2>1 DEF WritesAreAwaited, Possible
<1>f. FilesFree
  BY <1>1 DEF AssetInv, SupportedOnly, Possible, FilesFree
<1>i. slot[s].at \in {"create", "creating", "removing"} => slot[s].id \in Ids
  BY <1>t, Shapes
<1>2. \A j \in Ids : \A u \in upload'[j] :
         u \in upload[j] \/ (InPlace(u.bytes) /\ u.writing = {})
  <2>1. CASE UNCHANGED upload
    BY <2>1
  <2>2. CASE SetUpload(slot[s].id, {})
    BY <1>t, <2>2 DEF SetUpload
  <2>3. CASE slot[s].at = "creating" /\ SetUpload(slot[s].id, Emptied(slot[s].id))
    BY <1>t, <1>f, <1>i, <2>3, EmptiedInPlace DEF SetUpload
  <2> QED
    BY <2>1, <2>2, <2>3 DEF Cancel, Lands
<1>3. PICK q : slot' = [slot EXCEPT ![s] = q] /\ Plain(q)
  <2>1. CASE Done(s)
    BY <1>t, <2>1, GoesPlain
  <2>2. CASE \/ To(s, [at |-> "putting", id |-> slot[s].id, bytes |-> slot[s].bytes])
             \/ To(s, [at |-> "deleting", id |-> slot[s].id])
    BY <2>2, PlainTo DEF Plain
  <2> QED
    BY <1>1, <2>1, <2>2 DEF Cancel, Lands
<1>4. q.at # "flush" /\ CarriesInPlace(q)
  BY <1>3 DEF Plain, CarriesInPlace
<1>5. /\ slot[s].at # "flush" /\ slot' = [slot EXCEPT ![s] = q] /\ q.at # "flush"
      /\ WritesAreAwaited =>
           /\ CarriesInPlace(q)
           /\ \A j \in Ids : \A u \in upload'[j] :
                u \in upload[j] \/ (InPlace(u.bytes) /\ u.writing = {})
  BY <1>1, <1>2, <1>3, <1>4
<1> HIDE DEF Cancel, Lands
<1> QED
  BY <1>t, <1>5, ChunksStay

LEMMA AsideInPlace ==
    ASSUME ChunksFollow, UNCHANGED <<setting, upload, slot>>
    PROVE  ChunksFollow'
<1>1. Ids' = Ids /\ WritesAreAwaited' = WritesAreAwaited
  BY SettingStays
<1>2. WritesFollow' = WritesFollow
  BY <1>1 DEF WritesFollow
<1>3. \A s \in Slots : CarriesInPlace(slot[s])' = CarriesInPlace(slot[s])
  BY DEF CarriesInPlace, InPlace
<1>4. (\A i \in Ids : \A u \in upload[i] : InPlace(u.bytes))'
         = (\A i \in Ids : \A u \in upload[i] : InPlace(u.bytes))
  BY <1>1 DEF InPlace
<1> QED
  BY <1>1, <1>2, <1>3, <1>4 DEF ChunksFollow

LEMMA RebootInPlace ==
    ASSUME AssetTypeOK, ChunksFollow, UNCHANGED setting, Reboot
    PROVE  ChunksFollow'
<1> SUFFICES ASSUME WritesAreAwaited'
             PROVE  /\ \A i \in Ids : \A u \in upload'[i] : InPlace(u.bytes)
                    /\ \A t \in Slots : CarriesInPlace(slot'[t])
                    /\ WritesFollow'
  BY SettingStays DEF ChunksFollow, CarriesInPlace, InPlace
<1>a. WritesAreAwaited /\ Ids' = Ids
  BY SettingStays
<1>t. upload \in [Ids -> SUBSET UploadRecord]
  BY DEF AssetTypeOK
<1>1. \A t \in Slots : slot'[t].at = "idle"
  BY VacantIsIdle DEF Reboot
<1>2. ASSUME NEW i \in Ids, NEW v \in upload'[i] PROVE InPlace(v.bytes) /\ v.writing = {}
  <2>1. PICK u \in upload[i] : v = [u EXCEPT !.writing = {}]
    BY <1>2 DEF Reboot
  <2>2. v.bytes = u.bytes /\ v.writing = {}
    BY <1>t, <2>1 DEF UploadRecord
  <2> QED
    BY <1>a, <2>2 DEF ChunksFollow
<1>3. \A t \in Slots : CarriesInPlace(slot'[t])
  BY <1>1 DEF CarriesInPlace
<1>4. WritesFollow'
  BY <1>1, <1>2, <1>a DEF WritesFollow
<1> QED
  BY <1>2, <1>3, <1>4

(***************************************************************************)
(* Every step keeps the chunks in place.                                   *)
(***************************************************************************)
LEMMA ChunksStepKeeps ==
    ASSUME AssetInv, ChunksFollow, AssetNext
    PROVE  ChunksFollow'
<1>t. AssetTypeOK
  BY DEF AssetInv
<1>1. CASE \E s \in Slots : Receive(s) \/ Continue(s) \/ Cancel(s) \/ Lands(s)
  <2> SUFFICES ASSUME NEW s \in Slots, UNCHANGED setting,
                      Receive(s) \/ Continue(s) \/ Cancel(s) \/ Lands(s)
               PROVE  ChunksFollow'
    BY <1>1 DEF AssetNext
  <2>1. CASE Receive(s)
    BY <1>t, <2>1, ReceiveInPlace
  <2>2. CASE \/ Register(s) \/ Erase(s) \/ Remove(s) \/ ReadRecord(s) \/ CleanUp(s)
             \/ StoreObject(s) \/ Finalize(s) \/ ProbeUpload(s) \/ Fetch(s) \/ HeadObject(s)
    BY <1>t, <2>2, PlainInPlace
  <2>3. CASE \/ Create(s) \/ Take(s) \/ CommitUpload(s) \/ HoldKey(s) \/ ReleaseHold(s)
             \/ AbandonUpload(s) \/ Abort(s)
    BY <1>t, <2>3, UploadsInPlace
  <2>4. CASE AppendChunk(s)
    BY <1>t, <2>4, AppendInPlace
  <2>5. CASE Flush(s)
    BY <1>t, <2>5, FlushInPlace
  <2>6. CASE Cancel(s) \/ Lands(s)
    BY <2>6, CancelInPlace
  <2> QED
    BY <2>1, <2>2, <2>3, <2>4, <2>5, <2>6 DEF Continue
<1>2. CASE WriteLands
  BY <1>t, <1>2, WriteInPlace DEF AssetNext
<1>3. CASE Presign \/ ClientPut
  BY <1>3, AsideInPlace DEF AssetNext, Presign, ClientPut
<1>4. CASE Reboot
  BY <1>t, <1>4, RebootInPlace DEF AssetNext
<1> QED
  BY <1>1, <1>2, <1>3, <1>4 DEF AssetNext

LEMMA ChunksInitHold == AssetInit => ChunksFollow
  BY VacantIsIdle DEF AssetInit, ChunksFollow, CarriesInPlace, WritesFollow

LEMMA ChunksStand ==
    ASSUME ChunksFollow, UNCHANGED assetVars
    PROVE  ChunksFollow'
  BY AsideInPlace DEF assetVars

(***************************************************************************)
(* What asset.rs and objectstore.rs keep, for any deployment, any number   *)
(* of requests, contents and chunks, and any bounds.                       *)
(***************************************************************************)
THEOREM AssetsInvariance == AssetSpec => []AssetInv
<1>1. AssetInv /\ [AssetNext]_assetVars => AssetInv'
  BY AssetStepKeeps, AssetStands
<1> QED
  BY <1>1, AssetInitHolds, PTL DEF AssetSpec

(***************************************************************************)
(* A key has at most one record, an id one object and one upload, and each *)
(* request carries what its next step needs.                               *)
(***************************************************************************)
THEOREM AssetsTypeCorrect == AssetSpec => []AssetTypeOK
<1>1. AssetInv => AssetTypeOK
  BY DEF AssetInv
<1> QED
  BY <1>1, AssetsInvariance, PTL

(***************************************************************************)
(* Where bytes are compared first, an object is the declared content of    *)
(* its own id or the beginning of it (finish_upload).                      *)
(***************************************************************************)
THEOREM NoForeignBytes == AssetSpec => []ForeignBytesAreNeverStored
<1>1. AssetInv => ForeignBytesAreNeverStored
  BY DEF AssetInv, WritersCompared, BeginsAs, ForeignBytesAreNeverStored
<1> QED
  BY <1>1, AssetsInvariance, PTL

(***************************************************************************)
(* An upload's chunks are in the places they were cut from, whatever       *)
(* requests race and fail: on s3, and on a filesystem whose handlers are   *)
(* not dropped while they await a write, since nobody compares the length  *)
(* as long as a write is under way (append_upload).                        *)
(***************************************************************************)
THEOREM ChunksStayInPlace == AssetSpec => []ChunksAreInPlace
<1>1. AssetInv /\ AssetInv' /\ ChunksFollow /\ [AssetNext]_assetVars => ChunksFollow'
  BY ChunksStepKeeps, ChunksStand
<1>2. ChunksFollow => ChunksAreInPlace
  BY DEF ChunksFollow, InPlace, ChunksAreInPlace, EveryChunkIsInPlace
<1> QED
  BY <1>1, <1>2, ChunksInitHold, AssetsInvariance, PTL DEF AssetSpec

(***************************************************************************)
(* An available asset without its object comes only of a delete that ended *)
(* between its two steps (delete_asset, against reconcile.rs).             *)
(***************************************************************************)
THEOREM BrokenOnlySo == AssetSpec => []BrokenOnlyByHalfDelete
<1>1. AssetInv => BrokenOnlyByHalfDelete
  BY DEF AssetInv, AloneInv, AvailableAreIntact, BrokenOnlyByHalfDelete
<1> QED
  BY <1>1, AssetsInvariance, PTL

(***************************************************************************)
(* A held key has a completion that will release it (complete_resumable_-  *)
(* upload, on every path that begins after take_upload).                   *)
(***************************************************************************)
THEOREM HoldsAreReleasable == AssetSpec => []HoldHasItsCompletion
<1>1. ASSUME AssetInv, Profile = "fs" \/ OneAtATime PROVE HoldHasItsCompletion
  <2>1. CASE Profile = "fs"
    BY <1>1, <2>1 DEF AssetInv, SupportedOnly, HoldHasItsCompletion
  <2>2. CASE OneAtATime
    <3>1. ASSUME NEW s \in Slots, slot[s].at \in Completing PROVE "began" \in DOMAIN slot[s]
      <4>1. slot[s] \in Request
        BY <1>1 DEF AssetInv, AssetTypeOK
      <4> QED
        BY <3>1, <4>1 DEF Request, Completing
    <3>2. HoldsFollow
      BY <1>1, <2>2 DEF AssetInv, AloneInv
    <3> QED
      BY <3>1, <3>2 DEF HoldsFollow, HoldHasItsCompletion
  <2> QED
    BY <1>1, <2>1, <2>2
<1>2. AssetInv => HoldHasItsCompletion
  BY <1>1 DEF HoldHasItsCompletion
<1> QED
  BY <1>2, AssetsInvariance, PTL

(***************************************************************************)
(* Without racing requests, a verdict stands: no step of a request takes   *)
(* an available or failed asset to another state (the UPDATE by key of     *)
(* asset_sql.rs finds only the pending record its request read).           *)
(***************************************************************************)
THEOREM VerdictsStand == AssetSpec => [][OneAtATime => AssetVerdictKept]_assetVars
<1>1. ASSUME AssetInv, AssetNext, OneAtATime PROVE AssetVerdictKept
  <2>1. AtMostOne(record)
    BY <1>1 DEF AssetInv, AssetTypeOK
  <2>2. CASE record' \subseteq record
    BY <2>1, <2>2 DEF AssetVerdictKept, AtMostOne
  <2>3. ASSUME NEW s \in Slots, Register(s) PROVE AssetVerdictKept
    <3>1. record' = record \/ record = {}
      BY <2>3 DEF Register
    <3> QED
      BY <2>2, <3>1 DEF AssetVerdictKept
  <2>4. ASSUME NEW s \in Slots, Finalize(s) PROVE AssetVerdictKept
    <3>1. slot[s].at \in {"available", "failed"}
      BY <2>4 DEF Finalize
    <3>2. PendingAs(slot[s].id)
      BY <1>1, <3>1, Sole DEF ReliesOnRecord
    <3>3. \A r \in record : r.state = "pending"
      BY <2>1, <3>2 DEF PendingAs, AtMostOne
    <3> QED
      BY <3>3 DEF AssetVerdictKept
  <2>5. ASSUME NEW s \in Slots, Remove(s) PROVE record' \subseteq record
    BY <2>5 DEF Remove
  <2>6. ASSUME NEW s \in Slots, Receive(s) PROVE record' = record
    BY <2>6 DEF Receive, ReadToRegister, ReadToDelete, PutData, ReadToFinalize, Resumable
  <2>7. ASSUME NEW s \in Slots,
               \/ Erase(s) \/ ReadRecord(s) \/ CleanUp(s) \/ StoreObject(s) \/ ReleaseHold(s)
               \/ ProbeUpload(s) \/ Create(s) \/ AppendChunk(s) \/ Flush(s) \/ Take(s) \/ CommitUpload(s)
               \/ HoldKey(s) \/ Fetch(s) \/ AbandonUpload(s) \/ Abort(s) \/ HeadObject(s)
               \/ Cancel(s) \/ Lands(s)
        PROVE  record' = record
    BY <2>7 DEF Erase, ReadRecord, CleanUp, StoreObject, ReleaseHold, ProbeUpload, Create, AppendChunk,
       Flush, Take, CommitUpload, HoldKey, Fetch, AbandonUpload, Abort, HeadObject, Cancel, Lands
  <2>8. ASSUME WriteLands \/ Presign \/ ClientPut \/ Reboot PROVE record' = record
    BY <2>8 DEF WriteLands, Presign, ClientPut, Reboot
  <2> QED
    BY <1>1, <2>2, <2>3, <2>4, <2>5, <2>6, <2>7, <2>8 DEF AssetNext, Continue
<1>2. AssetInv /\ [AssetNext]_assetVars => [OneAtATime => AssetVerdictKept]_assetVars
  BY <1>1
<1> QED
  BY <1>2, AssetsInvariance, PTL DEF AssetSpec

(***************************************************************************)
(* Without racing requests and presigned URLs, no bytes are left that no   *)
(* record names, whatever calls fail and wherever the process ends: the    *)
(* object goes before the record (delete_asset).                           *)
(***************************************************************************)
THEOREM NothingStaysBehind ==
    AssetSpec => [](OneAtATime /\ ThroughTheServer => NothingIsOrphaned)
<1>1. AssetInv => (OneAtATime /\ ThroughTheServer => NothingIsOrphaned)
  BY DEF AssetInv, AloneInv, ObjectsAreOwned, NothingIsOrphaned
<1> QED
  BY <1>1, AssetsInvariance, PTL
=============================================================================
