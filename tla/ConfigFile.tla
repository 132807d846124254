------------------------------- MODULE ConfigFile -------------------------------
(***************************************************************************)
(* One process on a configuration file (control_store: legacy_file): the   *)
(* compare-and-swap writes of the config API over FileConfigStore, edits   *)
(* by hand, and the reload loop that a file watch or SIGHUP triggers       *)
(* (config_store.rs, config_mutation.rs, reload.rs, main.rs).              *)
(*                                                                         *)
(* A version is the digest of the bytes of a document: here, the document  *)
(* itself.  Every read of the file is a step of its own.                   *)
(***************************************************************************)
EXTENDS Naturals

CONSTANTS
    Docs,        \* documents: valid, builds, checked (boot-lifetime settings)
    First,       \* the document of the first boot
    Writers,     \* clients of PUT /config
    Editor,      \* whoever changes the file by hand
    MaxEdits,    \* bound: changes asked for, by hand or by PUT
    MaxBoots,    \* bound: restarts
    MaxFaults    \* bound: calls to the file system that fail

FileAssumption ==
    /\ \A d \in Docs : d.valid \in BOOLEAN /\ d.builds \in BOOLEAN
    /\ First \in Docs /\ First.valid /\ First.builds
    /\ Editor \notin Writers
    /\ MaxEdits \in Nat /\ MaxBoots \in Nat /\ MaxFaults \in Nat

VARIABLES
    file,      \* the document on disk, and who put it there
    backup,    \* the .bak beside it
    lock,      \* the client whose write holds write_lock, or Editor: nobody
    writer,    \* per client, the exchange it is in
    active,    \* the document in force and the version it is labelled with
    loop,      \* the reload loop, and the boot before it
    pending,   \* a trigger waits in the channel
    missed,    \* history: the file changed between a boot's read and its watch
    edits, boots, faults

vars == <<file, backup, lock, writer, active, loop, pending, missed,
          edits, boots, faults>>
bounds == <<missed, edits, boots, faults>>

Idle == [at |-> "idle"]
Waiting == [at |-> "waiting"]
Watching == loop.at \in {"waiting", "debouncing", "versioned", "loaded"}

Init ==
    /\ file = [doc |-> First, by |-> Editor] /\ backup = First
    /\ lock = Editor /\ writer = [w \in Writers |-> Idle]
    /\ active = [doc |-> First, version |-> First]
    /\ loop = Waiting /\ pending = FALSE /\ missed = FALSE
    /\ edits = 0 /\ boots = 0 /\ faults = 0

Storing(d, by) ==
    /\ file' = [doc |-> d, by |-> by]
    /\ pending' = (pending \/ Watching)

-----------------------------------------------------------------------------

(***************************************************************************)
(* Somebody replaces the file by hand, or a ConfigMap is swapped in.       *)
(***************************************************************************)
Edit(d) ==
    /\ edits < MaxEdits /\ edits' = edits + 1
    /\ d # file.doc /\ Storing(d, Editor)
    /\ UNCHANGED <<backup, lock, writer, active, loop, missed, boots, faults>>

(* SIGHUP, or a file beside the configuration is written.                  *)
Trigger ==
    /\ Watching /\ pending' = TRUE
    /\ UNCHANGED <<file, backup, lock, writer, active, loop, bounds>>

-----------------------------------------------------------------------------

(***************************************************************************)
(* GET /config: load_versioned reads the file for its version and again    *)
(* for its content, without the lock.                                      *)
(***************************************************************************)
GetVersion(w) ==
    /\ Watching /\ writer[w].at \in {"idle", "answered"}
    /\ writer' = [writer EXCEPT ![w] = [at |-> "getting", version |-> file.doc]]
    /\ UNCHANGED <<file, backup, lock, active, loop, pending, bounds>>

GetDocument(w) ==
    /\ writer[w].at = "getting"
    /\ writer' = [writer EXCEPT ![w] =
          IF file.doc.valid
          THEN [at |-> "got", version |-> @.version, doc |-> file.doc] ELSE Idle]
    /\ UNCHANGED <<file, backup, lock, active, loop, pending, bounds>>

(***************************************************************************)
(* PUT /config with the version read: the candidate is validated before    *)
(* anything, the version compared under write_lock.                        *)
(***************************************************************************)
PutConfig(w, d) ==
    /\ writer[w].at = "got" /\ edits < MaxEdits /\ edits' = edits + 1
    /\ writer' = [writer EXCEPT ![w] =
          IF d.valid THEN [at |-> "putting", version |-> @.version, doc |-> @.doc, new |-> d]
          ELSE [at |-> "answered", invalid |-> d]]
    /\ UNCHANGED <<file, backup, lock, active, loop, pending, missed, boots, faults>>

Conflict(w) == writer' = [writer EXCEPT ![w] = [at |-> "answered", conflict |-> file.doc]]

(* Faulty variant: the comparison is not made under the lock.              *)
LockFileShared(w) ==
    /\ writer[w].at = "putting"
    /\ IF file.doc # writer[w].version
       THEN Conflict(w) /\ UNCHANGED lock
       ELSE lock' = w /\ writer' = [writer EXCEPT ![w].at = "compared"]
    /\ UNCHANGED <<file, backup, active, loop, pending, bounds>>

LockFile(w) ==
    /\ writer[w].at = "putting" /\ lock = Editor
    /\ IF file.doc # writer[w].version
       THEN Conflict(w) /\ UNCHANGED lock
       ELSE lock' = w /\ writer' = [writer EXCEPT ![w].at = "compared"]
    /\ UNCHANGED <<file, backup, active, loop, pending, bounds>>

(* The copy and the temporary file land in the watched directory.          *)
StageFile(w) ==
    /\ writer[w].at = "compared"
    /\ backup' = file.doc
    /\ writer' = [writer EXCEPT ![w].at = "staged"]
    /\ pending' = TRUE
    /\ UNCHANGED <<file, lock, active, loop, bounds>>

CompareAgain(w) ==
    /\ writer[w].at = "staged"
    /\ IF file.doc # writer[w].version
       THEN Conflict(w) /\ lock' = Editor
       ELSE writer' = [writer EXCEPT ![w].at = "renaming"] /\ UNCHANGED lock
    /\ UNCHANGED <<file, backup, active, loop, pending, bounds>>

RenameFile(w) ==
    /\ writer[w].at = "renaming"
    /\ Storing(writer[w].new, w)
    /\ writer' = [writer EXCEPT ![w] = [at |-> "answered", version |-> @.new]]
    /\ lock' = Editor
    /\ UNCHANGED <<backup, active, loop, bounds>>

WriteFails(w) ==
    /\ lock = w /\ faults < MaxFaults
    /\ faults' = faults + 1
    /\ writer' = [writer EXCEPT ![w] = [at |-> "answered", failed |-> TRUE]]
    /\ lock' = Editor
    /\ UNCHANGED <<file, backup, active, loop, pending, missed, edits, boots>>

Write(w) == LockFile(w) \/ StageFile(w) \/ CompareAgain(w) \/ RenameFile(w)

-----------------------------------------------------------------------------

(***************************************************************************)
(* The burst: after a first trigger the loop waits for a window of         *)
(* DEBOUNCE_WINDOW without another, and each one that comes begins the     *)
(* window again.  Nothing bounds how often.                                *)
(***************************************************************************)
StartBurst ==
    /\ loop = Waiting /\ pending
    /\ pending' = FALSE /\ loop' = [at |-> "debouncing"]
    /\ UNCHANGED <<file, backup, lock, writer, active, bounds>>

ExtendBurst ==
    /\ loop.at = "debouncing" /\ pending
    /\ pending' = FALSE
    /\ UNCHANGED <<file, backup, lock, writer, active, loop, bounds>>

(***************************************************************************)
(* attempt_reload after a quiet window: version, document, and then the    *)
(* document is declined, refused or activated.                             *)
(***************************************************************************)
StartReload ==
    /\ loop.at = "debouncing" /\ ~pending
    /\ loop' = [at |-> "versioned", version |-> file.doc]
    /\ missed' = FALSE
    /\ UNCHANGED <<file, backup, lock, writer, active, pending, edits, boots, faults>>

LoadDocument ==
    /\ loop.at = "versioned"
    /\ loop' = IF file.doc.valid
               THEN [at |-> "loaded", version |-> loop.version, doc |-> file.doc] ELSE Waiting
    /\ UNCHANGED <<file, backup, lock, writer, active, pending, bounds>>

Unchanged == loop.version = active.version

Activatable(d) == d.checked = active.doc.checked /\ d.builds

DeclineUnchanged ==
    /\ loop.at = "loaded" /\ Unchanged
    /\ loop' = Waiting
    /\ UNCHANGED <<file, backup, lock, writer, active, pending, bounds>>

RefuseDocument ==
    /\ loop.at = "loaded" /\ ~Unchanged /\ ~Activatable(loop.doc)
    /\ loop' = Waiting
    /\ UNCHANGED <<file, backup, lock, writer, active, pending, bounds>>

(* Faulty variant: triggers that came during the attempt are drained.      *)
ActivateDocumentDraining ==
    /\ loop.at = "loaded" /\ ~Unchanged /\ Activatable(loop.doc)
    /\ active' = [doc |-> loop.doc, version |-> loop.version]
    /\ loop' = Waiting /\ pending' = FALSE
    /\ UNCHANGED <<file, backup, lock, writer, bounds>>

ActivateDocument ==
    /\ loop.at = "loaded" /\ ~Unchanged /\ Activatable(loop.doc)
    /\ active' = [doc |-> loop.doc, version |-> loop.version]
    /\ loop' = Waiting
    /\ UNCHANGED <<file, backup, lock, writer, pending, bounds>>

Reload ==
    StartBurst \/ ExtendBurst \/ StartReload
        \/ LoadDocument \/ DeclineUnchanged \/ RefuseDocument \/ ActivateDocument

-----------------------------------------------------------------------------

(***************************************************************************)
(* The process dies, whatever it was doing, and comes up again: it reads   *)
(* the file, builds what it read, and only then starts to watch.           *)
(***************************************************************************)
Crash ==
    /\ Watching /\ boots < MaxBoots /\ boots' = boots + 1
    /\ loop' = [at |-> "down"] /\ pending' = FALSE
    /\ lock' = Editor
    /\ writer' = [w \in Writers |-> IF writer[w].at \in {"idle", "got", "answered"}
                                    THEN writer[w] ELSE [at |-> "answered", failed |-> TRUE]]
    /\ UNCHANGED <<file, backup, active, missed, edits, faults>>

BootVersion ==
    /\ loop.at = "down"
    /\ loop' = [at |-> "booting", version |-> file.doc]
    /\ UNCHANGED <<file, backup, lock, writer, active, pending, bounds>>

BootDocument ==
    /\ loop.at = "booting"
    /\ IF file.doc.valid /\ file.doc.builds
       THEN /\ loop' = [at |-> "built"]
            /\ active' = [doc |-> file.doc, version |-> loop.version]
       ELSE loop' = [at |-> "down"] /\ UNCHANGED active
    /\ UNCHANGED <<file, backup, lock, writer, pending, bounds>>

StartWatching ==
    /\ loop.at = "built"
    /\ loop' = Waiting
    /\ missed' = (file.doc # active.doc)
    /\ UNCHANGED <<file, backup, lock, writer, active, pending, edits, boots, faults>>

Next ==
    \/ \E d \in Docs : Edit(d) \/ \E w \in Writers : PutConfig(w, d)
    \/ \E w \in Writers : GetVersion(w) \/ GetDocument(w) \/ Write(w) \/ WriteFails(w)
    \/ Trigger \/ Reload \/ Crash \/ BootVersion \/ BootDocument \/ StartWatching

Spec == Init /\ [][Next]_vars

(***************************************************************************)
(* The reload loop is a task of the process; a boot goes through.  Triggers *)
(* that never pause for a window keep the loop extending its burst: that   *)
(* is a fair behaviour too.                                                *)
(***************************************************************************)
FileFairness == WF_vars(Reload) /\ WF_vars(BootVersion \/ BootDocument \/ StartWatching)

FairSpec == Spec /\ FileFairness

-----------------------------------------------------------------------------

(***************************************************************************)
(* Documents, write_lock and bounds are well formed; one client at most    *)
(* holds the lock, and what is in force is valid and builds.               *)
(***************************************************************************)
DocumentsTyped ==
    /\ file \in [doc : Docs, by : Writers \cup {Editor}]
    /\ backup \in Docs
    /\ active \in [doc : Docs, version : Docs]
    /\ active.doc.valid /\ active.doc.builds
    /\ pending \in BOOLEAN /\ missed \in BOOLEAN

LockTyped ==
    /\ lock \in Writers \cup {Editor}
    /\ \A w \in Writers :
          lock = w <=> writer[w].at \in {"compared", "staged", "renaming"}

BoundsTyped ==
    edits \in 0..MaxEdits /\ boots \in 0..MaxBoots /\ faults \in 0..MaxFaults

TypeOK == DocumentsTyped /\ LockTyped /\ BoundsTyped

(***************************************************************************)
(* A write of the API replaces the very document its client had read, or   *)
(* one put there by hand after the second comparison: of two clients who   *)
(* start from one version, one gets a conflict (write, write_lock).        *)
(***************************************************************************)
PutsReplaceWhatTheyName ==
    [][\A w \in Writers :
          writer[w].at = "renaming" /\ writer'[w].at = "answered" /\ file' # file =>
              \/ file.doc = writer[w].version
              \/ file.by = Editor]_vars

(***************************************************************************)
(* A change of the file becomes visible, unless it is invalid, cannot be   *)
(* built or asks for a restart (reload.rs), or triggers keep coming for    *)
(* ever and never pause for a debounce window.  Two windows of the code    *)
(* are left out by name: a change between a boot's read and its watch, and *)
(* a document in force under the version of another one, because the file  *)
(* changed between the two reads of load_versioned.                        *)
(***************************************************************************)
Mislabelled == active.version # active.doc

Starved == <>[](loop.at = "debouncing") /\ []<>pending

EditsArrive ==
    Starved \/
    <>[](Watching => \/ active.doc = file.doc
                     \/ missed \/ Mislabelled
                     \/ ~file.doc.valid
                     \/ ~Activatable(file.doc))
=============================================================================
