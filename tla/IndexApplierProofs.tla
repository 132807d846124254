-------------------------- MODULE IndexApplierProofs -------------------------
(***************************************************************************)
(* Proofs about IndexApplier, for any number of replicas, features and     *)
(* faults, with or without a lease: the index's high-water mark is a sound *)
(* resume cursor, and redelivery never takes a document back.              *)
(*                                                                         *)
(* HighWaterIsSound is not inductive: what makes it so is that a drain     *)
(* pass knows everything it may step over.  A pass that has read its       *)
(* cursor holds no more than the high-water mark of that moment, the mark  *)
(* only grows, and a page has no hole; so each change below the next       *)
(* obligation of a page is in the index already or in the page before it   *)
(* (PassesAreComplete).                                                    *)
(***************************************************************************)
EXTENDS IndexApplier, OutboxLogProofs

(***************************************************************************)
(* Obligations an observer can hold: those in the outbox and those a pass  *)
(* has read (retention may have pruned them since).                        *)
(***************************************************************************)
Held(o) == o \in outbox \/ \E r \in Replicas : o \in pass[r].todo

(***************************************************************************)
(* `latest` is an upper bound of every obligation and index version of a   *)
(* feature, and whatever carries it describes the stored row.              *)
(***************************************************************************)
LatestIsLatest ==
    /\ \A f \in Features :
          /\ latest[f] <= lastSeq
          /\ index[f].ver <= latest[f]
          /\ index[f].ver = latest[f] => index[f].doc = rows[f]
    /\ \A o : Held(o) =>
          /\ o.seq <= latest[o.fid]
          /\ o.seq = latest[o.fid] => o.current = rows[o.fid]
          /\ \A f \in Features : o.seq = latest[f] => o.fid = f

(***************************************************************************)
(* A change above the high-water mark is still in the outbox, one at or    *)
(* below it is in the index.                                               *)
(***************************************************************************)
NothingIsLost ==
    \A f \in Features :
        /\ latest[f] > AppliedHighWater =>
              \E o \in outbox : o.fid = f /\ o.seq = latest[f]
        /\ latest[f] <= AppliedHighWater => index[f].ver = latest[f]

(***************************************************************************)
(* A pass never steps over a change: its cursor is not above the mark, and *)
(* what is below an obligation it holds is applied or held as well.        *)
(***************************************************************************)
PassesAreComplete ==
    \A r \in Replicas :
        /\ pass[r].pc = "read" => pass[r].cursor <= AppliedHighWater
        /\ \A o \in pass[r].todo, f \in Features :
              latest[f] < o.seq =>
                 \/ index[f].ver = latest[f]
                 \/ \E p \in pass[r].todo : p.fid = f /\ p.seq = latest[f]

IInv ==
    /\ TypeOK
    /\ SequencesDistinct
    /\ LatestIsLatest
    /\ NothingIsLost
    /\ PassesAreComplete

-----------------------------------------------------------------------------
(***************************************************************************)
(* What applied_high_water returns while versions are bounded.             *)
(***************************************************************************)
LEMMA HighWaterFacts ==
    ASSUME NEW b \in Nat, \A f \in Features : index[f].ver \in Nat /\ index[f].ver <= b
    PROVE  /\ AppliedHighWater \in Nat /\ AppliedHighWater <= b
           /\ \A f \in Features : index[f].ver <= AppliedHighWater
           /\ AppliedHighWater = 0 \/ \E f \in Features : AppliedHighWater = index[f].ver
<1>1. Versions # {} /\ \A v \in Versions : v \in Nat /\ v <= b
  BY DEF Versions
<1>2. AppliedHighWater \in Versions /\ \A v \in Versions : v <= AppliedHighWater
  BY <1>1, MaxOfBounded DEF AppliedHighWater
<1>3. AppliedHighWater \in Nat /\ AppliedHighWater <= b
  BY <1>1, <1>2
<1>4. \A f \in Features : index[f].ver \in Versions
  BY DEF Versions
<1>5. AppliedHighWater = 0 \/ \E f \in Features : AppliedHighWater = index[f].ver
  BY <1>2 DEF Versions
<1> QED
  BY <1>2, <1>3, <1>4, <1>5

LEMMA HighWaterFactsAfter ==
    ASSUME NEW b \in Nat, \A f \in Features : index'[f].ver \in Nat /\ index'[f].ver <= b
    PROVE  /\ AppliedHighWater' \in Nat
           /\ \A f \in Features : index'[f].ver <= AppliedHighWater'
           /\ AppliedHighWater' = 0 \/ \E f \in Features : AppliedHighWater' = index'[f].ver
<1>1. Versions' # {} /\ \A v \in Versions' : v \in Nat /\ v <= b
  BY DEF Versions
<1>2. AppliedHighWater' \in Versions' /\ \A v \in Versions' : v <= AppliedHighWater'
  BY <1>1, MaxOfBounded DEF AppliedHighWater
<1>3. AppliedHighWater' \in Nat
  BY <1>1, <1>2
<1>4. \A f \in Features : index'[f].ver \in Versions'
  BY DEF Versions
<1>5. AppliedHighWater' = 0 \/ \E f \in Features : AppliedHighWater' = index'[f].ver
  BY <1>2 DEF Versions
<1> QED
  BY <1>2, <1>3, <1>4, <1>5

LEMMA InitInv == Init => IInv
<1> SUFFICES ASSUME Init PROVE IInv
  OBVIOUS
<1>1. /\ rows = [f \in Features |-> Absent] /\ outbox = {} /\ lastSeq = 0
      /\ index = [f \in Features |-> NoDoc]
      /\ latest = [f \in Features |-> 0]
      /\ pass = [r \in Replicas |-> IdlePass]
  BY DEF Init, LogInit
<1>2. TypeOK
  BY <1>1 DEF Init, LogInit, TypeOK, LogTypeOK, Stored, NoDoc, IdlePass
<1>3. SequencesDistinct
  BY <1>1 DEF SequencesDistinct
<1>4. \A f \in Features : index[f].ver = 0 /\ index[f].doc = Absent /\ rows[f] = Absent /\ latest[f] = 0
  BY <1>1 DEF NoDoc
<1>5. \A r \in Replicas : pass[r].pc = "idle" /\ pass[r].todo = {}
  BY <1>1 DEF IdlePass
<1>6. LatestIsLatest
  BY <1>1, <1>4, <1>5 DEF LatestIsLatest, Held
<1>7. NothingIsLost
  <2>1. AppliedHighWater \in Nat
    BY <1>4, HighWaterFacts
  <2> QED
    BY <1>4, <2>1 DEF NothingIsLost
<1>8. PassesAreComplete
  BY <1>5 DEF PassesAreComplete
<1> QED
  BY <1>2, <1>3, <1>6, <1>7, <1>8 DEF IInv

-----------------------------------------------------------------------------
(***************************************************************************)
(* The parts of TypeOK the steps below use.                                *)
(***************************************************************************)
PassType ==
    [pc : {"idle", "cursor", "read", "apply"}, cursor : Nat, todo : SUBSET Obligation]

LEMMA MarkFacts ==
    ASSUME IInv
    PROVE  /\ AppliedHighWater \in Nat /\ AppliedHighWater <= lastSeq
           /\ \A f \in Features : index[f].ver <= AppliedHighWater
           /\ AppliedHighWater = 0 \/ \E f \in Features : AppliedHighWater = index[f].ver
<1>1. \A f \in Features : index[f].ver \in Nat /\ index[f].ver <= lastSeq
  BY DEF IInv, TypeOK, LogTypeOK, LatestIsLatest
<1>2. lastSeq \in Nat
  BY DEF IInv, TypeOK, LogTypeOK
<1> QED
  BY <1>1, <1>2, HighWaterFacts

(***************************************************************************)
(* Steps that touch neither the log nor the index, and at most drop a pass *)
(* or start one: leases, faults, searches.                                 *)
(***************************************************************************)
LEMMA QuietStepInv ==
    ASSUME IInv, TypeOK', UNCHANGED <<rows, outbox, lastSeq, index, latest>>,
           \A r \in Replicas :
              \/ pass'[r] = pass[r]
              \/ pass'[r].pc # "read" /\ pass'[r].todo = {}
              \/ pass'[r].pc # "read" /\ pass'[r].todo = pass[r].todo
    PROVE  IInv'
<1>1. SequencesDistinct'
  BY DEF IInv, SequencesDistinct
<1>2. \A o : Held(o)' => Held(o)
  BY DEF Held
<1>3. LatestIsLatest'
  BY <1>2 DEF IInv, LatestIsLatest
<1>4. AppliedHighWater' = AppliedHighWater
  BY DEF AppliedHighWater, Versions
<1>5. NothingIsLost'
  BY <1>4 DEF IInv, NothingIsLost
<1>6. PassesAreComplete'
  BY <1>4 DEF IInv, PassesAreComplete
<1> QED
  BY <1>1, <1>3, <1>5, <1>6 DEF IInv

LEMMA WriteInv ==
    ASSUME IInv, NEW m \in Mutation, NEW rec \in Recordings, NEW gap \in 0..MaxGap,
           Write(m, rec, gap)
    PROVE  IInv'
<1>1. rec \in BOOLEAN /\ gap \in Nat /\ m.fid \in Features
  BY RecordingsAssumption, BoundsAssumption DEF Mutation
<1> DEFINE new == [seq |-> lastSeq', fid |-> m.fid, prior |-> rows[m.fid],
                   current |-> m.to, recorded |-> rec]
<1>2. /\ lastSeq' = lastSeq + gap + 1
      /\ rows' = [rows EXCEPT ![m.fid] = m.to]
      /\ outbox' = outbox \cup {new}
      /\ LogTypeOK'
  BY <1>1, CommitOne DEF Write, IInv, TypeOK
<1>3. /\ latest' = [latest EXCEPT ![m.fid] = lastSeq']
      /\ index' = index /\ pass' = pass /\ holder' = holder /\ guard' = guard
  BY DEF Write
<1>4. /\ lastSeq \in Nat /\ rows \in [Features -> Stored]
      /\ latest \in [Features -> Nat]
      /\ outbox \subseteq Obligation
      /\ \A o \in outbox : o.seq <= lastSeq
      /\ pass \in [Replicas -> PassType]
      /\ index \in [Features -> [ver : Nat, doc : Stored]]
  BY DEF IInv, TypeOK, LogTypeOK, PassType
<1>5. TypeOK'
  <2>1. lastSeq' \in Nat
    BY <1>1, <1>2, <1>4
  <2>2. latest' \in [Features -> Nat]
    BY <1>3, <1>4, <2>1
  <2> QED
    BY <1>2, <1>3, <2>2 DEF IInv, TypeOK
<1>6. new.seq = lastSeq' /\ new.fid = m.fid /\ new.current = m.to
  OBVIOUS
<1> HIDE DEF new
<1>7. \A o : Held(o) => o.seq \in Nat /\ o.seq <= lastSeq /\ o.fid \in Features
  <2> SUFFICES ASSUME NEW o, Held(o)
               PROVE  o.seq \in Nat /\ o.seq <= lastSeq /\ o.fid \in Features
    OBVIOUS
  <2>1. o \in Obligation
    BY <1>4 DEF Held, PassType
  <2>2. o.seq <= latest[o.fid] /\ latest[o.fid] <= lastSeq
    BY <2>1 DEF IInv, LatestIsLatest, Obligation
  <2> QED
    BY <1>4, <2>1, <2>2 DEF Obligation
<1>8. \A f \in Features : latest[f] \in Nat /\ latest[f] <= lastSeq
  BY <1>4 DEF IInv, LatestIsLatest
<1>9. \A f \in Features : f # m.fid => latest'[f] = latest[f] /\ rows'[f] = rows[f]
  BY <1>2, <1>3, <1>4
<1>10. latest'[m.fid] = lastSeq' /\ rows'[m.fid] = m.to /\ lastSeq < lastSeq' /\ lastSeq' \in Nat
  BY <1>1, <1>2, <1>3, <1>4
<1>11. SequencesDistinct'
  <2>1. \A o \in outbox : o.seq # new.seq
    BY <1>4, <1>6, <1>10 DEF Obligation
  <2> QED
    BY <1>2, <2>1 DEF IInv, SequencesDistinct
<1>12. LatestIsLatest'
  <2>1. ASSUME NEW f \in Features
        PROVE  /\ latest'[f] <= lastSeq'
               /\ index'[f].ver <= latest'[f]
               /\ index'[f].ver = latest'[f] => index'[f].doc = rows'[f]
    <3>1. /\ index[f].ver \in Nat /\ index[f].ver <= latest[f]
          /\ index[f].ver = latest[f] => index[f].doc = rows[f]
      BY <1>4 DEF IInv, LatestIsLatest
    <3> QED
      BY <1>3, <1>4, <1>8, <1>9, <1>10, <3>1
  <2>2. ASSUME NEW o, Held(o)
        PROVE  /\ o.seq <= latest'[o.fid]
               /\ o.seq = latest'[o.fid] => o.current = rows'[o.fid]
               /\ \A f \in Features : o.seq = latest'[f] => o.fid = f
    <3>1. /\ o.seq <= latest[o.fid]
          /\ o.seq = latest[o.fid] => o.current = rows[o.fid]
          /\ \A f \in Features : o.seq = latest[f] => o.fid = f
      BY <2>2 DEF IInv, LatestIsLatest
    <3> QED
      BY <1>4, <1>7, <1>9, <1>10, <2>2, <3>1
  <2>3. /\ new.seq <= latest'[new.fid]
        /\ new.seq = latest'[new.fid] => new.current = rows'[new.fid]
        /\ \A f \in Features : new.seq = latest'[f] => new.fid = f
    BY <1>4, <1>6, <1>8, <1>9, <1>10
  <2>4. \A o : Held(o)' => Held(o) \/ o = new
    BY <1>2, <1>3 DEF Held
  <2> QED
    BY <2>1, <2>2, <2>3, <2>4 DEF LatestIsLatest
<1>13. AppliedHighWater' = AppliedHighWater
  BY <1>3 DEF AppliedHighWater, Versions
<1>14. NothingIsLost'
  <2> SUFFICES ASSUME NEW f \in Features
               PROVE  /\ latest'[f] > AppliedHighWater =>
                            \E o \in outbox' : o.fid = f /\ o.seq = latest'[f]
                      /\ latest'[f] <= AppliedHighWater => index'[f].ver = latest'[f]
    BY <1>13 DEF NothingIsLost
  <2>1. CASE f = m.fid
    <3>1. AppliedHighWater \in Nat /\ AppliedHighWater <= lastSeq
      BY MarkFacts
    <3> QED
      BY <1>2, <1>4, <1>6, <1>10, <2>1, <3>1
  <2>2. CASE f # m.fid
    BY <1>2, <1>3, <1>9, <2>2 DEF IInv, NothingIsLost
  <2> QED
    BY <2>1, <2>2
<1>15. PassesAreComplete'
  <2>1. ASSUME NEW r \in Replicas, NEW o \in pass[r].todo, NEW f \in Features,
               latest'[f] < o.seq
        PROVE  \/ index[f].ver = latest'[f]
               \/ \E p \in pass[r].todo : p.fid = f /\ p.seq = latest'[f]
    <3>1. f # m.fid
      BY <1>4, <1>7, <1>10, <2>1 DEF Held
    <3> QED
      BY <1>9, <2>1, <3>1 DEF IInv, PassesAreComplete
  <2> QED
    BY <1>3, <1>13, <2>1 DEF IInv, PassesAreComplete
<1> QED
  BY <1>5, <1>11, <1>12, <1>14, <1>15 DEF IInv

LEMMA PruneAppliedInv ==
    ASSUME IInv, NEW floor \in 0..MaxSeq, NEW batch \in 1..MaxSeq,
           PruneApplied(floor, batch)
    PROVE  IInv'
<1>1. /\ outbox' \subseteq outbox
      /\ \A o \in outbox \ outbox' : o.seq <= AppliedHighWater
      /\ rows' = rows /\ lastSeq' = lastSeq
  <2>1. floor \in Nat /\ batch \in Nat /\ floor <= AppliedHighWater /\ Prune(floor, batch)
    BY BoundsAssumption DEF PruneApplied
  <2>2. LogTypeOK /\ SequencesDistinct
    BY DEF IInv, TypeOK
  <2>3. /\ outbox' \subseteq outbox
        /\ \A o \in outbox \ outbox' : o.seq <= floor
        /\ rows' = rows /\ lastSeq' = lastSeq
    BY <2>1, <2>2, PruneRemovesAPrefix
  <2>4. AppliedHighWater \in Nat /\ \A o \in outbox : o.seq \in Nat
    BY <2>2, MarkFacts DEF LogTypeOK, Obligation
  <2> QED
    BY <2>1, <2>3, <2>4
<1>2. /\ index' = index /\ holder' = holder /\ guard' = guard /\ pass' = pass
      /\ latest' = latest
  BY DEF PruneApplied, applierVars
<1>3. AppliedHighWater' = AppliedHighWater
  BY <1>2 DEF AppliedHighWater, Versions
<1>4. TypeOK'
  BY <1>1, <1>2 DEF IInv, TypeOK, LogTypeOK
<1>5. SequencesDistinct'
  BY <1>1 DEF IInv, SequencesDistinct
<1>6. LatestIsLatest'
  <2>1. \A o : Held(o)' => Held(o)
    BY <1>1, <1>2 DEF Held
  <2> QED
    BY <1>1, <1>2, <2>1 DEF IInv, LatestIsLatest
<1>7. NothingIsLost'
  <2> SUFFICES ASSUME NEW f \in Features, latest[f] > AppliedHighWater
               PROVE  \E o \in outbox' : o.fid = f /\ o.seq = latest[f]
    BY <1>2, <1>3 DEF IInv, NothingIsLost
  <2>1. PICK o \in outbox : o.fid = f /\ o.seq = latest[f]
    BY DEF IInv, NothingIsLost
  <2>2. AppliedHighWater \in Nat /\ latest[f] \in Nat
    BY MarkFacts DEF IInv, TypeOK
  <2> QED
    BY <1>1, <2>1, <2>2
<1>8. PassesAreComplete'
  BY <1>2, <1>3 DEF IInv, PassesAreComplete
<1> QED
  BY <1>4, <1>5, <1>6, <1>7, <1>8 DEF IInv

LEMMA ReadCursorInv ==
    ASSUME IInv, NEW r \in Replicas, ReadCursor(r)
    PROVE  IInv'
<1>1. /\ UNCHANGED <<rows, outbox, lastSeq, index, holder, guard, latest>>
      /\ pass' = [pass EXCEPT ![r].cursor = AppliedHighWater, ![r].pc = "read"]
  BY DEF ReadCursor
<1>2. pass \in [Replicas -> PassType] /\ AppliedHighWater \in Nat
  BY MarkFacts DEF IInv, TypeOK, PassType
<1>3. /\ pass' \in [Replicas -> PassType]
      /\ pass'[r].cursor = AppliedHighWater
      /\ \A s \in Replicas : pass'[s].todo = pass[s].todo
      /\ \A s \in Replicas \ {r} : pass'[s] = pass[s]
  BY <1>1, <1>2 DEF PassType
<1>4. TypeOK'
  BY <1>1, <1>3 DEF IInv, TypeOK, LogTypeOK, PassType
<1>5. SequencesDistinct'
  BY <1>1 DEF IInv, SequencesDistinct
<1>6. LatestIsLatest'
  <2>1. \A o : Held(o)' => Held(o)
    BY <1>1, <1>3 DEF Held
  <2> QED
    BY <1>1, <2>1 DEF IInv, LatestIsLatest
<1>7. AppliedHighWater' = AppliedHighWater
  BY <1>1 DEF AppliedHighWater, Versions
<1>8. NothingIsLost'
  BY <1>1, <1>7 DEF IInv, NothingIsLost
<1>9. PassesAreComplete'
  <2> SUFFICES ASSUME NEW s \in Replicas
               PROVE  /\ pass'[s].pc = "read" => pass'[s].cursor <= AppliedHighWater
                      /\ \A o \in pass[s].todo, f \in Features :
                            latest[f] < o.seq =>
                               \/ index[f].ver = latest[f]
                               \/ \E p \in pass[s].todo : p.fid = f /\ p.seq = latest[f]
    BY <1>1, <1>3, <1>7 DEF PassesAreComplete
  <2>1. pass'[s].pc = "read" => pass'[s].cursor <= AppliedHighWater
    <3>1. CASE s = r
      BY <1>2, <1>3, <3>1
    <3>2. CASE s # r
      BY <1>3, <3>2 DEF IInv, PassesAreComplete
    <3> QED
      BY <3>1, <3>2
  <2> QED
    BY <2>1 DEF IInv, PassesAreComplete
<1> QED
  BY <1>4, <1>5, <1>6, <1>8, <1>9 DEF IInv

(***************************************************************************)
(* The page a pass reads is complete: what it does not hold below its      *)
(* highest obligation was at or below the cursor, so it is in the index.   *)
(***************************************************************************)
LEMMA ReadBatchInv ==
    ASSUME IInv, NEW r \in Replicas, ReadBatch(r)
    PROVE  IInv'
<1> DEFINE batch == ReadAfter(pass[r].cursor, BatchSize)
<1>1. /\ UNCHANGED <<rows, outbox, lastSeq, index, holder, guard, latest>>
      /\ pass[r].pc = "read"
      /\ pass' = [pass EXCEPT ![r] = IF batch = {} THEN IdlePass
                                     ELSE [@ EXCEPT !.todo = batch, !.pc = "apply"]]
  BY DEF ReadBatch
<1>2. /\ pass \in [Replicas -> PassType]
      /\ pass[r].cursor \in Nat /\ BatchSize \in Nat
      /\ LogTypeOK /\ SequencesDistinct
  BY ApplierBounds DEF IInv, TypeOK, PassType
<1>3. /\ batch \subseteq outbox
      /\ \A o \in batch : o.seq > pass[r].cursor
      /\ \A o \in batch, p \in outbox : p.seq > pass[r].cursor /\ p.seq <= o.seq => p \in batch
  BY <1>2, ReadAfterSubset, ReadAfterSkipsNothing
<1> HIDE DEF batch
<1>4. /\ pass' \in [Replicas -> PassType]
      /\ pass'[r].pc # "read"
      /\ pass'[r].todo = batch
      /\ \A s \in Replicas \ {r} : pass'[s] = pass[s]
  <2>1. batch \subseteq Obligation
    BY <1>2, <1>3 DEF LogTypeOK
  <2>2. CASE batch = {}
    BY <1>1, <1>2, <2>2 DEF PassType, IdlePass
  <2>3. CASE batch # {}
    BY <1>1, <1>2, <2>1, <2>3 DEF PassType
  <2> QED
    BY <2>2, <2>3
<1>5. TypeOK'
  BY <1>1, <1>4 DEF IInv, TypeOK, LogTypeOK, PassType
<1>6. SequencesDistinct'
  BY <1>1 DEF IInv, SequencesDistinct
<1>7. LatestIsLatest'
  <2>1. \A o : Held(o)' => Held(o)
    BY <1>1, <1>3, <1>4 DEF Held
  <2> QED
    BY <1>1, <2>1 DEF IInv, LatestIsLatest
<1>8. AppliedHighWater' = AppliedHighWater
  BY <1>1 DEF AppliedHighWater, Versions
<1>9. NothingIsLost'
  BY <1>1, <1>8 DEF IInv, NothingIsLost
<1>10. ASSUME NEW o \in batch, NEW f \in Features, latest[f] < o.seq
       PROVE  \/ index[f].ver = latest[f]
              \/ \E p \in batch : p.fid = f /\ p.seq = latest[f]
  <2>1. /\ AppliedHighWater \in Nat /\ latest[f] \in Nat /\ o.seq \in Nat
        /\ pass[r].cursor <= AppliedHighWater
    BY <1>1, <1>2, <1>3, <1>10, MarkFacts
    DEF IInv, TypeOK, LogTypeOK, Obligation, PassesAreComplete
  <2>2. CASE latest[f] <= AppliedHighWater
    BY <2>2 DEF IInv, NothingIsLost
  <2>3. CASE latest[f] > AppliedHighWater
    <3>1. PICK p \in outbox : p.fid = f /\ p.seq = latest[f]
      BY <2>3 DEF IInv, NothingIsLost
    <3>2. p \in batch
      BY <1>2, <1>3, <1>10, <2>1, <2>3, <3>1
    <3> QED
      BY <3>1, <3>2
  <2> QED
    BY <2>1, <2>2, <2>3
<1>11. PassesAreComplete'
  BY <1>1, <1>4, <1>8, <1>10 DEF IInv, PassesAreComplete
<1> QED
  BY <1>5, <1>6, <1>7, <1>9, <1>11 DEF IInv

(***************************************************************************)
(* Applying the next obligation may raise the mark to its sequence; every  *)
(* change the mark then passes is that obligation itself or, the page      *)
(* being complete, in the index already.                                   *)
(***************************************************************************)
LEMMA ApplyNextInv ==
    ASSUME IInv, NEW r \in Replicas, ApplyNext(r)
    PROVE  IInv' /\ \A f \in Features : index'[f].ver >= index[f].ver
<1>1. PICK o \in pass[r].todo :
        /\ NextUp(pass[r].todo, o)
        /\ index' = ApplyToIndex(o)
        /\ pass' = [pass EXCEPT ![r] = Without(pass[r], o)]
  BY DEF ApplyNext
<1>2. UNCHANGED <<rows, outbox, lastSeq, holder, guard, latest>> /\ pass[r].pc = "apply"
  BY DEF ApplyNext
<1>3. /\ pass \in [Replicas -> PassType]
      /\ index \in [Features -> [ver : Nat, doc : Stored]]
      /\ latest \in [Features -> Nat] /\ lastSeq \in Nat
  BY DEF IInv, TypeOK, LogTypeOK, PassType
<1>4. o \in Obligation /\ \A p \in pass[r].todo : p \in Obligation /\ o.seq <= p.seq
  BY <1>1, <1>3 DEF PassType, NextUp
<1>5. /\ o.seq \in Nat \ {0} /\ o.fid \in Features /\ o.current \in Stored
      /\ o.seq <= latest[o.fid]
      /\ o.seq = latest[o.fid] => o.current = rows[o.fid]
      /\ \A f \in Features : o.seq = latest[f] => o.fid = f
  BY <1>4 DEF IInv, LatestIsLatest, Held, Obligation
<1>6. \A f \in Features :
        /\ index[f].ver \in Nat /\ latest[f] \in Nat
        /\ index[f].ver <= latest[f] /\ latest[f] <= lastSeq
        /\ index[f].ver = latest[f] => index[f].doc = rows[f]
  BY <1>3 DEF IInv, LatestIsLatest
<1>7. /\ index' \in [Features -> [ver : Nat, doc : Stored]]
      /\ \A f \in Features : f # o.fid => index'[f] = index[f]
      /\ o.seq <= index[o.fid].ver => index'[o.fid] = index[o.fid]
      /\ index[o.fid].ver < o.seq => /\ index'[o.fid].ver = o.seq
                                    /\ index'[o.fid].doc = o.current
  BY <1>1, <1>3, <1>5, <1>6 DEF ApplyToIndex
<1>8. /\ pass' \in [Replicas -> PassType]
      /\ pass'[r].pc # "read"
      /\ pass'[r].todo = pass[r].todo \ {o}
      /\ \A s \in Replicas \ {r} : pass'[s] = pass[s]
  <2>1. CASE pass[r].todo = {o}
    BY <1>1, <1>3, <2>1 DEF PassType, IdlePass, Without
  <2>2. CASE pass[r].todo # {o}
    <3>1. pass' = [pass EXCEPT ![r] = [pass[r] EXCEPT !.todo = pass[r].todo \ {o}]]
      BY <1>1, <2>2 DEF Without
    <3>2. pass[r] \in PassType /\ pass[r].todo \ {o} \in SUBSET Obligation
      BY <1>3 DEF PassType
    <3>3. /\ [pass[r] EXCEPT !.todo = pass[r].todo \ {o}] \in PassType
          /\ [pass[r] EXCEPT !.todo = pass[r].todo \ {o}].todo = pass[r].todo \ {o}
          /\ [pass[r] EXCEPT !.todo = pass[r].todo \ {o}].pc = "apply"
      BY <1>2, <3>2 DEF PassType
    <3> QED
      BY <1>3, <3>1, <3>3
  <2> QED
    BY <2>1, <2>2
<1>9. TypeOK'
  BY <1>2, <1>7, <1>8 DEF IInv, TypeOK, LogTypeOK, PassType
<1>10. SequencesDistinct'
  BY <1>2 DEF IInv, SequencesDistinct
<1>11. \A f \in Features :
         /\ index'[f].ver \in Nat /\ index'[f].ver <= latest[f]
         /\ index'[f].ver >= index[f].ver
         /\ index[f].ver = latest[f] => index'[f] = index[f]
         /\ index'[f].ver = latest[f] => index'[f].doc = rows[f]
  BY <1>5, <1>6, <1>7
<1>12. LatestIsLatest'
  <2>1. \A p : Held(p)' => Held(p)
    BY <1>2, <1>8 DEF Held
  <2> QED
    BY <1>2, <1>6, <1>11, <2>1 DEF IInv, LatestIsLatest
<1>13. /\ AppliedHighWater \in Nat
       /\ \A f \in Features : index[f].ver <= AppliedHighWater
  BY MarkFacts
<1>14. /\ AppliedHighWater' \in Nat
       /\ \A f \in Features : index'[f].ver <= AppliedHighWater'
       /\ AppliedHighWater' = 0 \/ \E f \in Features : AppliedHighWater' = index'[f].ver
  <2>1. \A f \in Features : index'[f].ver \in Nat /\ index'[f].ver <= lastSeq
    BY <1>3, <1>6, <1>11
  <2> QED
    BY <1>3, <2>1, HighWaterFactsAfter
<1>15. AppliedHighWater <= AppliedHighWater'
  <2>1. AppliedHighWater = 0 \/ \E f \in Features : AppliedHighWater = index[f].ver
    BY MarkFacts
  <2> QED
    BY <1>6, <1>11, <1>14, <2>1
<1>16. AppliedHighWater' = AppliedHighWater \/ AppliedHighWater' = o.seq
  <2>1. CASE AppliedHighWater' = 0
    BY <1>13, <1>15, <2>1
  <2>2. ASSUME NEW f \in Features, AppliedHighWater' = index'[f].ver, index'[f] = index[f]
        PROVE  AppliedHighWater' = AppliedHighWater
    <3>1. AppliedHighWater' <= AppliedHighWater
      BY <1>13, <2>2
    <3> QED
      BY <1>13, <1>14, <1>15, <3>1
  <2>3. ASSUME NEW f \in Features, index'[f] # index[f]
        PROVE  index'[f].ver = o.seq
    BY <1>5, <1>6, <1>7, <2>3
  <2> QED
    BY <1>14, <2>1, <2>2, <2>3
<1>17. NothingIsLost'
  <2> SUFFICES ASSUME NEW f \in Features
               PROVE  /\ latest[f] > AppliedHighWater' =>
                            \E p \in outbox : p.fid = f /\ p.seq = latest[f]
                      /\ latest[f] <= AppliedHighWater' => index'[f].ver = latest[f]
    BY <1>2 DEF NothingIsLost
  <2>1. /\ latest[f] > AppliedHighWater =>
              \E p \in outbox : p.fid = f /\ p.seq = latest[f]
        /\ latest[f] <= AppliedHighWater => index[f].ver = latest[f]
    BY DEF IInv, NothingIsLost
  <2>2. ASSUME latest[f] > AppliedHighWater' PROVE latest[f] > AppliedHighWater
    BY <1>6, <1>13, <1>14, <1>15, <2>2
  <2>3. ASSUME latest[f] <= AppliedHighWater' PROVE index'[f].ver = latest[f]
    <3>1. CASE latest[f] <= AppliedHighWater
      BY <1>11, <2>1, <3>1
    <3>2. CASE latest[f] > AppliedHighWater
      <4>1. AppliedHighWater' = o.seq /\ latest[f] <= o.seq
        BY <1>6, <1>13, <1>16, <2>3, <3>2
      <4>2. CASE latest[f] = o.seq
        <5>1. o.fid = f
          BY <1>5, <4>2
        <5>2. index[f].ver < o.seq
          BY <1>5, <1>6, <1>13, <3>2, <4>2
        <5> QED
          BY <1>7, <4>2, <5>1, <5>2
      <4>3. CASE latest[f] < o.seq
        <5>1. index[f].ver # latest[f]
          BY <1>6, <1>13, <3>2
        <5>2. PICK p \in pass[r].todo : p.seq = latest[f]
          BY <4>3, <5>1 DEF IInv, PassesAreComplete
        <5> QED
          BY <1>4, <1>5, <1>6, <4>3, <5>2
      <4> QED
        BY <1>5, <1>6, <4>1, <4>2, <4>3
    <3> QED
      BY <1>6, <1>13, <3>1, <3>2
  <2> QED
    BY <2>1, <2>2, <2>3
<1>18. PassesAreComplete'
  <2>1. ASSUME NEW s \in Replicas, pass'[s].pc = "read"
        PROVE  pass'[s].cursor <= AppliedHighWater'
    <3>1. s # r /\ pass'[s] = pass[s]
      BY <1>8, <2>1
    <3>2. pass[s].cursor <= AppliedHighWater /\ pass[s].cursor \in Nat
      BY <1>3, <2>1, <3>1 DEF IInv, PassesAreComplete, PassType
    <3> QED
      BY <1>13, <1>14, <1>15, <3>1, <3>2
  <2>2. ASSUME NEW s \in Replicas, NEW q \in pass'[s].todo, NEW f \in Features,
               latest[f] < q.seq
        PROVE  \/ index'[f].ver = latest[f]
               \/ \E p \in pass'[s].todo : p.fid = f /\ p.seq = latest[f]
    <3>1. q \in pass[s].todo
      BY <1>8, <2>2
    <3>2. CASE index[f].ver = latest[f]
      BY <1>11, <3>2
    <3>3. CASE \E p \in pass[s].todo : p.fid = f /\ p.seq = latest[f]
      <4>1. PICK p \in pass[s].todo : p.fid = f /\ p.seq = latest[f]
        BY <3>3
      <4>2. CASE s = r /\ p = o
        BY <1>5, <1>6, <1>7, <1>11, <4>1, <4>2
      <4>3. CASE ~ (s = r /\ p = o)
        BY <1>8, <4>1, <4>3
      <4> QED
        BY <4>2, <4>3
    <3> QED
      BY <2>2, <3>1, <3>2, <3>3 DEF IInv, PassesAreComplete
  <2> QED
    BY <1>2, <2>1, <2>2 DEF PassesAreComplete
<1> QED
  BY <1>9, <1>10, <1>11, <1>12, <1>17, <1>18 DEF IInv

-----------------------------------------------------------------------------
(***************************************************************************)
(* The lease, the faults and the search gate leave the log and the index   *)
(* alone; a pass they touch drops its page or has not read its cursor.     *)
(***************************************************************************)
LEMMA LeaseStepInv ==
    ASSUME IInv, NEW r \in Replicas,
           \/ KeepLeading(r) \/ TryAcquire(r) \/ LoseSession(r)
           \/ NoticeClosed(r) \/ PassFails(r) \/ Crash(r)
    PROVE  IInv' /\ index' = index
<1>1. UNCHANGED <<rows, outbox, lastSeq, index, latest>>
  BY DEF KeepLeading, TryAcquire, LockIsFree, LoseSession, NoticeClosed, PassFails, Crash
<1>2. /\ pass \in [Replicas -> PassType]
      /\ guard \in [Replicas -> {"none", "live", "closed"}]
      /\ holder \in Replicas \cup {Nobody}
  BY DEF IInv, TypeOK, PassType
<1>3. holder' \in Replicas \cup {Nobody} /\ guard' \in [Replicas -> {"none", "live", "closed"}]
  BY <1>2 DEF KeepLeading, TryAcquire, LockIsFree, LoseSession, NoticeClosed, PassFails, Crash
<1>4. /\ pass' \in [Replicas -> PassType]
      /\ \A s \in Replicas :
            \/ pass'[s] = pass[s]
            \/ pass'[s].pc # "read" /\ pass'[s].todo = {}
            \/ pass'[s].pc # "read" /\ pass'[s].todo = pass[s].todo
  <2>1. CASE pass' = pass
    BY <1>2, <2>1
  <2>2. CASE pass' = [pass EXCEPT ![r].pc = "cursor"]
    BY <1>2, <2>2 DEF PassType
  <2>3. CASE pass' = [pass EXCEPT ![r] = IdlePass]
    BY <1>2, <2>3 DEF PassType, IdlePass
  <2> QED
    BY <2>1, <2>2, <2>3
    DEF KeepLeading, TryAcquire, LockIsFree, LoseSession, NoticeClosed, PassFails, Crash
<1>5. TypeOK'
  BY <1>1, <1>3, <1>4 DEF IInv, TypeOK, LogTypeOK, PassType
<1> QED
  BY <1>1, <1>4, <1>5, QuietStepInv

LEMMA GateStepInv ==
    ASSUME IInv, GatePrimary \/ GateApplied \/ ServeSearch \/ UNCHANGED vars
    PROVE  IInv' /\ index' = index
<1>1. /\ UNCHANGED <<rows, outbox, lastSeq, index, latest>>
      /\ UNCHANGED <<holder, guard, pass>>
  BY DEF GatePrimary, GateApplied, ServeSearch, vars
<1>2. TypeOK'
  BY <1>1 DEF IInv, TypeOK, LogTypeOK
<1> QED
  BY <1>1, <1>2, QuietStepInv

LEMMA NextInv ==
    ASSUME IInv, [Next]_vars
    PROVE  IInv' /\ \A f \in Features : index'[f].ver >= index[f].ver
<1>1. \A f \in Features : index[f].ver \in Nat
  BY DEF IInv, TypeOK
<1>2. CASE \E m \in Mutation, rec \in Recordings, gap \in 0..MaxGap : Write(m, rec, gap)
  <2>1. PICK m \in Mutation, rec \in Recordings, gap \in 0..MaxGap : Write(m, rec, gap)
    BY <1>2
  <2>2. IInv'
    BY <2>1, WriteInv
  <2>3. index' = index
    BY <2>1 DEF Write
  <2> QED
    BY <1>1, <2>2, <2>3
<1>3. CASE \E floor \in 0..MaxSeq, batch \in 1..MaxSeq : PruneApplied(floor, batch)
  BY <1>1, <1>3, PruneAppliedInv DEF PruneApplied, applierVars
<1>4. ASSUME NEW r \in Replicas, ReadCursor(r) \/ ReadBatch(r)
      PROVE  IInv' /\ \A f \in Features : index'[f].ver >= index[f].ver
  <2>1. IInv'
    BY <1>4, ReadCursorInv, ReadBatchInv
  <2>2. index' = index
    BY <1>4 DEF ReadCursor, ReadBatch
  <2> QED
    BY <1>1, <2>1, <2>2
<1>5. ASSUME NEW r \in Replicas, ApplyNext(r)
      PROVE  IInv' /\ \A f \in Features : index'[f].ver >= index[f].ver
  BY <1>5, ApplyNextInv
<1>6. ASSUME NEW r \in Replicas,
             \/ KeepLeading(r) \/ TryAcquire(r) \/ LoseSession(r)
             \/ NoticeClosed(r) \/ PassFails(r) \/ Crash(r)
      PROVE  IInv' /\ \A f \in Features : index'[f].ver >= index[f].ver
  BY <1>1, <1>6, LeaseStepInv
<1>7. CASE GatePrimary \/ GateApplied \/ ServeSearch \/ UNCHANGED vars
  BY <1>1, <1>7, GateStepInv
<1> QED
  BY <1>2, <1>3, <1>4, <1>5, <1>6, <1>7 DEF Next, ApplierStep

-----------------------------------------------------------------------------
(***************************************************************************)
(* The strengthened invariant holds in every reachable state, whatever the *)
(* interleaving of writers, replicas, lost sessions and pruning.           *)
(***************************************************************************)
THEOREM IndexInvariance == Spec => []IInv
<1>1. IInv /\ [Next]_vars => IInv'
  BY NextInv
<1> QED
  BY InitInv, <1>1, PTL DEF Spec

(***************************************************************************)
(* Type correctness of the log, the index, the lease and the passes.       *)
(***************************************************************************)
THEOREM IndexTypeCorrect == Spec => []TypeOK
<1>1. IInv => TypeOK
  BY DEF IInv
<1> QED
  BY <1>1, IndexInvariance, PTL

(***************************************************************************)
(* MAX(version) over the index table is a sound resume cursor: whatever is *)
(* at or below it is in the index with the stored document, so a replica   *)
(* that crashed, failed in the middle of a page or took over from a leader *)
(* it overlaps with loses nothing by starting there.                       *)
(***************************************************************************)
THEOREM HighWaterMarkIsSound == Spec => []HighWaterIsSound
<1>1. IInv => HighWaterIsSound
  <2> SUFFICES ASSUME IInv, NEW f \in Features, latest[f] <= AppliedHighWater
               PROVE  index[f] = [ver |-> latest[f], doc |-> rows[f]]
    BY DEF HighWaterIsSound
  <2>1. index[f].ver = latest[f]
    BY DEF IInv, NothingIsLost
  <2>2. index[f].doc = rows[f]
    BY <2>1 DEF IInv, LatestIsLatest
  <2>3. index[f] \in [ver : Nat, doc : Stored]
    BY DEF IInv, TypeOK
  <2> QED
    BY <2>1, <2>2, <2>3
<1> QED
  BY <1>1, IndexInvariance, PTL

(***************************************************************************)
(* No step takes an indexed feature back to an older version: the guard of *)
(* the upsert absorbs every redelivery and every overlapping leader.       *)
(***************************************************************************)
THEOREM RedeliveryNeverRegresses == Spec => IndexNeverRegresses
<1>1. IInv /\ [Next]_vars => [\A f \in Features : index'[f].ver >= index[f].ver]_vars
  BY NextInv
<1> QED
  BY <1>1, IndexInvariance, PTL DEF Spec, IndexNeverRegresses

-----------------------------------------------------------------------------
(***************************************************************************)
(* The freshness gate.  Between its first read and its second the changes  *)
(* it owes keep the relation to the index that the newest commits have:    *)
(* they are in the outbox or indexed, and no pass steps over one.  Newer   *)
(* commits of the same features do not disturb that, so it is stated of    *)
(* gate.owed and not of `latest`.                                          *)
(***************************************************************************)
GateTyped ==
    gate \in [pc : {"none", "primary", "serve"}, primary : Nat,
              owed : [Features -> Nat], top : Nat]

OwedIsThere ==
    \A f \in Features :
        /\ gate.owed[f] > AppliedHighWater =>
              \E o \in outbox : o.fid = f /\ o.seq = gate.owed[f]
        /\ gate.owed[f] <= AppliedHighWater => index[f].ver >= gate.owed[f]

OwedIsHeld ==
    \A r \in Replicas : \A o \in pass[r].todo, f \in Features :
        gate.owed[f] < o.seq =>
           \/ index[f].ver >= gate.owed[f]
           \/ \E p \in pass[r].todo : p.fid = f /\ p.seq = gate.owed[f]

OwedIsNamed ==
    /\ \A f \in Features : gate.owed[f] <= lastSeq
    /\ \A o : Held(o) => \A f \in Features : o.seq = gate.owed[f] => o.fid = f

OwedIsIndexed == \A f \in Features : index[f].ver >= gate.owed[f]

(***************************************************************************)
(* The primary's mark is the last commit's sequence, unless retention has  *)
(* pruned that one: then everything is indexed already.                    *)
(***************************************************************************)
GateKnows ==
    gate.pc = "primary" =>
        /\ OwedIsThere
        /\ OwedIsHeld
        /\ OwedIsNamed
        /\ gate.primary = gate.top \/ OwedIsIndexed

NewestIsSomeones == lastSeq = 0 \/ \E f \in Features : latest[f] = lastSeq

GateInv ==
    /\ GateTyped
    /\ GateKnows
    /\ SearchIsFreshEnough
    /\ NewestIsSomeones

LEMMA NewestKept ==
    ASSUME IInv, NewestIsSomeones, [Next]_vars
    PROVE  NewestIsSomeones'
<1>1. CASE UNCHANGED <<lastSeq, latest>>
  BY <1>1 DEF NewestIsSomeones
<1>2. CASE \E m \in Mutation, rec \in Recordings, gap \in 0..MaxGap : Write(m, rec, gap)
  <2>1. PICK m \in Mutation, rec \in Recordings, gap \in 0..MaxGap : Write(m, rec, gap)
    BY <1>2
  <2>2. m.fid \in Features /\ latest' = [latest EXCEPT ![m.fid] = lastSeq']
    BY <2>1 DEF Write, Mutation
  <2>3. latest'[m.fid] = lastSeq'
    BY <2>2 DEF IInv, TypeOK
  <2> QED
    BY <2>2, <2>3 DEF NewestIsSomeones
<1>3. CASE UNCHANGED vars
  BY <1>1, <1>3 DEF vars
<1>4. CASE \E floor \in 0..MaxSeq, batch \in 1..MaxSeq : PruneApplied(floor, batch)
  BY <1>1, <1>4 DEF PruneApplied, Prune, applierVars
<1>5. CASE \/ \E r \in Replicas : ApplierStep(r) \/ LoseSession(r) \/ PassFails(r) \/ Crash(r)
           \/ GatePrimary \/ GateApplied \/ ServeSearch
  <2>1. UNCHANGED <<lastSeq, latest>>
    BY <1>5 DEF ApplierStep, KeepLeading, TryAcquire, NoticeClosed, ReadCursor, ReadBatch,
                ApplyNext, LoseSession, PassFails, Crash, GatePrimary, GateApplied, ServeSearch
  <2> QED
    BY <1>1, <2>1
<1> QED
  BY <1>2, <1>3, <1>4, <1>5 DEF Next

(***************************************************************************)
(* Steps that leave the gate and the index alone, prune at or below the    *)
(* mark, and keep or drop the pages in flight.                             *)
(***************************************************************************)
LEMMA GateUndisturbed ==
    ASSUME IInv, GateInv, gate' = gate, index' = index,
           \A o \in outbox \ outbox' : o.seq <= AppliedHighWater,
           lastSeq' \in Nat /\ lastSeq' >= lastSeq,
           \A o \in outbox' \ outbox : o.seq \in Nat /\ o.seq > lastSeq,
           \A r \in Replicas : pass'[r].todo = pass[r].todo \/ pass'[r].todo = {}
    PROVE  GateTyped' /\ GateKnows' /\ SearchIsFreshEnough'
<1>1. AppliedHighWater' = AppliedHighWater /\ AppliedHighWater \in Nat
  BY MarkFacts DEF AppliedHighWater, Versions
<1>2. GateTyped' /\ SearchIsFreshEnough'
  BY DEF GateInv, GateTyped, SearchIsFreshEnough
<1>3. ASSUME gate.pc = "primary"
      PROVE  /\ OwedIsThere' /\ OwedIsHeld' /\ OwedIsNamed'
             /\ gate.primary = gate.top \/ OwedIsIndexed'
  <2>1. /\ OwedIsThere /\ OwedIsHeld /\ OwedIsNamed
        /\ gate.primary = gate.top \/ OwedIsIndexed
    BY <1>3 DEF GateInv, GateKnows
  <2>2. OwedIsThere'
    <3> SUFFICES ASSUME NEW f \in Features, gate.owed[f] > AppliedHighWater
                 PROVE  \E o \in outbox' : o.fid = f /\ o.seq = gate.owed[f]
      BY <1>1, <2>1 DEF OwedIsThere
    <3>1. PICK o \in outbox : o.fid = f /\ o.seq = gate.owed[f]
      BY <2>1 DEF OwedIsThere
    <3>2. gate.owed[f] \in Nat
      BY DEF GateInv, GateTyped
    <3> QED
      BY <1>1, <3>1, <3>2
  <2>3. OwedIsHeld'
    BY <2>1 DEF OwedIsHeld
  <2>4. OwedIsIndexed => OwedIsIndexed'
    BY DEF OwedIsIndexed
  <2>5. OwedIsNamed'
    <3>1. ASSUME NEW o, Held(o)'
          PROVE  Held(o) \/ (o.seq \in Nat /\ o.seq > lastSeq)
      <4>1. CASE o \in outbox'
        BY <4>1 DEF Held
      <4>2. ASSUME NEW r \in Replicas, o \in pass'[r].todo
            PROVE  Held(o)
        BY <4>2 DEF Held
      <4> QED
        BY <3>1, <4>1, <4>2 DEF Held
    <3>2. lastSeq \in Nat /\ \A f \in Features : gate.owed[f] \in Nat
      BY DEF IInv, TypeOK, LogTypeOK, GateInv, GateTyped
    <3>3. \A f \in Features : gate.owed[f] <= lastSeq /\ gate.owed[f] <= lastSeq'
      BY <2>1, <3>2 DEF OwedIsNamed
    <3>4. ASSUME NEW o, Held(o)', NEW f \in Features, o.seq = gate.owed[f]
          PROVE  o.fid = f
      <4>1. ~ (o.seq \in Nat /\ o.seq > lastSeq)
        BY <3>2, <3>3, <3>4
      <4> QED
        BY <2>1, <3>1, <3>4, <4>1 DEF OwedIsNamed
    <3> QED
      BY <3>3, <3>4 DEF OwedIsNamed
  <2> QED
    BY <2>1, <2>2, <2>3, <2>4, <2>5
<1> QED
  BY <1>2, <1>3 DEF GateKnows

(***************************************************************************)
(* A page holds whatever is owed below one of its obligations.             *)
(***************************************************************************)
LEMMA GateReadBatch ==
    ASSUME IInv, GateInv, NEW r \in Replicas, ReadBatch(r)
    PROVE  GateTyped' /\ GateKnows' /\ SearchIsFreshEnough'
<1> DEFINE batch == ReadAfter(pass[r].cursor, BatchSize)
<1>1. /\ UNCHANGED <<outbox, index, gate>>
      /\ pass[r].pc = "read"
      /\ pass' = [pass EXCEPT ![r] = IF batch = {} THEN IdlePass
                                     ELSE [@ EXCEPT !.todo = batch, !.pc = "apply"]]
  BY DEF ReadBatch
<1>2. /\ pass \in [Replicas -> PassType]
      /\ pass[r].cursor \in Nat /\ BatchSize \in Nat
      /\ LogTypeOK /\ SequencesDistinct
  BY ApplierBounds DEF IInv, TypeOK, PassType
<1>3. /\ batch \subseteq outbox
      /\ \A o \in batch : o.seq > pass[r].cursor
      /\ \A o \in batch, p \in outbox : p.seq > pass[r].cursor /\ p.seq <= o.seq => p \in batch
  BY <1>2, ReadAfterSubset, ReadAfterSkipsNothing
<1> HIDE DEF batch
<1>4. pass'[r].todo = batch /\ \A s \in Replicas \ {r} : pass'[s] = pass[s]
  <2>1. CASE batch = {}
    BY <1>1, <1>2, <2>1 DEF PassType, IdlePass
  <2>2. CASE batch # {}
    BY <1>1, <1>2, <2>2 DEF PassType
  <2> QED
    BY <2>1, <2>2
<1>5. AppliedHighWater' = AppliedHighWater
  BY <1>1 DEF AppliedHighWater, Versions
<1>6. GateTyped' /\ SearchIsFreshEnough'
  BY <1>1 DEF GateInv, GateTyped, SearchIsFreshEnough
<1>7. ASSUME gate.pc = "primary"
      PROVE  /\ OwedIsThere' /\ OwedIsHeld' /\ OwedIsNamed'
             /\ gate.primary = gate.top \/ OwedIsIndexed'
  <2>1. /\ OwedIsThere /\ OwedIsHeld /\ OwedIsNamed
        /\ gate.primary = gate.top \/ OwedIsIndexed
    BY <1>7 DEF GateInv, GateKnows
  <2>2. OwedIsThere'
    BY <1>1, <1>5, <2>1 DEF OwedIsThere
  <2>3. ASSUME NEW o \in batch, NEW f \in Features, gate.owed[f] < o.seq
        PROVE  \/ index[f].ver >= gate.owed[f]
               \/ \E p \in batch : p.fid = f /\ p.seq = gate.owed[f]
    <3>1. /\ AppliedHighWater \in Nat /\ gate.owed[f] \in Nat /\ o.seq \in Nat
          /\ pass[r].cursor <= AppliedHighWater
      BY <1>1, <1>2, <1>3, <2>3, MarkFacts
      DEF IInv, LogTypeOK, Obligation, PassesAreComplete, GateInv, GateTyped
    <3>2. CASE gate.owed[f] <= AppliedHighWater
      BY <2>1, <3>2 DEF OwedIsThere
    <3>3. CASE gate.owed[f] > AppliedHighWater
      <4>1. PICK p \in outbox : p.fid = f /\ p.seq = gate.owed[f]
        BY <2>1, <3>3 DEF OwedIsThere
      <4>2. p \in batch
        BY <1>2, <1>3, <2>3, <3>1, <3>3, <4>1
      <4> QED
        BY <4>1, <4>2
    <3> QED
      BY <3>1, <3>2, <3>3
  <2>4. OwedIsHeld'
    BY <1>1, <1>4, <2>1, <2>3 DEF OwedIsHeld
  <2>5. OwedIsIndexed => OwedIsIndexed'
    BY <1>1 DEF OwedIsIndexed
  <2>6. OwedIsNamed'
    <3>1. \A o : Held(o)' => Held(o)
      BY <1>1, <1>3, <1>4 DEF Held
    <3>2. lastSeq' = lastSeq
      BY DEF ReadBatch
    <3> QED
      BY <1>1, <2>1, <3>1, <3>2 DEF OwedIsNamed
  <2> QED
    BY <2>1, <2>2, <2>4, <2>5, <2>6
<1> QED
  BY <1>1, <1>6, <1>7 DEF GateKnows

(***************************************************************************)
(* What applying the next obligation of a page does to the mark.           *)
(***************************************************************************)
LEMMA ApplyRaises ==
    ASSUME IInv, NEW r \in Replicas, ApplyNext(r)
    PROVE  \E o \in pass[r].todo :
              /\ o.seq \in Nat /\ o.fid \in Features
              /\ \A p \in pass[r].todo : o.seq <= p.seq
              /\ index'[o.fid].ver >= o.seq
              /\ \A s \in Replicas : pass'[s].todo \subseteq pass[s].todo
              /\ \A s \in Replicas : \A p \in pass[s].todo : p \in pass'[s].todo \/ p = o
              /\ AppliedHighWater \in Nat /\ AppliedHighWater' \in Nat
              /\ AppliedHighWater <= AppliedHighWater'
              /\ AppliedHighWater' = AppliedHighWater \/ AppliedHighWater' = o.seq
<1>1. PICK o \in pass[r].todo :
        /\ NextUp(pass[r].todo, o)
        /\ index' = ApplyToIndex(o)
        /\ pass' = [pass EXCEPT ![r] = Without(pass[r], o)]
  BY DEF ApplyNext
<1>2. /\ pass \in [Replicas -> PassType]
      /\ index \in [Features -> [ver : Nat, doc : Stored]]
      /\ lastSeq \in Nat /\ lastSeq' = lastSeq
      /\ latest \in [Features -> Nat] /\ latest' = latest
  BY DEF IInv, TypeOK, LogTypeOK, PassType, ApplyNext
<1>3. /\ o.seq \in Nat /\ o.fid \in Features
      /\ \A p \in pass[r].todo : o.seq <= p.seq
  BY <1>1, <1>2 DEF PassType, NextUp, Obligation
<1>4. \A f \in Features : /\ index[f].ver \in Nat
                          /\ index'[f].ver = index[f].ver \/ index'[f].ver = o.seq
                          /\ index'[f].ver >= index[f].ver
  BY <1>1, <1>2, <1>3 DEF ApplyToIndex
<1>5. index'[o.fid].ver >= o.seq
  BY <1>1, <1>2, <1>3 DEF ApplyToIndex
<1>6. /\ pass'[r].todo = pass[r].todo \ {o}
      /\ \A s \in Replicas \ {r} : pass'[s] = pass[s]
  <2>1. CASE pass[r].todo = {o}
    BY <1>1, <1>2, <2>1 DEF PassType, IdlePass, Without
  <2>2. CASE pass[r].todo # {o}
    BY <1>1, <1>2, <2>2 DEF PassType, Without
  <2> QED
    BY <2>1, <2>2
<1>7. /\ AppliedHighWater \in Nat
      /\ \A f \in Features : index[f].ver <= AppliedHighWater
      /\ AppliedHighWater = 0 \/ \E f \in Features : AppliedHighWater = index[f].ver
  BY MarkFacts
<1>8. /\ AppliedHighWater' \in Nat
      /\ \A f \in Features : index'[f].ver <= AppliedHighWater'
      /\ AppliedHighWater' = 0 \/ \E f \in Features : AppliedHighWater' = index'[f].ver
  <2>1. IInv'
    BY ApplyNextInv
  <2>2. \A f \in Features : index'[f].ver \in Nat /\ index'[f].ver <= lastSeq
    BY <1>2, <2>1 DEF IInv, TypeOK, LatestIsLatest
  <2> QED
    BY <1>2, <2>2, HighWaterFactsAfter
<1>9. AppliedHighWater <= AppliedHighWater'
  <2>1. CASE AppliedHighWater = 0
    BY <1>8, <2>1
  <2>2. ASSUME NEW f \in Features, AppliedHighWater = index[f].ver
        PROVE  AppliedHighWater <= AppliedHighWater'
    <3>1. index'[f].ver \in Nat /\ index'[f].ver >= index[f].ver /\ index'[f].ver <= AppliedHighWater'
      BY <1>3, <1>4, <1>8, <2>2
    <3> QED
      BY <1>7, <1>8, <2>2, <3>1
  <2> QED
    BY <1>7, <2>1, <2>2
<1>10. AppliedHighWater' = AppliedHighWater \/ AppliedHighWater' = o.seq
  <2>1. CASE AppliedHighWater' = 0
    BY <1>7, <1>9, <2>1
  <2>2. ASSUME NEW f \in Features, AppliedHighWater' = index'[f].ver, index'[f].ver = index[f].ver
        PROVE  AppliedHighWater' = AppliedHighWater
    <3>1. AppliedHighWater' <= AppliedHighWater
      BY <1>7, <2>2
    <3> QED
      BY <1>7, <1>8, <1>9, <3>1
  <2> QED
    BY <1>4, <1>8, <2>1, <2>2
<1> QED
  BY <1>3, <1>5, <1>6, <1>7, <1>8, <1>9, <1>10

LEMMA GateApplyNext ==
    ASSUME IInv, GateInv, NEW r \in Replicas, ApplyNext(r)
    PROVE  GateTyped' /\ GateKnows' /\ SearchIsFreshEnough'
<1>1. PICK o \in pass[r].todo :
              /\ o.seq \in Nat /\ o.fid \in Features
              /\ \A p \in pass[r].todo : o.seq <= p.seq
              /\ index'[o.fid].ver >= o.seq
              /\ \A s \in Replicas : pass'[s].todo \subseteq pass[s].todo
              /\ \A s \in Replicas : \A p \in pass[s].todo : p \in pass'[s].todo \/ p = o
              /\ AppliedHighWater \in Nat /\ AppliedHighWater' \in Nat
              /\ AppliedHighWater <= AppliedHighWater'
              /\ AppliedHighWater' = AppliedHighWater \/ AppliedHighWater' = o.seq
  BY ApplyRaises
<1>2. gate' = gate /\ outbox' = outbox /\ pass \in [Replicas -> PassType]
  BY DEF ApplyNext, IInv, TypeOK, PassType
<1>3. \A f \in Features : /\ index[f].ver \in Nat /\ index'[f].ver \in Nat
                          /\ index'[f].ver >= index[f].ver
                          /\ gate.owed[f] \in Nat
  <2>1. IInv' /\ \A f \in Features : index'[f].ver >= index[f].ver
    BY ApplyNextInv
  <2> QED
    BY <2>1 DEF IInv, TypeOK, GateInv, GateTyped
<1>4. GateTyped'
  BY <1>2 DEF GateInv, GateTyped
<1>5. SearchIsFreshEnough'
  BY <1>2, <1>3 DEF GateInv, SearchIsFreshEnough
<1>6. ASSUME gate.pc = "primary"
      PROVE  /\ OwedIsThere' /\ OwedIsHeld' /\ OwedIsNamed'
             /\ gate.primary = gate.top \/ OwedIsIndexed'
  <2>1. /\ OwedIsThere /\ OwedIsHeld /\ OwedIsNamed
        /\ gate.primary = gate.top \/ OwedIsIndexed
    BY <1>6 DEF GateInv, GateKnows
  <2>2. OwedIsThere'
    <3> SUFFICES ASSUME NEW f \in Features
                 PROVE  /\ gate.owed[f] > AppliedHighWater' =>
                              \E p \in outbox : p.fid = f /\ p.seq = gate.owed[f]
                        /\ gate.owed[f] <= AppliedHighWater' => index'[f].ver >= gate.owed[f]
      BY <1>2 DEF OwedIsThere
    <3>1. /\ gate.owed[f] > AppliedHighWater =>
                \E p \in outbox : p.fid = f /\ p.seq = gate.owed[f]
          /\ gate.owed[f] <= AppliedHighWater => index[f].ver >= gate.owed[f]
      BY <2>1 DEF OwedIsThere
    <3>2. ASSUME gate.owed[f] > AppliedHighWater, gate.owed[f] <= AppliedHighWater'
          PROVE  index'[f].ver >= gate.owed[f]
      <4>1. AppliedHighWater' = o.seq /\ gate.owed[f] <= o.seq
        BY <1>1, <1>3, <3>2
      <4>2. CASE gate.owed[f] < o.seq
        <5>1. \/ index[f].ver >= gate.owed[f]
              \/ \E p \in pass[r].todo : p.fid = f /\ p.seq = gate.owed[f]
          BY <2>1, <4>2 DEF OwedIsHeld
        <5>2. \A p \in pass[r].todo : p.seq # gate.owed[f]
          <6> SUFFICES ASSUME NEW p \in pass[r].todo, p.seq = gate.owed[f] PROVE FALSE
            OBVIOUS
          <6>1. o.seq <= gate.owed[f]
            BY <1>1
          <6> QED
            BY <1>1, <1>3, <4>2, <6>1
        <5> QED
          BY <1>3, <5>1, <5>2
      <4>3. CASE gate.owed[f] = o.seq
        <5>1. o.fid = f
          BY <2>1, <4>3 DEF OwedIsNamed, Held
        <5> QED
          BY <1>1, <4>3, <5>1
      <4> QED
        BY <1>1, <1>3, <4>1, <4>2, <4>3
    <3> QED
      BY <1>1, <1>3, <3>1, <3>2
  <2>3. OwedIsHeld'
    <3> SUFFICES ASSUME NEW s \in Replicas, NEW q \in pass'[s].todo, NEW f \in Features,
                        gate.owed[f] < q.seq, ~ index'[f].ver >= gate.owed[f]
                 PROVE  \E p \in pass'[s].todo : p.fid = f /\ p.seq = gate.owed[f]
      BY <1>2 DEF OwedIsHeld
    <3>1. q \in pass[s].todo /\ ~ index[f].ver >= gate.owed[f]
      BY <1>1, <1>3
    <3>2. PICK p \in pass[s].todo : p.fid = f /\ p.seq = gate.owed[f]
      BY <2>1, <3>1 DEF OwedIsHeld
    <3>3. p # o
      BY <1>1, <3>2
    <3> QED
      BY <1>1, <3>2, <3>3
  <2>4. OwedIsIndexed => OwedIsIndexed'
    BY <1>2, <1>3 DEF OwedIsIndexed
  <2>5. OwedIsNamed'
    <3>1. \A p : Held(p)' => Held(p)
      BY <1>1, <1>2 DEF Held
    <3>2. lastSeq' = lastSeq
      BY DEF ApplyNext
    <3> QED
      BY <1>2, <2>1, <3>1, <3>2 DEF OwedIsNamed
  <2> QED
    BY <2>1, <2>2, <2>3, <2>4, <2>5
<1> QED
  BY <1>2, <1>4, <1>5, <1>6 DEF GateKnows

(***************************************************************************)
(* The gate's own steps.  The mark the gate reads first is that of the     *)
(* last commit, or the last commit is indexed and everything before it.    *)
(***************************************************************************)
LEMMA GateReadsPrimary ==
    ASSUME IInv, GateInv, GatePrimary
    PROVE  GateTyped' /\ GateKnows' /\ SearchIsFreshEnough'
<1>1. /\ gate' = [pc |-> "primary", primary |-> PrimaryHighWater, owed |-> latest,
                  top |-> lastSeq]
      /\ UNCHANGED <<rows, outbox, lastSeq, index, pass, latest>>
  BY DEF GatePrimary
<1>2. /\ latest \in [Features -> Nat] /\ lastSeq \in Nat
      /\ index \in [Features -> [ver : Nat, doc : Stored]]
      /\ \A o \in outbox : o.seq \in Nat /\ o.seq <= lastSeq
  BY DEF IInv, TypeOK, LogTypeOK, Obligation
<1> DEFINE S == {o.seq : o \in outbox} \cup {0}
<1>3. S # {} /\ \A v \in S : v \in Nat /\ v <= lastSeq
  BY <1>2
<1>4. Max(S) \in S /\ \A v \in S : v <= Max(S)
  <2> HIDE DEF S
  <2> QED
    BY <1>2, <1>3, MaxOfBounded
<1>5. PrimaryHighWater \in S /\ \A v \in S : v <= PrimaryHighWater
  BY <1>4 DEF PrimaryHighWater
<1>6. PrimaryHighWater \in Nat /\ PrimaryHighWater <= lastSeq
  BY <1>3, <1>5
<1>7. PrimaryHighWater = lastSeq \/ \A f \in Features : index[f].ver >= latest[f]
  <2>1. AppliedHighWater \in Nat /\ \A f \in Features : latest[f] <= lastSeq
    BY MarkFacts DEF IInv, LatestIsLatest
  <2>2. CASE lastSeq <= AppliedHighWater
    <3>1. \A f \in Features : latest[f] <= AppliedHighWater
      BY <1>2, <2>1, <2>2
    <3> QED
      BY <1>2, <3>1 DEF IInv, NothingIsLost
  <2>3. CASE lastSeq > AppliedHighWater
    <3>1. PICK f \in Features : latest[f] = lastSeq
      BY <1>2, <2>1, <2>3 DEF GateInv, NewestIsSomeones
    <3>2. PICK o \in outbox : o.seq = lastSeq
      BY <2>3, <3>1 DEF IInv, NothingIsLost
    <3>3. lastSeq <= PrimaryHighWater
      BY <1>5, <3>2
    <3> QED
      BY <1>2, <1>6, <3>3
  <2> QED
    BY <1>2, <2>1, <2>2, <2>3
<1> HIDE DEF S
<1>8. GateTyped'
  BY <1>1, <1>2, <1>6 DEF GateTyped
<1>9. SearchIsFreshEnough'
  BY <1>1 DEF SearchIsFreshEnough
<1>10. gate'.owed = latest /\ gate'.primary = PrimaryHighWater /\ gate'.top = lastSeq
  BY <1>1
<1>11. AppliedHighWater' = AppliedHighWater
  BY <1>1 DEF AppliedHighWater, Versions
<1>12. OwedIsThere'
  BY <1>1, <1>2, <1>10, <1>11 DEF OwedIsThere, IInv, NothingIsLost
<1>13. OwedIsHeld'
  BY <1>1, <1>2, <1>10 DEF OwedIsHeld, IInv, PassesAreComplete
<1>14. OwedIsNamed'
  BY <1>1, <1>10 DEF OwedIsNamed, IInv, LatestIsLatest, Held
<1>15. gate'.primary = gate'.top \/ OwedIsIndexed'
  BY <1>1, <1>7, <1>10 DEF OwedIsIndexed
<1> QED
  BY <1>8, <1>9, <1>12, <1>13, <1>14, <1>15 DEF GateKnows

(***************************************************************************)
(* The index passes the gate only if its mark is within the bound of the   *)
(* primary's: what is older than the bound is then at or below its mark.   *)
(***************************************************************************)
LEMMA GateReadsApplied ==
    ASSUME IInv, GateInv, GateApplied
    PROVE  GateTyped' /\ GateKnows' /\ SearchIsFreshEnough'
<1>1. /\ gate.pc = "primary" /\ UNCHANGED <<index>>
      /\ gate' = IF IndexIsFresh(gate.primary, AppliedHighWater)
                 THEN [gate EXCEPT !.pc = "serve"] ELSE NoSearch
  BY DEF GateApplied
<1>2. CASE ~ IndexIsFresh(gate.primary, AppliedHighWater)
  BY <1>1, <1>2 DEF NoSearch, GateTyped, GateKnows, SearchIsFreshEnough
<1>3. CASE IndexIsFresh(gate.primary, AppliedHighWater)
  <2>1. gate' = [gate EXCEPT !.pc = "serve"]
    BY <1>1, <1>3
  <2>2. /\ GateTyped' /\ gate'.pc = "serve"
        /\ gate'.owed = gate.owed /\ gate'.top = gate.top
    BY <2>1 DEF GateInv, GateTyped
  <2>3. /\ AppliedHighWater \in Nat /\ gate.primary \in Nat /\ gate.top \in Nat
        /\ FreshnessBound \in Nat
        /\ \A f \in Features : gate.owed[f] \in Nat
    BY MarkFacts, ApplierBounds DEF GateInv, GateTyped
  <2>4. OwedIsThere /\ (gate.primary = gate.top \/ OwedIsIndexed)
    BY <1>1 DEF GateInv, GateKnows
  <2>5. gate.primary <= AppliedHighWater + FreshnessBound
    BY <1>3, <2>3 DEF IndexIsFresh, Lag
  <2>6. ASSUME NEW f \in Features, gate.owed[f] + FreshnessBound <= gate.top
        PROVE  index[f].ver >= gate.owed[f]
    <3>1. CASE OwedIsIndexed
      BY <3>1 DEF OwedIsIndexed
    <3>2. CASE gate.primary = gate.top
      <4>1. gate.owed[f] <= AppliedHighWater
        BY <2>3, <2>5, <2>6, <3>2
      <4> QED
        BY <2>4, <4>1 DEF OwedIsThere
    <3> QED
      BY <2>4, <3>1, <3>2
  <2>7. SearchIsFreshEnough'
    BY <1>1, <2>2, <2>6 DEF SearchIsFreshEnough
  <2> QED
    BY <2>2, <2>7 DEF GateKnows
<1> QED
  BY <1>2, <1>3

LEMMA GateNextInv ==
    ASSUME IInv, GateInv, [Next]_vars
    PROVE  GateInv'
<1>1. NewestIsSomeones'
  BY NewestKept DEF GateInv
<1>2. lastSeq \in Nat
  BY DEF IInv, TypeOK, LogTypeOK
<1>3. CASE \E m \in Mutation, rec \in Recordings, gap \in 0..MaxGap : Write(m, rec, gap)
  <2>1. PICK m \in Mutation, rec \in Recordings, gap \in 0..MaxGap : Write(m, rec, gap)
    BY <1>3
  <2>2. rec \in BOOLEAN /\ gap \in Nat
    BY RecordingsAssumption, BoundsAssumption
  <2>3. /\ lastSeq' = lastSeq + gap + 1
        /\ outbox' = outbox \cup {[seq |-> lastSeq', fid |-> m.fid, prior |-> rows[m.fid],
                                   current |-> m.to, recorded |-> rec]}
    BY <2>1, <2>2, CommitOne DEF Write, IInv, TypeOK
  <2>4. \A o \in outbox' \ outbox : o.seq = lastSeq'
    BY <2>3
  <2>5. \A o \in outbox \ outbox' : o.seq <= AppliedHighWater
    BY <2>3
  <2>6. gate' = gate /\ index' = index /\ pass' = pass
    BY <2>1 DEF Write
  <2>7. /\ lastSeq' \in Nat /\ lastSeq' >= lastSeq /\ lastSeq' > lastSeq
    BY <1>2, <2>2, <2>3
  <2>8. \A o \in outbox' \ outbox : o.seq \in Nat /\ o.seq > lastSeq
    BY <2>4, <2>7
  <2> QED
    BY <1>1, <2>5, <2>6, <2>7, <2>8, GateUndisturbed DEF GateInv
<1>4. CASE \E floor \in 0..MaxSeq, batch \in 1..MaxSeq : PruneApplied(floor, batch)
  <2>1. PICK floor \in 0..MaxSeq, batch \in 1..MaxSeq : PruneApplied(floor, batch)
    BY <1>4
  <2>2. floor \in Nat /\ batch \in Nat /\ floor <= AppliedHighWater /\ Prune(floor, batch)
    BY <2>1, BoundsAssumption DEF PruneApplied
  <2>3. LogTypeOK /\ SequencesDistinct
    BY DEF IInv, TypeOK
  <2>4. /\ outbox' \subseteq outbox
        /\ \A o \in outbox \ outbox' : o.seq <= floor
        /\ lastSeq' = lastSeq
    BY <2>2, <2>3, PruneRemovesAPrefix
  <2>5. AppliedHighWater \in Nat /\ \A o \in outbox : o.seq \in Nat
    BY <2>3, MarkFacts DEF LogTypeOK, Obligation
  <2>6. \A o \in outbox \ outbox' : o.seq <= AppliedHighWater
    BY <2>2, <2>4, <2>5
  <2>7. gate' = gate /\ index' = index /\ pass' = pass
    BY <2>1 DEF PruneApplied, applierVars
  <2> QED
    BY <1>1, <1>2, <2>4, <2>6, <2>7, GateUndisturbed DEF GateInv
<1>5. ASSUME NEW r \in Replicas,
             \/ KeepLeading(r) \/ TryAcquire(r) \/ LoseSession(r) \/ NoticeClosed(r)
             \/ ReadCursor(r) \/ PassFails(r) \/ Crash(r)
      PROVE  GateInv'
  <2>1. UNCHANGED <<outbox, lastSeq, index, gate>>
    BY <1>5 DEF KeepLeading, TryAcquire, LockIsFree, LoseSession, NoticeClosed, ReadCursor,
                PassFails, Crash
  <2>2. pass \in [Replicas -> PassType]
    BY DEF IInv, TypeOK, PassType
  <2>3. \A s \in Replicas : pass'[s].todo = pass[s].todo \/ pass'[s].todo = {}
    <3>1. CASE pass' = pass
      BY <3>1
    <3>2. CASE pass' = [pass EXCEPT ![r].pc = "cursor"]
      BY <2>2, <3>2 DEF PassType
    <3>3. CASE pass' = [pass EXCEPT ![r] = IdlePass]
      BY <2>2, <3>3 DEF PassType, IdlePass
    <3>4. CASE pass' = [pass EXCEPT ![r].cursor = AppliedHighWater, ![r].pc = "read"]
      BY <2>2, <3>4 DEF PassType
    <3> QED
      BY <1>5, <3>1, <3>2, <3>3, <3>4
      DEF KeepLeading, TryAcquire, LockIsFree, LoseSession, NoticeClosed, ReadCursor,
          PassFails, Crash
  <2> QED
    BY <1>1, <1>2, <2>1, <2>3, GateUndisturbed DEF GateInv
<1>6. ASSUME NEW r \in Replicas, ReadBatch(r) \/ ApplyNext(r)
      PROVE  GateInv'
  BY <1>1, <1>6, GateReadBatch, GateApplyNext DEF GateInv
<1>7. CASE GatePrimary \/ GateApplied
  BY <1>1, <1>7, GateReadsPrimary, GateReadsApplied DEF GateInv
<1>8. CASE ServeSearch
  <2>1. gate' = NoSearch
    BY <1>8 DEF ServeSearch
  <2> QED
    BY <1>1, <2>1 DEF NoSearch, GateInv, GateTyped, GateKnows, SearchIsFreshEnough
<1>9. CASE UNCHANGED vars
  BY <1>1, <1>2, <1>9, GateUndisturbed DEF GateInv, vars
<1> QED
  BY <1>3, <1>4, <1>5, <1>6, <1>7, <1>8, <1>9 DEF Next, ApplierStep

(***************************************************************************)
(* A search served from the index has every change that was at least the   *)
(* freshness bound old when the gate looked, however far the outbox was    *)
(* pruned, the passes interleaved, or the same features written again      *)
(* between the gate's reads.                                               *)
(***************************************************************************)
THEOREM SearchesAreFreshEnough == Spec => []SearchIsFreshEnough
<1>1. Init => GateInv
  BY DEF Init, LogInit, NoSearch, GateInv, GateTyped, GateKnows, SearchIsFreshEnough,
         NewestIsSomeones
<1>2. IInv /\ GateInv /\ [Next]_vars => GateInv'
  BY GateNextInv
<1>3. GateInv => SearchIsFreshEnough
  BY DEF GateInv
<1> QED
  BY <1>1, <1>2, <1>3, IndexInvariance, PTL DEF Spec
=============================================================================
