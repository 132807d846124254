-------------------------- MODULE ControlPlaneProofs ---------------------------
(***************************************************************************)
(* Proofs about the control plane: its durable store (ControlStore), then  *)
(* the replicas that consume its ledger (ControlConsumer).                 *)
(***************************************************************************)
EXTENDS ControlStore, ControlConsumer, TLAPS

(***************************************************************************)
(* Proofs about ControlStore, for any requests, retries, replicas and lost *)
(* connections: a handler answers with its own commit only, and the store  *)
(* implements ControlLedger.                                               *)
(*                                                                         *)
(* A commit is checked against three tables that say the same thing in     *)
(* different words, so the invariant relates them: the entity versions to  *)
(* the audit log (VersionsAreTrue), the idempotency keys to the commits    *)
(* they name (KeysAreRecorded), and what a handler has authorized to the   *)
(* snapshot it did so on (HandlerFollows), which StateIsCurrent makes the  *)
(* snapshot the commit is applied to.                                      *)
(***************************************************************************)

Assumptions == LedgerAssumption /\ RequestsAssumption

(***************************************************************************)
(* The commits after the bootstrap that touched k, and the last of them.   *)
(***************************************************************************)
Touching(k) == {i \in 2..Current : Target(audit[i].changes.op) = k}

LastTouch(k, i) == i \in Touching(k) /\ \A j \in Touching(k) : j <= i

(***************************************************************************)
(* The version of a resource is the revision that touched it last, or 0    *)
(* when there is none or it deleted the resource.                          *)
(***************************************************************************)
VersionIsTrue(k) ==
    IF versions[k] = 0
    THEN \/ Touching(k) = {}
         \/ \E i \in 2..Current : LastTouch(k, i) /\ audit[i].changes.op.kind = "delete"
    ELSE LastTouch(k, versions[k]) /\ audit[versions[k]].changes.op.kind # "delete"

VersionsAreTrue == \A k \in Resources \cup Actors : VersionIsTrue(k)

(***************************************************************************)
(* A key names the commit it was used for, and no commit's key is missing. *)
(***************************************************************************)
KeysAreRecorded ==
    /\ \A e \in idem : audit[e.revision] = [by |-> e.by, changes |-> e.changes]
    /\ \A i \in 1..Current :
          audit[i].changes.key # NoKey => \E e \in idem : e.key = audit[i].changes.key

Own(a) == [by |-> a[1].actor, changes |-> ChangesOf(a[1])]

(***************************************************************************)
(* What a handler at work knows.                                           *)
(***************************************************************************)
HandlerFollows(a) ==
    /\ attempt[a] \notin {Unsent, Unplanned} =>
          Current > 0 /\ (a[1].guarded => view[a[1]].phase = "seen")
    /\ attempt[a].phase = "authorized" =>
          /\ a[1].actor \in attempt[a].snap.admins
          /\ IntentHolds(attempt[a].snap, a[1].op) \/ attempt[a].replayOnly
    /\ attempt[a].phase = "done" /\ "revision" \in DOMAIN attempt[a].answer =>
          audit[attempt[a].answer.revision] = Own(a)

StoreInv ==
    /\ StoreTypeOK
    /\ VersionsAreTrue
    /\ KeysAreRecorded
    /\ \A a \in Attempts : HandlerFollows(a)

-----------------------------------------------------------------------------

LEMMA Requested ==
    ASSUME Assumptions, NEW a \in Attempts
    PROVE  /\ a[1] \in Requests
           /\ a[1].actor \in Actors /\ a[1].op \in Operations
           /\ a[1].key \in Keys \cup {NoKey} /\ a[1].guarded \in BOOLEAN
BY DEF Assumptions, RequestsAssumption, Attempts

LEMMA Targeted ==
    ASSUME Assumptions, NEW op \in Operations
    PROVE  Target(op) \in Resources \cup Actors
BY DEF Assumptions, LedgerAssumption, Operations, Target

LEMMA AppliedIsSnapshot ==
    ASSUME Assumptions, NEW s \in Snapshots, NEW op \in Operations
    PROVE  Applied(s, op) \in Snapshots
<1>1. op.kind \in {"set", "put", "create"} => op.on \in Resources /\ op.to \in Values
  BY DEF Operations
<1>2. op.kind \in {"tombstone", "delete"} => op.on \in Resources
  BY DEF Operations
<1>3. op.kind \in {"grant", "revoke"} => op.on \in Actors
  BY DEF Operations
<1>4. op.kind = "import" => op.to \in [Resources -> Values \cup {Gone}]
  BY DEF Operations
<1>5. /\ Applied(s, op).value \in [Resources -> Values \cup {Gone}]
      /\ Applied(s, op).tombs \in SUBSET Resources
      /\ Applied(s, op).admins \in SUBSET Actors
  BY <1>1, <1>2, <1>3, <1>4 DEF Applied, Snapshots
<1> QED
  BY <1>5 DEF Applied, Snapshots

(***************************************************************************)
(* The change set of a request under way is a change set, and does not     *)
(* change any more.                                                        *)
(***************************************************************************)
LEMMA ChangesAreTyped ==
    ASSUME Assumptions, StoreTypeOK, NEW r \in Requests, r.guarded => view[r].phase = "seen"
    PROVE  ChangesOf(r) \in Changes
<1>1. /\ r.op \in Operations /\ r.key \in Keys \cup {NoKey} /\ r.guarded \in BOOLEAN
      /\ r.guarded => r.op.kind \in {"set", "put", "tombstone", "delete"}
  BY DEF Assumptions, RequestsAssumption
<1>2. r.guarded => r.op.on \in Resources
  BY <1>1 DEF Operations
<1>3. r.guarded => view[r].versions \in VersionTable
  BY <1>1 DEF StoreTypeOK, Views, Unseen
<1>4. r.guarded => view[r].versions[r.op.on] \in Nat
  BY <1>2, <1>3 DEF VersionTable, StoreTypeOK, Current
<1> QED
  BY <1>1, <1>4 DEF ChangesOf, Changes

-----------------------------------------------------------------------------

LEMMA StoreBegins ==
    ASSUME Assumptions, StoreInit
    PROVE  StoreInv
<1>1. /\ Current = 0 /\ Len(audit) = 0 /\ revisions \in Seq(Snapshots)
      /\ audit \in Seq([by : Actors \cup {Bootstrapper}, changes : Changes \cup {NoChanges}])
  BY DEF StoreInit, Current
<1>2. view \in [Requests -> Views] /\ attempt \in [Attempts -> Handlers]
  BY DEF StoreInit, Views, Handlers
<1>3. \A a \in Attempts : attempt[a] \in {Unsent, Unplanned}
  BY DEF StoreInit
<1>4. \A a \in Attempts : attempt[a].phase \in {"unsent", "unplanned"}
  BY <1>3 DEF Unsent, Unplanned
<1>5. versions \in VersionTable /\ lost \in 0..MaxLost
  BY <1>1 DEF StoreInit, VersionTable, Assumptions, RequestsAssumption
<1>6. lock \in Attempts \cup {Free} /\ \A a \in Attempts : lock # a
  BY DEF StoreInit, Assumptions, RequestsAssumption, Attempts
<1>7. StoreTypeOK
  BY <1>1, <1>2, <1>5, <1>6 DEF StoreInit, StoreTypeOK
<1>8. VersionsAreTrue
  BY <1>1 DEF StoreInit, VersionsAreTrue, VersionIsTrue, Touching
<1>9. KeysAreRecorded
  BY <1>1 DEF StoreInit, KeysAreRecorded
<1> QED
  BY <1>3, <1>4, <1>7, <1>8, <1>9 DEF StoreInv, HandlerFollows

(***************************************************************************)
(* A longer ledger keeps every view and every handler.                     *)
(***************************************************************************)
LEMMA StoreLedgerGrows ==
    ASSUME Current \in Nat, Current' \in Nat, Current <= Current'
    PROVE  VersionTable \subseteq VersionTable' /\ Views \subseteq Views' /\ Handlers \subseteq Handlers'
<1>1. /\ 0..Current \subseteq 0..Current' /\ 1..Current \subseteq 1..Current'
      /\ 2..Current \subseteq 2..Current'
  OBVIOUS
<1>2. VersionTable \subseteq VersionTable'
  BY <1>1 DEF VersionTable
<1>3. Views \subseteq Views'
  BY <1>1, <1>2 DEF Views
<1>4. Handlers \subseteq Handlers'
  BY <1>1, <1>2 DEF Handlers, Answers
<1> QED
  BY <1>2, <1>3, <1>4

(***************************************************************************)
(* A step of one handler that leaves the tables alone.                     *)
(***************************************************************************)
LEMMA HandlerMoves ==
    ASSUME Assumptions, StoreInv, NEW a \in Attempts, UNCHANGED <<storeVars, view, booted>>,
           lost' \in 0..MaxLost,
           NEW h \in Handlers, attempt' = [attempt EXCEPT ![a] = h],
           lock' \in {lock, Free, a}, lock' = a => h.phase = "authorized",
           HandlerFollows(a)'
    PROVE  StoreInv'
<1> USE DEF StoreInv
<1>1. /\ Current' = Current /\ Views' = Views /\ Handlers' = Handlers
      /\ VersionTable' = VersionTable
  BY DEF storeVars, Current, Views, Handlers, VersionTable, Answers
<1>2. attempt' \in [Attempts -> Handlers] /\ attempt'[a] = h
  BY DEF StoreTypeOK
<1>3. \A b \in Attempts : b # a => attempt'[b] = attempt[b]
  BY DEF StoreTypeOK
<1>4. \A b \in Attempts : lock' = b => attempt'[b].phase = "authorized"
  <2> SUFFICES ASSUME NEW b \in Attempts, lock' = b PROVE attempt'[b].phase = "authorized"
    OBVIOUS
  <2>1. CASE b = a
    BY <1>2, <2>1
  <2>2. CASE b # a
    <3>1. b # Free
      BY DEF Assumptions, RequestsAssumption, Attempts
    <3> QED
      BY <1>3, <2>2, <3>1 DEF StoreTypeOK
  <2> QED
    BY <2>1, <2>2
<1>5. StoreTypeOK'
  BY <1>1, <1>2, <1>4 DEF StoreTypeOK, storeVars
<1>6. VersionsAreTrue' /\ KeysAreRecorded'
  BY <1>1 DEF VersionsAreTrue, VersionIsTrue, Touching, LastTouch, KeysAreRecorded, storeVars
<1>7. ASSUME NEW b \in Attempts
      PROVE  HandlerFollows(b)'
  <2>1. CASE b # a
    BY <1>1, <1>3, <2>1 DEF HandlerFollows, Own, ChangesOf, storeVars
  <2> QED
    BY <2>1
<1> QED
  BY <1>5, <1>6, <1>7

(***************************************************************************)
(* A handler that answers with a refusal, or with its own commit, gives    *)
(* the row back.                                                           *)
(***************************************************************************)
LEMMA FinishKeeps ==
    ASSUME Assumptions, StoreInv, NEW a \in Attempts, lock = a,
           UNCHANGED <<storeVars, view, booted>>, lost' \in 0..MaxLost,
           NEW x \in Answers, Finish(a, x),
           x \in [revision : 2..Current] => audit[x.revision] = Own(a)
    PROVE  StoreInv'
<1>1. Done(x) \in Handlers /\ Done(x).phase = "done" /\ Done(x).answer = x
  BY DEF Done, Handlers
<1>2. attempt[a].phase = "authorized"
  BY DEF StoreInv, StoreTypeOK
<1>3. Current > 0 /\ (a[1].guarded => view[a[1]].phase = "seen")
  BY <1>2 DEF StoreInv, HandlerFollows, Unsent, Unplanned
<1>4. attempt' = [attempt EXCEPT ![a] = Done(x)] /\ attempt'[a] = Done(x) /\ lock' = Free
  BY DEF Finish, StoreInv, StoreTypeOK
<1>5. "revision" \in DOMAIN x => x \in [revision : 2..Current]
  BY DEF Answers
<1>6. HandlerFollows(a)'
  BY <1>1, <1>3, <1>4, <1>5 DEF HandlerFollows, Own, ChangesOf, storeVars, Current
<1>7. a # Free
  BY DEF Assumptions, RequestsAssumption, Attempts
<1> QED
  BY <1>1, <1>4, <1>6, <1>7, HandlerMoves

LEMMA HandlersKeep ==
    ASSUME Assumptions, StoreInv, NEW a \in Attempts,
           Send(a) \/ LoadState(a) \/ LoadVersions(a) \/ LockState(a)
             \/ AnswerRecorded(a) \/ Refuse(a) \/ RollBack(a)
    PROVE  StoreInv'
<1>0. /\ attempt[a] \in Handlers /\ attempt = [attempt EXCEPT ![a] = attempt[a]]
      /\ lock = a => attempt[a].phase = "authorized"
      /\ HandlerFollows(a) /\ Current \in Nat /\ lost \in 0..MaxLost
      /\ booted # {} => Current > 0
  BY DEF StoreInv, StoreTypeOK, Current
<1>1. CASE Send(a)
  <2> DEFINE h == [phase |-> "loading"]
  <2>1. h \in Handlers
    BY DEF Handlers
  <2>2. attempt' = [attempt EXCEPT ![a] = h] /\ attempt'[a] = h /\ lock # a
    BY <1>0, <1>1 DEF Send, Unsent, StoreInv, StoreTypeOK
  <2>3. HandlerFollows(a)'
    BY <1>0, <1>1, <2>2 DEF Send, HandlerFollows, storeVars, Current
  <2> QED
    BY <1>0, <1>1, <2>1, <2>2, <2>3, HandlerMoves DEF Send
<1>2. CASE LoadState(a)
  <2> DEFINE h == [phase |-> "loaded", revision |-> Current, snap |-> revisions[Current]]
  <2>1. Current > 0 /\ lock # a /\ (a[1].guarded => view[a[1]].phase = "seen")
    BY <1>0, <1>2 DEF LoadState, HandlerFollows, Unsent, Unplanned
  <2>2. h \in Handlers
    BY <1>0, <2>1 DEF Handlers, StoreInv, StoreTypeOK, Current
  <2>3. attempt' = [attempt EXCEPT ![a] = h] /\ attempt'[a] = h
    BY <1>0, <1>2 DEF LoadState, StoreInv, StoreTypeOK
  <2>4. HandlerFollows(a)'
    BY <1>0, <1>2, <2>1, <2>3 DEF LoadState, HandlerFollows, storeVars, Current
  <2> QED
    BY <1>0, <1>2, <2>1, <2>2, <2>3, <2>4, HandlerMoves DEF LoadState
<1>3. CASE LoadVersions(a)
  <2> DEFINE s == attempt[a].snap
             yes == a[1].actor \in s.admins /\ (IntentHolds(s, a[1].op) \/ ReplayOnly(s, a[1]))
             h == IF yes THEN [phase |-> "authorized", revision |-> attempt[a].revision, snap |-> s,
                               versions |-> versions, replayOnly |-> ReplayOnly(s, a[1])]
                  ELSE Done([refused |-> "denied"])
  <2>1. Current > 0 /\ lock # a /\ (a[1].guarded => view[a[1]].phase = "seen")
    BY <1>0, <1>3 DEF LoadVersions, HandlerFollows, Unsent, Unplanned
  <2>2. attempt[a] \in [phase : {"loaded"}, revision : 1..Current, snap : Snapshots]
    BY <1>0, <1>3 DEF LoadVersions, Handlers, Unsent, Unplanned
  <2>3. versions \in VersionTable /\ ReplayOnly(s, a[1]) \in BOOLEAN
    BY DEF StoreInv, StoreTypeOK, ReplayOnly
  <2>4. h \in Handlers
    BY <2>2, <2>3 DEF Handlers, Done, Answers
  <2>5. attempt' = [attempt EXCEPT ![a] = h] /\ attempt'[a] = h
    BY <1>0, <1>3 DEF LoadVersions, StoreInv, StoreTypeOK
  <2>6. HandlerFollows(a)'
    BY <1>0, <1>3, <2>1, <2>5 DEF LoadVersions, HandlerFollows, Done, storeVars, Current
  <2> HIDE DEF h
  <2> QED
    BY <1>0, <1>3, <2>1, <2>4, <2>5, <2>6, HandlerMoves DEF LoadVersions
<1>4. CASE LockState(a)
  <2>1. HandlerFollows(a)'
    BY <1>0, <1>4 DEF LockState, HandlerFollows, Own, ChangesOf, storeVars, Current
  <2> QED
    BY <1>0, <1>4, <2>1, HandlerMoves DEF LockState
<1>5. CASE AnswerRecorded(a)
  <2>1. PICK e \in Recorded(a[1]) :
           Finish(a, IF e.changes = ChangesOf(a[1]) /\ e.by = a[1].actor
                     THEN [revision |-> e.revision] ELSE [refused |-> "conflict"])
    BY <1>5 DEF AnswerRecorded
  <2> DEFINE x == IF e.changes = ChangesOf(a[1]) /\ e.by = a[1].actor
                  THEN [revision |-> e.revision] ELSE [refused |-> "conflict"]
  <2>2. e \in idem /\ e.revision \in 2..Current
    BY DEF Recorded, StoreInv, StoreTypeOK
  <2>3. x \in Answers
    BY <2>2 DEF Answers
  <2>4. x \in [revision : 2..Current] => audit[x.revision] = Own(a)
    BY <2>2 DEF Own, StoreInv, KeysAreRecorded
  <2> HIDE DEF x
  <2>5. Finish(a, x)
    BY <2>1 DEF x
  <2> QED
    BY <1>0, <1>5, <2>3, <2>4, <2>5, FinishKeeps DEF AnswerRecorded
<1>6. CASE Refuse(a)
  <2>1. [refused |-> "conflict"] \in Answers /\ [refused |-> "conflict"] \notin [revision : 2..Current]
    BY DEF Answers
  <2> QED
    BY <1>0, <1>6, <2>1, FinishKeeps DEF Refuse
<1>7. CASE RollBack(a)
  <2>1. lost' \in 0..MaxLost
    BY <1>0, <1>7 DEF RollBack, Assumptions, RequestsAssumption
  <2>2. [refused |-> "failed"] \in Answers /\ [refused |-> "failed"] \notin [revision : 2..Current]
    BY DEF Answers
  <2> QED
    BY <1>7, <2>1, <2>2, FinishKeeps DEF RollBack
<1> QED
  BY <1>1, <1>2, <1>3, <1>4, <1>5, <1>6, <1>7

(***************************************************************************)
(* An editor's GET: the request has not been sent yet.                     *)
(***************************************************************************)
LEMMA ViewsKeep ==
    ASSUME Assumptions, StoreInv, NEW r \in Requests, ReadState(r) \/ ReadVersions(r)
    PROVE  StoreInv'
<1> USE DEF StoreInv
<1>0. UNCHANGED <<storeVars, lock, attempt, booted, lost>>
  BY DEF ReadState, ReadVersions
<1>1. /\ Current' = Current /\ Views' = Views /\ Handlers' = Handlers
      /\ VersionTable' = VersionTable
  BY <1>0 DEF storeVars, Current, Views, Handlers, VersionTable, Answers
<1>2. view[r].phase # "seen"
  BY DEF ReadState, ReadVersions, Unseen
<1>3. PICK v \in Views : view' = [view EXCEPT ![r] = v]
  <2>1. CASE ReadState(r)
    <3>1. [phase |-> "reading", revision |-> Current, snap |-> revisions[Current]] \in Views
      BY <2>1 DEF ReadState, Views, StoreTypeOK, Current
    <3> QED
      BY <2>1, <3>1 DEF ReadState
  <2>2. CASE ReadVersions(r)
    <3> DEFINE v == IF r.actor \in view[r].snap.admins /\ view[r].snap.value[r.op.on] # Gone
                    THEN [phase |-> "seen", revision |-> view[r].revision,
                          snap |-> view[r].snap, versions |-> versions,
                          torn |-> Current # view[r].revision]
                    ELSE Unseen
    <3>1. view[r] \in [phase : {"reading"}, revision : 1..Current, snap : Snapshots]
      BY <2>2 DEF ReadVersions, Views, Unseen, StoreTypeOK
    <3>2. v \in Views
      BY <3>1 DEF Views, StoreTypeOK
    <3>3. view' = [view EXCEPT ![r] = v]
      BY <2>2 DEF ReadVersions
    <3> QED
      BY <3>2, <3>3
  <2> QED
    BY <2>1, <2>2
<1>4. view' \in [Requests -> Views] /\ \A q \in Requests : q # r => view'[q] = view[q]
  BY <1>3 DEF StoreTypeOK
<1>5. StoreTypeOK'
  BY <1>0, <1>1, <1>4 DEF StoreTypeOK, storeVars
<1>6. VersionsAreTrue' /\ KeysAreRecorded'
  BY <1>0, <1>1 DEF VersionsAreTrue, VersionIsTrue, Touching, LastTouch, KeysAreRecorded, storeVars
<1>7. ASSUME NEW a \in Attempts
      PROVE  HandlerFollows(a)'
  <2>1. a[1] \in Requests /\ a[1].guarded \in BOOLEAN
    BY Requested
  <2>2. CASE a[1] # r \/ ~a[1].guarded
    BY <1>0, <1>1, <1>4, <2>1, <2>2 DEF HandlerFollows, Own, ChangesOf, storeVars
  <2>3. CASE a[1] = r /\ a[1].guarded
    <3>1. attempt[a] \in {Unsent, Unplanned}
      BY <1>2, <2>3 DEF HandlerFollows
    <3> QED
      BY <1>0, <3>1 DEF HandlerFollows, Unsent, Unplanned
  <2> QED
    BY <2>1, <2>2, <2>3
<1> QED
  BY <1>5, <1>6, <1>7

LEMMA BootstrapKeeps ==
    ASSUME Assumptions, StoreInv, NEW p \in Servers, InitializeStore(p)
    PROVE  StoreInv'
<1> USE DEF StoreInv
<1>1. CASE Current = 0
  <2>1. /\ revisions' = <<SeedSnapshot>> /\ Current' = 1
        /\ audit' = <<[by |-> Bootstrapper, changes |-> NoChanges]>>
        /\ UNCHANGED <<versions, idem, lock, view, attempt, lost>>
    BY <1>1 DEF InitializeStore, Current
  <2>2. revisions' \in Seq(Snapshots)
    BY <2>1 DEF Assumptions, LedgerAssumption
  <2>3. /\ audit' \in Seq([by : Actors \cup {Bootstrapper}, changes : Changes \cup {NoChanges}])
        /\ Len(audit') = 1
    BY <2>1
  <2>4. idem = {} /\ \A k \in Resources \cup Actors : versions[k] = 0
    BY <1>1 DEF StoreTypeOK, VersionTable
  <2>5. \A k : Touching(k)' = {}
    BY <2>1 DEF Touching
  <2>6. \A a \in Attempts : attempt[a] \in {Unsent, Unplanned}
    BY <1>1 DEF HandlerFollows
  <2>7. /\ versions' \in VersionTable' /\ view' \in [Requests -> Views']
        /\ attempt' \in [Attempts -> Handlers']
    BY <1>1, <2>1, StoreLedgerGrows DEF StoreTypeOK
  <2>8. StoreTypeOK'
    BY <2>1, <2>2, <2>3, <2>4, <2>7 DEF StoreTypeOK, InitializeStore
  <2>9. VersionsAreTrue'
    BY <2>1, <2>4, <2>5 DEF VersionsAreTrue, VersionIsTrue
  <2>10. KeysAreRecorded'
    BY <2>1, <2>4 DEF KeysAreRecorded, NoChanges
  <2>11. \A a \in Attempts : HandlerFollows(a)'
    BY <2>1, <2>6 DEF HandlerFollows, Unsent, Unplanned
  <2> QED
    BY <2>8, <2>9, <2>10, <2>11
<1>2. CASE Current # 0
  <2>1. UNCHANGED <<storeVars, lock, view, attempt, lost>> /\ booted' = booted \cup {p}
    BY <1>2 DEF InitializeStore, storeVars
  <2>2. /\ Current' = Current /\ Views' = Views /\ Handlers' = Handlers
        /\ VersionTable' = VersionTable
    BY <2>1 DEF storeVars, Current, Views, Handlers, VersionTable, Answers
  <2>3. StoreTypeOK'
    BY <1>2, <2>1, <2>2 DEF StoreTypeOK, storeVars, Current
  <2>4. VersionsAreTrue' /\ KeysAreRecorded'
    BY <2>1, <2>2 DEF VersionsAreTrue, VersionIsTrue, Touching, LastTouch, KeysAreRecorded, storeVars
  <2>5. \A a \in Attempts : HandlerFollows(a)'
    BY <2>1, <2>2 DEF HandlerFollows, Own, ChangesOf, storeVars
  <2> QED
    BY <2>3, <2>4, <2>5
<1> QED
  BY <1>1, <1>2

-----------------------------------------------------------------------------

(***************************************************************************)
(* What a handler that may commit has established, and what it appends.    *)
(***************************************************************************)
LEMMA CommitIsChecked ==
    ASSUME Assumptions, StoreInv, NEW a \in Attempts, NEW answered \in BOOLEAN,
           CommitChange(a, answered)
    PROVE  /\ Current \in Nat /\ Current > 0 /\ Current' = Current + 1
           /\ revisions[Current] \in Snapshots
           /\ ChangesOf(a[1]) \in Changes /\ ChangesOf(a[1]).op = a[1].op
           /\ ChangesOf(a[1]).key = a[1].key
           /\ revisions' = Append(revisions, Applied(revisions[Current], a[1].op))
           /\ audit' = Append(audit, Own(a))
           /\ audit'[Current + 1] = Own(a)
           /\ \A i \in 1..Current : audit'[i] = audit[i]
           /\ a[1].actor \in revisions[Current].admins
           /\ IntentHolds(revisions[Current], a[1].op)
           /\ a[1].guarded => view[a[1]].phase = "seen"
           /\ Len(audit) = Current
<1>1. lock = a /\ attempt[a].phase = "authorized" /\ HandlerFollows(a) /\ attempt[a] \in Handlers
  BY DEF CommitChange, MayCommit, StoreInv, StoreTypeOK
<1>2. Current > 0 /\ (a[1].guarded => view[a[1]].phase = "seen")
  BY <1>1 DEF HandlerFollows, Unsent, Unplanned
<1>3. Current \in Nat /\ Len(audit) = Current /\ revisions[Current] \in Snapshots
  BY <1>2 DEF StoreInv, StoreTypeOK, Current
<1>4. a[1] \in Requests /\ a[1].op \in Operations
  BY Requested
<1>5. ChangesOf(a[1]) \in Changes
  BY <1>2, <1>4, ChangesAreTyped DEF StoreInv
<1>6. ChangesOf(a[1]).op = a[1].op /\ ChangesOf(a[1]).key = a[1].key
  BY DEF ChangesOf
<1>7. /\ revisions' = Append(revisions, Applied(revisions[Current], a[1].op))
      /\ audit' = Append(audit, Own(a))
  BY <1>6 DEF CommitChange, Own
<1>8. Current' = Current + 1
  BY <1>7 DEF StoreInv, StoreTypeOK, Current
<1>9. audit'[Current + 1] = Own(a) /\ \A i \in 1..Current : audit'[i] = audit[i]
  BY <1>3, <1>7 DEF StoreInv, StoreTypeOK
<1>10. attempt[a].snap = revisions[Current] /\ ~attempt[a].replayOnly
  BY DEF CommitChange, MayCommit, StateIsCurrent
<1>11. a[1].actor \in revisions[Current].admins /\ IntentHolds(revisions[Current], a[1].op)
  BY <1>1, <1>10 DEF HandlerFollows
<1> QED
  BY <1>2, <1>3, <1>5, <1>6, <1>7, <1>8, <1>9, <1>11

(***************************************************************************)
(* The versions name the last touch of every resource after a commit too:  *)
(* it is the last one of its target, and of no other resource.             *)
(***************************************************************************)
LEMMA CommitKeepsVersions ==
    ASSUME Assumptions, StoreInv, NEW a \in Attempts, NEW answered \in BOOLEAN,
           CommitChange(a, answered)
    PROVE  versions' \in VersionTable' /\ VersionsAreTrue'
<1> DEFINE t == Target(a[1].op)
           n == Current + 1
<1>1. /\ Current \in Nat /\ Current > 0 /\ Current' = n
      /\ audit'[n] = Own(a) /\ \A i \in 1..Current : audit'[i] = audit[i]
      /\ ChangesOf(a[1]).op = a[1].op
  BY CommitIsChecked
<1>2. t \in Resources \cup Actors /\ versions \in VersionTable
  BY Requested, Targeted DEF StoreInv, StoreTypeOK
<1>3. versions' = [versions EXCEPT ![t] = IF a[1].op.kind = "delete" THEN 0 ELSE n]
  BY <1>1 DEF CommitChange, NewVersions
<1>4. versions' \in VersionTable'
  BY <1>1, <1>2, <1>3 DEF VersionTable
<1>5. /\ versions'[t] = IF a[1].op.kind = "delete" THEN 0 ELSE n
      /\ \A k \in Resources \cup Actors : k # t => versions'[k] = versions[k]
  BY <1>2, <1>3 DEF VersionTable
<1>6. audit'[n].changes.op = a[1].op
  BY <1>1 DEF Own
<1>7. \A k : Touching(k)' = IF k = t THEN Touching(k) \cup {n} ELSE Touching(k)
  BY <1>1, <1>6 DEF Touching
<1>8. VersionIsTrue(t)'
  <2>1. n \in Touching(t)' /\ n \in 2..Current' /\ n # 0
    BY <1>1, <1>6, <1>7 DEF Touching
  <2>2. \A j \in Touching(t)' : j <= n
    BY <1>1, <1>7 DEF Touching
  <2>3. \A i : i = n => LastTouch(t, i)'
    BY <2>1, <2>2 DEF LastTouch
  <2> HIDE DEF n, t
  <2>4. CASE a[1].op.kind = "delete"
    <3>1. versions'[t] = 0 /\ audit'[n].changes.op.kind = "delete"
      BY <1>5, <1>6, <2>4
    <3> QED
      BY <2>1, <2>3, <3>1 DEF VersionIsTrue, t
  <2>5. CASE a[1].op.kind # "delete"
    <3>1. versions'[t] = n /\ audit'[n].changes.op.kind # "delete"
      BY <1>5, <1>6, <2>5
    <3> QED
      BY <2>1, <2>3, <3>1 DEF VersionIsTrue, t
  <2> QED
    BY <2>4, <2>5
<1>9. ASSUME NEW k \in Resources \cup Actors, k # t
      PROVE  VersionIsTrue(k)'
  <2>1. VersionIsTrue(k) /\ Touching(k)' = Touching(k) /\ versions'[k] = versions[k]
    BY <1>5, <1>7, <1>9 DEF StoreInv, VersionsAreTrue
  <2>2. \A i \in 2..Current : LastTouch(k, i)' = LastTouch(k, i) /\ audit'[i] = audit[i]
    BY <1>1, <2>1 DEF LastTouch
  <2>3. versions[k] \in 0..Current
    BY <1>2 DEF VersionTable
  <2>4. CASE versions[k] = 0
    BY <1>1, <2>1, <2>2, <2>4 DEF VersionIsTrue
  <2>5. CASE versions[k] # 0
    <3>1. LastTouch(k, versions[k]) /\ audit[versions[k]].changes.op.kind # "delete"
      BY <2>1, <2>5 DEF VersionIsTrue
    <3>2. versions[k] \in 2..Current
      BY <3>1 DEF LastTouch, Touching
    <3>3. LastTouch(k, versions[k])' /\ audit'[versions[k]] = audit[versions[k]]
      BY <2>1, <2>2, <3>1, <3>2
    <3> QED
      BY <2>1, <2>5, <3>1, <3>3 DEF VersionIsTrue
  <2> QED
    BY <2>4, <2>5
<1> QED
  BY <1>4, <1>8, <1>9 DEF VersionsAreTrue

LEMMA CommitKeeps ==
    ASSUME Assumptions, StoreInv, NEW a \in Attempts, NEW answered \in BOOLEAN,
           CommitChange(a, answered)
    PROVE  StoreInv'
<1> DEFINE n == Current + 1
           c == ChangesOf(a[1])
           x == IF answered THEN [revision |-> n] ELSE [refused |-> "failed"]
<1> USE DEF StoreInv
<1>1. /\ Current \in Nat /\ Current > 0 /\ Current' = n
      /\ revisions[Current] \in Snapshots /\ c \in Changes
      /\ c.op = a[1].op /\ c.key = a[1].key
      /\ revisions' = Append(revisions, Applied(revisions[Current], a[1].op))
      /\ audit' = Append(audit, Own(a)) /\ audit'[n] = Own(a)
      /\ \A i \in 1..Current : audit'[i] = audit[i]
      /\ a[1].guarded => view[a[1]].phase = "seen"
      /\ Len(audit) = Current
  BY CommitIsChecked
<1>2. /\ idem' = IF c.key = NoKey THEN idem
                 ELSE idem \cup {[key |-> c.key, changes |-> c, by |-> a[1].actor, revision |-> n]}
      /\ Finish(a, x) /\ UNCHANGED <<view, booted>>
      /\ lost' = (IF answered THEN lost ELSE lost + 1) /\ lost' <= MaxLost
  BY DEF CommitChange
<1>3. /\ a[1] \in Requests /\ a[1].actor \in Actors /\ a[1].op \in Operations
      /\ a[1].key \in Keys \cup {NoKey}
  BY Requested
<1>4. revisions' \in Seq(Snapshots)
  BY <1>1, <1>3, AppliedIsSnapshot DEF StoreTypeOK
<1>5. /\ audit' \in Seq([by : Actors \cup {Bootstrapper}, changes : Changes \cup {NoChanges}])
      /\ Len(audit') = n
  BY <1>1, <1>3 DEF StoreTypeOK, Own
<1>6. versions' \in VersionTable' /\ VersionsAreTrue'
  BY CommitKeepsVersions
<1>7. idem' \subseteq [key : Keys, changes : Changes, by : Actors, revision : 2..n]
  BY <1>1, <1>2, <1>3 DEF StoreTypeOK
<1>8. x \in Answers'
  BY <1>1 DEF Answers
<1>9. /\ attempt' = [attempt EXCEPT ![a] = Done(x)] /\ lock' = Free
      /\ Done(x) \in Handlers' /\ Done(x).phase = "done" /\ Done(x).answer = x
  BY <1>2, <1>8 DEF Finish, Done, Handlers
<1>10. attempt' \in [Attempts -> Handlers'] /\ view' \in [Requests -> Views']
  BY <1>1, <1>2, <1>9, StoreLedgerGrows DEF StoreTypeOK
<1>11. StoreTypeOK'
  <2>1. lost' \in 0..MaxLost
    BY <1>2 DEF StoreTypeOK, Assumptions, RequestsAssumption
  <2>2. \A b \in Attempts : lock' # b
    BY <1>9 DEF Assumptions, RequestsAssumption, Attempts
  <2> QED
    BY <1>1, <1>2, <1>4, <1>5, <1>6, <1>7, <1>9, <1>10, <2>1, <2>2 DEF StoreTypeOK
<1>12. KeysAreRecorded'
  <2>1. \A e \in idem : e.revision \in 1..Current
    BY <1>1 DEF StoreTypeOK
  <2>2. \A e \in idem : audit'[e.revision] = [by |-> e.by, changes |-> e.changes]
    BY <1>1, <2>1 DEF KeysAreRecorded
  <2>3. \A e \in idem' : audit'[e.revision] = [by |-> e.by, changes |-> e.changes]
    <3> DEFINE fresh == [key |-> c.key, changes |-> c, by |-> a[1].actor, revision |-> n]
    <3>1. audit'[fresh.revision] = [by |-> fresh.by, changes |-> fresh.changes]
      BY <1>1 DEF Own
    <3>2. idem' \subseteq idem \cup {fresh}
      BY <1>2
    <3> HIDE DEF fresh
    <3> QED
      BY <2>2, <3>1, <3>2
  <2>4. \A i \in 1..Current :
           audit'[i].changes.key # NoKey => \E e \in idem' : e.key = audit'[i].changes.key
    BY <1>1, <1>2 DEF KeysAreRecorded
  <2>5. audit'[n].changes = c
    BY <1>1 DEF Own
  <2>6. c.key # NoKey => \E e \in idem' : e.key = c.key
    <3> SUFFICES ASSUME c.key # NoKey PROVE \E e \in idem' : e.key = c.key
      OBVIOUS
    <3> DEFINE fresh == [key |-> c.key, changes |-> c, by |-> a[1].actor, revision |-> n]
    <3>1. fresh \in idem' /\ fresh.key = c.key
      BY <1>2
    <3> QED
      BY <3>1
  <2> HIDE DEF c
  <2>7. \A i \in 1..n :
           audit'[i].changes.key # NoKey => \E e \in idem' : e.key = audit'[i].changes.key
    BY <1>1, <2>4, <2>5, <2>6
  <2> QED
    BY <1>1, <2>3, <2>7 DEF KeysAreRecorded
<1>13. ASSUME NEW b \in Attempts
       PROVE  HandlerFollows(b)'
  <2>1. Own(b)' = Own(b)
    BY <1>2 DEF Own, ChangesOf
  <2>2. CASE b = a
    <3>1. attempt'[b] = Done(x)
      BY <1>9, <2>2 DEF StoreTypeOK
    <3>2. attempt'[b].phase = "done" /\ attempt'[b].answer = x
      BY <1>9, <3>1
    <3>3. "revision" \in DOMAIN x => audit'[x.revision] = Own(b)
      BY <1>1, <2>2
    <3>4. b[1].guarded => view'[b[1]].phase = "seen"
      BY <1>1, <1>2, <2>2
    <3>5. Current' > 0
      BY <1>1
    <3> HIDE DEF x
    <3> QED
      BY <2>1, <3>2, <3>3, <3>4, <3>5 DEF HandlerFollows
  <2>3. CASE b # a
    <3>1. attempt'[b] = attempt[b] /\ HandlerFollows(b) /\ attempt[b] \in Handlers
      BY <1>9, <2>3 DEF StoreTypeOK
    <3>2. attempt[b].phase = "done" => attempt[b].answer \in Answers
      BY <3>1 DEF Handlers, Unsent, Unplanned
    <3>3. attempt[b].phase = "done" /\ "revision" \in DOMAIN attempt[b].answer
            => attempt[b].answer.revision \in 1..Current
      BY <1>1, <3>2 DEF Answers
    <3> QED
      BY <1>1, <1>2, <2>1, <3>1, <3>3 DEF HandlerFollows
  <2> QED
    BY <2>2, <2>3
<1> QED
  BY <1>6, <1>11, <1>12, <1>13

(***************************************************************************)
(* The inductive invariant of the store.                                   *)
(***************************************************************************)
THEOREM StoreInvariance ==
    ASSUME Assumptions
    PROVE  StoreSpec => []StoreInv
<1>1. StoreInit => StoreInv
  BY StoreBegins
<1>2. StoreInv /\ [StoreNext]_storeState => StoreInv'
  <2> SUFFICES ASSUME StoreInv, [StoreNext]_storeState PROVE StoreInv'
    OBVIOUS
  <2>1. CASE UNCHANGED storeState
    <3>1. UNCHANGED <<revisions, versions, audit, idem, lock, view, attempt, booted, lost>>
      BY <2>1 DEF storeState, storeVars
    <3>2. StoreTypeOK'
      BY <3>1 DEF StoreInv, StoreTypeOK, Current, VersionTable, Views, Answers, Handlers
    <3>3. VersionsAreTrue' /\ KeysAreRecorded'
      BY <3>1 DEF StoreInv, VersionsAreTrue, VersionIsTrue, Touching, LastTouch, KeysAreRecorded,
                  Current
    <3>4. \A a \in Attempts : HandlerFollows(a)'
      BY <3>1 DEF StoreInv, HandlerFollows, Own, ChangesOf, Current
    <3> QED
      BY <3>2, <3>3, <3>4 DEF StoreInv
  <2>2. CASE \E p \in Servers : InitializeStore(p)
    BY <2>2, BootstrapKeeps
  <2>3. CASE \E r \in Requests : ReadState(r) \/ ReadVersions(r)
    BY <2>3, ViewsKeep
  <2>4. CASE \E a \in Attempts : Send(a) \/ Handle(a) \/ RollBack(a) \/ CommitChange(a, FALSE)
    BY <2>4, HandlersKeep, CommitKeeps DEF Handle
  <2> QED
    BY <2>1, <2>2, <2>3, <2>4 DEF StoreNext
<1> QED
  BY <1>1, <1>2, PTL DEF StoreSpec

(***************************************************************************)
(* The tables, the row lock and the handlers stay well formed, whatever    *)
(* the handlers, bootstraps and lost connections do.                       *)
(***************************************************************************)
THEOREM StoreTypeCorrect ==
    ASSUME Assumptions
    PROVE  StoreSpec => []StoreTypeOK
BY StoreInvariance, PTL DEF StoreInv

(***************************************************************************)
(* A handler that answers with a revision answers with the commit of its   *)
(* own change by its own principal (load_idempotency, transact).           *)
(***************************************************************************)
THEOREM HandlersAnswerForThemselves ==
    ASSUME Assumptions
    PROVE  StoreSpec => []AnswersAreOwn
<1>1. StoreInv => AnswersAreOwn
  BY DEF StoreInv, HandlerFollows, AnswersAreOwn, Own
<1> QED
  BY <1>1, StoreInvariance, PTL

-----------------------------------------------------------------------------

LEMMA LedgerIsSequence ==
    ASSUME StoreTypeOK
    PROVE  /\ Ledger \in Seq(Entry) /\ Len(Ledger) = Current /\ Current \in Nat
           /\ \A i \in 1..Current :
                 Ledger[i] = [snap |-> revisions[i], by |-> audit[i].by, changes |-> audit[i].changes]
<1>1. Current \in Nat /\ Len(audit) = Current
  BY DEF StoreTypeOK, Current
<1>2. \A i \in 1..Current :
         [snap |-> revisions[i], by |-> audit[i].by, changes |-> audit[i].changes] \in Entry
  <2> SUFFICES ASSUME NEW i \in 1..Current
               PROVE  [snap |-> revisions[i], by |-> audit[i].by, changes |-> audit[i].changes]
                         \in Entry
    OBVIOUS
  <2>1. revisions[i] \in Snapshots
    BY <1>1 DEF StoreTypeOK, Current
  <2>2. audit[i] \in [by : Actors \cup {Bootstrapper}, changes : Changes \cup {NoChanges}]
    <3> DEFINE Records == [by : Actors \cup {Bootstrapper}, changes : Changes \cup {NoChanges}]
    <3>1. audit \in Seq(Records) /\ i \in 1..Len(audit)
      BY <1>1 DEF StoreTypeOK
    <3> HIDE DEF Records
    <3>2. audit[i] \in Records
      BY <3>1
    <3> QED
      BY <3>2 DEF Records
  <2> QED
    BY <2>1, <2>2 DEF Entry
<1>3. Ledger \in [1..Current -> Entry]
  BY <1>2 DEF Ledger, Current
<1> QED
  BY <1>1, <1>3 DEF Ledger, Current

(***************************************************************************)
(* The ledger is about the same data.                                      *)
(***************************************************************************)
LEMMA SameData ==
    /\ Contract!Operations = Operations /\ Contract!NoChanges = NoChanges
    /\ \A op : Contract!Target(op) = Target(op)
    /\ \A s, op : Contract!IntentHolds(s, op) <=> IntentHolds(s, op)
    /\ \A s, op : Contract!Applied(s, op) = Applied(s, op)
    /\ \A s : Contract!ValidSnapshot(s) <=> ValidSnapshot(s)
<1>1. Contract!Operations = Operations /\ Contract!NoChanges = NoChanges
  BY DEF Contract!Operations, Operations, Contract!NoChanges, NoChanges
<1>2. \A op : Contract!Target(op) = Target(op)
  BY DEF Contract!Target, Target
<1>3. \A s, op : Contract!IntentHolds(s, op) <=> IntentHolds(s, op)
  BY DEF Contract!IntentHolds, IntentHolds
<1>4. \A s, op : Contract!Applied(s, op) = Applied(s, op)
  BY DEF Contract!Applied, Applied
<1>5. \A s : Contract!ValidSnapshot(s) <=> ValidSnapshot(s)
  BY DEF Contract!ValidSnapshot, ValidSnapshot
<1> QED
  BY <1>1, <1>2, <1>3, <1>4, <1>5

(***************************************************************************)
(* The table of versions is what the ledger says of every resource.        *)
(***************************************************************************)
LEMMA VersionsMatch ==
    ASSUME Assumptions, StoreInv, NEW k \in Resources \cup Actors
    PROVE  Contract!VersionOf(k) = versions[k]
<1> DEFINE touching == {i \in 2..Len(Ledger) : Contract!Target(Ledger[i].changes.op) = k}
           last == CHOOSE i \in touching : \A j \in touching : j <= i
<1>1. /\ Len(Ledger) = Current /\ Current \in Nat
      /\ \A i \in 1..Current : Ledger[i].changes = audit[i].changes
  BY LedgerIsSequence DEF StoreInv
<1>2. touching = Touching(k)
  BY <1>1, SameData DEF Touching
<1>3. Contract!VersionOf(k) =
         IF touching = {} \/ Ledger[last].changes.op.kind = "delete" THEN 0 ELSE last
  BY DEF Contract!VersionOf
<1>4. ASSUME NEW i \in 2..Current, LastTouch(k, i)
      PROVE  last = i /\ touching # {} /\ Ledger[i].changes = audit[i].changes
  <2>1. i \in touching /\ \A j \in touching : j <= i
    BY <1>2, <1>4 DEF LastTouch
  <2>2. touching \subseteq Nat
    BY <1>1
  <2> HIDE DEF touching
  <2>3. last \in touching /\ \A j \in touching : j <= last
    BY <2>1
  <2>4. last <= i /\ i <= last /\ last \in Nat
    BY <2>1, <2>2, <2>3
  <2>5. last = i
    BY <1>1, <2>4
  <2> QED
    BY <1>1, <2>1, <2>5
<1>5. VersionIsTrue(k) /\ versions[k] \in 0..Current
  BY DEF StoreInv, VersionsAreTrue, StoreTypeOK, VersionTable
<1> HIDE DEF touching, last
<1>6. CASE versions[k] = 0
  <2>1. CASE Touching(k) = {}
    BY <1>2, <1>3, <1>6, <2>1
  <2>2. CASE \E i \in 2..Current : LastTouch(k, i) /\ audit[i].changes.op.kind = "delete"
    BY <1>3, <1>4, <1>6, <2>2
  <2> QED
    BY <1>5, <1>6, <2>1, <2>2 DEF VersionIsTrue
<1>7. CASE versions[k] # 0
  <2>1. LastTouch(k, versions[k]) /\ audit[versions[k]].changes.op.kind # "delete"
    BY <1>5, <1>7 DEF VersionIsTrue
  <2>2. versions[k] \in 2..Current
    BY <2>1 DEF LastTouch, Touching
  <2> QED
    BY <1>3, <1>4, <2>1, <2>2
<1> QED
  BY <1>6, <1>7

(***************************************************************************)
(* Once the store is initialized, its table of entity versions names the   *)
(* revision that touched each resource last (record_resource_transition,   *)
(* version_targets).                                                       *)
(***************************************************************************)
THEOREM VersionsFollowTheLedger ==
    ASSUME Assumptions
    PROVE  StoreSpec => []VersionsNameTheLastTouch
<1>1. StoreInv => VersionsNameTheLastTouch
  BY VersionsMatch DEF VersionsNameTheLastTouch, StoreInv, StoreTypeOK, VersionTable
<1> QED
  BY <1>1, StoreInvariance, PTL

LEMMA CommitImplemented ==
    ASSUME Assumptions, StoreInv, NEW a \in Attempts, NEW answered \in BOOLEAN,
           CommitChange(a, answered)
    PROVE  Contract!Next
<1> DEFINE r == a[1]
           c == ChangesOf(r)
           commit == [snap |-> Applied(revisions[Current], r.op), by |-> r.actor, changes |-> c]
<1>1. /\ Current > 0 /\ Current' = Current + 1 /\ revisions[Current] \in Snapshots
      /\ c \in Changes /\ c.op = r.op /\ c.key = r.key
      /\ revisions' = Append(revisions, Applied(revisions[Current], r.op))
      /\ audit' = Append(audit, Own(a)) /\ audit'[Current + 1] = Own(a)
      /\ \A i \in 1..Current : audit'[i] = audit[i]
      /\ r.actor \in revisions[Current].admins /\ IntentHolds(revisions[Current], r.op)
  BY CommitIsChecked
<1>2. /\ Ledger \in Seq(Entry) /\ Len(Ledger) = Current /\ Current \in Nat
      /\ \A i \in 1..Current :
            Ledger[i] = [snap |-> revisions[i], by |-> audit[i].by, changes |-> audit[i].changes]
  BY LedgerIsSequence DEF StoreInv
<1>3. /\ r \in Requests /\ r.actor \in Actors /\ r.op \in Operations
      /\ r.key \in Keys \cup {NoKey} /\ Target(r.op) \in Resources \cup Actors
  BY Requested, Targeted
<1>4. Ledger' = Append(Ledger, commit)
  <2>1. Ledger' = [i \in 1..Current + 1 |->
                      [snap |-> revisions'[i], by |-> audit'[i].by, changes |-> audit'[i].changes]]
    BY <1>1 DEF Ledger, Current
  <2>2. /\ \A i \in 1..Current : revisions'[i] = revisions[i]
        /\ revisions'[Current + 1] = Applied(revisions[Current], r.op)
    BY <1>1, <1>2 DEF StoreInv, StoreTypeOK, Current
  <2>3. \A i \in 1..Current : Ledger'[i] = Ledger[i]
    <3> SUFFICES ASSUME NEW i \in 1..Current PROVE Ledger'[i] = Ledger[i]
      OBVIOUS
    <3>1. i \in 1..Current + 1
      BY <1>2
    <3>2. Ledger'[i] = [snap |-> revisions'[i], by |-> audit'[i].by, changes |-> audit'[i].changes]
      BY <2>1, <3>1
    <3> QED
      BY <1>1, <1>2, <2>2, <3>2
  <2>4. Ledger'[Current + 1] = commit
    <3>1. Current + 1 \in 1..Current + 1
      BY <1>2
    <3>2. Own(a).by = r.actor /\ Own(a).changes = c
      BY DEF Own
    <3> QED
      BY <1>1, <2>1, <2>2, <3>1, <3>2
  <2>5. Append(Ledger, commit) = [i \in 1..Current + 1 |-> IF i = Current + 1 THEN commit ELSE Ledger[i]]
    BY <1>2
  <2>6. \A i \in 1..Current + 1 :
           Ledger'[i] = IF i = Current + 1 THEN commit ELSE Ledger[i]
    BY <1>2, <2>3, <2>4
  <2>7. Ledger' = [i \in 1..Current + 1 |-> Ledger'[i]]
    BY <2>1
  <2> HIDE DEF commit
  <2> QED
    BY <2>5, <2>6, <2>7
<1>5. Contract!Newest = revisions[Current]
  BY <1>1, <1>2 DEF Contract!Newest
<1>6. c.expected \in {AnyVersion, Contract!VersionOf(Target(r.op))}
  <2>1. c.expected \in {AnyVersion, versions[Target(r.op)]}
    BY <1>1 DEF CommitChange, MayCommit, VersionExpected
  <2> QED
    BY <1>3, <2>1, VersionsMatch
<1>7. c.key # NoKey => \A i \in 1..Len(Ledger) : Ledger[i].changes.key # c.key
  <2>1. \A f \in idem : f.key # r.key
    BY DEF CommitChange, MayCommit, Recorded
  <2>2. \A i \in 1..Current : Ledger[i].changes = audit[i].changes
    BY <1>2
  <2>3. c.key # NoKey => \A i \in 1..Current : audit[i].changes.key # c.key
    BY <1>1, <2>1 DEF StoreInv, KeysAreRecorded
  <2> HIDE DEF c
  <2> QED
    BY <1>2, <2>2, <2>3
<1>8. ValidSnapshot(Applied(revisions[Current], r.op))
  BY DEF CommitChange, MayCommit
<1>9. PICK v \in {AnyVersion, Contract!VersionOf(Contract!Target(r.op))} : v = c.expected
  BY <1>6, SameData
<1>10. c = [op |-> r.op, expected |-> v, key |-> r.key]
  BY <1>9 DEF ChangesOf
<1>11. Contract!Commit(r.actor, [op |-> r.op, expected |-> v, key |-> r.key])
  <2>1. Ledger # <<>>
    BY <1>1, <1>2
  <2> HIDE DEF c, r
  <2> QED
    BY <1>1, <1>4, <1>5, <1>6, <1>7, <1>8, <1>9, <1>10, <2>1, SameData
    DEF Contract!Commit
<1>12. Len(Ledger') = Len(Ledger) + 1
  BY <1>2, <1>4
<1>13. r.op \in Contract!Operations
  BY <1>3, SameData
<1> HIDE DEF c
<1> QED
  BY <1>3, <1>9, <1>11, <1>12, <1>13 DEF Contract!Next

(***************************************************************************)
(* However handlers, retries, lost connections and bootstraps interleave,  *)
(* every commit of the store is one that the ledger of ControlStore's      *)
(* trait admits (transact, apply_control_changes).                         *)
(***************************************************************************)
THEOREM StoreImplementsLedger ==
    ASSUME Assumptions
    PROVE  StoreSpec => ContractSpec
<1>1. StoreInit => Contract!Init
  BY DEF StoreInit, Contract!Init, Ledger
<1>2. StoreInv /\ [StoreNext]_storeState => [Contract!Next]_Ledger
  <2> SUFFICES ASSUME StoreInv, StoreNext \/ UNCHANGED storeState
               PROVE  Contract!Next \/ UNCHANGED Ledger
    OBVIOUS
  <2>1. CASE UNCHANGED <<revisions, audit>>
    BY <2>1 DEF Ledger
  <2>2. CASE \E p \in Servers : InitializeStore(p)
    <3>1. CASE Current = 0
      <4>1. Ledger = <<>> /\ revisions = <<>>
        BY <3>1, LedgerIsSequence DEF StoreInv, StoreTypeOK, Current
      <4>2. /\ revisions' = <<SeedSnapshot>>
            /\ audit' = <<[by |-> Bootstrapper, changes |-> NoChanges]>>
        BY <2>2, <3>1 DEF InitializeStore
      <4>3. Ledger' = <<[snap |-> SeedSnapshot, by |-> Bootstrapper, changes |-> NoChanges]>>
        BY <4>2 DEF Ledger
      <4> QED
        BY <4>1, <4>3, SameData DEF Contract!Next, Contract!Bootstrap
    <3> QED
      BY <2>1, <2>2, <3>1 DEF InitializeStore
  <2>3. CASE \E r \in Requests : ReadState(r) \/ ReadVersions(r)
    BY <2>1, <2>3 DEF ReadState, ReadVersions, storeVars
  <2>4. CASE \E a \in Attempts : Send(a) \/ Handle(a) \/ RollBack(a) \/ CommitChange(a, FALSE)
    <3> SUFFICES ASSUME NEW a \in Attempts,
                        Send(a) \/ Handle(a) \/ RollBack(a) \/ CommitChange(a, FALSE)
                 PROVE  Contract!Next \/ UNCHANGED Ledger
      BY <2>4
    <3>1. CASE \E answered \in BOOLEAN : CommitChange(a, answered)
      BY <3>1, CommitImplemented
    <3> QED
      BY <2>1, <3>1 DEF Handle, Send, LoadState, LoadVersions, LockState, AnswerRecorded,
                        Refuse, RollBack, storeVars
  <2>5. CASE UNCHANGED storeState
    BY <2>1, <2>5 DEF storeState, storeVars
  <2> QED
    BY <2>2, <2>3, <2>4, <2>5 DEF StoreNext
<1> QED
  BY <1>1, <1>2, StoreInvariance, PTL DEF StoreSpec, ContractSpec, Contract!Spec

-----------------------------------------------------------------------------
(***************************************************************************)
(* Entity versions against values.  An editor that saw snapshot and        *)
(* versions of one revision saw a version that has the value it saw for as *)
(* long as it is the version in force.  The exception is version 0, which  *)
(* is also that of a resource that was deleted since.  An import changes   *)
(* values whose versions it leaves alone: without it, and from a valid     *)
(* seed.                                                                   *)
(***************************************************************************)
EditAssumptions ==
    /\ Assumptions
    /\ ValidSnapshot(SeedSnapshot)
    /\ \A r \in Requests : r.op.kind # "import"

ValueInForce(k) == revisions[Current].value[k]

VersionHasValue(r) ==
    LET k == r.op.on
    IN  versions[k] = view[r].versions[k] =>
           \/ ValueInForce(k) = view[r].snap.value[k]
           \/ versions[k] = 0 /\ ValueInForce(k) = Gone

EditorFollows(r) ==
    /\ view[r].phase = "reading" => view[r].snap = revisions[view[r].revision]
    /\ view[r].phase = "seen" /\ r.guarded /\ ~view[r].torn => VersionHasValue(r)

EditInv ==
    /\ Current > 0 => ValidSnapshot(revisions[Current])
    /\ \A r \in Requests : EditorFollows(r)

LEMMA EditsUndisturbed ==
    ASSUME EditInv, UNCHANGED <<revisions, versions, view>>
    PROVE  EditInv'
BY DEF EditInv, EditorFollows, VersionHasValue, ValueInForce, Current

LEMMA EditsAfterGet ==
    ASSUME StoreInv, EditInv, NEW r \in Requests, ReadState(r) \/ ReadVersions(r)
    PROVE  EditInv'
<1>1. /\ UNCHANGED <<revisions, versions>> /\ Current' = Current
      /\ view' = [view EXCEPT ![r] = view'[r]]
      /\ \A q \in Requests : q # r => view'[q] = view[q]
  BY DEF ReadState, ReadVersions, storeVars, Current, StoreInv, StoreTypeOK
<1>2. \A q \in Requests : q # r => EditorFollows(q)'
  BY <1>1 DEF EditInv, EditorFollows, VersionHasValue, ValueInForce
<1>3. CASE ReadState(r)
  <2>1. view'[r] = [phase |-> "reading", revision |-> Current, snap |-> revisions[Current]]
    BY <1>3 DEF ReadState, StoreInv, StoreTypeOK
  <2>2. EditorFollows(r)'
    BY <1>1, <2>1 DEF EditorFollows
  <2> QED
    BY <1>1, <1>2, <2>2 DEF EditInv
<1>4. CASE ReadVersions(r)
  <2>1. view[r].snap = revisions[view[r].revision]
    BY <1>4 DEF ReadVersions, EditInv, EditorFollows
  <2>2. view'[r] = Unseen \/
           view'[r] = [phase |-> "seen", revision |-> view[r].revision, snap |-> view[r].snap,
                       versions |-> versions, torn |-> Current # view[r].revision]
    BY <1>4 DEF ReadVersions, StoreInv, StoreTypeOK
  <2>3. EditorFollows(r)'
    <3>1. CASE view'[r] = Unseen
      BY <3>1 DEF EditorFollows, Unseen
    <3>2. CASE view'[r] # Unseen
      <4> DEFINE torn == Current # view[r].revision
      <4>0. ~torn => view[r].revision = Current
        OBVIOUS
      <4>1. view'[r] = [phase |-> "seen", revision |-> view[r].revision, snap |-> view[r].snap,
                        versions |-> versions, torn |-> torn]
        BY <2>2, <3>2
      <4> HIDE DEF torn
      <4>2. /\ view'[r].phase = "seen" /\ view'[r].snap = view[r].snap
            /\ view'[r].versions = versions /\ view'[r].torn = torn
        BY <4>1
      <4>3. ~view'[r].torn => VersionHasValue(r)'
        BY <1>1, <2>1, <4>0, <4>2 DEF VersionHasValue, ValueInForce
      <4> QED
        BY <4>2, <4>3 DEF EditorFollows
    <3> QED
      BY <3>1, <3>2
  <2> QED
    BY <1>1, <1>2, <2>3 DEF EditInv
<1> QED
  BY <1>3, <1>4

LEMMA EditsAfterBootstrap ==
    ASSUME EditAssumptions, StoreInv, EditInv, NEW p \in Servers, InitializeStore(p)
    PROVE  EditInv'
<1>1. CASE Current = 0
  <2>1. revisions' = <<SeedSnapshot>> /\ Current' = 1 /\ view' = view
    BY <1>1 DEF InitializeStore, Current
  <2>2. \A r \in Requests : view[r] = Unseen
    BY <1>1 DEF StoreInv, StoreTypeOK, Views
  <2> QED
    BY <2>1, <2>2 DEF EditInv, EditorFollows, Unseen, EditAssumptions
<1>2. CASE Current # 0
  BY <1>2, EditsUndisturbed DEF InitializeStore
<1> QED
  BY <1>1, <1>2

LEMMA EditsAfterCommit ==
    ASSUME EditAssumptions, StoreInv, EditInv, NEW a \in Attempts, NEW answered \in BOOLEAN,
           CommitChange(a, answered)
    PROVE  EditInv'
<1> DEFINE op == a[1].op
           n == Current + 1
<1>1. /\ Current \in Nat /\ Current > 0 /\ Current' = n
      /\ revisions[Current] \in Snapshots
      /\ revisions' = Append(revisions, Applied(revisions[Current], op))
      /\ ChangesOf(a[1]).op = op /\ IntentHolds(revisions[Current], op)
  BY CommitIsChecked DEF EditAssumptions
<1>2. /\ a[1] \in Requests /\ op \in Operations /\ op.kind # "import" /\ op.on \in Resources \cup Actors
      /\ Target(op) = op.on
  <2>1. a[1] \in Requests /\ op \in Operations /\ op.kind # "import"
    BY Requested DEF EditAssumptions
  <2>2. /\ op.kind \in {"set", "put", "create", "tombstone", "delete"} => op.on \in Resources
        /\ op.kind \in {"grant", "revoke"} => op.on \in Actors
        /\ op.kind \in {"set", "put", "create", "tombstone", "delete", "grant", "revoke", "import"}
    BY <2>1 DEF Operations
  <2> HIDE DEF op
  <2> QED
    BY <2>1, <2>2 DEF Target
<1>3. /\ revisions'[n] = Applied(revisions[Current], op)
      /\ \A i \in 1..Current : revisions'[i] = revisions[i]
  BY <1>1 DEF StoreInv, StoreTypeOK, Current
<1>4. ValidSnapshot(revisions'[n])
  BY <1>1, <1>3 DEF CommitChange, MayCommit
<1>5. /\ versions \in VersionTable
      /\ versions' = [versions EXCEPT ![op.on] = IF op.kind = "delete" THEN 0 ELSE n]
      /\ view' = view
  BY <1>1, <1>2 DEF CommitChange, NewVersions, StoreInv, StoreTypeOK
<1>6. ASSUME NEW r \in Requests
      PROVE  EditorFollows(r)'
  <2>1. view[r] \in Views /\ EditorFollows(r)
    BY DEF StoreInv, StoreTypeOK, EditInv
  <2>2. ASSUME view[r].phase = "reading"
        PROVE  view'[r].snap = revisions'[view'[r].revision]
    <3>1. view[r].revision \in 1..Current
      BY <2>1, <2>2 DEF Views, Unseen
    <3> QED
      BY <1>3, <1>5, <2>1, <2>2, <3>1 DEF EditorFollows
  <2>3. ASSUME view[r].phase = "seen", r.guarded, ~view[r].torn
        PROVE  VersionHasValue(r)'
    <3> DEFINE k == r.op.on
               now == revisions[Current].value[k]
               next == Applied(revisions[Current], op).value[k]
    <3>1. k \in Resources
      BY <2>3 DEF EditAssumptions, Assumptions, RequestsAssumption, Operations
    <3>2. view[r].versions[k] \in 0..Current
      BY <2>1, <2>3, <3>1 DEF Views, Unseen, VersionTable
    <3>3. VersionHasValue(r)
      BY <2>1, <2>3 DEF EditorFollows
    <3>4. /\ versions'[k] = IF k = op.on THEN (IF op.kind = "delete" THEN 0 ELSE n) ELSE versions[k]
          /\ ValueInForce(k)' = next
      BY <1>1, <1>2, <1>3, <1>5, <3>1 DEF VersionTable, ValueInForce
    <3>5. CASE k = op.on /\ op.kind = "delete"
      <4>1. next = Gone
        BY <1>1, <3>1, <3>5 DEF Applied, Snapshots
      <4> QED
        BY <3>4, <3>5, <4>1 DEF VersionHasValue
    <3>6. CASE k = op.on /\ op.kind # "delete"
      <4>1. versions'[k] # view'[r].versions[k]
        BY <1>1, <1>5, <3>2, <3>4, <3>6
      <4> QED
        BY <4>1 DEF VersionHasValue
    <3>7. CASE k # op.on
      <4>1. next = now
        BY <1>1, <1>2, <3>1, <3>7 DEF Applied, Snapshots
      <4> QED
        BY <1>5, <3>3, <3>4, <3>7, <4>1 DEF VersionHasValue, ValueInForce
    <3> QED
      BY <3>5, <3>6, <3>7
  <2> QED
    BY <1>5, <2>2, <2>3 DEF EditorFollows
<1> QED
  BY <1>1, <1>4, <1>6 DEF EditInv

(***************************************************************************)
(* A commit under a version that its editor saw: the alternative of        *)
(* VersionHasValue is out, as what is gone cannot be edited or deleted.    *)
(***************************************************************************)
LEMMA CommitsWhatWasSeen ==
    ASSUME EditAssumptions, StoreInv, EditInv, NEW a \in Attempts, NEW answered \in BOOLEAN,
           CommitChange(a, answered), a[1].guarded => ~view[a[1]].torn
    PROVE  lock = a /\ EditsWhatItSaw(a)
<1> DEFINE r == a[1]
           k == r.op.on
<1>1. lock = a
  BY DEF CommitChange, MayCommit
<1>2. ASSUME r.guarded
      PROVE  view[r].snap.value[k] = revisions[Current].value[k]
  <2>1. /\ Current > 0 /\ IntentHolds(revisions[Current], r.op) /\ view[r].phase = "seen"
        /\ ValidSnapshot(revisions[Current])
    BY <1>2, CommitIsChecked DEF EditAssumptions, EditInv
  <2>2. /\ r \in Requests /\ r.op \in Operations
        /\ r.op.kind \in {"set", "put", "tombstone", "delete"}
    BY <1>2, Requested DEF EditAssumptions, Assumptions, RequestsAssumption
  <2>3. k \in Resources /\ Target(r.op) = k
    BY <2>2 DEF Operations, Target
  <2>4. view[r].versions[k] = versions[k]
    <3>1. ChangesOf(r).expected = view[r].versions[k] /\ ChangesOf(r).op = r.op
      BY <1>2 DEF ChangesOf
    <3>2. view[r].versions \in VersionTable
      BY <2>1, <2>2 DEF StoreInv, StoreTypeOK, Views, Unseen
    <3>3. view[r].versions[k] # AnyVersion
      BY <2>3, <3>2 DEF VersionTable, EditAssumptions, Assumptions, LedgerAssumption
    <3> QED
      BY <2>3, <3>1, <3>3 DEF CommitChange, MayCommit, VersionExpected
  <2>5. VersionHasValue(r)
    BY <1>2, <2>1, <2>2 DEF EditInv, EditorFollows
  <2>6. revisions[Current].value[k] # Gone
    BY <2>1, <2>2 DEF IntentHolds, ValidSnapshot
  <2> QED
    BY <2>4, <2>5, <2>6 DEF VersionHasValue, ValueInForce
<1> QED
  BY <1>1, <1>2 DEF EditsWhatItSaw

(***************************************************************************)
(* An edit guarded by an entity version, whose editor saw one revision,    *)
(* replaces the value it saw, whoever edits, deletes and creates the same  *)
(* resource in between (operation_expected_key, expected_entity_version).  *)
(***************************************************************************)
THEOREM EditsReplaceWhatTheySaw ==
    ASSUME EditAssumptions
    PROVE  StoreSpec => UntornEditReplacesWhatItSaw
<1>1. StoreInit => EditInv
  BY DEF StoreInit, EditInv, EditorFollows, Current, Unseen
<1>2. StoreInv /\ EditInv /\ [StoreNext]_storeState => EditInv'
  <2> SUFFICES ASSUME StoreInv, EditInv, [StoreNext]_storeState PROVE EditInv'
    OBVIOUS
  <2>1. CASE UNCHANGED storeState
    BY <2>1, EditsUndisturbed DEF storeState, storeVars
  <2>2. CASE \E p \in Servers : InitializeStore(p)
    BY <2>2, EditsAfterBootstrap
  <2>3. CASE \E r \in Requests : ReadState(r) \/ ReadVersions(r)
    BY <2>3, EditsAfterGet
  <2>4. CASE \E a \in Attempts, answered \in BOOLEAN : CommitChange(a, answered)
    BY <2>4, EditsAfterCommit
  <2>5. CASE \E a \in Attempts : \/ Send(a) \/ LoadState(a) \/ LoadVersions(a) \/ LockState(a)
                                 \/ AnswerRecorded(a) \/ Refuse(a) \/ RollBack(a)
    BY <2>5, EditsUndisturbed DEF Send, LoadState, LoadVersions, LockState, AnswerRecorded,
                                  Refuse, RollBack, storeVars
  <2> QED
    BY <2>1, <2>2, <2>3, <2>4, <2>5 DEF StoreNext, Handle
<1>3. StoreInv /\ EditInv /\ [StoreNext]_storeState =>
         [revisions' # revisions /\ lock # Free =>
             ((lock[1].guarded => ~view[lock[1]].torn) => EditsWhatItSaw(lock))]_storeState
  <2> SUFFICES ASSUME StoreInv, EditInv, StoreNext, revisions' # revisions, lock # Free,
                      lock[1].guarded => ~view[lock[1]].torn
               PROVE  EditsWhatItSaw(lock)
    OBVIOUS
  <2>1. PICK a \in Attempts : lock = a
    BY DEF StoreInv, StoreTypeOK
  <2>2. Current > 0
    <3>1. attempt[a].phase = "authorized" /\ HandlerFollows(a)
      BY <2>1 DEF StoreInv, StoreTypeOK
    <3> QED
      BY <3>1 DEF HandlerFollows, Unsent, Unplanned
  <2>3. \E b \in Attempts, answered \in BOOLEAN : CommitChange(b, answered)
    <3>1. ~ \E p \in Servers : InitializeStore(p)
      BY <2>2 DEF InitializeStore
    <3>2. ~ \E r \in Requests : ReadState(r) \/ ReadVersions(r)
      BY DEF ReadState, ReadVersions, storeVars
    <3>3. ~ \E b \in Attempts : \/ Send(b) \/ LoadState(b) \/ LoadVersions(b) \/ LockState(b)
                               \/ AnswerRecorded(b) \/ Refuse(b) \/ RollBack(b)
      BY DEF Send, LoadState, LoadVersions, LockState, AnswerRecorded, Refuse, RollBack, storeVars
    <3> QED
      BY <3>1, <3>2, <3>3 DEF StoreNext, Handle
  <2>4. PICK b \in Attempts, answered \in BOOLEAN : CommitChange(b, answered)
    BY <2>3
  <2>5. lock = b
    BY <2>4 DEF CommitChange, MayCommit
  <2> QED
    BY <2>4, <2>5, CommitsWhatWasSeen
<1>4. StoreSpec => []StoreInv
  BY StoreInvariance DEF EditAssumptions
<1> QED
  BY <1>1, <1>2, <1>3, <1>4, PTL DEF StoreSpec, UntornEditReplacesWhatItSaw
-----------------------------------------------------------------------------
(***************************************************************************)
(* Proofs about ControlConsumer, for any number of replicas, revisions,    *)
(* restarts and failures: what a replica reports is what it serves, and    *)
(* the polling replicas implement ServedRevisions.                         *)
(*                                                                         *)
(* Neither follows from a replica's own state alone.  What is needed is    *)
(* where the loop stands to what is served (LoopFollows): a refresh is     *)
(* under way only above the revision in force, so an activation moves      *)
(* forward; and the settings compared at the last activation are still     *)
(* those the process was wired with, however many revisions it has been    *)
(* carried along since.                                                    *)
(***************************************************************************)

(***************************************************************************)
(* What a replica that is up serves, reports and was wired with.           *)
(***************************************************************************)
LoopFollows(r) ==
    /\ active[r] = IF loop[r].at = "activated" THEN loop[r].candidate ELSE loop[r].applied
    /\ claim[r].applied = loop[r].applied
    /\ ledger[active[r]].checked = wired[r].checked
    /\ ledger[loop[r].applied].checked = wired[r].checked

ReplicaInv == TypeOK /\ \A r \in Replicas : Up(r) => LoopFollows(r)

(***************************************************************************)
(* The loop's positions, one shape at a time.                              *)
(***************************************************************************)
LEMMA Shapes ==
    ASSUME TypeOK, NEW r \in Replicas
    PROVE  /\ Up(r) => /\ loop[r] \in Refreshing
                       /\ loop[r].applied \in 1..Newest
                       /\ loop[r].at \in {"asleep", "events", "loading", "activating", "activated"}
           /\ ~Up(r) => loop[r] \in Starting /\ loop[r].at \in {"down", "booting"}
BY DEF TypeOK, Refreshing, Starting

LEMMA Sleeps ==
    ASSUME NEW n \in 1..Newest
    PROVE  Asleep(n) \in Refreshing
BY DEF Asleep, Refreshing

(***************************************************************************)
(* A longer ledger keeps every position.                                   *)
(***************************************************************************)
LEMMA PublishedLedger ==
    ASSUME TypeOK, NEW c \in Settings, Publish(c)
    PROVE  /\ ledger' \in Seq(Settings) /\ Newest' = Newest + 1
           /\ \A n \in 1..Newest : ledger'[n] = ledger[n]
           /\ Newest' \in 1..MaxRevision
           /\ Refreshing \subseteq Refreshing' /\ Starting \subseteq Starting'
<1>1. /\ ledger' \in Seq(Settings) /\ Newest' = Newest + 1
      /\ \A n \in 1..Newest : ledger'[n] = ledger[n]
      /\ Newest' \in 1..MaxRevision
  BY ConsumerAssumption DEF TypeOK, Publish, Newest
<1>2. 1..Newest \subseteq 1..Newest'
  BY <1>1 DEF TypeOK
<1>3. Starting \subseteq Starting'
  BY <1>2 DEF Starting
<1>4. Refreshing \subseteq Refreshing'
  BY <1>2 DEF Refreshing
<1> QED
  BY <1>1, <1>3, <1>4

LEMMA ReplicasBegin == Init => ReplicaInv
BY ConsumerAssumption DEF Init, ReplicaInv, TypeOK, Up, Newest, Starting

LEMMA PublishKeeps ==
    ASSUME ReplicaInv, NEW c \in Settings, Publish(c)
    PROVE  ReplicaInv'
<1> USE DEF ReplicaInv
<1>1. /\ UNCHANGED <<active, wired, claim, loop, boots, faults>>
      /\ ledger' \in Seq(Settings) /\ Newest' = Newest + 1
      /\ \A n \in 1..Newest : ledger'[n] = ledger[n]
      /\ Newest' \in 1..MaxRevision
      /\ Refreshing \subseteq Refreshing' /\ Starting \subseteq Starting'
  BY PublishedLedger DEF Publish
<1>2. \A r \in Replicas : Up(r)' <=> Up(r)
  BY <1>1 DEF Up
<1>3. 0..Newest \subseteq 0..Newest' /\ 1..Newest \subseteq 1..Newest'
  BY <1>1 DEF TypeOK
<1>4. active' \in [Replicas -> 1..Newest' \cup {Down}]
  BY <1>1, <1>3 DEF TypeOK
<1>5. /\ claim' \in [Replicas -> [store : 0..Newest', applied : 0..Newest']]
      /\ loop' \in [Replicas -> Refreshing' \cup Starting']
  BY <1>1, <1>3 DEF TypeOK
<1>6. TypeOK'
  BY <1>1, <1>2, <1>4, <1>5 DEF TypeOK
<1>7. ASSUME NEW r \in Replicas, Up(r)'
      PROVE  LoopFollows(r)'
  <2>1. Up(r) /\ LoopFollows(r)
    BY <1>2, <1>7
  <2>2. active[r] \in 1..Newest /\ loop[r].applied \in 1..Newest
    BY <2>1, Shapes DEF TypeOK, Up
  <2> QED
    BY <1>1, <2>1, <2>2 DEF LoopFollows
<1> QED
  BY <1>6, <1>7

(***************************************************************************)
(* What remains to be shown of a step that leaves the ledger alone.        *)
(***************************************************************************)
LEMMA OthersStay ==
    ASSUME ReplicaInv, NEW r \in Replicas, UNCHANGED ledger,
           NEW a \in 1..Newest \cup {Down}, active' = [active EXCEPT ![r] = a],
           NEW w \in Settings, wired' = [wired EXCEPT ![r] = w],
           NEW c \in [store : 0..Newest, applied : 0..Newest], claim' = [claim EXCEPT ![r] = c],
           NEW l, loop' = [loop EXCEPT ![r] = l],
           IF a = Down THEN l \in Starting ELSE l \in Refreshing /\ LoopFollows(r)',
           boots' \in 0..MaxBoots, faults' \in 0..MaxFaults
    PROVE  ReplicaInv'
<1> USE DEF ReplicaInv
<1>1. Newest' = Newest /\ Refreshing' = Refreshing /\ Starting' = Starting
  BY DEF Newest, Refreshing, Starting
<1>2. /\ active'[r] = a /\ (Up(r)' <=> a # Down)
      /\ loop'[r] = l
  BY DEF TypeOK, Up
<1>3. ASSUME NEW s \in Replicas, s # r
      PROVE  /\ active'[s] = active[s] /\ wired'[s] = wired[s]
             /\ claim'[s] = claim[s] /\ loop'[s] = loop[s] /\ (Up(s)' <=> Up(s))
  BY <1>3 DEF TypeOK, Up
<1>4. TypeOK'
  <2>1. \A s \in Replicas : loop'[s] \in IF Up(s)' THEN Refreshing' ELSE Starting'
    BY <1>1, <1>2, <1>3 DEF TypeOK
  <2> QED
    BY <1>1, <2>1 DEF TypeOK
<1>5. ASSUME NEW s \in Replicas, Up(s)'
      PROVE  LoopFollows(s)'
  <2>1. CASE s = r
    BY <1>2, <1>5, <2>1
  <2>2. CASE s # r
    BY <1>3, <1>5, <2>2 DEF LoopFollows
  <2> QED
    BY <2>1, <2>2
<1> QED
  BY <1>4, <1>5

LEMMA BootKeeps ==
    ASSUME ReplicaInv, NEW r \in Replicas, OpenStore(r) \/ Serve(r) \/ Stop(r)
    PROVE  ReplicaInv'
<1> USE DEF ReplicaInv
<1>0. /\ active[r] \in 1..Newest \cup {Down} /\ wired[r] \in Settings
      /\ claim[r] \in [store : 0..Newest, applied : 0..Newest]
      /\ active = [active EXCEPT ![r] = active[r]] /\ wired = [wired EXCEPT ![r] = wired[r]]
      /\ claim = [claim EXCEPT ![r] = claim[r]]
      /\ boots \in 0..MaxBoots /\ faults \in 0..MaxFaults
  BY DEF TypeOK
<1>1. CASE OpenStore(r)
  <2>1. ~Up(r)
    BY <1>1, Shapes DEF OpenStore
  <2>2. [at |-> "booting", candidate |-> Newest] \in Starting
    BY DEF Starting, TypeOK
  <2>3. boots' \in 0..MaxBoots
    BY <1>0, <1>1, ConsumerAssumption DEF OpenStore
  <2> QED
    BY <1>0, <1>1, <2>1, <2>2, <2>3, OthersStay DEF OpenStore, Up
<1>2. CASE Serve(r) /\ ledger[loop[r].candidate].builds
  <2> DEFINE n == loop[r].candidate
  <2>1. n \in 1..Newest
    BY <1>2, Shapes DEF Serve, Starting
  <2>2. ledger[n] \in Settings
    BY <2>1 DEF TypeOK, Newest
  <2>3. LoopFollows(r)'
    BY <1>2, <2>1 DEF Serve, TypeOK, LoopFollows, Asleep
  <2>4. [store |-> n, applied |-> n] \in [store : 0..Newest, applied : 0..Newest] /\ n # Down
    BY <2>1, ConsumerAssumption DEF TypeOK
  <2> HIDE DEF n
  <2> QED
    BY <1>0, <1>2, <2>1, <2>2, <2>3, <2>4, Sleeps, OthersStay DEF Serve, n
<1>3. CASE Serve(r) /\ ~ledger[loop[r].candidate].builds
  <2>1. ~Up(r) /\ [at |-> "down"] \in Starting
    BY <1>3, Shapes DEF Serve, Starting
  <2> QED
    BY <1>0, <1>3, <2>1, OthersStay DEF Serve, Up
<1>4. CASE Stop(r)
  <2>1. [at |-> "down"] \in Starting
    BY DEF Starting
  <2> QED
    BY <1>0, <1>4, <2>1, OthersStay DEF Stop
<1> QED
  BY <1>1, <1>2, <1>3, <1>4

(***************************************************************************)
(* A refresh moves the loop of a replica that is up, and what it serves    *)
(* and reports with it.                                                    *)
(***************************************************************************)
LEMMA UpStays ==
    ASSUME ReplicaInv, NEW r \in Replicas, UNCHANGED <<ledger, wired, boots>>,
           NEW a \in 1..Newest, active' = [active EXCEPT ![r] = a],
           NEW c \in [store : 0..Newest, applied : 0..Newest], claim' = [claim EXCEPT ![r] = c],
           NEW l \in Refreshing, loop' = [loop EXCEPT ![r] = l],
           LoopFollows(r)', faults' \in 0..MaxFaults
    PROVE  ReplicaInv'
<1>1. wired[r] \in Settings /\ wired' = [wired EXCEPT ![r] = wired[r]] /\ boots' \in 0..MaxBoots
  BY DEF ReplicaInv, TypeOK
<1>2. a # Down
  BY ConsumerAssumption DEF ReplicaInv, TypeOK
<1> QED
  BY <1>1, <1>2, OthersStay

LEMMA RefreshKeeps ==
    ASSUME ReplicaInv, NEW r \in Replicas, Refresh(r) \/ RefreshFails(r)
    PROVE  ReplicaInv'
<1> USE DEF ReplicaInv
<1> DEFINE NothingElse == UNCHANGED <<ledger, wired, boots>> /\ faults' \in 0..MaxFaults
           Serves == active' = [active EXCEPT ![r] = active[r]]
           Reports == claim' = [claim EXCEPT ![r] = claim[r]]
<1>0. /\ active = [active EXCEPT ![r] = active[r]] /\ claim = [claim EXCEPT ![r] = claim[r]]
      /\ claim[r] \in [store : 0..Newest, applied : 0..Newest]
      /\ faults \in 0..MaxFaults /\ Newest \in Nat
  BY ConsumerAssumption DEF TypeOK
<1>1. /\ LoopFollows(r) /\ active[r] \in 1..Newest
      /\ loop[r] \in Refreshing /\ loop[r].applied \in 1..Newest
  <2>1. loop[r].at \in {"asleep", "events", "loading", "activating", "activated"}
    BY DEF Refresh, Poll, ReadEvents, EndOfEvents, LoadSnapshot, Activate, RefuseCandidate,
           Report, RefreshFails
  <2>2. Up(r) /\ loop[r] \in Refreshing /\ loop[r].applied \in 1..Newest
    BY <2>1, Shapes
  <2> QED
    BY <2>2 DEF TypeOK, Up
<1> HIDE DEF ReplicaInv
(* The steps that move the loop only: what the replica serves and has      *)
(* applied stays.                                                          *)
<1>2. ASSUME NothingElse, Serves, Reports, loop[r].at # "activated",
             NEW l \in Refreshing, loop' = [loop EXCEPT ![r] = l],
             l.at # "activated", l.applied = loop[r].applied
      PROVE  ReplicaInv'
  <2>1. LoopFollows(r)'
    BY <1>0, <1>1, <1>2 DEF LoopFollows, ReplicaInv, TypeOK
  <2> QED
    BY <1>0, <1>1, <1>2, <2>1, UpStays
<1>3. CASE Poll(r)
  <2> DEFINE l == IF Newest <= loop[r].applied THEN loop[r]
                  ELSE [at |-> "events", applied |-> loop[r].applied,
                        target |-> Newest, last |-> loop[r].applied]
             c == [claim[r] EXCEPT !.store = Newest]
  <2>1. l \in Refreshing
    BY <1>0, <1>1 DEF Refreshing
  <2>2. c \in [store : 0..Newest, applied : 0..Newest] /\ c.applied = claim[r].applied
    BY <1>0
  <2>3. claim' = [claim EXCEPT ![r] = c] /\ loop' = [loop EXCEPT ![r] = l]
    BY <1>3 DEF Poll
  <2>4. LoopFollows(r)'
    BY <1>0, <1>1, <1>3, <2>2, <2>3 DEF Poll, LoopFollows, ReplicaInv, TypeOK
  <2>5. NothingElse /\ Serves
    BY <1>0, <1>3 DEF Poll
  <2> HIDE DEF l, c
  <2> QED
    BY <1>1, <2>1, <2>2, <2>3, <2>4, <2>5, UpStays
<1>4. CASE ReadEvents(r)
  <2>1. PICK n \in loop[r].last + 1..loop[r].target - 1 : loop' = [loop EXCEPT ![r].last = n]
    BY <1>4 DEF ReadEvents
  <2> DEFINE l == [loop[r] EXCEPT !.last = n]
  <2>2. l \in Refreshing /\ l.at = "events" /\ l.applied = loop[r].applied
    BY <1>1, <1>4, <1>0 DEF ReadEvents, Refreshing
  <2>3. loop' = [loop EXCEPT ![r] = l]
    BY <2>1
  <2>4. NothingElse /\ Serves /\ Reports
    BY <1>0, <1>4 DEF ReadEvents
  <2> HIDE DEF l
  <2> QED
    BY <1>2, <1>4, <2>2, <2>3, <2>4 DEF ReadEvents
<1>5. CASE EndOfEvents(r)
  <2> DEFINE l == [at |-> "loading", applied |-> loop[r].applied, target |-> loop[r].target]
  <2>1. l \in Refreshing /\ l.at # "activated" /\ l.applied = loop[r].applied
    BY <1>1, <1>5, <1>0 DEF EndOfEvents, Refreshing
  <2>2. loop' = [loop EXCEPT ![r] = l] /\ NothingElse /\ Serves /\ Reports
    BY <1>0, <1>5 DEF EndOfEvents
  <2> HIDE DEF l
  <2> QED
    BY <1>2, <1>5, <2>1, <2>2 DEF EndOfEvents
<1>6. CASE LoadSnapshot(r)
  <2> DEFINE l == [at |-> "activating", applied |-> loop[r].applied,
                   target |-> loop[r].target, candidate |-> Newest]
  <2>1. l \in Refreshing /\ l.at # "activated" /\ l.applied = loop[r].applied
    BY <1>1, <1>6, <1>0 DEF LoadSnapshot, Refreshing
  <2>2. loop' = [loop EXCEPT ![r] = l] /\ NothingElse /\ Serves /\ Reports
    BY <1>0, <1>6 DEF LoadSnapshot
  <2> HIDE DEF l
  <2> QED
    BY <1>2, <1>6, <2>1, <2>2 DEF LoadSnapshot
<1>7. CASE Activate(r)
  <2> DEFINE l == [loop[r] EXCEPT !.at = "activated"]
             n == loop[r].candidate
  <2>1. l \in Refreshing /\ n \in 1..Newest
    BY <1>1, <1>7, <1>0 DEF Activate, Refreshing
  <2>2. l.at = "activated" /\ l.applied = loop[r].applied /\ l.candidate = n
    BY <1>1, <1>7 DEF Activate, Refreshing
  <2>3. /\ loop' = [loop EXCEPT ![r] = l] /\ active' = [active EXCEPT ![r] = n]
        /\ NothingElse /\ Reports
    BY <1>0, <1>7 DEF Activate
  <2>4. ledger[n].checked = wired[r].checked
    BY <1>1, <1>7 DEF Activate, Activatable, LoopFollows
  <2>5. LoopFollows(r)'
    BY <1>0, <1>1, <2>2, <2>3, <2>4 DEF LoopFollows, ReplicaInv, TypeOK
  <2> HIDE DEF l, n
  <2> QED
    BY <1>0, <2>1, <2>3, <2>5, UpStays
<1>8. CASE RefuseCandidate(r)
  <2>1. /\ loop' = [loop EXCEPT ![r] = Asleep(loop[r].applied)]
        /\ NothingElse /\ Serves /\ Reports
    BY <1>0, <1>8 DEF RefuseCandidate
  <2>2. Asleep(loop[r].applied).at # "activated" /\ Asleep(loop[r].applied).applied = loop[r].applied
    BY DEF Asleep
  <2> QED
    BY <1>1, <1>2, <1>8, <2>1, <2>2, Sleeps DEF RefuseCandidate
<1>9. CASE Report(r)
  <2> DEFINE n == loop[r].candidate
             c == [claim[r] EXCEPT !.applied = n]
  <2>1. n \in 1..Newest
    BY <1>1, <1>9 DEF Report, Refreshing
  <2>2. c \in [store : 0..Newest, applied : 0..Newest] /\ c.applied = n
    BY <1>0, <2>1
  <2>3. /\ loop' = [loop EXCEPT ![r] = Asleep(n)] /\ claim' = [claim EXCEPT ![r] = c]
        /\ NothingElse /\ Serves
    BY <1>0, <1>9 DEF Report
  <2>4. Asleep(n).at # "activated" /\ Asleep(n).applied = n
    BY DEF Asleep
  <2>5. LoopFollows(r)'
    BY <1>0, <1>1, <1>9, <2>2, <2>3, <2>4 DEF Report, LoopFollows, ReplicaInv, TypeOK
  <2> HIDE DEF n, c
  <2> QED
    BY <1>1, <2>1, <2>2, <2>3, <2>5, Sleeps, UpStays
<1>10. CASE RefreshFails(r)
  <2>1. /\ loop' = [loop EXCEPT ![r] = Asleep(loop[r].applied)]
        /\ NothingElse /\ Serves /\ Reports /\ loop[r].at # "activated"
    BY <1>0, <1>10, ConsumerAssumption DEF RefreshFails
  <2>2. Asleep(loop[r].applied).at # "activated" /\ Asleep(loop[r].applied).applied = loop[r].applied
    BY DEF Asleep
  <2> QED
    BY <1>1, <1>2, <2>1, <2>2, Sleeps
<1> QED
  BY <1>3, <1>4, <1>5, <1>6, <1>7, <1>8, <1>9, <1>10 DEF Refresh

(***************************************************************************)
(* The inductive invariant holds in every reachable state.                 *)
(***************************************************************************)
THEOREM ConsumerInvariance == Spec => []ReplicaInv
<1>1. ReplicaInv /\ [Next]_vars => ReplicaInv'
  <2> SUFFICES ASSUME ReplicaInv, [Next]_vars PROVE ReplicaInv'
    OBVIOUS
  <2>1. CASE UNCHANGED vars
    BY <2>1 DEF vars, ReplicaInv, TypeOK, LoopFollows, Up, Newest, Starting, Refreshing
  <2>2. CASE \E c \in Settings : Publish(c)
    BY <2>2, PublishKeeps
  <2>3. CASE \E r \in Replicas : OpenStore(r) \/ Serve(r) \/ Stop(r)
    BY <2>3, BootKeeps
  <2>4. CASE \E r \in Replicas : Refresh(r) \/ RefreshFails(r)
    BY <2>4, RefreshKeeps
  <2> QED
    BY <2>1, <2>2, <2>3, <2>4 DEF Next
<1> QED
  BY ReplicasBegin, <1>1, PTL DEF Spec

(***************************************************************************)
(* The positions of the loops and what is reported are well formed in      *)
(* every behaviour (control_consumer.rs, refresh_once).                    *)
(***************************************************************************)
THEOREM ConsumerTypeCorrect == Spec => []TypeOK
BY ConsumerInvariance, PTL DEF ReplicaInv

(***************************************************************************)
(* A revision is reported as applied only once it is served, by a process  *)
(* wired for its boot-lifetime settings (observe_applied).                 *)
(***************************************************************************)
THEOREM WhatIsReportedIsServed == Spec => []ReportedIsServed
<1>1. ReplicaInv => ReportedIsServed
  <2> SUFFICES ASSUME ReplicaInv, NEW r \in Replicas, Up(r)
               PROVE  /\ claim[r].applied <= active[r]
                      /\ ledger[claim[r].applied].checked = wired[r].checked
                      /\ loop[r].at = "asleep" =>
                            claim[r].applied = active[r] /\ loop[r].applied = active[r]
    BY DEF ReportedIsServed
  <2>1. LoopFollows(r) /\ loop[r] \in Refreshing /\ Newest \in Nat
    BY Shapes, ConsumerAssumption DEF ReplicaInv, TypeOK
  <2>2. loop[r].at = "activated" => loop[r].applied <= loop[r].candidate
    BY <2>1 DEF Refreshing
  <2>3. loop[r].applied \in 1..Newest
    BY Shapes DEF ReplicaInv
  <2> QED
    BY <2>1, <2>2, <2>3 DEF LoopFollows
<1> QED
  BY <1>1, ConsumerInvariance, PTL

(***************************************************************************)
(* What a replica serves, as ServedRevisions has it.                       *)
(***************************************************************************)
Serving ==
    [r \in Replicas |->
        IF Up(r) THEN [revision |-> active[r], wired |-> wired[r].checked] ELSE Down]

LEMMA StepsAreServed ==
    ASSUME ReplicaInv, [Next]_vars
    PROVE  [Served!Next]_<<ledger, Serving>>
<1> USE DEF Serving
<1>0. /\ active \in [Replicas -> 1..Newest \cup {Down}] /\ Newest \in Nat
      /\ Newest = Len(ledger)
  BY ConsumerAssumption DEF ReplicaInv, TypeOK, Newest
<1>1. ASSUME UNCHANGED <<ledger, active, wired>>
      PROVE  UNCHANGED <<ledger, Serving>>
  BY <1>1 DEF Up
<1>2. CASE \E c \in Settings : Publish(c)
  <2>1. Served!Publish
    BY <1>2 DEF Publish, Up, Served!Publish
  <2> QED
    BY <2>1 DEF Served!Next
<1>3. ASSUME NEW r \in Replicas, Serve(r), ~UNCHANGED <<ledger, active, wired>>
      PROVE  Served!Start(r)
  <2> DEFINE n == loop[r].candidate
  <2>1. n \in 1..Newest /\ ~Up(r) /\ n # Down
    BY <1>0, <1>3, Shapes, ConsumerAssumption DEF Serve, Starting, ReplicaInv
  <2>2. /\ active' = [active EXCEPT ![r] = n] /\ wired' = [wired EXCEPT ![r] = ledger[n]]
        /\ UNCHANGED ledger
    BY <1>3 DEF Serve
  <2>3. wired \in [Replicas -> Settings]
    BY DEF ReplicaInv, TypeOK
  <2> HIDE DEF n
  <2>4. Serving' = [Serving EXCEPT ![r] = [revision |-> n, wired |-> ledger[n].checked]]
    BY <1>0, <2>1, <2>2, <2>3 DEF Up
  <2> QED
    BY <1>0, <2>1, <2>2, <2>4 DEF Served!Start, Up
<1>4. ASSUME NEW r \in Replicas, Stop(r)
      PROVE  Served!Stop(r)
  <2>1. Serving' = [Serving EXCEPT ![r] = Down]
    BY <1>0, <1>4 DEF Stop, Up
  <2> QED
    BY <1>4, <2>1 DEF Stop, Served!Stop
<1>5. ASSUME NEW r \in Replicas, Activate(r)
      PROVE  Served!Advance(r)
  <2> DEFINE n == loop[r].candidate
  <2>1. Up(r) /\ loop[r] \in Refreshing
    BY <1>5, Shapes DEF Activate, ReplicaInv
  <2>2. LoopFollows(r)
    BY <2>1 DEF ReplicaInv
  <2>3. n \in active[r] + 1..Newest /\ n # Down
    BY <1>0, <1>5, <2>1, <2>2, ConsumerAssumption DEF Activate, Refreshing, LoopFollows
  <2>4. ledger[n].checked = wired[r].checked
    BY <1>5, <2>2 DEF Activate, Activatable, LoopFollows
  <2>5. active' = [active EXCEPT ![r] = n] /\ UNCHANGED <<ledger, wired>>
    BY <1>5 DEF Activate
  <2> HIDE DEF n
  <2>6. Serving[r] = [revision |-> active[r], wired |-> wired[r].checked] /\ Serving[r] # Down
    <3>1. active[r] \in 1..MaxRevision /\ wired[r] \in Settings
      BY <1>0, <2>1, ConsumerAssumption DEF Up, ReplicaInv, TypeOK
    <3> QED
      BY <2>1, <3>1, ConsumerAssumption DEF Up
  <2>7. Serving' = [Serving EXCEPT ![r].revision = n]
    BY <1>0, <2>1, <2>3, <2>5 DEF Up
  <2> QED
    BY <1>0, <2>3, <2>4, <2>5, <2>6, <2>7 DEF Served!Advance
<1>6. ASSUME NEW r \in Replicas, OpenStore(r) \/ Refresh(r) \/ RefreshFails(r), ~Activate(r)
      PROVE  UNCHANGED <<ledger, active, wired>>
  BY <1>6 DEF OpenStore, Refresh, Poll, ReadEvents, EndOfEvents, LoadSnapshot, RefuseCandidate,
              Report, RefreshFails
<1>7. CASE UNCHANGED vars
  BY <1>1, <1>7 DEF vars
<1>8. CASE \E r \in Replicas : OpenStore(r) \/ Serve(r) \/ Stop(r) \/ Refresh(r) \/ RefreshFails(r)
  BY <1>1, <1>3, <1>4, <1>5, <1>6, <1>8 DEF Served!Next
<1> QED
  BY <1>2, <1>7, <1>8 DEF Next

(***************************************************************************)
(* The polling replicas implement the contract of served revisions: they   *)
(* boot on a committed revision, only move to later ones, and never to one *)
(* that asks for other boot-lifetime settings than they were wired with,   *)
(* whatever is refused, fails or goes missing (refresh_once, boot,         *)
(* activate_config).                                                       *)
(***************************************************************************)
THEOREM ServedRevisionsImplemented == Spec => ServedSpec
<1>1. Init => Served!Init
  BY ConsumerAssumption DEF Init, Up, Served!Init
<1>2. ReplicaInv /\ [Next]_vars => [Served!Next]_(Served!vars)
  BY StepsAreServed DEF Serving, Served!vars
<1> QED
  BY <1>1, <1>2, ConsumerInvariance, PTL DEF Spec, ServedSpec, Served!Spec
=============================================================================
