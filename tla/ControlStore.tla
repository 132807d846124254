------------------------------ MODULE ControlStore ------------------------------
(***************************************************************************)
(* The control API over its durable store (tellurion-server's              *)
(* control_api.rs over tellurion-control-postgres): editors read a         *)
(* resource, submit a change and retry it when the answer does not come,   *)
(* while the store's tables change in one transaction per commit.          *)
(*                                                                         *)
(* load_snapshot runs outside of a transaction as three statements: the    *)
(* revision and its immutable snapshot are one read here, the entity       *)
(* versions another.  transact holds the row of control_state from its     *)
(* first statement to its commit.                                          *)
(***************************************************************************)
EXTENDS ControlModel

CONSTANTS
    Requests,   \* what the editors want, and how often each may send it
    Plans,      \* which of the requests are made beside each other
    Servers,    \* server processes that bootstrap the store
    Free,       \* nobody holds the row of control_state
    MaxLost     \* bound: transactions that lose their connection

RequestsAssumption ==
    /\ Requests \subseteq [actor : Actors, op : Operations, key : Keys \cup {NoKey},
                           guarded : BOOLEAN, tries : Nat \ {0}]
    /\ \A r \in Requests : r.guarded => r.op.kind \in {"set", "put", "tombstone", "delete"}
    /\ \A r \in Requests : r.op.kind \in {"set", "delete"} => r.guarded
    /\ \A r \in Requests : \A n \in 1..r.tries : <<r, n>> # Free
    /\ Plans \subseteq SUBSET Requests /\ MaxLost \in Nat

VARIABLES
    revisions,  \* control_revisions, and control_state: its length
    versions,   \* control_entity_versions
    audit,      \* control_audit: who committed each revision, and what
    idem,       \* control_idempotency
    lock,       \* the attempt that holds the row of control_state
    view,       \* per request, what the editor's GET has returned
    attempt,    \* per request and try, the handler at work
    booted,     \* the replicas that have initialized the store
    lost        \* connections lost so far

storeVars == <<revisions, versions, audit, idem>>
storeState == <<storeVars, lock, view, attempt, booted, lost>>

Attempts == UNION {{<<r, n>> : n \in 1..r.tries} : r \in Requests}
Current == Len(revisions)
Unseen == [phase |-> "unseen"]
Unsent == [phase |-> "unsent"]
Unplanned == [phase |-> "unplanned"]

(***************************************************************************)
(* The change set of a request, frozen when it is first sent: a guarded    *)
(* one names the entity version its editor read.                           *)
(***************************************************************************)
ChangesOf(r) ==
    [op |-> r.op, key |-> r.key,
     expected |-> IF r.guarded THEN view[r].versions[r.op.on] ELSE AnyVersion]

-----------------------------------------------------------------------------

StoreInit ==
    /\ revisions = <<>> /\ audit = <<>> /\ idem = {}
    /\ versions = [k \in Resources \cup Actors |-> 0]
    /\ lock = Free
    /\ view = [r \in Requests |-> Unseen]
    /\ \E plan \in Plans :
          attempt = [a \in Attempts |-> IF a[1] \in plan THEN Unsent ELSE Unplanned]
    /\ booted = {} /\ lost = 0

(***************************************************************************)
(* A process comes up: the first one under the advisory lock writes        *)
(* revision 1, the others find the store initialized.                      *)
(***************************************************************************)
InitializeStore(p) ==
    /\ p \notin booted
    /\ booted' = booted \cup {p}
    /\ IF Current = 0
       THEN /\ revisions' = <<SeedSnapshot>>
            /\ audit' = <<[by |-> Bootstrapper, changes |-> NoChanges]>>
       ELSE UNCHANGED <<revisions, audit>>
    /\ UNCHANGED <<versions, idem, lock, view, attempt, lost>>

(***************************************************************************)
(* The editor's GET: first the revision and its snapshot, then the entity  *)
(* versions, then the authorization of the read.                           *)
(***************************************************************************)
ReadState(r) ==
    /\ booted # {} /\ view[r] = Unseen /\ r.guarded /\ attempt[<<r, 1>>] = Unsent
    /\ view' = [view EXCEPT ![r] =
          [phase |-> "reading", revision |-> Current, snap |-> revisions[Current]]]
    /\ UNCHANGED <<storeVars, lock, attempt, booted, lost>>

ReadVersions(r) ==
    /\ view[r].phase = "reading"
    /\ LET s == view[r].snap
       IN  view' = [view EXCEPT ![r] =
              IF r.actor \in s.admins /\ s.value[r.op.on] # Gone
              THEN [phase |-> "seen", revision |-> @.revision, snap |-> s,
                    versions |-> versions, torn |-> Current # @.revision]
              ELSE Unseen]
    /\ UNCHANGED <<storeVars, lock, attempt, booted, lost>>

-----------------------------------------------------------------------------

(***************************************************************************)
(* The request is sent, or sent again: a retry is the same request, and    *)
(* the earlier attempt may still be running.                               *)
(***************************************************************************)
Send(a) ==
    /\ booted # {} /\ attempt[a] = Unsent
    /\ a[1].guarded => view[a[1]].phase = "seen"
    /\ a[2] > 1 => attempt[<<a[1], a[2] - 1>>] # Unsent
    /\ attempt' = [attempt EXCEPT ![a] = [phase |-> "loading"]]
    /\ UNCHANGED <<storeVars, lock, view, booted, lost>>

LoadState(a) ==
    /\ attempt[a].phase = "loading"
    /\ attempt' = [attempt EXCEPT ![a] =
          [phase |-> "loaded", revision |-> Current, snap |-> revisions[Current]]]
    /\ UNCHANGED <<storeVars, lock, view, booted, lost>>

Done(answer) == [phase |-> "done", answer |-> answer]

(***************************************************************************)
(* create_or_replay: a create of what is there already with this very      *)
(* value may go on only to find its own key.                               *)
(***************************************************************************)
ReplayOnly(s, r) ==
    r.op.kind = "create" /\ r.key # NoKey /\ s.value[r.op.on] = r.op.to

(***************************************************************************)
(* The handler reads the entity versions and authorizes the change on what *)
(* it has loaded.                                                          *)
(***************************************************************************)
LoadVersions(a) ==
    /\ attempt[a].phase = "loaded"
    /\ LET r == a[1]
           s == attempt[a].snap
       IN  attempt' = [attempt EXCEPT ![a] =
              IF r.actor \in s.admins /\ (IntentHolds(s, r.op) \/ ReplayOnly(s, r))
              THEN [phase |-> "authorized", revision |-> @.revision, snap |-> s,
                    versions |-> versions, replayOnly |-> ReplayOnly(s, r)]
              ELSE Done([refused |-> "denied"])]
    /\ UNCHANGED <<storeVars, lock, view, booted, lost>>

(***************************************************************************)
(* transact: SELECT ... FOR UPDATE on the row of control_state.            *)
(***************************************************************************)
LockState(a) ==
    /\ attempt[a].phase = "authorized" /\ lock = Free
    /\ lock' = a
    /\ UNCHANGED <<storeVars, view, attempt, booted, lost>>

Finish(a, answer) ==
    /\ lock' = Free
    /\ attempt' = [attempt EXCEPT ![a] = Done(answer)]

Recorded(r) == {i \in idem : i.key = r.key}

(* Faulty variant: any request under a recorded key gets its commit.       *)
AnswerAnybody(a) ==
    /\ lock = a
    /\ \E i \in Recorded(a[1]) : Finish(a, [revision |-> i.revision])
    /\ UNCHANGED <<storeVars, view, booted, lost>>

(***************************************************************************)
(* A key that is recorded already answers with its commit, but only to the *)
(* same change set by the same principal.                                  *)
(***************************************************************************)
AnswerRecorded(a) ==
    /\ lock = a
    /\ \E i \in Recorded(a[1]) :
          Finish(a, IF i.changes = ChangesOf(a[1]) /\ i.by = a[1].actor
                    THEN [revision |-> i.revision] ELSE [refused |-> "conflict"])
    /\ UNCHANGED <<storeVars, view, booted, lost>>

(* Faulty variant: the state is not compared again under the lock.         *)
StateWasCurrent(a) == TRUE

(***************************************************************************)
(* What transact and apply_control_changes check before anything is        *)
(* written: the authorization was given on the state that is still current *)
(* (validate_authoritative_state), and the expected version is the one of  *)
(* the resource.                                                           *)
(***************************************************************************)
StateIsCurrent(a) ==
    /\ attempt[a].revision = Current
    /\ attempt[a].versions = versions
    /\ attempt[a].snap = revisions[Current]

(* Faulty variant: the version the editor expects is not compared.         *)
AnyVersionExpected(c) == TRUE

VersionExpected(c) == c.expected \in {AnyVersion, versions[Target(c.op)]}

MayCommit(a) ==
    /\ lock = a /\ Recorded(a[1]) = {}
    /\ ~attempt[a].replayOnly
    /\ StateIsCurrent(a)
    /\ VersionExpected(ChangesOf(a[1]))
    /\ ValidSnapshot(Applied(revisions[Current], a[1].op))

(* Faulty variant: a refused transaction starts over on what it has read.  *)
RefuseAndRetry(a) ==
    /\ lock = a /\ Recorded(a[1]) = {} /\ ~MayCommit(a)
    /\ lock' = Free
    /\ UNCHANGED <<storeVars, view, attempt, booted, lost>>

Refuse(a) ==
    /\ lock = a /\ Recorded(a[1]) = {} /\ ~MayCommit(a)
    /\ Finish(a, [refused |-> "conflict"])
    /\ UNCHANGED <<storeVars, view, booted, lost>>

NewVersions(op) ==
    [versions EXCEPT ![Target(op)] = IF op.kind = "delete" THEN 0 ELSE Current + 1]

(***************************************************************************)
(* All the tables change and the transaction commits.  The connection may  *)
(* be lost before the commit, or after it with the answer.                 *)
(***************************************************************************)
CommitChange(a, answered) ==
    /\ MayCommit(a)
    /\ LET c == ChangesOf(a[1])
       IN  /\ revisions' = Append(revisions, Applied(revisions[Current], c.op))
           /\ versions' = NewVersions(c.op)
           /\ audit' = Append(audit, [by |-> a[1].actor, changes |-> c])
           /\ idem' = IF c.key = NoKey THEN idem
                      ELSE idem \cup {[key |-> c.key, changes |-> c, by |-> a[1].actor,
                                       revision |-> Current + 1]}
    /\ Finish(a, IF answered THEN [revision |-> Current + 1] ELSE [refused |-> "failed"])
    /\ lost' = IF answered THEN lost ELSE lost + 1
    /\ lost' <= MaxLost
    /\ UNCHANGED <<view, booted>>

RollBack(a) ==
    /\ lock = a /\ lost < MaxLost
    /\ Finish(a, [refused |-> "failed"])
    /\ lost' = lost + 1
    /\ UNCHANGED <<storeVars, view, booted>>

(* What a handler does by itself once it is started.                        *)
Handle(a) ==
    \/ LoadState(a) \/ LoadVersions(a) \/ LockState(a)
    \/ AnswerRecorded(a) \/ Refuse(a) \/ CommitChange(a, TRUE)

StoreNext ==
    \/ \E p \in Servers : InitializeStore(p)
    \/ \E r \in Requests : ReadState(r) \/ ReadVersions(r)
    \/ \E a \in Attempts : Send(a) \/ Handle(a) \/ RollBack(a) \/ CommitChange(a, FALSE)

StoreSpec == StoreInit /\ [][StoreNext]_storeState

(***************************************************************************)
(* The server runs every handler it has started, and PostgreSQL gives a    *)
(* row lock that stays free to whoever waits for it.                       *)
(***************************************************************************)
StoreFairness == \A a \in Attempts : WF_storeState(Handle(a))

FairStoreSpec == StoreSpec /\ StoreFairness

-----------------------------------------------------------------------------

(***************************************************************************)
(* The ledger that the tables stand for.                                   *)
(***************************************************************************)
Ledger ==
    [i \in 1..Len(revisions) |->
        [snap |-> revisions[i], by |-> audit[i].by, changes |-> audit[i].changes]]

Contract == INSTANCE ControlLedger WITH ledger <- Ledger

VersionTable == [Resources \cup Actors -> 0..Current]

Views ==
    {Unseen}
        \cup [phase : {"reading"}, revision : 1..Current, snap : Snapshots]
        \cup [phase : {"seen"}, revision : 1..Current, snap : Snapshots,
              versions : VersionTable, torn : BOOLEAN]

Answers == [revision : 2..Current] \cup [refused : {"denied", "conflict", "failed"}]

Handlers ==
    {Unsent, Unplanned, [phase |-> "loading"]}
        \cup [phase : {"loaded"}, revision : 1..Current, snap : Snapshots]
        \cup [phase : {"authorized"}, revision : 1..Current, snap : Snapshots,
              versions : VersionTable, replayOnly : BOOLEAN]
        \cup [phase : {"done"}, answer : Answers]

(***************************************************************************)
(* The tables, the row lock and the handlers are well formed.              *)
(***************************************************************************)
StoreTypeOK ==
    /\ revisions \in Seq(Snapshots)
    /\ audit \in Seq([by : Actors \cup {Bootstrapper}, changes : Changes \cup {NoChanges}])
    /\ Len(audit) = Current
    /\ versions \in VersionTable
    /\ idem \subseteq [key : Keys, changes : Changes, by : Actors, revision : 2..Current]
    /\ lock \in Attempts \cup {Free}
    /\ \A a \in Attempts : lock = a => attempt[a].phase = "authorized"
    /\ view \in [Requests -> Views] /\ attempt \in [Attempts -> Handlers]
    /\ booted \subseteq Servers /\ (booted # {} => Current > 0) /\ lost \in 0..MaxLost

(***************************************************************************)
(* The control store implements the ledger: however handlers, retries,     *)
(* lost connections and bootstraps interleave, every commit is authorized, *)
(* legal and expected in the state it is applied to, and no idempotency    *)
(* key commits twice (transact, apply_control_changes).                    *)
(***************************************************************************)
ContractSpec == Contract!Spec

(***************************************************************************)
(* The table of entity versions names, for every resource, the revision    *)
(* that touched it last (record_resource_transition, version_targets).     *)
(***************************************************************************)
VersionsNameTheLastTouch ==
    revisions # <<>> => versions = [k \in Resources \cup Actors |-> Contract!VersionOf(k)]

(***************************************************************************)
(* A handler that answers with a revision answers with the revision that   *)
(* holds this very change by this principal, be it a replay under a key    *)
(* that other requests use too (load_idempotency, request_fingerprint).    *)
(***************************************************************************)
AnswersAreOwn ==
    \A a \in Attempts :
        /\ attempt[a].phase = "done" /\ "revision" \in DOMAIN attempt[a].answer
        => audit[attempt[a].answer.revision] = [by |-> a[1].actor, changes |-> ChangesOf(a[1])]

EditsWhatItSaw(a) ==
    a[1].guarded =>
        view[a[1]].snap.value[a[1].op.on] = revisions[Current].value[a[1].op.on]

(***************************************************************************)
(* A change guarded by an entity version replaces the value its editor     *)
(* saw: docs/administration.md has the editor detect intervening changes   *)
(* by that version (operation_expected_key, expected_entity_version).      *)
(***************************************************************************)
GuardedEditReplacesWhatItSaw ==
    [][revisions' # revisions /\ lock # Free => EditsWhatItSaw(lock)]_storeState

(***************************************************************************)
(* The same of the edits whose GET no commit fell into: across deletes,    *)
(* creates and unguarded changes no entity version comes back under        *)
(* another value.                                                          *)
(***************************************************************************)
UntornEditReplacesWhatItSaw ==
    [][revisions' # revisions /\ lock # Free =>
          ((lock[1].guarded => ~view[lock[1]].torn) => EditsWhatItSaw(lock))]_storeState

(***************************************************************************)
(* Every request that is sent is answered: whoever holds the row of        *)
(* control_state gives it back (transact's single transaction).            *)
(***************************************************************************)
EveryRequestIsAnswered ==
    <>[](\A a \in Attempts : attempt[a].phase \in {"unsent", "unplanned", "done"})

=============================================================================
