---------------------------- MODULE IndexApplier -----------------------------
(***************************************************************************)
(* The derived search index of one collection: the applier task every      *)
(* replica runs (tellurion-core/src/applier.rs), the leader lease that     *)
(* lets one of them drain at a time (PostgisLease), the version-guarded    *)
(* index table (tellurion-postgis/src/index_sql.rs), and the freshness     *)
(* gate a search passes before it is served from the index (router.rs).    *)
(*                                                                         *)
(* Each database round trip of a drain pass is a step, so passes of        *)
(* several replicas interleave: two replicas drain at once when no lease   *)
(* is configured, or when a leader has not noticed that its session died.  *)
(* The outbox is the one OutboxLog promises.  Writers commit one mutation  *)
(* at a time: a chunk that commits together only hides the states between  *)
(* its mutations.                                                          *)
(***************************************************************************)
EXTENDS OutboxLog

CONSTANTS
    Replicas,        \* server processes running an applier for the collection
    Nobody,          \* no lease holder
    Leased,          \* index_applier.lease is configured
    BatchSize,       \* index_applier.batch_size
    SearchRouted,    \* routing.search is configured with the index first
    FreshnessBound,  \* search.freshness_bound
    MaxFaults        \* bound: crashes, lost sessions and failed calls

ASSUME ReplicasAssumption == Nobody \notin Replicas
ASSUME DeploymentAssumption == Leased \in BOOLEAN /\ SearchRouted \in BOOLEAN
ASSUME ApplierBounds ==
    /\ BatchSize \in Nat \ {0}
    /\ FreshnessBound \in Nat
    /\ MaxFaults \in Nat

VARIABLES
    index,     \* the index table: version and document per feature
    holder,    \* whose session holds the advisory lock, as PostgreSQL knows it
    guard,     \* each replica's LeaseGuard: none, live or closed
    pass,      \* each replica's drain pass
    gate,      \* a search request going through the freshness gate
    faults,    \* faults so far
    latest     \* history: sequence of each feature's newest commit

applierVars == <<index, holder, guard, pass, gate, faults, latest>>
vars == <<rows, outbox, lastSeq, index, holder, guard, pass, gate, faults, latest>>

NoDoc == [ver |-> 0, doc |-> Absent]
IdlePass == [pc |-> "idle", cursor |-> 0, todo |-> {}]
NoSearch == [pc |-> "none", primary |-> 0, owed |-> [f \in Features |-> 0], top |-> 0]

Init ==
    /\ LogInit
    /\ index = [f \in Features |-> NoDoc]
    /\ holder = Nobody
    /\ guard = [r \in Replicas |-> "none"]
    /\ pass = [r \in Replicas |-> IdlePass]
    /\ gate = NoSearch
    /\ faults = 0
    /\ latest = [f \in Features |-> 0]

-----------------------------------------------------------------------------
(***************************************************************************)
(* applied_high_water: COALESCE(MAX(version), 0) over the index table.     *)
(***************************************************************************)
Versions == {index[f].ver : f \in Features} \cup {0}

AppliedHighWater == Max(Versions)

(***************************************************************************)
(* A write commits in the source of truth.                                 *)
(***************************************************************************)
Write(m, rec, gap) ==
    /\ Commit(<<m>>, <<rec>>, gap)
    /\ latest' = [latest EXCEPT ![m.fid] = lastSeq']
    /\ UNCHANGED <<index, holder, guard, pass, gate, faults>>

(***************************************************************************)
(* Retention never prunes past this index's own high-water mark.           *)
(***************************************************************************)
PruneApplied(floor, batch) ==
    /\ floor <= AppliedHighWater
    /\ Prune(floor, batch)
    /\ UNCHANGED applierVars

-----------------------------------------------------------------------------
(***************************************************************************)
(* leads_this_pass, still holding a guard it believes live (or no lease    *)
(* configured): the pass starts without asking the coordinator.            *)
(***************************************************************************)
KeepLeading(r) ==
    /\ pass[r].pc = "idle"
    /\ ~Leased \/ guard[r] = "live"
    /\ pass' = [pass EXCEPT ![r].pc = "cursor"]
    /\ UNCHANGED <<rows, outbox, lastSeq, index, holder, guard, gate, faults, latest>>

(***************************************************************************)
(* pg_try_advisory_lock succeeds when no session holds the lock.           *)
(***************************************************************************)
LockIsFree == holder = Nobody

(***************************************************************************)
(* leads_this_pass otherwise: a closed guard is dropped and the lock is    *)
(* tried (pg_try_advisory_lock on a session of its own); losing leaves a   *)
(* follower that holds nothing.                                            *)
(***************************************************************************)
TryAcquire(r) ==
    /\ pass[r].pc = "idle"
    /\ Leased /\ guard[r] # "live"
    /\ IF LockIsFree
       THEN /\ holder' = r
            /\ guard' = [guard EXCEPT ![r] = "live"]
            /\ pass' = [pass EXCEPT ![r].pc = "cursor"]
       ELSE /\ guard' = [guard EXCEPT ![r] = "none"]
            /\ UNCHANGED <<holder, pass>>
    /\ UNCHANGED <<rows, outbox, lastSeq, index, gate, faults, latest>>

(***************************************************************************)
(* PostgreSQL ends the leader's session; the leader finds out later.       *)
(***************************************************************************)
LoseSession(r) ==
    /\ holder = r /\ faults < MaxFaults
    /\ holder' = Nobody
    /\ faults' = faults + 1
    /\ UNCHANGED <<rows, outbox, lastSeq, index, guard, pass, gate, latest>>

NoticeClosed(r) ==
    /\ guard[r] = "live" /\ holder # r
    /\ guard' = [guard EXCEPT ![r] = "closed"]
    /\ UNCHANGED <<rows, outbox, lastSeq, index, holder, pass, gate, faults, latest>>

-----------------------------------------------------------------------------
(***************************************************************************)
(* drain_once: read the sink's high-water mark, then the outbox after it.  *)
(***************************************************************************)
ReadCursor(r) ==
    /\ pass[r].pc = "cursor"
    /\ pass' = [pass EXCEPT ![r].cursor = AppliedHighWater, ![r].pc = "read"]
    /\ UNCHANGED <<rows, outbox, lastSeq, index, holder, guard, gate, faults, latest>>

ReadBatch(r) ==
    /\ pass[r].pc = "read"
    /\ LET batch == ReadAfter(pass[r].cursor, BatchSize)
       IN  pass' = [pass EXCEPT ![r] = IF batch = {} THEN IdlePass
                                       ELSE [@ EXCEPT !.todo = batch, !.pc = "apply"]]
    /\ UNCHANGED <<rows, outbox, lastSeq, index, holder, guard, gate, faults, latest>>

(* Faulty variant: a batch applied in no particular order.                 *)
AnyOrder(todo, o) == o \in todo

NextUp(todo, o) == o \in todo /\ \A p \in todo : o.seq <= p.seq

(* Faulty variant: an upsert that is not guarded by the version.           *)
Overwrite(o) == [index EXCEPT ![o.fid] = [ver |-> o.seq, doc |-> o.current]]

(***************************************************************************)
(* IndexSink::apply: INSERT ... ON CONFLICT DO UPDATE WHERE the stored     *)
(* version is lower; a delete stores a tombstone at its version.           *)
(***************************************************************************)
ApplyToIndex(o) ==
    IF index[o.fid].ver < o.seq
    THEN [index EXCEPT ![o.fid] = [ver |-> o.seq, doc |-> o.current]]
    ELSE index

Without(p, o) == IF p.todo = {o} THEN IdlePass ELSE [p EXCEPT !.todo = p.todo \ {o}]

ApplyNext(r) ==
    /\ pass[r].pc = "apply"
    /\ \E o \in pass[r].todo :
          /\ NextUp(pass[r].todo, o)
          /\ index' = ApplyToIndex(o)
          /\ pass' = [pass EXCEPT ![r] = Without(pass[r], o)]
    /\ UNCHANGED <<rows, outbox, lastSeq, holder, guard, gate, faults, latest>>

(***************************************************************************)
(* A call of the pass fails: the pass ends there, nothing after the failed *)
(* obligation is applied, and the loop starts over on the next tick.       *)
(***************************************************************************)
PassFails(r) ==
    /\ pass[r].pc # "idle" /\ faults < MaxFaults
    /\ pass' = [pass EXCEPT ![r] = IdlePass]
    /\ faults' = faults + 1
    /\ UNCHANGED <<rows, outbox, lastSeq, index, holder, guard, gate, latest>>

(* Faulty variant: a lock that outlives its holder, with no expiry.        *)
CrashHoldingLock(r) ==
    /\ faults < MaxFaults
    /\ faults' = faults + 1
    /\ pass' = [pass EXCEPT ![r] = IdlePass]
    /\ guard' = [guard EXCEPT ![r] = "none"]
    /\ UNCHANGED <<rows, outbox, lastSeq, index, holder, gate, latest>>

(***************************************************************************)
(* The process dies: its session ends and its lock is released.            *)
(***************************************************************************)
Crash(r) ==
    /\ faults < MaxFaults
    /\ faults' = faults + 1
    /\ pass' = [pass EXCEPT ![r] = IdlePass]
    /\ guard' = [guard EXCEPT ![r] = "none"]
    /\ holder' = IF holder = r THEN Nobody ELSE holder
    /\ UNCHANGED <<rows, outbox, lastSeq, index, gate, latest>>

-----------------------------------------------------------------------------
(***************************************************************************)
(* resolve_search: the primary's high-water mark is read first, then the   *)
(* index's; the index serves only while the lag is within the bound.       *)
(***************************************************************************)
Lag(primary, applied) == IF primary > applied THEN primary - applied ELSE 0

(* Faulty variant: the operands of the lag swapped.                        *)
SwappedLag(primary, applied) == Lag(applied, primary) <= FreshnessBound

IndexIsFresh(primary, applied) == Lag(primary, applied) <= FreshnessBound

GatePrimary ==
    /\ SearchRouted /\ gate.pc = "none"
    /\ gate' = [pc |-> "primary", primary |-> PrimaryHighWater, owed |-> latest,
                top |-> lastSeq]
    /\ UNCHANGED <<rows, outbox, lastSeq, index, holder, guard, pass, faults, latest>>

GateApplied ==
    /\ gate.pc = "primary"
    /\ gate' = IF IndexIsFresh(gate.primary, AppliedHighWater)
               THEN [gate EXCEPT !.pc = "serve"] ELSE NoSearch
    /\ UNCHANGED <<rows, outbox, lastSeq, index, holder, guard, pass, faults, latest>>

ServeSearch ==
    /\ gate.pc = "serve"
    /\ gate' = NoSearch
    /\ UNCHANGED <<rows, outbox, lastSeq, index, holder, guard, pass, faults, latest>>

-----------------------------------------------------------------------------
ApplierStep(r) ==
    \/ KeepLeading(r)
    \/ TryAcquire(r)
    \/ NoticeClosed(r)
    \/ ReadCursor(r)
    \/ ReadBatch(r)
    \/ ApplyNext(r)

Next ==
    \/ \E m \in Mutation, rec \in Recordings, gap \in 0..MaxGap : Write(m, rec, gap)
    \/ \E floor \in 0..MaxSeq, batch \in 1..MaxSeq : PruneApplied(floor, batch)
    \/ \E r \in Replicas :
          \/ ApplierStep(r)
          \/ LoseSession(r)
          \/ PassFails(r)
          \/ Crash(r)
    \/ GatePrimary
    \/ GateApplied
    \/ ServeSearch

Spec == Init /\ [][Next]_vars

(***************************************************************************)
(* The applier loop never ends on an error and ticks every poll interval;  *)
(* the driver's client notices a closed connection.  Faults are finite     *)
(* (MaxFaults), so weak fairness is enough.                                *)
(***************************************************************************)
FairSpec ==
    /\ Spec
    /\ \A r \in Replicas :
          /\ WF_vars(KeepLeading(r))
          /\ WF_vars(TryAcquire(r))
          /\ WF_vars(NoticeClosed(r))
          /\ WF_vars(ReadCursor(r))
          /\ WF_vars(ReadBatch(r))
          /\ WF_vars(ApplyNext(r))

-----------------------------------------------------------------------------
(***************************************************************************)
(* The index, the passes and the lease are well formed.                    *)
(***************************************************************************)
TypeOK ==
    /\ LogTypeOK
    /\ index \in [Features -> [ver : Nat, doc : Stored]]
    /\ holder \in Replicas \cup {Nobody}
    /\ guard \in [Replicas -> {"none", "live", "closed"}]
    /\ pass \in [Replicas -> [pc : {"idle", "cursor", "read", "apply"}, cursor : Nat,
                              todo : SUBSET Obligation]]
    /\ latest \in [Features -> Nat]

(***************************************************************************)
(* The high-water mark never claims more than was applied: a feature whose *)
(* newest commit is at or below it has exactly that version and document   *)
(* in the index.  This is what makes it a safe resume cursor after a       *)
(* crash, a failed pass or a takeover, with overlapping leaders too.       *)
(***************************************************************************)
HighWaterIsSound ==
    \A f \in Features :
        latest[f] <= AppliedHighWater =>
            index[f] = [ver |-> latest[f], doc |-> rows[f]]

(***************************************************************************)
(* Redelivery and overlapping leaders never take a document back to an     *)
(* older version.                                                          *)
(***************************************************************************)
IndexNeverRegresses ==
    [][\A f \in Features : index'[f].ver >= index[f].ver]_vars

(***************************************************************************)
(* A search served from the index sees every change that was FreshnessBound*)
(* or more sequences old when the gate read the primary, even if the       *)
(* outbox has been pruned.                                                 *)
(***************************************************************************)
SearchIsFreshEnough ==
    gate.pc = "serve" =>
        \A f \in Features :
            gate.owed[f] + FreshnessBound <= gate.top => index[f].ver >= gate.owed[f]

(***************************************************************************)
(* Once writes and faults stop, the index becomes and stays equal to the   *)
(* stored features.                                                        *)
(***************************************************************************)
Converged == \A f \in Features : index[f] = [ver |-> latest[f], doc |-> rows[f]]

IndexConverges == <>[]Converged
=============================================================================
