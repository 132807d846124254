---------------------------- MODULE ControlConsumer ----------------------------
(***************************************************************************)
(* The replicas that poll the durable control store and activate its       *)
(* revisions (tellurion-server's control_consumer.rs and                   *)
(* runtime_activation.rs).  Commits come from ControlStore; here they are  *)
(* a ledger that grows.                                                    *)
(*                                                                         *)
(* A configuration is what an activation tells apart: the boot-lifetime    *)
(* settings it compares with the ones in force, and whether its readers,   *)
(* router and authorizer can be built.                                     *)
(***************************************************************************)
EXTENDS Naturals, Sequences, FiniteSets

CONSTANTS
    Replicas,     \* server processes
    Settings,     \* configurations
    Seed,         \* the configuration of the bootstrap
    Missing,      \* revisions whose events are gone
    PageSize,     \* revisions a page of events holds
    Down,         \* a process that does not run
    MaxRevision,  \* bound: revisions ever committed
    MaxBoots,     \* bound: times a process comes up
    MaxFaults     \* bound: calls and activations that fail

ASSUME ConsumerAssumption ==
    /\ \A c \in Settings : c.builds \in BOOLEAN
    /\ Seed \in Settings /\ Seed.builds
    /\ Down \notin Nat
    /\ \A n \in 1..MaxRevision, c \in Settings : [revision |-> n, wired |-> c.checked] # Down
    /\ PageSize \in Nat \ {0}
    /\ MaxRevision \in Nat \ {0} /\ MaxBoots \in Nat /\ MaxFaults \in Nat

VARIABLES
    ledger,   \* the committed configurations, in revision order
    active,   \* per replica, the revision it serves, or Down
    wired,    \* per replica, the configuration its boot wired
    claim,    \* per replica, ControlRuntimeStatus: what it reports
    loop,     \* per replica, where its refresh loop is
    boots,    \* times a process came up
    faults    \* failures so far

vars == <<ledger, active, wired, claim, loop, boots, faults>>

Newest == Len(ledger)
Up(r) == active[r] # Down
Asleep(applied) == [at |-> "asleep", applied |-> applied]

Init ==
    /\ ledger = <<Seed>>
    /\ active = [r \in Replicas |-> Down]
    /\ wired = [r \in Replicas |-> Seed]
    /\ claim = [r \in Replicas |-> [store |-> 0, applied |-> 0]]
    /\ loop = [r \in Replicas |-> [at |-> "down"]]
    /\ boots = 0 /\ faults = 0

-----------------------------------------------------------------------------

(***************************************************************************)
(* transact: an administrator commits a configuration.                     *)
(***************************************************************************)
Publish(c) ==
    /\ Newest < MaxRevision
    /\ ledger' = Append(ledger, c)
    /\ UNCHANGED <<active, wired, claim, loop, boots, faults>>

(***************************************************************************)
(* A process comes up: it reads the authoritative snapshot, wires and      *)
(* serves it, and starts its loop.  One that cannot build it exits.        *)
(***************************************************************************)
OpenStore(r) ==
    /\ loop[r].at = "down" /\ boots < MaxBoots
    /\ boots' = boots + 1
    /\ loop' = [loop EXCEPT ![r] = [at |-> "booting", candidate |-> Newest]]
    /\ UNCHANGED <<ledger, active, wired, claim, faults>>

Serve(r) ==
    /\ loop[r].at = "booting"
    /\ LET n == loop[r].candidate
       IN  IF ledger[n].builds
           THEN /\ active' = [active EXCEPT ![r] = n]
                /\ wired' = [wired EXCEPT ![r] = ledger[n]]
                /\ claim' = [claim EXCEPT ![r] = [store |-> n, applied |-> n]]
                /\ loop' = [loop EXCEPT ![r] = Asleep(n)]
           ELSE /\ loop' = [loop EXCEPT ![r] = [at |-> "down"]]
                /\ UNCHANGED <<active, wired, claim>>
    /\ UNCHANGED <<ledger, boots, faults>>

Stop(r) ==
    /\ Up(r)
    /\ active' = [active EXCEPT ![r] = Down]
    /\ loop' = [loop EXCEPT ![r] = [at |-> "down"]]
    /\ UNCHANGED <<ledger, wired, claim, boots, faults>>

-----------------------------------------------------------------------------

(***************************************************************************)
(* refresh_once: the store's revision, reported before anything is done    *)
(* about it.                                                               *)
(***************************************************************************)
Poll(r) ==
    /\ loop[r].at = "asleep"
    /\ claim' = [claim EXCEPT ![r].store = Newest]
    /\ loop' = [loop EXCEPT ![r] =
          IF Newest <= @.applied THEN @
          ELSE [at |-> "events", applied |-> @.applied, target |-> Newest, last |-> @.applied]]
    /\ UNCHANGED <<ledger, active, wired, boots, faults>>

(***************************************************************************)
(* Pages of the events after the last revision consumed, up to the         *)
(* revision seen; a page that is empty or leaves a revision out ends the   *)
(* reading, and the snapshot is loaded all the same.                       *)
(***************************************************************************)
Events(last) == {n \in last + 1..Newest : n \notin Missing}

Page(last) == {n \in Events(last) : Cardinality({m \in Events(last) : m < n}) < PageSize}

MoreToRead(r, n) == Page(loop[r].last) = loop[r].last + 1..n

ReadEvents(r) ==
    /\ loop[r].at = "events"
    /\ \E n \in loop[r].last + 1..loop[r].target - 1 :
          MoreToRead(r, n) /\ loop' = [loop EXCEPT ![r].last = n]
    /\ UNCHANGED <<ledger, active, wired, claim, boots, faults>>

EndOfEvents(r) ==
    /\ loop[r].at = "events"
    /\ ~\E n \in loop[r].last + 1..loop[r].target - 1 : MoreToRead(r, n)
    /\ loop' = [loop EXCEPT ![r] =
          [at |-> "loading", applied |-> @.applied, target |-> @.target]]
    /\ UNCHANGED <<ledger, active, wired, claim, boots, faults>>

LoadSnapshot(r) ==
    /\ loop[r].at = "loading"
    /\ loop' = [loop EXCEPT ![r] =
          [at |-> "activating", applied |-> @.applied, target |-> @.target, candidate |-> Newest]]
    /\ UNCHANGED <<ledger, active, wired, claim, boots, faults>>

(* Faulty variant: boot-lifetime settings are swapped like any other.      *)
ActivatableUnchecked(r, n) == ledger[n].builds

(***************************************************************************)
(* activate_config refuses a candidate whose boot-lifetime settings are    *)
(* not those in force, and one that does not build.                        *)
(***************************************************************************)
Activatable(r, n) == ledger[n].checked = ledger[active[r]].checked /\ ledger[n].builds

Activate(r) ==
    /\ loop[r].at = "activating"
    /\ Activatable(r, loop[r].candidate)
    /\ active' = [active EXCEPT ![r] = loop[r].candidate]
    /\ loop' = [loop EXCEPT ![r].at = "activated"]
    /\ UNCHANGED <<ledger, wired, claim, boots, faults>>

RefuseCandidate(r) ==
    /\ loop[r].at = "activating"
    /\ ~Activatable(r, loop[r].candidate)
    /\ loop' = [loop EXCEPT ![r] = Asleep(@.applied)]
    /\ UNCHANGED <<ledger, active, wired, claim, boots, faults>>

Report(r) ==
    /\ loop[r].at = "activated"
    /\ claim' = [claim EXCEPT ![r].applied = loop[r].candidate]
    /\ loop' = [loop EXCEPT ![r] = Asleep(@.candidate)]
    /\ UNCHANGED <<ledger, active, wired, boots, faults>>

(* Faulty variant: a failed refresh counts as applied.                     *)
RefreshFailsForgetting(r) ==
    /\ loop[r].at \in {"asleep", "events", "loading", "activating"}
    /\ faults < MaxFaults
    /\ faults' = faults + 1
    /\ loop' = [loop EXCEPT ![r] = Asleep(IF @.at = "asleep" THEN @.applied ELSE @.target)]
    /\ UNCHANGED <<ledger, active, wired, claim, boots>>

(***************************************************************************)
(* A call to the store, or a build that reaches storages, fails: the loop  *)
(* keeps what it has and comes back later.                                 *)
(***************************************************************************)
RefreshFails(r) ==
    /\ loop[r].at \in {"asleep", "events", "loading", "activating"}
    /\ faults < MaxFaults
    /\ faults' = faults + 1
    /\ loop' = [loop EXCEPT ![r] = Asleep(@.applied)]
    /\ UNCHANGED <<ledger, active, wired, claim, boots>>

Refresh(r) == Poll(r) \/ ReadEvents(r) \/ EndOfEvents(r) \/ LoadSnapshot(r)
                 \/ Activate(r) \/ RefuseCandidate(r) \/ Report(r)

Next ==
    \/ \E c \in Settings : Publish(c)
    \/ \E r \in Replicas : OpenStore(r) \/ Serve(r) \/ Stop(r) \/ Refresh(r) \/ RefreshFails(r)

Spec == Init /\ [][Next]_vars

(***************************************************************************)
(* The refresh loop is a task that always sleeps, polls and comes back.    *)
(***************************************************************************)
Fairness == \A r \in Replicas : WF_vars(Refresh(r))

FairSpec == Spec /\ Fairness

-----------------------------------------------------------------------------

Starting == [at : {"down"}] \cup [at : {"booting"}, candidate : 1..Newest]

(***************************************************************************)
(* Where a refresh can be: it is under way only for a newer revision.      *)
(***************************************************************************)
Refreshing ==
    LET from == 1..Newest
    IN  [at : {"asleep"}, applied : from]
          \cup {l \in [at : {"events"}, applied : from, target : from, last : from] :
                  l.applied <= l.last /\ l.last < l.target}
          \cup {l \in [at : {"loading"}, applied : from, target : from] : l.applied < l.target}
          \cup {l \in [at : {"activating", "activated"}, applied : from, target : from,
                       candidate : from] : l.applied < l.target /\ l.target <= l.candidate}

TypeOK ==
    /\ ledger \in Seq(Settings) /\ Newest \in 1..MaxRevision
    /\ active \in [Replicas -> 1..Newest \cup {Down}]
    /\ wired \in [Replicas -> Settings]
    /\ claim \in [Replicas -> [store : 0..Newest, applied : 0..Newest]]
    /\ loop \in [Replicas -> Refreshing \cup Starting]
    /\ \A r \in Replicas : loop[r] \in IF Up(r) THEN Refreshing ELSE Starting
    /\ boots \in 0..MaxBoots /\ faults \in 0..MaxFaults

(***************************************************************************)
(* The replicas implement ServedRevisions, whatever is refused, fails or   *)
(* goes missing between the poll and the activation (refresh_once).        *)
(***************************************************************************)
Served == INSTANCE ServedRevisions WITH
    serving <- [r \in Replicas |->
                  IF Up(r) THEN [revision |-> active[r], wired |-> wired[r].checked] ELSE Down]

ServedSpec == Served!Spec

(***************************************************************************)
(* A revision is reported as applied only once it is served, and never by  *)
(* a process wired for other boot-lifetime settings: observe_applied is    *)
(* called after the swap and not at all after a refusal.                   *)
(***************************************************************************)
ReportedIsServed ==
    \A r \in Replicas : Up(r) =>
        /\ claim[r].applied <= active[r]
        /\ ledger[claim[r].applied].checked = wired[r].checked
        /\ loop[r].at = "asleep" => claim[r].applied = active[r] /\ loop[r].applied = active[r]

(***************************************************************************)
(* Once commits, stops and failures end, a running replica serves the      *)
(* newest revision, or that revision asks for a restart or cannot be       *)
(* built: no refusal before it and no failure keeps it away.               *)
(***************************************************************************)
NewestIsServedOrRefused ==
    <>[](\A r \in Replicas : Up(r) => active[r] = Newest \/ ~Activatable(r, Newest))
=============================================================================
