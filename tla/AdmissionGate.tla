---------------------------- MODULE AdmissionGate ----------------------------
(***************************************************************************)
(* One tenant's admission gate (TenantGate, tellurion-core/src/            *)
(* admission.rs): a fair share of the server's concurrency, and a bounded, *)
(* deadline-limited queue in front of it, built from atomic counters and a *)
(* tokio Notify.  Every request runs on its own task, so each access to an *)
(* atomic or to the Notify is a step.                                      *)
(*                                                                         *)
(* Notify, as the code uses it: notify_one hands its permit to the longest *)
(* registered waiter, or stores it if nobody is registered (at most one is *)
(* stored); a waiter registers when its future is first polled;            *)
(* notify_waiters wakes everybody whose future already exists; a waiter    *)
(* dropped after notify_one chose it passes the permit on.                 *)
(***************************************************************************)
EXTENDS Naturals, Sequences, FiniteSets

CONSTANTS
    Requests,         \* requests of the tenant
    Limits,           \* fair shares a reload can configure
    Capacities,       \* queue capacities a reload can configure
    MaxReloads,       \* bound: reloads of the configuration
    MaxDisconnects    \* bound: clients that go away while their request waits

ASSUME GateAssumption ==
    /\ Limits \subseteq Nat \ {0} /\ Limits # {}
    /\ Capacities \subseteq Nat /\ Capacities # {}
    /\ MaxReloads \in Nat /\ MaxDisconnects \in Nat

VARIABLES
    limit, capacity,  \* the configured share and queue capacity
    active,           \* slots in use
    depth,            \* queue_depth
    permit,           \* the permit stored in slot_available
    waiters,          \* the futures registered in slot_available
    epoch,            \* notify_waiters calls so far
    reloading,        \* a reload has stored its limits, not yet notified
    pc, seen,         \* each request's step, the epoch of its future
    gone              \* clients that went away while waiting

gateVars ==
    <<limit, capacity, active, depth, permit, waiters, epoch, reloading, pc, seen, gone>>

GateInit ==
    /\ limit \in Limits /\ capacity \in Capacities
    /\ active = 0 /\ depth = 0 /\ permit = FALSE /\ waiters = <<>>
    /\ epoch = 0 /\ reloading = FALSE /\ gone = 0
    /\ pc = [r \in Requests |-> "idle"]
    /\ seen = [r \in Requests |-> 0]

Goto(r, next) == pc' = [pc EXCEPT ![r] = next]

-----------------------------------------------------------------------------
(***************************************************************************)
(* try_acquire: a compare-and-swap loop, one step.                         *)
(***************************************************************************)
TryAcquire(r, taken, busy) ==
    /\ active' = IF active < limit THEN active + 1 ELSE active
    /\ Goto(r, IF active < limit THEN taken ELSE busy)

(***************************************************************************)
(* admit, fast path.                                                       *)
(***************************************************************************)
Arrive(r) ==
    /\ pc[r] = "idle"
    /\ TryAcquire(r, "running", "enqueue")
    /\ UNCHANGED <<limit, capacity, depth, permit, waiters, epoch, reloading, seen, gone>>

QueueIsFull(queued) == queued > capacity

(***************************************************************************)
(* admit, slow path: the depth is raised before it is compared, and given  *)
(* back if the queue was full.                                             *)
(***************************************************************************)
Enqueue(r) ==
    /\ pc[r] = "enqueue"
    /\ depth' = depth + 1
    /\ Goto(r, IF QueueIsFull(depth + 1) THEN "full" ELSE "loop")
    /\ UNCHANGED <<limit, capacity, active, permit, waiters, epoch, reloading, seen, gone>>

(***************************************************************************)
(* The queue is left: refused when full, after the wait with a slot, or    *)
(* after the deadline without one.                                         *)
(***************************************************************************)
LeaveQueue(r) ==
    /\ pc[r] \in {"full", "admitted", "expired"}
    /\ depth' = depth - 1
    /\ Goto(r, IF pc[r] = "admitted" THEN "running" ELSE "rejected")
    /\ UNCHANGED <<limit, capacity, active, permit, waiters, epoch, reloading, seen, gone>>

-----------------------------------------------------------------------------
(***************************************************************************)
(* The waiting loop: create the future, try for a slot, await the future.  *)
(***************************************************************************)
CreateNotified(r) ==
    /\ pc[r] = "loop"
    /\ seen' = [seen EXCEPT ![r] = epoch]
    /\ Goto(r, "try")
    /\ UNCHANGED <<limit, capacity, active, depth, permit, waiters, epoch, reloading, gone>>

RetryAcquire(r) ==
    /\ pc[r] = "try"
    /\ TryAcquire(r, "admitted", "poll")
    /\ UNCHANGED <<limit, capacity, depth, permit, waiters, epoch, reloading, seen, gone>>

(***************************************************************************)
(* The future's first poll: it takes a stored permit, is ready if          *)
(* notify_waiters ran since it was created, or registers.                  *)
(***************************************************************************)
Poll(r) ==
    /\ pc[r] = "poll"
    /\ IF permit
       THEN permit' = FALSE /\ Goto(r, "loop") /\ UNCHANGED waiters
       ELSE IF seen[r] # epoch
       THEN Goto(r, "loop") /\ UNCHANGED <<permit, waiters>>
       ELSE waiters' = Append(waiters, r) /\ Goto(r, "parked") /\ UNCHANGED permit
    /\ UNCHANGED <<limit, capacity, active, depth, epoch, reloading, seen, gone>>

Wake(r) ==
    /\ pc[r] \in {"notified", "called"}
    /\ Goto(r, "loop")
    /\ UNCHANGED <<limit, capacity, active, depth, permit, waiters, epoch, reloading, seen, gone>>

(***************************************************************************)
(* notify_one, by a request r that goes on to `next`.                      *)
(***************************************************************************)
NotifyOne(r, next) ==
    IF waiters = <<>>
    THEN permit' = TRUE /\ Goto(r, next) /\ UNCHANGED waiters
    ELSE /\ waiters' = Tail(waiters)
         /\ pc' = [pc EXCEPT ![r] = next, ![Head(waiters)] = "notified"]
         /\ UNCHANGED permit

WithoutIndex(s, i) == SubSeq(s, 1, i - 1) \o SubSeq(s, i + 1, Len(s))

(***************************************************************************)
(* The future of a parked request is dropped and the request goes on to    *)
(* `next`: it leaves the waiters, or passes on the permit it was handed.   *)
(***************************************************************************)
DropNotified(r, next) ==
    CASE pc[r] = "parked" ->
           /\ \E i \in 1..Len(waiters) :
                 waiters[i] = r /\ waiters' = WithoutIndex(waiters, i)
           /\ Goto(r, next) /\ UNCHANGED permit
      [] pc[r] = "notified" -> NotifyOne(r, next)
      [] OTHER -> Goto(r, next) /\ UNCHANGED <<permit, waiters>>

Suspended == {"parked", "notified", "called"}

(***************************************************************************)
(* tokio::time::timeout ends the wait.                                     *)
(***************************************************************************)
Expire(r) ==
    /\ pc[r] \in Suspended
    /\ DropNotified(r, "expired")
    /\ UNCHANGED <<limit, capacity, active, depth, epoch, reloading, seen, gone>>

(***************************************************************************)
(* The client goes away while its request waits: the server drops the      *)
(* request's future at its await, and nothing after it runs.               *)
(***************************************************************************)
Disconnect(r) ==
    /\ gone < MaxDisconnects /\ pc[r] \in Suspended
    /\ gone' = gone + 1
    /\ DropNotified(r, "dropped")
    /\ UNCHANGED <<limit, capacity, active, depth, epoch, reloading, seen>>

-----------------------------------------------------------------------------
(***************************************************************************)
(* AdmissionPermit::drop, however the request ends: the slot first, then   *)
(* the notification.                                                       *)
(***************************************************************************)
Release(r) ==
    /\ pc[r] = "running"
    /\ active' = active - 1
    /\ Goto(r, "released")
    /\ UNCHANGED <<limit, capacity, depth, permit, waiters, epoch, reloading, seen, gone>>

(* Faulty variant: nobody is woken unless the slot was the last one taken. *)
NotifyIfLast(r) ==
    /\ pc[r] = "released"
    /\ IF active + 1 = limit THEN NotifyOne(r, "done")
       ELSE Goto(r, "done") /\ UNCHANGED <<permit, waiters>>
    /\ UNCHANGED <<limit, capacity, active, depth, epoch, reloading, seen, gone>>

NotifyReleased(r) ==
    /\ pc[r] = "released"
    /\ NotifyOne(r, "done")
    /\ UNCHANGED <<limit, capacity, active, depth, epoch, reloading, seen, gone>>

(***************************************************************************)
(* TenantGate::reconfigure: the new limits, then notify_waiters.           *)
(***************************************************************************)
Reconfigure ==
    /\ epoch < MaxReloads /\ ~reloading
    /\ limit' \in Limits /\ capacity' \in Capacities
    /\ reloading' = TRUE
    /\ UNCHANGED <<active, depth, permit, waiters, epoch, pc, seen, gone>>

NotifyWaiters ==
    /\ reloading
    /\ reloading' = FALSE
    /\ epoch' = epoch + 1
    /\ pc' = [r \in Requests |-> IF pc[r] = "parked" THEN "called" ELSE pc[r]]
    /\ waiters' = <<>>
    /\ UNCHANGED <<limit, capacity, active, depth, permit, seen, gone>>

Step(r) ==
    \/ Arrive(r)
    \/ Enqueue(r)
    \/ LeaveQueue(r)
    \/ CreateNotified(r)
    \/ RetryAcquire(r)
    \/ Poll(r)
    \/ Wake(r)
    \/ Expire(r)
    \/ Disconnect(r)
    \/ Release(r)
    \/ NotifyReleased(r)

GateNext == (\E r \in Requests : Step(r)) \/ Reconfigure \/ NotifyWaiters

GateSpec == GateInit /\ [][GateNext]_gateVars

-----------------------------------------------------------------------------
At(steps) == {r \in Requests : pc[r] \in steps}

Waiting == {"loop", "try", "poll", "parked", "notified", "called"}

(***************************************************************************)
(* The requests that are in the queue.                                     *)
(***************************************************************************)
Queued == Waiting \cup {"full", "admitted", "expired"}

(***************************************************************************)
(* The slots in use are those of admitted requests, the depth is that of   *)
(* the queue and of the clients that left it by going away; a request is   *)
(* registered exactly while it is parked, once; and a permit is stored     *)
(* only while nobody is registered.                                        *)
(***************************************************************************)
GateTypeOK ==
    /\ limit \in Limits /\ capacity \in Capacities
    /\ active = Cardinality(At({"running", "admitted"}))
    /\ depth = Cardinality(At(Queued \cup {"dropped"}))
    /\ permit \in BOOLEAN /\ reloading \in BOOLEAN
    /\ epoch \in 0..MaxReloads /\ gone \in 0..MaxDisconnects
    /\ pc \in [Requests -> Waiting \cup {"idle", "enqueue", "full", "admitted", "expired",
                                         "running", "released", "done", "rejected",
                                         "dropped"}]
    /\ seen \in [Requests -> 0..MaxReloads]
    /\ waiters \in Seq(Requests)
    /\ \A r \in Requests :
          pc[r] = "parked" <=> \E i \in 1..Len(waiters) : waiters[i] = r
    /\ \A i, j \in 1..Len(waiters) : waiters[i] = waiters[j] => i = j
    /\ permit => waiters = <<>>

(***************************************************************************)
(* r is about to try for a slot, or about to wake somebody who will.       *)
(***************************************************************************)
OnItsWay(r) ==
    \/ pc[r] \in {"loop", "try", "notified", "called", "released"}
    \/ pc[r] = "poll" /\ (permit \/ seen[r] # epoch)

(***************************************************************************)
(* The gate never stalls: while every slot is free no request stays parked *)
(* with nobody left to wake it, whatever releases, deadlines, departing    *)
(* clients and reloads interleaved.                                        *)
(***************************************************************************)
GateNeverStalls ==
    active = 0 /\ At({"parked"}) # {} => reloading \/ \E r \in Requests : OnItsWay(r)

-----------------------------------------------------------------------------
(***************************************************************************)
(* What the type's documentation says of the queue: queue_depth counts the *)
(* requests that are in it, so a request is only refused when the queue    *)
(* really is at capacity.                                                  *)
(***************************************************************************)
DepthCountsWaiters == depth = Cardinality(At(Queued))

(***************************************************************************)
(* What it says of wakeups: none is lost.  While any slot is free and a    *)
(* request is parked, somebody is on the way.                              *)
(***************************************************************************)
NoWaiterLeftBehind ==
    active < limit /\ At({"parked"}) # {} => reloading \/ \E r \in Requests : OnItsWay(r)
=============================================================================
