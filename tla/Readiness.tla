------------------------------- MODULE Readiness -------------------------------
(***************************************************************************)
(* Readiness of one process and its way out: the dependency probe that     *)
(* races the activation of configurations (tellurion-server's              *)
(* readiness.rs), and the drain that a signal starts (shutdown.rs,         *)
(* main.rs).                                                               *)
(*                                                                         *)
(* A context is one ContextState, identified as Arc::ptr_eq does: the n-th *)
(* ever put in force.  Whoever reads it does not take the mutex of the     *)
(* readiness state, so an activation that holds the mutex is two steps.    *)
(***************************************************************************)
EXTENDS Naturals

CONSTANTS
    Requests,       \* requests of clients
    Tasks,          \* supervised background tasks
    MaxContexts,    \* bound: contexts ever in force
    MaxFlips        \* bound: changes of a context's dependencies

ReadinessAssumption == MaxContexts \in Nat \ {0} /\ MaxFlips \in Nat

VARIABLES
    context,      \* the context in force
    answering,    \* the contexts whose dependencies answer
    flips,        \* how often that has changed
    status, generation,   \* ReadinessState
    swapping,     \* an activation holds the mutex, its context swapped in
    probe,        \* where the probe loop is
    succeeded, failed,    \* the contexts a probe found answering, or not
    signalled,    \* SIGTERM or SIGINT has come
    server,       \* serving, draining, or how serving ended
    accepting,    \* the listener takes connections
    request,      \* per request, where it is
    supervisor,   \* the task supervisor
    task,         \* per task, how it is
    call,         \* per request and task, the call of its that occupies a thread
    dropping,     \* main's body is over and its runtime is being dropped
    exited        \* main has returned

health == <<context, answering, flips>>
state == <<status, generation, swapping>>
probing == <<probe, succeeded, failed>>
process == <<signalled, server, accepting, request, supervisor, task, call, dropping, exited>>
readiness == <<health, state, probing, process>>

Statuses == {"initial", "ready", "failed", "draining"}

ReadinessInit ==
    /\ context = 1 /\ answering = {1} /\ flips = 0
    /\ status = "initial" /\ generation = 0 /\ swapping = FALSE
    /\ probe = [at |-> "resting"] /\ succeeded = {} /\ failed = {}
    /\ signalled = FALSE /\ server = "serving" /\ accepting = TRUE
    /\ request = [q \in Requests |-> "none"]
    /\ supervisor = "waiting" /\ task = [t \in Tasks |-> "running"]
    /\ call = [x \in Requests \cup Tasks |-> "none"]
    /\ dropping = FALSE /\ exited = FALSE

-----------------------------------------------------------------------------

(***************************************************************************)
(* reload_and_invalidate: under the mutex the context is swapped, then its *)
(* predecessor's verdict is dropped.  A process that drains stays so.      *)
(***************************************************************************)
SwapContext ==
    /\ ~swapping /\ context < MaxContexts
    /\ context' = context + 1 /\ swapping' = TRUE
    /\ \E up \in BOOLEAN : answering' = IF up THEN answering \cup {context'} ELSE answering
    /\ UNCHANGED <<flips, status, generation, probing, process>>

Invalidate ==
    /\ swapping
    /\ generation' = generation + 1
    /\ status' = IF status = "draining" THEN status ELSE "initial"
    /\ swapping' = FALSE
    /\ UNCHANGED <<health, probing, process>>

(* A storage or the registry of the context in force goes away or comes back. *)
Flip ==
    /\ flips < MaxFlips /\ flips' = flips + 1
    /\ answering' = IF context \in answering THEN answering \ {context} ELSE answering \cup {context}
    /\ UNCHANGED <<context, state, probing, process>>

-----------------------------------------------------------------------------

(* Faulty variant: a process that is ready is not probed again.            *)
StartProbeUnlessReady ==
    /\ probe.at = "resting" /\ status \notin {"draining", "ready"}
    /\ probe' = [at |-> "started", context |-> context]
    /\ UNCHANGED <<health, state, succeeded, failed, process>>

(***************************************************************************)
(* probe_once: the context, then the generation, then the probe itself     *)
(* under its deadline, then whether the context is still in force, then    *)
(* the verdict for the generation.                                         *)
(***************************************************************************)
StartProbe ==
    /\ probe.at = "resting" /\ status # "draining"
    /\ probe' = [at |-> "started", context |-> context]
    /\ UNCHANGED <<health, state, succeeded, failed, process>>

ReadGeneration ==
    /\ probe.at = "started" /\ ~swapping
    /\ probe' = [at |-> "probing", context |-> probe.context, generation |-> generation]
    /\ UNCHANGED <<health, state, succeeded, failed, process>>

ProbeDependencies ==
    /\ probe.at = "probing"
    /\ LET up == probe.context \in answering
       IN  /\ probe' = [at |-> "answered", context |-> probe.context,
                        generation |-> probe.generation, up |-> up]
           /\ succeeded' = IF up THEN succeeded \cup {probe.context} ELSE succeeded
           /\ failed' = IF up THEN failed ELSE failed \cup {probe.context}
    /\ UNCHANGED <<health, state, process>>

(* Faulty variant: the generation alone is compared.                       *)
StillInForceUnchecked == probe.context \in 1..MaxContexts

(* Whether the verdict is still about the context in force.                *)
StillInForce == probe.context = context

CompareContext ==
    /\ probe.at = "answered"
    /\ probe' = IF StillInForce THEN [probe EXCEPT !.at = "compared"] ELSE [at |-> "resting"]
    /\ UNCHANGED <<health, state, succeeded, failed, process>>

(***************************************************************************)
(* transition: a verdict of another generation is dropped, and so is every *)
(* verdict of a process that drains.                                       *)
(***************************************************************************)
Counts == probe.generation = generation /\ status # "draining"

RecordVerdict ==
    /\ probe.at = "compared" /\ ~swapping
    /\ status' = IF ~Counts THEN status ELSE IF probe.up THEN "ready" ELSE "failed"
    /\ probe' = [at |-> "resting"]
    /\ UNCHANGED <<health, generation, swapping, succeeded, failed, process>>

Probe == StartProbe \/ ReadGeneration \/ ProbeDependencies \/ CompareContext \/ RecordVerdict

-----------------------------------------------------------------------------

Admit(q) ==
    /\ accepting /\ ~dropping /\ request[q] = "none"
    /\ request' = [request EXCEPT ![q] = "in flight"]
    /\ UNCHANGED <<health, state, probing, signalled, server, accepting, supervisor, task, call, dropping, exited>>

(***************************************************************************)
(* A request or a task occupies a thread: "polled", with its own work      *)
(* between two awaits, or "blocking", with a call that nobody has to wait  *)
(* for: spawn_blocking, tokio::fs, a task it has spawned and left, a loop  *)
(* of the process that nobody supervises.  Nothing bounds how long.  A     *)
(* call that is over before the signal leaves nothing here, and one that   *)
(* is not may as well begin with it.                                       *)
(***************************************************************************)
Runs(x) == \/ x \in Requests /\ request[x] = "in flight"
           \/ x \in Tasks /\ task[x] = "running"

StartCall(x) ==
    /\ signalled /\ ~dropping /\ call[x] = "none"
    /\ \/ Runs(x) /\ call' = [call EXCEPT ![x] = "polled"]
       \/ call' = [call EXCEPT ![x] = "blocking"]
    /\ UNCHANGED <<health, state, probing, signalled, server, accepting, request, supervisor, task, dropping, exited>>

CallReturns(x) ==
    /\ ~exited /\ call[x] # "none"
    /\ call' = [call EXCEPT ![x] = "none"]
    /\ UNCHANGED <<health, state, probing, signalled, server, accepting, request, supervisor, task, dropping, exited>>

(* An answer; a timeout's, if a blocking call is left running.             *)
Respond(q) ==
    /\ ~exited /\ request[q] = "in flight" /\ call[q] # "polled"
    /\ request' = [request EXCEPT ![q] = "answered"]
    /\ UNCHANGED <<health, state, probing, signalled, server, accepting, supervisor, task, call, dropping, exited>>

Signal ==
    /\ ~signalled /\ signalled' = TRUE
    /\ UNCHANGED <<health, state, probing, server, accepting, request, supervisor, task, call, dropping, exited>>

(***************************************************************************)
(* run_until_shutdown_with: not ready first, then no new connections, then *)
(* the requests in flight or the deadline.                                 *)
(***************************************************************************)
BeginDraining ==
    /\ server = "serving" /\ signalled /\ ~swapping
    /\ status' = "draining" /\ server' = "draining"
    /\ UNCHANGED <<health, generation, swapping, probing, signalled, accepting, request, supervisor, task, call, dropping, exited>>

NotifyServer ==
    /\ server = "draining" /\ accepting
    /\ accepting' = FALSE
    /\ UNCHANGED <<health, state, probing, signalled, server, request, supervisor, task, call, dropping, exited>>

InFlight == {q \in Requests : request[q] = "in flight"}

ServingCompletes ==
    /\ server = "draining" /\ ~accepting /\ InFlight = {}
    /\ server' = "completed"
    /\ UNCHANGED <<health, state, probing, signalled, accepting, request, supervisor, task, call, dropping, exited>>

(* Faulty variant: the deadline waits for the requests in flight.          *)
DrainDeadlineExtended ==
    /\ server = "draining" /\ ~accepting /\ InFlight = {}
    /\ server' = "forced"
    /\ UNCHANGED <<health, state, probing, signalled, accepting, request, supervisor, task, call, dropping, exited>>

DrainDeadline ==
    /\ server = "draining" /\ ~accepting
    /\ server' = "forced"
    /\ UNCHANGED <<health, state, probing, signalled, accepting, request, supervisor, task, call, dropping, exited>>

-----------------------------------------------------------------------------

(***************************************************************************)
(* A task sees the signal between two passes; supervise_tasks waits for    *)
(* all of them from the signal on, aborts the rest at its deadline, and    *)
(* then waits, without one, until each has yielded to the abort.           *)
(***************************************************************************)
TaskStops(t) ==
    /\ ~exited /\ signalled /\ task[t] = "running" /\ call[t] # "polled"
    /\ task' = [task EXCEPT ![t] = "stopped"]
    /\ UNCHANGED <<health, state, probing, signalled, server, accepting, request, supervisor, call, dropping, exited>>

TasksCompleted ==
    /\ supervisor = "waiting" /\ signalled
    /\ \A t \in Tasks : task[t] # "running"
    /\ supervisor' = "done"
    /\ UNCHANGED <<health, state, probing, signalled, server, accepting, request, task, call, dropping, exited>>

TaskDeadline ==
    /\ supervisor = "waiting" /\ signalled
    /\ task' = [t \in Tasks |-> IF task[t] = "running" THEN "aborting" ELSE task[t]]
    /\ supervisor' = "aborting"
    /\ UNCHANGED <<health, state, probing, signalled, server, accepting, request, call, dropping, exited>>

(* abort() takes a task at an await; what it awaits goes on without it.    *)
TaskAborts(t) ==
    /\ task[t] = "aborting" /\ call[t] # "polled"
    /\ task' = [task EXCEPT ![t] = "aborted"]
    /\ UNCHANGED <<health, state, probing, signalled, server, accepting, request, supervisor, call, dropping, exited>>

TasksAborted ==
    /\ supervisor = "aborting" /\ \A t \in Tasks : task[t] # "aborting"
    /\ supervisor' = "done"
    /\ UNCHANGED <<health, state, probing, signalled, server, accepting, request, task, call, dropping, exited>>

(***************************************************************************)
(* main awaits the server and then the supervisor; its runtime is dropped  *)
(* behind it, which starts nothing and waits, without a deadline, for      *)
(* every call that occupies a thread.                                      *)
(***************************************************************************)
BodyEnds ==
    /\ ~dropping /\ server \in {"completed", "forced"} /\ supervisor = "done"
    /\ dropping' = TRUE
    /\ UNCHANGED <<health, state, probing, signalled, server, accepting, request, supervisor, task, call, exited>>

Exit ==
    /\ ~exited /\ dropping /\ \A x \in Requests \cup Tasks : call[x] = "none"
    /\ exited' = TRUE
    /\ UNCHANGED <<health, state, probing, signalled, server, accepting, request, supervisor, task, call, dropping>>

Shutdown == BeginDraining \/ NotifyServer \/ ServingCompletes \/ DrainDeadline
                \/ TasksCompleted \/ TaskDeadline \/ TasksAborted \/ BodyEnds \/ Exit

ReadinessNext ==
    \/ ~dropping /\ (SwapContext \/ Invalidate \/ Flip \/ Probe)
    \/ Signal \/ Shutdown
    \/ \E q \in Requests : Admit(q) \/ Respond(q)
    \/ \E t \in Tasks : TaskStops(t) \/ TaskAborts(t)
    \/ \E x \in Requests \cup Tasks : StartCall(x) \/ CallReturns(x)

ReadinessSpec == ReadinessInit /\ [][ReadinessNext]_readiness

(***************************************************************************)
(* The mutex is released, the probe loop is a task with its own deadline,  *)
(* the deadlines of the drain pass, and an aborted task yields unless its  *)
(* poll goes on.  No call that occupies a thread is bound to return, no    *)
(* request to be answered and no task to stop.                             *)
(***************************************************************************)
ReadinessFairness ==
    /\ WF_readiness(~dropping /\ Invalidate) /\ WF_readiness(~dropping /\ Probe)
    /\ WF_readiness(BeginDraining) /\ WF_readiness(NotifyServer)
    /\ WF_readiness(DrainDeadline) /\ WF_readiness(TaskDeadline)
    /\ WF_readiness(\E t \in Tasks : TaskAborts(t)) /\ WF_readiness(TasksAborted)
    /\ WF_readiness(BodyEnds) /\ WF_readiness(Exit)

FairReadinessSpec == ReadinessSpec /\ ReadinessFairness

-----------------------------------------------------------------------------

(***************************************************************************)
(* The context, its generation and the status; then the process.           *)
(***************************************************************************)
StateTyped ==
    /\ context \in 1..MaxContexts /\ answering \subseteq 1..context
    /\ flips \in 0..MaxFlips /\ status \in Statuses
    /\ generation = IF swapping THEN context - 2 ELSE context - 1
    /\ succeeded \subseteq 1..context /\ failed \subseteq 1..context
    /\ server \in {"serving", "draining", "completed", "forced"}

ProcessTyped ==
    /\ swapping \in BOOLEAN
    /\ request \in [Requests -> {"none", "in flight", "answered"}]
    /\ task \in [Tasks -> {"running", "stopped", "aborting", "aborted"}]

ReadinessTypeOK == StateTyped /\ ProcessTyped

(***************************************************************************)
(* What /readyz says is about the context in force: ready only once a      *)
(* probe of this very context succeeded, failed only once one failed,      *)
(* however the probe's four reads fall between activations (probe_once,    *)
(* reload_and_invalidate).  Once the server has begun to drain neither a   *)
(* probe that ends late nor an activation takes it back (transition).      *)
(***************************************************************************)
VerdictIsOfTheContextInForce ==
    IF server # "serving" THEN status = "draining"
    ELSE ~swapping => /\ status = "ready" => context \in succeeded
                      /\ status = "failed" => context \in failed

(***************************************************************************)
(* A signal ends the process, however many requests and tasks never end    *)
(* of themselves (run_until_shutdown_with, supervise_tasks): all that can  *)
(* hold it is one call that never gives its thread back, which the abort   *)
(* of its task or the drop of the runtime then waits for.                  *)
(***************************************************************************)
NeverReturns(x) == <>[](call[x] # "none")

SignalEndsTheProcess ==
    (\E x \in Requests \cup Tasks : NeverReturns(x)) \/ (signalled ~> exited)

(***************************************************************************)
(* Once activations and outages end, /readyz tells the truth about the     *)
(* dependencies of the context in force, unless the process drains.        *)
(***************************************************************************)
StatusIsTrue == status = IF context \in answering THEN "ready" ELSE "failed"

ReadinessBecomesTrue == <>[]StatusIsTrue \/ <>(status = "draining")
=============================================================================
