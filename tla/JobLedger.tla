------------------------------ MODULE JobLedger ------------------------------
(***************************************************************************)
(* The durable job ledger of the Processes lane: the PostGIS driver's      *)
(* JobStore (job_sql.rs and driver.rs), the submissions and dismissals of  *)
(* the HTTP handlers, and the runner loop of every replica                 *)
(* (tellurion-server's process_lane.rs), which claims, executes and        *)
(* records one job at a time.                                              *)
(*                                                                         *)
(* Every operation is one SQL statement, so one step; only an enqueue that *)
(* conflicts takes a second one.  A claim skips rows another statement has *)
(* locked: such a claim is the same as one made after that statement.  The *)
(* visibility window lapses at any time.                                   *)
(***************************************************************************)
EXTENDS Naturals, FiniteSets

CONSTANTS
    Jobs,          \* job ids, one per submission
    KeyOf,         \* the idempotency key of each submission
    NoKey,         \* a submission without one
    Runners,       \* runner loops, one per replica
    Nothing,       \* no job claimed
    MaxOverruns,   \* bound: windows of one job that lapse under its claimant
    MaxFaults      \* bound: crashes and failed calls

ASSUME JobsAssumption ==
    /\ Nothing \notin Jobs /\ DOMAIN KeyOf = Jobs
    /\ IsFiniteSet(Jobs) /\ IsFiniteSet(Runners)
ASSUME JobsBounds == MaxOverruns \in Nat /\ MaxFaults \in Nat

VARIABLES
    job,      \* the ledger: status, attempts, window and age; as history, the
              \* windows its claimants overran
    client,   \* each submission: its step and the job it was answered with
    runner,   \* each runner: its step, its job and the verdict it has reached
    faults    \* faults so far

vars == <<job, client, runner, faults>>

NoJob == [status |-> "none", attempts |-> 0, lapsed |-> FALSE, age |-> 0, overruns |-> 0]
IdleRunner == [pc |-> "idle", job |-> Nothing, verdict |-> "none"]

Init ==
    /\ job = [j \in Jobs |-> NoJob]
    /\ client = [j \in Jobs |-> [pc |-> "new", answer |-> Nothing]]
    /\ runner = [r \in Runners |-> IdleRunner]
    /\ faults = 0

NonTerminal == {"accepted", "running"}
Terminal == {"successful", "failed", "dismissed"}

InPlay(j) == job[j].status \in NonTerminal

Known == {j \in Jobs : job[j].status # "none"}

Holders(j) == {r \in Runners : runner[r].job = j}

-----------------------------------------------------------------------------
(* Faulty variant: a key is only taken while its job has not started.      *)
IncumbentsWaiting(j) ==
    {k \in Jobs \ {j} : job[k].status = "accepted" /\ KeyOf[k] = KeyOf[j] /\ KeyOf[j] # NoKey}

(***************************************************************************)
(* The partial unique index: the non-terminal jobs with j's key.           *)
(***************************************************************************)
Incumbents(j) ==
    {k \in Jobs \ {j} : InPlay(k) /\ KeyOf[k] = KeyOf[j] /\ KeyOf[j] # NoKey}

(***************************************************************************)
(* enqueue: INSERT ... ON CONFLICT DO NOTHING.                             *)
(***************************************************************************)
InsertJob(j) ==
    /\ client[j].pc = "new"
    /\ IF Incumbents(j) = {}
       THEN /\ job' = [job EXCEPT ![j] = [NoJob EXCEPT !.status = "accepted",
                                                       !.age = Cardinality(Known) + 1]]
            /\ client' = [client EXCEPT ![j] = [pc |-> "answered", answer |-> j]]
       ELSE client' = [client EXCEPT ![j].pc = "lookup"] /\ UNCHANGED job
    /\ UNCHANGED <<runner, faults>>

(***************************************************************************)
(* enqueue, second statement: the incumbent is read back; if it has ended  *)
(* in between, the submission is refused as a conflict.                    *)
(***************************************************************************)
LookupIncumbent(j) ==
    /\ client[j].pc = "lookup"
    /\ \/ \E k \in Incumbents(j) :
             client' = [client EXCEPT ![j] = [pc |-> "answered", answer |-> k]]
       \/ /\ Incumbents(j) = {}
          /\ client' = [client EXCEPT ![j].pc = "refused"]
    /\ UNCHANGED <<job, runner, faults>>

-----------------------------------------------------------------------------
(* Faulty variants: a started job can be claimed within its window, or     *)
(* never again.                                                            *)
ClaimableEarly(j) == InPlay(j)

ClaimableOnce(j) == job[j].status = "accepted"

(***************************************************************************)
(* A job that has not started, or whose claimant's window has lapsed.      *)
(***************************************************************************)
Claimable(j) == job[j].status = "accepted" \/ (job[j].status = "running" /\ job[j].lapsed)

(***************************************************************************)
(* claim_next: the oldest claimable job, reserved for a new window.        *)
(***************************************************************************)
Claim(r, j) ==
    /\ runner[r].pc = "idle"
    /\ Claimable(j) /\ \A k \in Jobs : Claimable(k) => job[j].age <= job[k].age
    /\ job' = [job EXCEPT ![j].status = "running", ![j].lapsed = FALSE,
                          ![j].attempts = @ + 1]
    /\ runner' = [runner EXCEPT ![r] =
           [pc |-> "execute", job |-> j, verdict |-> "none"]]
    /\ UNCHANGED <<client, faults>>

(***************************************************************************)
(* locked_until passes: its claimant is gone, or still at work.            *)
(***************************************************************************)
Lapse(j) ==
    /\ job[j].status = "running" /\ ~job[j].lapsed
    /\ \/ Holders(j) = {} /\ job' = [job EXCEPT ![j].lapsed = TRUE]
       \/ /\ Holders(j) # {} /\ job[j].overruns < MaxOverruns
          /\ job' = [job EXCEPT ![j].lapsed = TRUE, ![j].overruns = @ + 1]
    /\ UNCHANGED <<client, runner, faults>>

(***************************************************************************)
(* execute_and_record: the process succeeds or fails, then its outcome is  *)
(* recorded.                                                               *)
(***************************************************************************)
Execute(r) ==
    /\ runner[r].pc = "execute"
    /\ \E v \in {"successful", "failed"} :
          runner' = [runner EXCEPT ![r].verdict = v, ![r].pc = "record"]
    /\ UNCHANGED <<job, client, faults>>

Recorded(r) ==
    [job EXCEPT ![runner[r].job].status = runner[r].verdict,
                ![runner[r].job].lapsed = FALSE]

(* Faulty variant: an outcome is recorded whatever the job's status is.    *)
FinishAlways(r) ==
    /\ runner[r].pc = "record"
    /\ job' = Recorded(r)
    /\ runner' = [runner EXCEPT ![r] = IdleRunner]
    /\ UNCHANGED <<client, faults>>

(***************************************************************************)
(* finish: UPDATE ... WHERE job_id = $1 AND status = 'running'.  Zero rows *)
(* is logged and forgotten.                                                *)
(***************************************************************************)
Finish(r) ==
    /\ runner[r].pc = "record"
    /\ job' = IF job[runner[r].job].status = "running" THEN Recorded(r) ELSE job
    /\ runner' = [runner EXCEPT ![r] = IdleRunner]
    /\ UNCHANGED <<client, faults>>

(***************************************************************************)
(* The finish statement fails, or the replica dies and starts again: the   *)
(* job stays running until its window lapses.                              *)
(***************************************************************************)
Abandon(r) ==
    /\ runner[r].pc # "idle" /\ faults < MaxFaults
    /\ faults' = faults + 1
    /\ runner' = [runner EXCEPT ![r] = IdleRunner]
    /\ UNCHANGED <<job, client>>

(***************************************************************************)
(* dismiss_job: a job that is still in play is dismissed; a runner that is *)
(* executing it is not stopped.                                            *)
(***************************************************************************)
Dismiss(j) ==
    /\ InPlay(j)
    /\ job' = [job EXCEPT ![j].status = "dismissed", ![j].lapsed = FALSE]
    /\ UNCHANGED <<client, runner, faults>>

Next ==
    \/ \E j \in Jobs : InsertJob(j) \/ LookupIncumbent(j) \/ Lapse(j) \/ Dismiss(j)
    \/ \E r \in Runners :
          \/ \E j \in Jobs : Claim(r, j)
          \/ Execute(r)
          \/ Finish(r)
          \/ Abandon(r)

Spec == Init /\ [][Next]_vars

(***************************************************************************)
(* The runner loop ends only with its process, a process execution ends,   *)
(* and a window lapses.  Faults are finite (MaxFaults).                    *)
(***************************************************************************)
Fairness ==
    /\ \A j \in Jobs : WF_vars(Lapse(j)) /\ WF_vars(LookupIncumbent(j))
    /\ \A r \in Runners :
          /\ WF_vars(\E j \in Jobs : Claim(r, j))
          /\ WF_vars(Execute(r))
          /\ WF_vars(Finish(r))

FairSpec == Spec /\ Fairness

-----------------------------------------------------------------------------
(***************************************************************************)
(* A row of the jobs table.                                                *)
(***************************************************************************)
JobRecord ==
    [status : {"none"} \cup NonTerminal \cup Terminal, attempts : Nat, lapsed : BOOLEAN,
     age : 0..Cardinality(Jobs), overruns : 0..MaxOverruns]

(***************************************************************************)
(* The ledger, the submissions and the runners are well formed.            *)
(***************************************************************************)
TypeOK ==
    /\ job \in [Jobs -> JobRecord]
    /\ \A j \in Jobs : job[j].lapsed => job[j].status = "running"
    /\ client \in [Jobs -> [pc : {"new", "lookup", "answered", "refused"},
                            answer : Jobs \cup {Nothing}]]
    /\ runner \in [Runners -> [pc : {"idle", "execute", "record"},
                               job : Jobs \cup {Nothing},
                               verdict : {"none", "successful", "failed"}]]
    /\ faults \in 0..MaxFaults

(***************************************************************************)
(* A verdict is final: late outcomes, dismissals and new claims leave a    *)
(* terminal job alone.                                                     *)
(***************************************************************************)
VerdictKept == \A j \in Jobs : job[j].status \in Terminal => job'[j] = job[j]
VerdictIsFinal == [][VerdictKept]_vars

(***************************************************************************)
(* A job is executed by two runners at a time only when a claimant overran *)
(* its window: crashes, failed calls and dismissals never hand out a job   *)
(* that is still being worked on.                                          *)
(***************************************************************************)
OverlapOnlyByOverrun == \A j \in Jobs : Cardinality(Holders(j)) <= 1 + job[j].overruns

(***************************************************************************)
(* A job is handed out again only for an overrun window or a fault: as     *)
(* long as there is none it is executed once, however many runners poll.   *)
(***************************************************************************)
RerunOnlyByOverrunOrFault == \A j \in Jobs : job[j].attempts <= 1 + job[j].overruns + faults

(***************************************************************************)
(* Idempotent submission: submissions that carry the same key never have   *)
(* two jobs in play.                                                       *)
(***************************************************************************)
OneJobPerKey ==
    \A j, k \in Jobs :
        InPlay(j) /\ InPlay(k) /\ KeyOf[j] = KeyOf[k] /\ KeyOf[j] # NoKey => j = k

(***************************************************************************)
(* Every accepted job ends, through crashes, overrun windows and failed    *)
(* calls: once submissions stop, nothing stays in play.                    *)
(***************************************************************************)
EveryJobEnds == <>[](\A j \in Jobs : ~InPlay(j))

=============================================================================
