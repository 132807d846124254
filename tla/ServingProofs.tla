---------------------------- MODULE ServingProofs ----------------------------
(***************************************************************************)
(* Proofs about what a server process does beside answering requests from  *)
(* its drivers: the job ledger, the admission gate, webhook delivery and   *)
(* its dead letters, each for any number of jobs, runners, requests,       *)
(* subscriptions, reloads and faults.                                      *)
(*                                                                         *)
(* Jobs: verdicts are final, an idempotency key has one job in play, and   *)
(* executions are accounted for by overruns and faults.  The bounds on     *)
(* executions are not inductive: a lapsed job may be handed out once more, *)
(* so while it is lapsed, or running with nobody at work on it, it must be *)
(* one execution below its bound (HasRoom).                                *)
(***************************************************************************)
EXTENDS JobLedger, AdmissionGate, WebhookDelivery, DeadLetterRing, OutboxLogProofs

(***************************************************************************)
(* A submission that was not sent has no job; a runner that is not idle    *)
(* has one, and a verdict by the time it records.                          *)
(***************************************************************************)
ClientsMatch == \A j \in Jobs : client[j].pc = "new" => job[j].status = "none"

RunnersMatch ==
    \A r \in Runners :
        /\ runner[r].pc = "idle" <=> runner[r].job = Nothing
        /\ runner[r].pc = "record" => runner[r].verdict \in {"successful", "failed"}

(***************************************************************************)
(* The executions of a job against its overruns and faults.  A job that    *)
(* was never claimed has none; one that can be handed out again, or will   *)
(* be because its window lapses with nobody at work on it, has room left   *)
(* for one more.                                                           *)
(***************************************************************************)
Unclaimed(j) == job[j].status \in {"none", "accepted"}

HasRoom(j) ==
    /\ job[j].lapsed => Cardinality(Holders(j)) <= job[j].overruns
    /\ job[j].status = "running" /\ (job[j].lapsed \/ Holders(j) = {}) =>
          job[j].attempts <= job[j].overruns + faults

Accounted(j) ==
    /\ Unclaimed(j) => Holders(j) = {} /\ job[j].attempts = 0
    /\ HasRoom(j)
    /\ Cardinality(Holders(j)) <= 1 + job[j].overruns
    /\ job[j].attempts <= 1 + job[j].overruns + faults

JobsInv ==
    /\ TypeOK
    /\ ClientsMatch
    /\ RunnersMatch
    /\ \A j \in Jobs : Accounted(j)
    /\ OneJobPerKey

-----------------------------------------------------------------------------
(***************************************************************************)
(* The runners at work on a job are finitely many, and one more or one     *)
(* fewer of them changes their number by one.                              *)
(***************************************************************************)
LEMMA HoldersAreFinite ==
    ASSUME NEW j
    PROVE  IsFiniteSet(Holders(j)) /\ Cardinality(Holders(j)) \in Nat
  BY JobsAssumption, FS_Subset, FS_CardinalityType DEF Holders

LEMMA HoldersAreFiniteAfter ==
    ASSUME NEW j
    PROVE  IsFiniteSet(Holders(j)') /\ Cardinality(Holders(j))' \in Nat
  BY JobsAssumption, FS_Subset, FS_CardinalityType DEF Holders

LEMMA FewerHolders ==
    ASSUME NEW j, Holders(j)' \subseteq Holders(j)
    PROVE  Cardinality(Holders(j))' <= Cardinality(Holders(j))
  BY HoldersAreFinite, FS_Subset

LEMMA OneMoreHolder ==
    ASSUME NEW j, NEW r, Holders(j)' = Holders(j) \cup {r}
    PROVE  Cardinality(Holders(j))' <= Cardinality(Holders(j)) + 1
  BY HoldersAreFinite, FS_AddElement

LEMMA NoHolders == ASSUME NEW j, Holders(j) = {} PROVE Cardinality(Holders(j)) = 0
  BY FS_EmptySet

LEMMA NoHoldersAfter == ASSUME NEW j, Holders(j)' = {} PROVE Cardinality(Holders(j))' = 0
  BY FS_EmptySet

(***************************************************************************)
(* The age a new job gets is a place in the order of submissions.          *)
(***************************************************************************)
LEMMA AgeIsAPlace ==
    ASSUME NEW j \in Jobs, job[j].status = "none"
    PROVE  Cardinality(Known) + 1 \in 0..Cardinality(Jobs)
<1>1. IsFiniteSet(Jobs) /\ Cardinality(Jobs) \in Nat
  BY JobsAssumption, FS_CardinalityType
<1>2. IsFiniteSet(Jobs \ {j}) /\ Cardinality(Jobs \ {j}) = Cardinality(Jobs) - 1
  BY <1>1, FS_RemoveElement
<1>3. Known \subseteq Jobs \ {j}
  BY DEF Known
<1>4. Cardinality(Known) \in Nat /\ Cardinality(Known) <= Cardinality(Jobs \ {j})
  BY <1>2, <1>3, FS_Subset, FS_CardinalityType
<1> QED
  BY <1>1, <1>2, <1>4

-----------------------------------------------------------------------------
LEMMA InitTypeOK == Init => TypeOK
<1> SUFFICES ASSUME Init PROVE TypeOK
  OBVIOUS
<1>1. 0 \in 0..Cardinality(Jobs) /\ 0 \in 0..MaxOverruns /\ 0 \in 0..MaxFaults
  BY JobsAssumption, JobsBounds, FS_CardinalityType
<1> QED
  BY <1>1 DEF Init, TypeOK, JobRecord, NoJob, IdleRunner, NonTerminal, Terminal

LEMMA InitJobsInv == Init => JobsInv
<1> SUFFICES ASSUME Init PROVE JobsInv
  OBVIOUS
<1>1. \A j \in Jobs : job[j] = NoJob /\ Holders(j) = {}
  BY JobsAssumption DEF Init, Holders, IdleRunner
<1>2. \A j \in Jobs : Cardinality(Holders(j)) = 0
  BY <1>1, NoHolders
<1>3. ClientsMatch /\ RunnersMatch
  BY DEF Init, ClientsMatch, RunnersMatch, NoJob, IdleRunner
<1>4. faults = 0 /\ \A j \in Jobs : Accounted(j)
  BY <1>1, <1>2 DEF Init, Accounted, HasRoom, Unclaimed, NoJob
<1>5. OneJobPerKey
  BY <1>1 DEF OneJobPerKey, InPlay, NonTerminal, NoJob
<1> QED
  BY <1>3, <1>4, <1>5, InitTypeOK DEF JobsInv

-----------------------------------------------------------------------------
(***************************************************************************)
(* A step that rewrites one row keeps the ledger well formed.              *)
(***************************************************************************)
LEMMA RowRewritten ==
    ASSUME TypeOK, NEW j \in Jobs, NEW rec \in JobRecord,
           rec.lapsed => rec.status = "running", job' = [job EXCEPT ![j] = rec]
    PROVE  /\ job' \in [Jobs -> JobRecord]
           /\ \A k \in Jobs : job'[k].lapsed => job'[k].status = "running"
<1>1. job' \in [Jobs -> JobRecord]
  BY DEF TypeOK
<1>2. ASSUME NEW k \in Jobs PROVE job'[k] = IF k = j THEN rec ELSE job[k]
  BY DEF TypeOK
<1>3. \A k \in Jobs : job[k].lapsed => job[k].status = "running"
  BY DEF TypeOK
<1> QED
  BY <1>1, <1>2, <1>3

(***************************************************************************)
(* Type correctness, action by action.                                     *)
(***************************************************************************)
LEMMA TypeStep == JobsInv /\ [Next]_vars => TypeOK'
<1> SUFFICES ASSUME JobsInv, [Next]_vars PROVE TypeOK'
  OBVIOUS
<1>0. TypeOK /\ ClientsMatch /\ RunnersMatch
  BY DEF JobsInv
<1>r. \A j \in Jobs : job[j] \in JobRecord
  BY <1>0 DEF TypeOK
<1>1. ASSUME NEW j \in Jobs, InsertJob(j) PROVE TypeOK'
  <2>1. CASE Incumbents(j) = {}
    <3> DEFINE rec == [NoJob EXCEPT !.status = "accepted", !.age = Cardinality(Known) + 1]
    <3>1. Cardinality(Known) + 1 \in 0..Cardinality(Jobs) /\ 0 \in 0..MaxOverruns
      BY <1>0, <1>1, AgeIsAPlace, JobsBounds DEF ClientsMatch, InsertJob
    <3>2. rec \in JobRecord /\ ~rec.lapsed
      BY <3>1 DEF JobRecord, NoJob, NonTerminal
    <3>3. job' = [job EXCEPT ![j] = rec]
      BY <1>1, <2>1 DEF InsertJob
    <3> HIDE DEF rec
    <3> QED
      BY <1>0, <1>1, <2>1, <3>2, <3>3, RowRewritten DEF InsertJob, TypeOK
  <2>2. CASE Incumbents(j) # {}
    BY <1>0, <1>1, <2>2 DEF InsertJob, TypeOK
  <2> QED
    BY <2>1, <2>2
<1>2. ASSUME NEW j \in Jobs, LookupIncumbent(j) PROVE TypeOK'
  BY <1>0, <1>2 DEF LookupIncumbent, Incumbents, TypeOK
<1>3. ASSUME NEW j \in Jobs, Lapse(j) PROVE TypeOK'
  <2> DEFINE rec(n) == [job[j] EXCEPT !.lapsed = TRUE, !.overruns = n]
  <2>1. PICK n \in 0..MaxOverruns : job' = [job EXCEPT ![j] = rec(n)]
    <3>1. CASE Holders(j) = {} /\ job' = [job EXCEPT ![j].lapsed = TRUE]
      <4>1. [job[j] EXCEPT !.lapsed = TRUE] = rec(job[j].overruns)
        BY <1>r DEF JobRecord
      <4> QED
        BY <1>r, <3>1, <4>1 DEF JobRecord
    <3>2. CASE job[j].overruns < MaxOverruns
               /\ job' = [job EXCEPT ![j].lapsed = TRUE, ![j].overruns = @ + 1]
      <4>1. job[j].overruns + 1 \in 0..MaxOverruns
        BY <1>r, <3>2, JobsBounds DEF JobRecord
      <4>2. job' = [job EXCEPT ![j] = rec(job[j].overruns + 1)]
        BY <1>0, <3>2 DEF TypeOK
      <4> QED
        BY <4>1, <4>2
    <3> QED
      BY <1>3, <3>1, <3>2 DEF Lapse
  <2>2. rec(n) \in JobRecord /\ rec(n).status = "running"
    BY <1>3, <1>r DEF JobRecord, Lapse
  <2> HIDE DEF rec
  <2> QED
    BY <1>0, <1>3, <2>1, <2>2, RowRewritten DEF Lapse, TypeOK
<1>4. ASSUME NEW j \in Jobs, Dismiss(j) PROVE TypeOK'
  <2> DEFINE rec == [job[j] EXCEPT !.status = "dismissed", !.lapsed = FALSE]
  <2>1. rec \in JobRecord /\ ~rec.lapsed
    BY <1>r DEF JobRecord, Terminal
  <2>2. job' = [job EXCEPT ![j] = rec]
    BY <1>0, <1>4 DEF Dismiss, TypeOK
  <2> HIDE DEF rec
  <2> QED
    BY <1>0, <1>4, <2>1, <2>2, RowRewritten DEF Dismiss, TypeOK
<1>5. ASSUME NEW r \in Runners, NEW j \in Jobs, Claim(r, j) PROVE TypeOK'
  <2> DEFINE n == job[j].attempts + 1
             rec == [job[j] EXCEPT !.status = "running", !.lapsed = FALSE, !.attempts = n]
  <2>0. n \in Nat
    BY <1>r DEF JobRecord
  <2>1. rec \in JobRecord /\ ~rec.lapsed
    <3> HIDE DEF n
    <3> QED
      BY <1>r, <2>0 DEF JobRecord, NonTerminal
  <2>2. job' = [job EXCEPT ![j] = rec]
    BY <1>0, <1>5 DEF Claim, TypeOK
  <2> HIDE DEF rec
  <2> QED
    BY <1>0, <1>5, <2>1, <2>2, RowRewritten DEF Claim, TypeOK
<1>6. ASSUME NEW r \in Runners, Execute(r) PROVE TypeOK'
  BY <1>0, <1>6 DEF Execute, TypeOK
<1>7. ASSUME NEW r \in Runners, Finish(r) PROVE TypeOK'
  <2> DEFINE j == runner[r].job
             rec == [job[j] EXCEPT !.status = runner[r].verdict, !.lapsed = FALSE]
  <2>0. j \in Jobs /\ runner[r].verdict \in {"successful", "failed"}
    BY <1>0, <1>7 DEF Finish, RunnersMatch, TypeOK
  <2>1. rec \in JobRecord /\ ~rec.lapsed
    BY <1>r, <2>0 DEF JobRecord, Terminal
  <2>2. job' = job \/ job' = [job EXCEPT ![j] = rec]
    BY <1>0, <1>7, <2>0 DEF Finish, Recorded, TypeOK
  <2>3. job' \in [Jobs -> JobRecord]
        /\ \A k \in Jobs : job'[k].lapsed => job'[k].status = "running"
    <3> HIDE DEF rec, j
    <3>1. CASE job' = job
      BY <1>0, <3>1 DEF TypeOK
    <3>2. CASE job' = [job EXCEPT ![j] = rec]
      BY <1>0, <2>0, <2>1, <3>2, RowRewritten
    <3> QED
      BY <2>2, <3>1, <3>2
  <2> QED
    BY <1>0, <1>7, <2>3 DEF Finish, IdleRunner, TypeOK
<1>8. ASSUME NEW r \in Runners, Abandon(r) PROVE TypeOK'
  <2>1. faults + 1 \in 0..MaxFaults
    BY <1>0, <1>8, JobsBounds DEF Abandon, TypeOK
  <2> QED
    BY <1>0, <1>8, <2>1 DEF Abandon, IdleRunner, TypeOK
<1>9. CASE UNCHANGED vars
  BY <1>0, <1>9 DEF vars, TypeOK
<1> QED
  BY <1>1, <1>2, <1>3, <1>4, <1>5, <1>6, <1>7, <1>8, <1>9 DEF Next

-----------------------------------------------------------------------------
(***************************************************************************)
(* What each kind of step does to the rows and to who is at work on them.  *)
(***************************************************************************)
LEMMA HoldersUnchanged ==
    ASSUME NEW j, UNCHANGED runner
    PROVE  Holders(j)' = Holders(j)
  BY DEF Holders

LEMMA MatchStep == JobsInv /\ [Next]_vars => ClientsMatch' /\ RunnersMatch'
<1> SUFFICES ASSUME JobsInv, [Next]_vars PROVE ClientsMatch' /\ RunnersMatch'
  OBVIOUS
<1> USE DEF ClientsMatch, RunnersMatch
<1>0. TypeOK /\ ClientsMatch /\ RunnersMatch
  BY DEF JobsInv
<1>1. ASSUME NEW j \in Jobs, InsertJob(j) PROVE ClientsMatch' /\ RunnersMatch'
  BY <1>0, <1>1 DEF InsertJob, TypeOK
<1>2. ASSUME NEW j \in Jobs, LookupIncumbent(j) PROVE ClientsMatch' /\ RunnersMatch'
  BY <1>0, <1>2 DEF LookupIncumbent, TypeOK
<1>3. ASSUME NEW j \in Jobs, Lapse(j) PROVE ClientsMatch' /\ RunnersMatch'
  BY <1>0, <1>3 DEF Lapse, TypeOK, JobRecord
<1>4. ASSUME NEW j \in Jobs, Dismiss(j) PROVE ClientsMatch' /\ RunnersMatch'
  BY <1>0, <1>4 DEF Dismiss, InPlay, NonTerminal, TypeOK, JobRecord
<1>5. ASSUME NEW r \in Runners, NEW j \in Jobs, Claim(r, j)
      PROVE  ClientsMatch' /\ RunnersMatch'
  BY <1>0, <1>5, JobsAssumption DEF Claim, Claimable, TypeOK, JobRecord
<1>6. ASSUME NEW r \in Runners, Execute(r) PROVE ClientsMatch' /\ RunnersMatch'
  BY <1>0, <1>6 DEF Execute, TypeOK
<1>7. ASSUME NEW r \in Runners, Finish(r) PROVE ClientsMatch' /\ RunnersMatch'
  <2>1. runner[r].job \in Jobs
    BY <1>0, <1>7 DEF Finish, TypeOK
  <2>2. ClientsMatch'
    BY <1>0, <1>7, <2>1 DEF Finish, Recorded, TypeOK, JobRecord
  <2>3. RunnersMatch'
    BY <1>0, <1>7 DEF Finish, IdleRunner, TypeOK
  <2> QED
    BY <2>2, <2>3
<1>8. ASSUME NEW r \in Runners, Abandon(r) PROVE ClientsMatch' /\ RunnersMatch'
  BY <1>0, <1>8 DEF Abandon, IdleRunner, TypeOK
<1>9. CASE UNCHANGED vars
  BY <1>0, <1>9 DEF vars
<1> QED
  BY <1>1, <1>2, <1>3, <1>4, <1>5, <1>6, <1>7, <1>8, <1>9 DEF Next

-----------------------------------------------------------------------------
LEMMA Numbers ==
    ASSUME TypeOK
    PROVE  /\ faults \in Nat
           /\ \A j \in Jobs : job[j].attempts \in Nat /\ job[j].overruns \in Nat
  BY JobsBounds DEF TypeOK, JobRecord

(***************************************************************************)
(* A job that a step leaves alone stays accounted for; a fault elsewhere   *)
(* only gives it more room.                                                *)
(***************************************************************************)
LEMMA LeftAlone ==
    ASSUME TypeOK, NEW k \in Jobs, Accounted(k), job'[k] = job[k],
           Holders(k)' = Holders(k), faults' \in Nat, faults <= faults'
    PROVE  Accounted(k)'
<1>1. faults \in Nat /\ job[k].attempts \in Nat /\ job[k].overruns \in Nat
  BY Numbers
<1>2. Cardinality(Holders(k))' = Cardinality(Holders(k)) /\ Cardinality(Holders(k)) \in Nat
  BY HoldersAreFinite
<1> QED
  BY <1>1, <1>2 DEF Accounted, HasRoom, Unclaimed

LEMMA AccountStep == JobsInv /\ [Next]_vars => \A k \in Jobs : Accounted(k)'
<1> SUFFICES ASSUME JobsInv, [Next]_vars, NEW k \in Jobs PROVE Accounted(k)'
  OBVIOUS
<1>0. TypeOK /\ TypeOK' /\ ClientsMatch /\ RunnersMatch /\ Accounted(k)
  BY TypeStep DEF JobsInv
<1>n. /\ faults \in Nat /\ job[k].attempts \in Nat /\ job[k].overruns \in Nat
      /\ Cardinality(Holders(k)) \in Nat
  BY <1>0, Numbers, HoldersAreFinite
<1>1. ASSUME NEW j \in Jobs, InsertJob(j) PROVE Accounted(k)'
  <2>1. Holders(k)' = Holders(k) /\ faults' = faults
    BY <1>1, HoldersUnchanged DEF InsertJob
  <2>2. CASE job'[k] = job[k]
    BY <1>0, <1>n, <2>1, <2>2, LeftAlone
  <2>3. CASE job'[k] # job[k]
    <3>1. k = j /\ job[k].status = "none"
      BY <1>0, <1>1, <2>3 DEF InsertJob, ClientsMatch, TypeOK
    <3>2. Holders(k)' = {} /\ Cardinality(Holders(k))' = 0
      BY <1>0, <2>1, <3>1, NoHoldersAfter DEF Accounted, Unclaimed
    <3>3. /\ job'[k].status = "accepted" /\ ~job'[k].lapsed
          /\ job'[k].attempts = 0 /\ job'[k].overruns = 0
      <4>1. job'[k] = [NoJob EXCEPT !.status = "accepted", !.age = Cardinality(Known) + 1]
        BY <1>0, <1>1, <2>3, <3>1 DEF InsertJob, TypeOK
      <4> QED
        BY <4>1 DEF NoJob
    <3> QED
      BY <1>n, <2>1, <3>2, <3>3 DEF Accounted, HasRoom, Unclaimed
  <2> QED
    BY <2>2, <2>3
<1>2. ASSUME NEW j \in Jobs, LookupIncumbent(j) PROVE Accounted(k)'
  BY <1>0, <1>n, <1>2, HoldersUnchanged, LeftAlone DEF LookupIncumbent
<1>3. ASSUME NEW j \in Jobs, Lapse(j) PROVE Accounted(k)'
  <2>1. /\ Holders(k)' = Holders(k) /\ faults' = faults
        /\ Cardinality(Holders(k))' = Cardinality(Holders(k))
    BY <1>3, HoldersUnchanged DEF Lapse
  <2>2. CASE k # j
    <3>1. job'[k] = job[k]
      BY <1>0, <1>3, <2>2 DEF Lapse, TypeOK
    <3> QED
      BY <1>0, <1>n, <2>1, <3>1, LeftAlone
  <2>3. CASE k = j
    <3>1. job[k].status = "running" /\ job'[k].status = "running" /\ ~job[k].lapsed
          /\ job'[k].attempts = job[k].attempts
      BY <1>0, <1>3, <2>3 DEF Lapse, TypeOK, JobRecord
    <3>2. CASE Holders(k) = {} /\ job'[k].overruns = job[k].overruns
      <4>1. Cardinality(Holders(k)) = 0
        BY <3>2, NoHolders
      <4> QED
        BY <1>0, <1>n, <2>1, <3>1, <3>2, <4>1 DEF Accounted, HasRoom, Unclaimed
    <3>3. CASE job'[k].overruns = job[k].overruns + 1
      BY <1>0, <1>n, <2>1, <3>1, <3>3 DEF Accounted, HasRoom, Unclaimed
    <3>4. \/ Holders(k) = {} /\ job'[k].overruns = job[k].overruns
          \/ job'[k].overruns = job[k].overruns + 1
      BY <1>0, <1>3, <2>3 DEF Lapse, TypeOK, JobRecord
    <3> QED
      BY <3>2, <3>3, <3>4
  <2> QED
    BY <2>2, <2>3
<1>4. ASSUME NEW j \in Jobs, Dismiss(j) PROVE Accounted(k)'
  <2>1. /\ Holders(k)' = Holders(k) /\ faults' = faults
        /\ Cardinality(Holders(k))' = Cardinality(Holders(k))
    BY <1>4, HoldersUnchanged DEF Dismiss
  <2>2. CASE k # j
    <3>1. job'[k] = job[k]
      BY <1>0, <1>4, <2>2 DEF Dismiss, TypeOK
    <3> QED
      BY <1>0, <1>n, <2>1, <3>1, LeftAlone
  <2>3. CASE k = j
    <3>1. /\ job'[k].status = "dismissed" /\ ~job'[k].lapsed
          /\ job'[k].attempts = job[k].attempts /\ job'[k].overruns = job[k].overruns
      BY <1>0, <1>4, <2>3 DEF Dismiss, TypeOK, JobRecord
    <3> QED
      BY <1>0, <1>n, <2>1, <3>1 DEF Accounted, HasRoom, Unclaimed
  <2> QED
    BY <2>2, <2>3
<1>5. ASSUME NEW r \in Runners, NEW j \in Jobs, Claim(r, j) PROVE Accounted(k)'
  <2>0. runner[r].job = Nothing /\ faults' = faults
    BY <1>0, <1>5 DEF Claim, RunnersMatch
  <2>1. \A q \in Runners : runner'[q].job = IF q = r THEN j ELSE runner[q].job
    BY <1>0, <1>5 DEF Claim, TypeOK
  <2>2. CASE k # j
    <3>1. job'[k] = job[k]
      BY <1>0, <1>5, <2>2 DEF Claim, TypeOK
    <3>2. Holders(k)' = Holders(k)
      BY <2>0, <2>1, <2>2, JobsAssumption DEF Holders
    <3> QED
      BY <1>0, <1>n, <2>0, <3>1, <3>2, LeftAlone
  <2>3. CASE k = j
    <3>1. /\ job'[k].status = "running" /\ ~job'[k].lapsed
          /\ job'[k].attempts = job[k].attempts + 1 /\ job'[k].overruns = job[k].overruns
      BY <1>0, <1>5, <2>3 DEF Claim, TypeOK, JobRecord
    <3>2. Holders(k)' = Holders(k) \cup {r}
      BY <2>1, <2>3 DEF Holders
    <3>3. /\ Holders(k)' # {} /\ Cardinality(Holders(k))' \in Nat
          /\ Cardinality(Holders(k))' <= Cardinality(Holders(k)) + 1
      BY <3>2, OneMoreHolder, HoldersAreFiniteAfter
    <3>4. CASE job[k].status = "accepted"
      <4>1. Cardinality(Holders(k)) = 0 /\ job[k].attempts = 0
        BY <1>0, <3>4, NoHolders DEF Accounted, Unclaimed
      <4> QED
        BY <1>n, <2>0, <3>1, <3>3, <4>1 DEF Accounted, HasRoom, Unclaimed
    <3>5. CASE job[k].status = "running" /\ job[k].lapsed
      <4>1. /\ Cardinality(Holders(k)) <= job[k].overruns
            /\ job[k].attempts <= job[k].overruns + faults
        BY <1>0, <3>5 DEF Accounted, HasRoom
      <4> QED
        BY <1>n, <2>0, <3>1, <3>3, <4>1 DEF Accounted, HasRoom, Unclaimed
    <3> QED
      BY <1>5, <2>3, <3>4, <3>5 DEF Claim, Claimable
  <2> QED
    BY <2>2, <2>3
<1>6. ASSUME NEW r \in Runners, Execute(r) PROVE Accounted(k)'
  <2>1. Holders(k)' = Holders(k)
    BY <1>0, <1>6 DEF Execute, Holders, TypeOK
  <2> QED
    BY <1>0, <1>n, <1>6, <2>1, LeftAlone DEF Execute
<1>h. ASSUME NEW r \in Runners, runner' = [runner EXCEPT ![r] = IdleRunner]
      PROVE  Holders(k)' = Holders(k) \ {r}
  <2>1. \A q \in Runners : runner'[q].job = IF q = r THEN Nothing ELSE runner[q].job
    BY <1>0, <1>h DEF TypeOK, IdleRunner
  <2> QED
    BY <2>1, JobsAssumption DEF Holders
<1>7. ASSUME NEW r \in Runners, Finish(r) PROVE Accounted(k)'
  <2>1. Holders(k)' = Holders(k) \ {r} /\ faults' = faults
    BY <1>7, <1>h DEF Finish
  <2>2. CASE k # runner[r].job
    <3>1. job'[k] = job[k]
      BY <1>0, <1>7, <2>2 DEF Finish, Recorded, TypeOK
    <3>2. Holders(k)' = Holders(k)
      BY <2>1, <2>2 DEF Holders
    <3> QED
      BY <1>0, <1>n, <2>1, <3>1, <3>2, LeftAlone
  <2>3. CASE k = runner[r].job
    <3>1. ~Unclaimed(k)
      BY <1>0, <2>3 DEF Accounted, Holders
    <3>2. /\ job'[k].status \notin {"none", "accepted", "running"}
          /\ job'[k].attempts = job[k].attempts /\ job'[k].overruns = job[k].overruns
      BY <1>0, <1>7, <2>3, <3>1 DEF Finish, Recorded, RunnersMatch, Unclaimed, TypeOK, JobRecord
    <3>3. ~job'[k].lapsed
      BY <1>0, <3>2 DEF TypeOK, JobRecord
    <3>4. /\ Cardinality(Holders(k))' \in Nat
          /\ Cardinality(Holders(k))' <= Cardinality(Holders(k))
      BY <2>1, FewerHolders, HoldersAreFiniteAfter
    <3> QED
      BY <1>0, <1>n, <2>1, <3>2, <3>3, <3>4 DEF Accounted, HasRoom, Unclaimed
  <2> QED
    BY <2>2, <2>3
<1>8. ASSUME NEW r \in Runners, Abandon(r) PROVE Accounted(k)'
  <2>1. Holders(k)' = Holders(k) \ {r} /\ faults' = faults + 1 /\ job' = job
    BY <1>8, <1>h DEF Abandon
  <2>2. CASE k # runner[r].job
    <3>1. Holders(k)' = Holders(k)
      BY <2>1, <2>2 DEF Holders
    <3> QED
      BY <1>0, <1>n, <2>1, <3>1, LeftAlone
  <2>3. CASE k = runner[r].job
    <3>1. ~Unclaimed(k)
      BY <1>0, <2>3 DEF Accounted, Holders
    <3>2. /\ Cardinality(Holders(k))' \in Nat
          /\ Cardinality(Holders(k))' <= Cardinality(Holders(k))
      BY <2>1, FewerHolders, HoldersAreFiniteAfter
    <3> QED
      BY <1>0, <1>n, <2>1, <3>1, <3>2 DEF Accounted, HasRoom, Unclaimed
  <2> QED
    BY <2>2, <2>3
<1>9. CASE UNCHANGED vars
  BY <1>0, <1>n, <1>9, HoldersUnchanged, LeftAlone DEF vars
<1> QED
  BY <1>1, <1>2, <1>3, <1>4, <1>5, <1>6, <1>7, <1>8, <1>9 DEF Next

-----------------------------------------------------------------------------
(***************************************************************************)
(* No step puts a job in play but the insertion of a new one.              *)
(***************************************************************************)
LEMMA KeyStep == JobsInv /\ [Next]_vars => OneJobPerKey'
<1> SUFFICES ASSUME JobsInv, [Next]_vars PROVE OneJobPerKey'
  OBVIOUS
<1>0. TypeOK /\ ClientsMatch /\ RunnersMatch /\ OneJobPerKey
  BY DEF JobsInv
<1>1. ASSUME NEW j \in Jobs, InsertJob(j), Incumbents(j) = {} PROVE OneJobPerKey'
  <2>1. \A k \in Jobs \ {j} : InPlay(k)' => InPlay(k)
    BY <1>0, <1>1 DEF InsertJob, InPlay, TypeOK
  <2> QED
    BY <1>0, <1>1, <2>1 DEF OneJobPerKey, Incumbents
<1>2. ASSUME \A k \in Jobs : InPlay(k)' => InPlay(k) PROVE OneJobPerKey'
  BY <1>0, <1>2 DEF OneJobPerKey
<1>3. ASSUME NEW j \in Jobs, InsertJob(j), Incumbents(j) # {} PROVE OneJobPerKey'
  BY <1>2, <1>3 DEF InsertJob, InPlay
<1>4. ASSUME NEW j \in Jobs, LookupIncumbent(j) PROVE OneJobPerKey'
  BY <1>2, <1>4 DEF LookupIncumbent, InPlay
<1>5. ASSUME NEW j \in Jobs, Lapse(j) PROVE OneJobPerKey'
  <2>1. \A k \in Jobs : job'[k].status = job[k].status
    BY <1>0, <1>5 DEF Lapse, TypeOK, JobRecord
  <2> QED
    BY <1>2, <2>1 DEF InPlay
<1>6. ASSUME NEW j \in Jobs, Dismiss(j) PROVE OneJobPerKey'
  <2>1. \A k \in Jobs : job'[k].status \in {job[k].status, "dismissed"}
    BY <1>0, <1>6 DEF Dismiss, TypeOK, JobRecord
  <2> QED
    BY <1>2, <2>1 DEF InPlay, NonTerminal
<1>7. ASSUME NEW r \in Runners, NEW j \in Jobs, Claim(r, j) PROVE OneJobPerKey'
  <2>1. \A k \in Jobs : job'[k].status = job[k].status \/ (k = j /\ InPlay(j))
    BY <1>0, <1>7 DEF Claim, Claimable, InPlay, NonTerminal, TypeOK, JobRecord
  <2> QED
    BY <1>2, <2>1 DEF InPlay
<1>8. ASSUME NEW r \in Runners, Execute(r) PROVE OneJobPerKey'
  BY <1>2, <1>8 DEF Execute, InPlay
<1>9. ASSUME NEW r \in Runners, Finish(r) PROVE OneJobPerKey'
  <2>1. \A k \in Jobs : job'[k].status \in {job[k].status, "successful", "failed"}
    BY <1>0, <1>9 DEF Finish, Recorded, RunnersMatch, TypeOK, JobRecord
  <2> QED
    BY <1>2, <2>1 DEF InPlay, NonTerminal
<1>10. ASSUME NEW r \in Runners, Abandon(r) PROVE OneJobPerKey'
  BY <1>2, <1>10 DEF Abandon, InPlay
<1>11. CASE UNCHANGED vars
  BY <1>2, <1>11 DEF vars, InPlay
<1> QED
  BY <1>1, <1>3, <1>4, <1>5, <1>6, <1>7, <1>8, <1>9, <1>10, <1>11 DEF Next

-----------------------------------------------------------------------------
(***************************************************************************)
(* The inductive invariant of the ledger, the submissions and the runners. *)
(***************************************************************************)
THEOREM JobsInvariance == Spec => []JobsInv
<1>1. JobsInv /\ [Next]_vars => JobsInv'
  BY TypeStep, MatchStep, AccountStep, KeyStep DEF JobsInv
<1> QED
  BY InitJobsInv, <1>1, PTL DEF Spec

(***************************************************************************)
(* The rows of job_sql.rs, the submissions and the runners are well formed *)
(* in every behaviour.                                                     *)
(***************************************************************************)
THEOREM JobsTypeCorrect == Spec => []TypeOK
<1>1. JobsInv => TypeOK
  BY DEF JobsInv
<1> QED
  BY JobsInvariance, <1>1, PTL

(***************************************************************************)
(* Idempotent submission: enqueue never puts two jobs of one key in play.  *)
(***************************************************************************)
THEOREM KeysAreExclusive == Spec => []OneJobPerKey
<1>1. JobsInv => OneJobPerKey
  BY DEF JobsInv
<1> QED
  BY JobsInvariance, <1>1, PTL

(***************************************************************************)
(* Two runners execute one job only if a claimant overran its window.      *)
(***************************************************************************)
THEOREM OverlapsAreOverruns == Spec => []OverlapOnlyByOverrun
<1>1. JobsInv => OverlapOnlyByOverrun
  BY DEF JobsInv, Accounted, OverlapOnlyByOverrun
<1> QED
  BY JobsInvariance, <1>1, PTL

(***************************************************************************)
(* claim_next hands a job out again only for an overrun window or a fault. *)
(***************************************************************************)
THEOREM RerunsAreAccounted == Spec => []RerunOnlyByOverrunOrFault
<1>1. JobsInv => RerunOnlyByOverrunOrFault
  BY DEF JobsInv, Accounted, RerunOnlyByOverrunOrFault
<1> QED
  BY JobsInvariance, <1>1, PTL

(***************************************************************************)
(* Late outcomes, dismissals and claims leave a terminal job alone.        *)
(***************************************************************************)
THEOREM VerdictsAreFinal == Spec => VerdictIsFinal
<1>1. JobsInv /\ [Next]_vars => [VerdictKept]_vars
  <2> SUFFICES ASSUME JobsInv, [Next]_vars, NEW k \in Jobs, job[k].status \in Terminal
               PROVE  job'[k] = job[k]
    BY DEF VerdictKept
  <2>0. TypeOK /\ ClientsMatch
    BY DEF JobsInv
  <2>s. job[k].status \notin {"none", "accepted", "running"}
    BY DEF Terminal
  <2>1. ASSUME NEW j \in Jobs, InsertJob(j) PROVE job'[k] = job[k]
    BY <2>0, <2>s, <2>1 DEF InsertJob, ClientsMatch, TypeOK
  <2>2. ASSUME NEW j \in Jobs, LookupIncumbent(j) PROVE job'[k] = job[k]
    BY <2>2 DEF LookupIncumbent
  <2>3. ASSUME NEW j \in Jobs, Lapse(j) PROVE job'[k] = job[k]
    BY <2>0, <2>s, <2>3 DEF Lapse, TypeOK
  <2>4. ASSUME NEW j \in Jobs, Dismiss(j) PROVE job'[k] = job[k]
    BY <2>0, <2>s, <2>4 DEF Dismiss, InPlay, NonTerminal, TypeOK
  <2>5. ASSUME NEW r \in Runners, NEW j \in Jobs, Claim(r, j) PROVE job'[k] = job[k]
    BY <2>0, <2>s, <2>5 DEF Claim, Claimable, TypeOK
  <2>6. ASSUME NEW r \in Runners, Execute(r) PROVE job'[k] = job[k]
    BY <2>6 DEF Execute
  <2>7. ASSUME NEW r \in Runners, Finish(r) PROVE job'[k] = job[k]
    BY <2>0, <2>s, <2>7 DEF Finish, Recorded, TypeOK
  <2>8. ASSUME NEW r \in Runners, Abandon(r) PROVE job'[k] = job[k]
    BY <2>8 DEF Abandon
  <2>9. CASE UNCHANGED vars
    BY <2>9 DEF vars
  <2> QED
    BY <2>1, <2>2, <2>3, <2>4, <2>5, <2>6, <2>7, <2>8, <2>9 DEF Next
<1> QED
  BY <1>1, JobsInvariance, PTL DEF Spec, VerdictIsFinal

-----------------------------------------------------------------------------
(***************************************************************************)
(* The gate, for any number of requests, reloads and departures.           *)
(*                                                                         *)
(* What must not happen is that all slots are free, a request is stuck in  *)
(* its wait, and nobody is left to wake it.  A request counts as stuck     *)
(* from the poll that is bound to park it, and one that notify_waiters     *)
(* has called does not count as help, because its deadline may end it      *)
(* without passing anything on.                                            *)
(***************************************************************************)
Stuck(r) == pc[r] = "parked" \/ (pc[r] = "poll" /\ ~permit /\ seen[r] = epoch)

Helps(r) ==
    \/ pc[r] \in {"loop", "try", "notified", "released"}
    \/ pc[r] = "poll" /\ (permit \/ seen[r] # epoch)

HelpIsLeft ==
    active = 0 /\ (\E r \in Requests : Stuck(r)) => reloading \/ \E r \in Requests : Helps(r)

Holding == {"running", "admitted"}

Counted == Queued \cup {"dropped"}

GateSteps ==
    Waiting \cup {"idle", "enqueue", "full", "admitted", "expired", "running", "released",
                  "done", "rejected", "dropped"}

Bounds ==
    /\ limit \in Limits /\ capacity \in Capacities
    /\ permit \in BOOLEAN /\ reloading \in BOOLEAN
    /\ epoch \in 0..MaxReloads /\ gone \in 0..MaxDisconnects
    /\ pc \in [Requests -> GateSteps] /\ seen \in [Requests -> 0..MaxReloads]
    /\ \A r \in Requests : seen[r] <= epoch
    /\ permit => waiters = <<>>
    /\ reloading => epoch < MaxReloads

Counts ==
    /\ IsFiniteSet(At(Holding)) /\ active = Cardinality(At(Holding))
    /\ IsFiniteSet(At(Counted)) /\ depth = Cardinality(At(Counted))

(***************************************************************************)
(* ws registers exactly the requests of P, each once.                      *)
(***************************************************************************)
Registers(ws, P) ==
    /\ ws \in Seq(Requests)
    /\ \A r \in Requests : r \in P <=> \E i \in 1..Len(ws) : ws[i] = r
    /\ \A i, j \in 1..Len(ws) : ws[i] = ws[j] => i = j

Parked == At({"parked"})

GateInv == Bounds /\ Counts /\ Registers(waiters, Parked) /\ HelpIsLeft

-----------------------------------------------------------------------------
LEMMA NobodyRegistered ==
    ASSUME NEW ws, NEW P \in SUBSET Requests, Registers(ws, P)
    PROVE  ws = <<>> <=> P = {}
<1>1. ws = <<>> => P = {}
  BY DEF Registers
<1>2. ASSUME ws # <<>> PROVE P # {}
  <2>1. 1 \in 1..Len(ws) /\ ws[1] \in Requests
    BY <1>2 DEF Registers
  <2> QED
    BY <2>1 DEF Registers
<1> QED
  BY <1>1, <1>2

LEMMA AppendRegisters ==
    ASSUME NEW ws, NEW P \in SUBSET Requests, Registers(ws, P), NEW r \in Requests, r \notin P
    PROVE  Registers(Append(ws, r), P \cup {r})
<1>1. /\ ws \in Seq(Requests) /\ Len(ws) \in Nat
      /\ Append(ws, r) \in Seq(Requests) /\ Len(Append(ws, r)) = Len(ws) + 1
      /\ \A i \in 1..Len(ws) : Append(ws, r)[i] = ws[i] /\ ws[i] \in Requests
      /\ Append(ws, r)[Len(ws) + 1] = r
  BY DEF Registers
<1>2. PICK xs : xs = Append(ws, r)
  OBVIOUS
<1>3. \A i \in 1..Len(xs) : i \in 1..Len(ws) \/ i = Len(ws) + 1
  BY <1>1, <1>2
<1>4. \A q \in Requests : q \in P \cup {r} <=> \E i \in 1..Len(xs) : xs[i] = q
  BY <1>1, <1>2, <1>3 DEF Registers
<1>5. \A i \in 1..Len(ws) : ws[i] # r
  BY <1>1 DEF Registers
<1>6. \A i, j \in 1..Len(xs) : xs[i] = xs[j] => i = j
  BY <1>1, <1>2, <1>3, <1>5 DEF Registers
<1> QED
  BY <1>1, <1>2, <1>4, <1>6 DEF Registers

LEMMA TailRegisters ==
    ASSUME NEW ws, NEW P \in SUBSET Requests, Registers(ws, P), ws # <<>>
    PROVE  Head(ws) \in P /\ Registers(Tail(ws), P \ {Head(ws)})
<1>1. /\ ws \in Seq(Requests) /\ Len(ws) \in Nat /\ Len(ws) >= 1
      /\ Tail(ws) \in Seq(Requests) /\ Len(Tail(ws)) = Len(ws) - 1
      /\ \A i \in 1..Len(Tail(ws)) : Tail(ws)[i] = ws[i + 1]
      /\ Head(ws) = ws[1] /\ Head(ws) \in Requests
  BY DEF Registers
<1>2. PICK xs : xs = Tail(ws)
  OBVIOUS
<1>3. PICK h : h = Head(ws)
  OBVIOUS
<1>4. \A i \in 1..Len(ws) : i = 1 \/ (i - 1 \in 1..Len(xs) /\ xs[i - 1] = ws[i])
  BY <1>1, <1>2
<1>5. \A i \in 1..Len(xs) : i + 1 \in 1..Len(ws) /\ xs[i] = ws[i + 1]
  BY <1>1, <1>2
<1>6. \A i \in 1..Len(xs) : xs[i] # h
  BY <1>1, <1>3, <1>5 DEF Registers
<1>7. \A q \in Requests : q \in P \ {h} <=> \E i \in 1..Len(xs) : xs[i] = q
  BY <1>1, <1>3, <1>4, <1>5, <1>6 DEF Registers
<1>8. \A i, j \in 1..Len(xs) : xs[i] = xs[j] => i = j
  BY <1>1, <1>5 DEF Registers
<1>9. h \in P
  BY <1>1, <1>3 DEF Registers
<1> QED
  BY <1>1, <1>2, <1>3, <1>7, <1>8, <1>9 DEF Registers

LEMMA RemovalRegisters ==
    ASSUME NEW ws, NEW P \in SUBSET Requests, Registers(ws, P), NEW k \in 1..Len(ws)
    PROVE  Registers(WithoutIndex(ws, k), P \ {ws[k]})
<1>1. ws \in Seq(Requests) /\ Len(ws) \in Nat /\ k \in Nat /\ k >= 1 /\ k <= Len(ws)
  BY DEF Registers
<1>2. PICK a : a = SubSeq(ws, 1, k - 1)
  OBVIOUS
<1>3. PICK b : b = SubSeq(ws, k + 1, Len(ws))
  OBVIOUS
<1>4. /\ a \in Seq(Requests) /\ Len(a) = k - 1 /\ \A i \in 1..Len(a) : a[i] = ws[i]
      /\ b \in Seq(Requests) /\ Len(b) = Len(ws) - k /\ \A i \in 1..Len(b) : b[i] = ws[k + i]
  <2>1. a \in Seq(Requests) /\ Len(a) = k - 1 /\ \A i \in 1..Len(a) : a[i] = ws[i]
    BY <1>1, <1>2
  <2>2. b \in Seq(Requests) /\ Len(b) = Len(ws) - k /\ \A i \in 1..Len(b) : b[i] = ws[k + i]
    BY <1>1, <1>3
  <2> QED
    BY <2>1, <2>2
<1>5. PICK xs : xs = a \o b
  OBVIOUS
<1>6. /\ xs \in Seq(Requests) /\ Len(xs) = Len(ws) - 1
      /\ \A i \in 1..Len(xs) : xs[i] = IF i < k THEN ws[i] ELSE ws[i + 1]
  <2>0. a \in Seq(Requests) /\ b \in Seq(Requests)
    BY <1>4
  <2>1. xs \in Seq(Requests) /\ Len(xs) = Len(a) + Len(b)
    BY <1>5, <2>0
  <2>2. \A i \in 1..Len(xs) : xs[i] = IF i <= Len(a) THEN a[i] ELSE b[i - Len(a)]
    <3>1. Len(a) \in Nat /\ Len(b) \in Nat
      BY <2>0
    <3>2. \A i \in 1..Len(a) + Len(b) : (a \o b)[i] = IF i <= Len(a) THEN a[i] ELSE b[i - Len(a)]
      BY <2>0, <3>1
    <3> QED
      BY <1>5, <2>1, <3>2
  <2>3. Len(xs) = Len(ws) - 1
    BY <1>1, <1>4, <2>1
  <2>4. ASSUME NEW i \in 1..Len(xs) PROVE xs[i] = IF i < k THEN ws[i] ELSE ws[i + 1]
    <3>1. i \in Nat /\ i >= 1 /\ i <= Len(ws) - 1
      BY <1>1, <2>3
    <3>2. CASE i < k
      BY <1>1, <1>4, <2>2, <3>1, <3>2
    <3>3. CASE ~(i < k)
      <4>1. i - (k - 1) \in 1..Len(b) /\ k + (i - (k - 1)) = i + 1
        BY <1>1, <1>4, <3>1, <3>3
      <4>2. xs[i] = b[i - (k - 1)]
        BY <1>1, <1>4, <2>2, <3>1, <3>3
      <4> QED
        BY <1>4, <3>3, <4>1, <4>2
    <3> QED
      BY <3>2, <3>3
  <2> QED
    BY <2>1, <2>3, <2>4
<1>7. \A i \in 1..Len(ws) : i = k \/ \E j \in 1..Len(xs) : xs[j] = ws[i]
  <2> SUFFICES ASSUME NEW i \in 1..Len(ws), i # k PROVE \E j \in 1..Len(xs) : xs[j] = ws[i]
    OBVIOUS
  <2>1. CASE i < k
    BY <1>1, <1>6, <2>1
  <2>2. CASE i > k
    <3>1. i - 1 \in 1..Len(xs) /\ ~(i - 1 < k) /\ (i - 1) + 1 = i
      BY <1>1, <1>6, <2>2
    <3> QED
      BY <1>6, <3>1
  <2> QED
    BY <1>1, <2>1, <2>2
<1>8. \A i \in 1..Len(xs) : \E j \in 1..Len(ws) : j # k /\ xs[i] = ws[j]
                                                /\ j = IF i < k THEN i ELSE i + 1
  <2> SUFFICES ASSUME NEW i \in 1..Len(xs)
               PROVE  \E j \in 1..Len(ws) : j # k /\ xs[i] = ws[j] /\ j = IF i < k THEN i ELSE i + 1
    OBVIOUS
  <2>1. CASE i < k
    BY <1>1, <1>6, <2>1
  <2>2. CASE ~(i < k)
    <3>1. i + 1 \in 1..Len(ws) /\ i + 1 # k /\ xs[i] = ws[i + 1]
      BY <1>1, <1>6, <2>2
    <3> QED
      BY <2>2, <3>1
  <2> QED
    BY <2>1, <2>2
<1>9. \A q \in Requests : q \in P \ {ws[k]} <=> \E i \in 1..Len(xs) : xs[i] = q
  <2> SUFFICES ASSUME NEW q \in Requests
               PROVE  q \in P \ {ws[k]} <=> \E i \in 1..Len(xs) : xs[i] = q
    OBVIOUS
  <2>1. q \in P <=> \E i \in 1..Len(ws) : ws[i] = q
    BY DEF Registers
  <2>2. ASSUME q \in P \ {ws[k]} PROVE \E i \in 1..Len(xs) : xs[i] = q
    BY <1>7, <2>1, <2>2
  <2>3. ASSUME NEW i \in 1..Len(xs), xs[i] = q PROVE q \in P \ {ws[k]}
    <3>1. PICK j \in 1..Len(ws) : j # k /\ ws[j] = q
      BY <1>8, <2>3
    <3>2. ws[j] # ws[k]
      BY <1>1, <3>1 DEF Registers
    <3> QED
      BY <2>1, <3>1, <3>2
  <2> QED
    BY <2>2, <2>3
<1>10. \A i, j \in 1..Len(xs) : xs[i] = xs[j] => i = j
  <2> SUFFICES ASSUME NEW i \in 1..Len(xs), NEW j \in 1..Len(xs), xs[i] = xs[j] PROVE i = j
    OBVIOUS
  <2>1. PICK m \in 1..Len(ws) : xs[i] = ws[m] /\ m = IF i < k THEN i ELSE i + 1
    BY <1>8
  <2>2. PICK n \in 1..Len(ws) : xs[j] = ws[n] /\ n = IF j < k THEN j ELSE j + 1
    BY <1>8
  <2>3. m = n
    BY <2>1, <2>2 DEF Registers
  <2> QED
    BY <1>1, <2>1, <2>2, <2>3
<1>11. WithoutIndex(ws, k) = xs
  BY <1>2, <1>3, <1>5 DEF WithoutIndex
<1> QED
  BY <1>6, <1>9, <1>10, <1>11 DEF Registers

-----------------------------------------------------------------------------
(***************************************************************************)
(* One request more or fewer at the steps S changes their number by one.   *)
(***************************************************************************)
LEMMA OneMoves ==
    ASSUME NEW S, NEW r \in Requests, IsFiniteSet(At(S)),
           \A q \in Requests \ {r} : pc'[q] \in S <=> pc[q] \in S
    PROVE  /\ IsFiniteSet(At(S)') /\ Cardinality(At(S)) \in Nat
           /\ (pc'[r] \in S <=> pc[r] \in S) => At(S)' = At(S)
           /\ pc'[r] \in S /\ pc[r] \notin S => Cardinality(At(S)') = Cardinality(At(S)) + 1
           /\ pc'[r] \notin S /\ pc[r] \in S =>
                 Cardinality(At(S)') = Cardinality(At(S)) - 1 /\ Cardinality(At(S)) >= 1
<1>1. PICK X : X = At(S)
  OBVIOUS
<1>2. PICK Y : Y = At(S)'
  OBVIOUS
<1>3. IsFiniteSet(X) /\ Cardinality(X) \in Nat
  BY <1>1, FS_CardinalityType
<1>4. \A q \in Requests : (q \in X <=> pc[q] \in S) /\ (q \in Y <=> pc'[q] \in S)
  BY <1>1, <1>2 DEF At
<1>5. X \subseteq Requests /\ Y \subseteq Requests
  BY <1>1, <1>2 DEF At
<1>6. CASE pc'[r] \in S <=> pc[r] \in S
  <2>1. Y = X
    BY <1>4, <1>5, <1>6
  <2> QED
    BY <1>1, <1>2, <1>3, <1>6, <2>1
<1>7. CASE pc'[r] \in S /\ pc[r] \notin S
  <2>1. Y = X \cup {r} /\ r \notin X
    BY <1>4, <1>5, <1>7
  <2>2. IsFiniteSet(Y) /\ Cardinality(Y) = Cardinality(X) + 1
    BY <1>3, <2>1, FS_AddElement
  <2> QED
    BY <1>1, <1>2, <1>3, <1>7, <2>2
<1>8. CASE pc'[r] \notin S /\ pc[r] \in S
  <2>1. Y = X \ {r} /\ r \in X
    BY <1>4, <1>5, <1>8
  <2>2. IsFiniteSet(Y) /\ Cardinality(Y) = Cardinality(X) - 1 /\ Cardinality(Y) \in Nat
    BY <1>3, <2>1, FS_RemoveElement, FS_CardinalityType
  <2> QED
    BY <1>1, <1>2, <1>3, <1>8, <2>2
<1> QED
  BY <1>6, <1>7, <1>8

(***************************************************************************)
(* A request that goes from one step to another, neither of them parked.   *)
(***************************************************************************)
LEMMA GoesOn ==
    ASSUME Bounds, Registers(waiters, Parked), NEW r \in Requests,
           NEW n \in GateSteps \ {"parked"}, pc[r] # "parked", Goto(r, n)
    PROVE  /\ pc' \in [Requests -> GateSteps] /\ pc'[r] = n
           /\ \A q \in Requests \ {r} : pc'[q] = pc[q]
           /\ Parked' = Parked /\ Registers(waiters, Parked)
<1>1. /\ pc' \in [Requests -> GateSteps] /\ pc'[r] = n
      /\ \A q \in Requests \ {r} : pc'[q] = pc[q]
  BY DEF Bounds, Goto
<1> QED
  BY <1>1 DEF Parked, At

(***************************************************************************)
(* Help stays where it was, when only r moves and does not get stuck.      *)
(***************************************************************************)
LEMMA HelpStays ==
    ASSUME HelpIsLeft, NEW r \in Requests,
           \A q \in Requests \ {r} : pc'[q] = pc[q] /\ seen'[q] = seen[q],
           UNCHANGED <<permit, epoch>>, reloading => reloading', active' = 0 => active = 0,
           Stuck(r)' => Stuck(r), Helps(r) => Helps(r)'
    PROVE  HelpIsLeft'
<1>1. \A q \in Requests \ {r} : (Stuck(q)' <=> Stuck(q)) /\ (Helps(q)' <=> Helps(q))
  BY DEF Stuck, Helps
<1>2. \A q \in Requests : (Stuck(q)' => Stuck(q)) /\ (Helps(q) => Helps(q)')
  BY <1>1
<1> QED
  BY <1>2 DEF HelpIsLeft

LEMMA ArriveKeeps ==
    ASSUME GateInv, NEW r \in Requests, Arrive(r)
    PROVE  GateInv'
<1>1. Bounds /\ Counts /\ Registers(waiters, Parked)
  BY DEF GateInv
<1>2. PICK n : n = IF active < limit THEN "running" ELSE "enqueue"
  OBVIOUS
<1>3. /\ pc[r] = "idle" /\ Goto(r, n)
      /\ active' = (IF active < limit THEN active + 1 ELSE active)
      /\ UNCHANGED <<limit, capacity, depth, permit, waiters, epoch, reloading, seen, gone>>
  BY <1>2 DEF Arrive, TryAcquire
<1>4. n \in GateSteps \ {"parked"}
  BY <1>2 DEF GateSteps
<1>5. /\ pc' \in [Requests -> GateSteps] /\ pc'[r] = n
      /\ \A q \in Requests \ {r} : pc'[q] = pc[q]
      /\ Parked' = Parked /\ Registers(waiters, Parked)
  BY <1>1, <1>3, <1>4, GoesOn
<1>6. Bounds'
  BY <1>1, <1>3, <1>5 DEF Bounds
<1>7. Counts' /\ active \in Nat
  BY <1>1, <1>2, <1>3, <1>5, OneMoves DEF Counts, Holding, Counted, Queued, Waiting
<1>8. limit \in Nat /\ limit >= 1
  BY <1>1, GateAssumption DEF Bounds
<1>9. HelpIsLeft'
  BY <1>3, <1>7, <1>8 DEF HelpIsLeft
<1> QED
  BY <1>3, <1>5, <1>6, <1>7, <1>9 DEF GateInv

LEMMA EnqueueKeeps ==
    ASSUME GateInv, NEW r \in Requests, Enqueue(r)
    PROVE  GateInv'
<1>1. Bounds /\ Counts /\ Registers(waiters, Parked) /\ HelpIsLeft
  BY DEF GateInv
<1>2. PICK n : n = IF QueueIsFull(depth + 1) THEN "full" ELSE "loop"
  OBVIOUS
<1>3. /\ pc[r] = "enqueue" /\ Goto(r, n) /\ depth' = depth + 1
      /\ UNCHANGED <<limit, capacity, active, permit, waiters, epoch, reloading, seen, gone>>
  BY <1>2 DEF Enqueue
<1>4. n \in GateSteps \ {"parked"} /\ n \in {"full", "loop"}
  BY <1>2 DEF GateSteps, Waiting
<1>5. /\ pc' \in [Requests -> GateSteps] /\ pc'[r] = n
      /\ \A q \in Requests \ {r} : pc'[q] = pc[q]
      /\ Parked' = Parked /\ Registers(waiters, Parked)
  BY <1>1, <1>3, <1>4, GoesOn
<1>6. Bounds'
  BY <1>1, <1>3, <1>5 DEF Bounds
<1>7. Counts'
  BY <1>1, <1>3, <1>4, <1>5, OneMoves DEF Counts, Holding, Counted, Queued, Waiting
<1>8. ~Stuck(r)' /\ ~Helps(r)
  BY <1>3, <1>4, <1>5 DEF Stuck, Helps
<1>9. HelpIsLeft'
  BY <1>1, <1>3, <1>5, <1>8, HelpStays
<1> QED
  BY <1>3, <1>5, <1>6, <1>7, <1>9 DEF GateInv

LEMMA LeaveKeeps ==
    ASSUME GateInv, NEW r \in Requests, LeaveQueue(r)
    PROVE  GateInv'
<1>1. Bounds /\ Counts /\ Registers(waiters, Parked) /\ HelpIsLeft
  BY DEF GateInv
<1>2. PICK n : n = IF pc[r] = "admitted" THEN "running" ELSE "rejected"
  OBVIOUS
<1>3. /\ pc[r] \in {"full", "admitted", "expired"} /\ Goto(r, n) /\ depth' = depth - 1
      /\ UNCHANGED <<limit, capacity, active, permit, waiters, epoch, reloading, seen, gone>>
  BY <1>2 DEF LeaveQueue
<1>4. n \in GateSteps \ {"parked"} /\ n \in {"running", "rejected"}
  BY <1>2 DEF GateSteps
<1>5. /\ pc' \in [Requests -> GateSteps] /\ pc'[r] = n
      /\ \A q \in Requests \ {r} : pc'[q] = pc[q]
      /\ Parked' = Parked /\ Registers(waiters, Parked)
  BY <1>1, <1>3, <1>4, GoesOn
<1>6. Bounds'
  BY <1>1, <1>3, <1>5 DEF Bounds
<1>7. Counts'
  BY <1>1, <1>2, <1>3, <1>4, <1>5, OneMoves DEF Counts, Holding, Counted, Queued, Waiting
<1>8. ~Stuck(r)' /\ ~Helps(r)
  BY <1>3, <1>4, <1>5 DEF Stuck, Helps
<1>9. HelpIsLeft'
  BY <1>1, <1>3, <1>5, <1>8, HelpStays
<1> QED
  BY <1>3, <1>5, <1>6, <1>7, <1>9 DEF GateInv

LEMMA CreateKeeps ==
    ASSUME GateInv, NEW r \in Requests, CreateNotified(r)
    PROVE  GateInv'
<1>1. Bounds /\ Counts /\ Registers(waiters, Parked) /\ HelpIsLeft
  BY DEF GateInv
<1>2. /\ pc[r] = "loop" /\ Goto(r, "try") /\ seen' = [seen EXCEPT ![r] = epoch]
      /\ UNCHANGED <<limit, capacity, active, depth, permit, waiters, epoch, reloading, gone>>
  BY DEF CreateNotified
<1>3. /\ pc' \in [Requests -> GateSteps] /\ pc'[r] = "try"
      /\ \A q \in Requests \ {r} : pc'[q] = pc[q]
      /\ Parked' = Parked /\ Registers(waiters, Parked)
  BY <1>1, <1>2, GoesOn DEF GateSteps, Waiting
<1>4. seen' \in [Requests -> 0..MaxReloads] /\ \A q \in Requests : seen'[q] <= epoch
  BY <1>1, <1>2, GateAssumption DEF Bounds
<1>5. Bounds'
  BY <1>1, <1>2, <1>3, <1>4 DEF Bounds
<1>6. Counts'
  BY <1>1, <1>2, <1>3, OneMoves DEF Counts, Holding, Counted, Queued, Waiting
<1>7. ~Stuck(r)' /\ Helps(r)'
  BY <1>3 DEF Stuck, Helps
<1>8. \A q \in Requests \ {r} : seen'[q] = seen[q]
  BY <1>1, <1>2 DEF Bounds
<1>9. HelpIsLeft'
  BY <1>1, <1>2, <1>3, <1>7, <1>8, HelpStays
<1> QED
  BY <1>2, <1>3, <1>5, <1>6, <1>9 DEF GateInv

LEMMA RetryKeeps ==
    ASSUME GateInv, NEW r \in Requests, RetryAcquire(r)
    PROVE  GateInv'
<1>1. Bounds /\ Counts /\ Registers(waiters, Parked)
  BY DEF GateInv
<1>2. PICK n : n = IF active < limit THEN "admitted" ELSE "poll"
  OBVIOUS
<1>3. /\ pc[r] = "try" /\ Goto(r, n)
      /\ active' = (IF active < limit THEN active + 1 ELSE active)
      /\ UNCHANGED <<limit, capacity, depth, permit, waiters, epoch, reloading, seen, gone>>
  BY <1>2 DEF RetryAcquire, TryAcquire
<1>4. n \in GateSteps \ {"parked"}
  BY <1>2 DEF GateSteps, Waiting
<1>5. /\ pc' \in [Requests -> GateSteps] /\ pc'[r] = n
      /\ \A q \in Requests \ {r} : pc'[q] = pc[q]
      /\ Parked' = Parked /\ Registers(waiters, Parked)
  BY <1>1, <1>3, <1>4, GoesOn
<1>6. Bounds'
  BY <1>1, <1>3, <1>5 DEF Bounds
<1>7. Counts' /\ active \in Nat
  BY <1>1, <1>2, <1>3, <1>5, OneMoves DEF Counts, Holding, Counted, Queued, Waiting
<1>8. limit \in Nat /\ limit >= 1
  BY <1>1, GateAssumption DEF Bounds
<1>9. HelpIsLeft'
  BY <1>3, <1>7, <1>8 DEF HelpIsLeft
<1> QED
  BY <1>3, <1>5, <1>6, <1>7, <1>9 DEF GateInv

LEMMA PollKeeps ==
    ASSUME GateInv, NEW r \in Requests, Poll(r)
    PROVE  GateInv'
<1>1. Bounds /\ Counts /\ Registers(waiters, Parked) /\ HelpIsLeft
  BY DEF GateInv
<1>2. /\ pc[r] = "poll"
      /\ UNCHANGED <<limit, capacity, active, depth, epoch, reloading, seen, gone>>
  BY DEF Poll
<1>3. ASSUME Goto(r, "loop"), UNCHANGED waiters, permit' \in BOOLEAN, permit' => permit
      PROVE  GateInv'
  <2>1. /\ pc' \in [Requests -> GateSteps] /\ pc'[r] = "loop"
        /\ \A q \in Requests \ {r} : pc'[q] = pc[q]
        /\ Parked' = Parked /\ Registers(waiters, Parked)
    BY <1>1, <1>2, <1>3, GoesOn DEF GateSteps, Waiting
  <2>2. Bounds'
    BY <1>1, <1>2, <1>3, <2>1 DEF Bounds
  <2>3. Counts'
    BY <1>1, <1>2, <2>1, OneMoves DEF Counts, Holding, Counted, Queued, Waiting
  <2>4. HelpIsLeft'
    BY <2>1 DEF HelpIsLeft, Helps
  <2> QED
    BY <1>3, <2>1, <2>2, <2>3, <2>4 DEF GateInv
<1>4. ASSUME ~permit, seen[r] = epoch, waiters' = Append(waiters, r), Goto(r, "parked"),
             UNCHANGED permit
      PROVE  GateInv'
  <2>1. /\ pc' \in [Requests -> GateSteps] /\ pc'[r] = "parked"
        /\ \A q \in Requests \ {r} : pc'[q] = pc[q]
    BY <1>1, <1>4 DEF Bounds, Goto, GateSteps, Waiting
  <2>2. Parked' = Parked \cup {r} /\ r \notin Parked /\ Parked \subseteq Requests
    BY <1>2, <2>1 DEF Parked, At
  <2>3. Registers(Append(waiters, r), Parked \cup {r})
    BY <1>1, <2>2, AppendRegisters
  <2>4. Registers(waiters, Parked)'
    BY <1>4, <2>2, <2>3 DEF Registers
  <2>5. Bounds'
    BY <1>1, <1>2, <1>4, <2>1 DEF Bounds
  <2>6. Counts'
    BY <1>1, <1>2, <2>1, OneMoves DEF Counts, Holding, Counted, Queued, Waiting
  <2>7. Stuck(r) /\ ~Helps(r)
    BY <1>2, <1>4 DEF Stuck, Helps
  <2>8. HelpIsLeft'
    BY <1>1, <1>2, <1>4, <2>1, <2>7, HelpStays
  <2> QED
    BY <2>4, <2>5, <2>6, <2>8 DEF GateInv
<1>5. permit \in BOOLEAN
  BY <1>1 DEF Bounds
<1> QED
  BY <1>3, <1>4, <1>5 DEF Poll

LEMMA WakeKeeps ==
    ASSUME GateInv, NEW r \in Requests, Wake(r)
    PROVE  GateInv'
<1>1. Bounds /\ Counts /\ Registers(waiters, Parked) /\ HelpIsLeft
  BY DEF GateInv
<1>2. /\ pc[r] \in {"notified", "called"} /\ Goto(r, "loop")
      /\ UNCHANGED <<limit, capacity, active, depth, permit, waiters, epoch, reloading, seen, gone>>
  BY DEF Wake
<1>3. /\ pc' \in [Requests -> GateSteps] /\ pc'[r] = "loop"
      /\ \A q \in Requests \ {r} : pc'[q] = pc[q]
      /\ Parked' = Parked /\ Registers(waiters, Parked)
  BY <1>1, <1>2, GoesOn DEF GateSteps, Waiting
<1>4. Bounds'
  BY <1>1, <1>2, <1>3 DEF Bounds
<1>5. Counts'
  BY <1>1, <1>2, <1>3, OneMoves DEF Counts, Holding, Counted, Queued, Waiting
<1>6. HelpIsLeft'
  BY <1>3 DEF HelpIsLeft, Helps
<1> QED
  BY <1>2, <1>3, <1>4, <1>5, <1>6 DEF GateInv

LEMMA ReleaseKeeps ==
    ASSUME GateInv, NEW r \in Requests, Release(r)
    PROVE  GateInv'
<1>1. Bounds /\ Counts /\ Registers(waiters, Parked) /\ HelpIsLeft
  BY DEF GateInv
<1>2. /\ pc[r] = "running" /\ Goto(r, "released") /\ active' = active - 1
      /\ UNCHANGED <<limit, capacity, depth, permit, waiters, epoch, reloading, seen, gone>>
  BY DEF Release
<1>3. /\ pc' \in [Requests -> GateSteps] /\ pc'[r] = "released"
      /\ \A q \in Requests \ {r} : pc'[q] = pc[q]
      /\ Parked' = Parked /\ Registers(waiters, Parked)
  BY <1>1, <1>2, GoesOn DEF GateSteps, Waiting
<1>4. Bounds'
  BY <1>1, <1>2, <1>3 DEF Bounds
<1>5. Counts'
  BY <1>1, <1>2, <1>3, OneMoves DEF Counts, Holding, Counted, Queued, Waiting
<1>6. HelpIsLeft'
  BY <1>3 DEF HelpIsLeft, Helps
<1> QED
  BY <1>2, <1>3, <1>4, <1>5, <1>6 DEF GateInv

(***************************************************************************)
(* notify_one leaves help behind whoever calls it: a waiter on its way, or *)
(* a permit for those that are about to poll.                              *)
(***************************************************************************)
LEMMA NotifyOneKeeps ==
    ASSUME GateInv, NEW r \in Requests, pc[r] \in {"notified", "released"},
           NEW n \in GateSteps \ {"parked"}, NotifyOne(r, n),
           n \notin Holding, n \in Counted <=> pc[r] \in Counted,
           UNCHANGED <<limit, capacity, active, depth, epoch, reloading, seen>>,
           gone' \in 0..MaxDisconnects
    PROVE  GateInv'
<1>1. Bounds /\ Counts /\ Registers(waiters, Parked) /\ HelpIsLeft /\ Parked \subseteq Requests
  BY DEF GateInv, Parked, At
<1>2. CASE waiters = <<>>
  <2>1. permit' = TRUE /\ Goto(r, n) /\ UNCHANGED waiters
    BY <1>2 DEF NotifyOne
  <2>2. /\ pc' \in [Requests -> GateSteps] /\ pc'[r] = n
        /\ \A q \in Requests \ {r} : pc'[q] = pc[q]
        /\ Parked' = Parked /\ Registers(waiters, Parked)
    BY <1>1, <2>1, GoesOn
  <2>3. Bounds'
    BY <1>1, <1>2, <2>1, <2>2 DEF Bounds
  <2>4. Counts'
    BY <1>1, <2>2, OneMoves DEF Counts, Holding, Counted, Queued, Waiting
  <2>5. Parked' = {}
    BY <1>1, <1>2, <2>2, NobodyRegistered
  <2>6. HelpIsLeft'
    BY <2>1, <2>5 DEF HelpIsLeft, Stuck, Parked, At
  <2> QED
    BY <2>1, <2>2, <2>3, <2>4, <2>6 DEF GateInv
<1>3. CASE waiters # <<>>
  <2>1. PICK h : h = Head(waiters)
    OBVIOUS
  <2>2. h \in Parked /\ Registers(Tail(waiters), Parked \ {h})
    BY <1>1, <1>3, <2>1, TailRegisters
  <2>3. /\ waiters' = Tail(waiters) /\ pc' = [pc EXCEPT ![r] = n, ![h] = "notified"]
        /\ UNCHANGED permit
    BY <1>3, <2>1 DEF NotifyOne
  <2>4. h \in Requests /\ pc[h] = "parked" /\ h # r
    BY <2>2 DEF Parked, At
  <2>5. /\ pc' \in [Requests -> GateSteps] /\ pc'[r] = n /\ pc'[h] = "notified"
        /\ \A q \in Requests \ {r, h} : pc'[q] = pc[q]
    BY <1>1, <2>3, <2>4 DEF Bounds, GateSteps, Waiting
  <2>6. Parked' = Parked \ {h}
    BY <2>4, <2>5 DEF Parked, At
  <2>7. Registers(waiters, Parked)'
    BY <2>2, <2>3, <2>6 DEF Registers
  <2>8. permit = FALSE
    BY <1>1, <1>3 DEF Bounds
  <2>9. Bounds'
    BY <1>1, <2>3, <2>5, <2>8 DEF Bounds
  <2>10. Counts'
    BY <1>1, <2>4, <2>5, OneMoves DEF Counts, Holding, Counted, Queued, Waiting
  <2>11. HelpIsLeft'
    BY <2>4, <2>5 DEF HelpIsLeft, Helps
  <2> QED
    BY <2>7, <2>9, <2>10, <2>11 DEF GateInv
<1> QED
  BY <1>2, <1>3

(***************************************************************************)
(* A wait that ends without a slot.                                        *)
(***************************************************************************)
LEMMA DropKeeps ==
    ASSUME GateInv, NEW r \in Requests, pc[r] \in Suspended,
           NEW n \in {"expired", "dropped"}, DropNotified(r, n),
           UNCHANGED <<limit, capacity, active, depth, epoch, reloading, seen>>,
           gone' \in 0..MaxDisconnects
    PROVE  GateInv'
<1>1. Bounds /\ Counts /\ Registers(waiters, Parked) /\ HelpIsLeft /\ Parked \subseteq Requests
  BY DEF GateInv, Parked, At
<1>2. n \in GateSteps \ {"parked"} /\ n \notin Holding /\ n \in Counted
  BY DEF GateSteps, Holding, Counted, Queued
<1>3. CASE pc[r] = "parked"
  <2>1. PICK k \in 1..Len(waiters) : waiters[k] = r /\ waiters' = WithoutIndex(waiters, k)
    BY <1>3 DEF DropNotified
  <2>2. Goto(r, n) /\ UNCHANGED permit
    BY <1>3 DEF DropNotified
  <2>3. /\ pc' \in [Requests -> GateSteps] /\ pc'[r] = n
        /\ \A q \in Requests \ {r} : pc'[q] = pc[q]
    BY <1>1, <1>2, <2>2 DEF Bounds, Goto
  <2>4. Parked' = Parked \ {r}
    BY <1>2, <2>3 DEF Parked, At
  <2>5. Registers(WithoutIndex(waiters, k), Parked \ {r})
    BY <1>1, <2>1, RemovalRegisters
  <2>6. Registers(waiters, Parked)'
    BY <2>1, <2>4, <2>5 DEF Registers
  <2>7. permit = FALSE
    <3>1. r \in Parked
      BY <1>3 DEF Parked, At
    <3>2. waiters # <<>>
      BY <1>1, <3>1, NobodyRegistered
    <3> QED
      BY <1>1, <3>2 DEF Bounds
  <2>8. Bounds'
    BY <1>1, <2>2, <2>3, <2>7 DEF Bounds
  <2>9. Counts'
    BY <1>1, <1>2, <1>3, <2>3, OneMoves DEF Counts, Holding, Counted, Queued, Waiting
  <2>10. ~Stuck(r)' /\ ~Helps(r)
    BY <1>3, <2>3 DEF Stuck, Helps
  <2>11. HelpIsLeft'
    BY <1>1, <2>2, <2>3, <2>10, HelpStays
  <2> QED
    BY <2>6, <2>8, <2>9, <2>11 DEF GateInv
<1>4. CASE pc[r] = "notified"
  <2>1. NotifyOne(r, n) /\ pc[r] \in Counted
    BY <1>4 DEF DropNotified, Counted, Queued, Waiting
  <2> QED
    BY <1>2, <1>4, <2>1, NotifyOneKeeps
<1>5. CASE pc[r] = "called"
  <2>1. Goto(r, n) /\ UNCHANGED <<permit, waiters>>
    BY <1>5 DEF DropNotified
  <2>2. /\ pc' \in [Requests -> GateSteps] /\ pc'[r] = n
        /\ \A q \in Requests \ {r} : pc'[q] = pc[q]
        /\ Parked' = Parked /\ Registers(waiters, Parked)
    BY <1>1, <1>2, <1>5, <2>1, GoesOn
  <2>3. Bounds'
    BY <1>1, <2>1, <2>2 DEF Bounds
  <2>4. Counts'
    BY <1>1, <1>2, <1>5, <2>2, OneMoves DEF Counts, Holding, Counted, Queued, Waiting
  <2>5. ~Stuck(r)' /\ ~Helps(r)
    BY <1>5, <2>2 DEF Stuck, Helps
  <2>6. HelpIsLeft'
    BY <1>1, <2>1, <2>2, <2>5, HelpStays
  <2> QED
    BY <2>1, <2>2, <2>3, <2>4, <2>6 DEF GateInv
<1> QED
  BY <1>3, <1>4, <1>5 DEF Suspended

LEMMA ReconfigureKeeps ==
    ASSUME GateInv, Reconfigure
    PROVE  GateInv'
<1>1. Bounds /\ Counts /\ Registers(waiters, Parked)
  BY DEF GateInv
<1>2. UNCHANGED <<active, depth, permit, waiters, epoch, pc, seen, gone>> /\ reloading' = TRUE
      /\ limit' \in Limits /\ capacity' \in Capacities
  BY DEF Reconfigure
<1>3. Bounds'
  BY <1>1, <1>2 DEF Bounds, Reconfigure
<1>4. Counts'
  BY <1>1, <1>2 DEF Counts, At
<1>5. Registers(waiters, Parked)'
  BY <1>1, <1>2 DEF Registers, Parked, At
<1> QED
  BY <1>2, <1>3, <1>4, <1>5 DEF GateInv, HelpIsLeft

(***************************************************************************)
(* notify_waiters reaches everybody whose future exists, so nobody is      *)
(* stuck when it has run.                                                  *)
(***************************************************************************)
LEMMA NotifyWaitersKeeps ==
    ASSUME GateInv, NotifyWaiters
    PROVE  GateInv'
<1>1. Bounds /\ Counts /\ Registers(waiters, Parked)
  BY DEF GateInv
<1>2. /\ reloading' = FALSE /\ epoch' = epoch + 1 /\ waiters' = <<>>
      /\ pc' = [r \in Requests |-> IF pc[r] = "parked" THEN "called" ELSE pc[r]]
      /\ UNCHANGED <<limit, capacity, active, depth, permit, seen, gone>>
  BY DEF NotifyWaiters
<1>3. /\ pc' \in [Requests -> GateSteps]
      /\ \A q \in Requests : pc'[q] = IF pc[q] = "parked" THEN "called" ELSE pc[q]
  BY <1>1, <1>2 DEF Bounds, GateSteps, Waiting
<1>4. /\ epoch \in Nat /\ MaxReloads \in Nat /\ epoch < MaxReloads
      /\ \A q \in Requests : seen[q] \in Nat /\ seen[q] <= epoch
  BY <1>1, GateAssumption DEF Bounds, NotifyWaiters
<1>5. epoch' \in 0..MaxReloads /\ \A q \in Requests : seen[q] < epoch'
  BY <1>2, <1>4
<1>6. Bounds'
  <2>1. /\ limit' \in Limits /\ capacity' \in Capacities
        /\ permit' \in BOOLEAN /\ (permit' => waiters' = <<>>) /\ gone' \in 0..MaxDisconnects
    BY <1>1, <1>2 DEF Bounds
  <2>2. reloading' \in BOOLEAN /\ ~reloading'
    BY <1>2
  <2>3. seen' \in [Requests -> 0..MaxReloads] /\ \A r \in Requests : seen'[r] <= epoch'
    <3>1. seen' = seen /\ seen \in [Requests -> 0..MaxReloads]
      BY <1>1, <1>2 DEF Bounds
    <3>2. ASSUME NEW r \in Requests PROVE seen[r] <= epoch'
      BY <1>4, <1>5
    <3> QED
      BY <3>1, <3>2
  <2> QED
    BY <1>3, <1>5, <2>1, <2>2, <2>3 DEF Bounds
<1>7. At(Holding)' = At(Holding) /\ At(Counted)' = At(Counted) /\ Parked' = {}
  BY <1>3 DEF At, Holding, Counted, Queued, Waiting, Parked
<1>8. Counts'
  BY <1>1, <1>2, <1>7 DEF Counts
<1>9. Registers(waiters, Parked)'
  BY <1>2, <1>7 DEF Registers
<1>10. HelpIsLeft'
  BY <1>2, <1>3, <1>4, <1>5 DEF HelpIsLeft, Stuck
<1> QED
  BY <1>6, <1>8, <1>9, <1>10 DEF GateInv

LEMMA GateBegins == GateInit => GateInv
<1> SUFFICES ASSUME GateInit PROVE GateInv
  OBVIOUS
<1>1. /\ pc = [r \in Requests |-> "idle"] /\ seen = [r \in Requests |-> 0]
      /\ waiters = <<>> /\ active = 0 /\ depth = 0 /\ epoch = 0 /\ gone = 0
      /\ permit = FALSE /\ reloading = FALSE /\ limit \in Limits /\ capacity \in Capacities
  BY DEF GateInit
<1>2. Bounds
  <2>1. permit \in BOOLEAN /\ reloading \in BOOLEAN /\ ~reloading
    BY <1>1
  <2>2. epoch \in 0..MaxReloads /\ gone \in 0..MaxDisconnects
    BY <1>1, GateAssumption
  <2>3. pc \in [Requests -> GateSteps]
    BY <1>1 DEF GateSteps
  <2>4. seen \in [Requests -> 0..MaxReloads] /\ \A r \in Requests : seen[r] <= epoch
    BY <1>1, GateAssumption
  <2> QED
    BY <1>1, <2>1, <2>2, <2>3, <2>4 DEF Bounds
<1>3. At(Holding) = {} /\ At(Counted) = {} /\ Parked = {}
  BY <1>1 DEF At, Holding, Counted, Queued, Waiting, Parked
<1>4. Counts
  BY <1>1, <1>3, FS_EmptySet DEF Counts
<1>5. Registers(waiters, Parked)
  BY <1>1, <1>3 DEF Registers
<1>6. HelpIsLeft
  BY <1>1 DEF HelpIsLeft, Stuck
<1> QED
  BY <1>2, <1>4, <1>5, <1>6 DEF GateInv

LEMMA GatePreserved == GateInv /\ [GateNext]_gateVars => GateInv'
<1> SUFFICES ASSUME GateInv, [GateNext]_gateVars PROVE GateInv'
  OBVIOUS
<1>1. ASSUME NEW r \in Requests, Step(r) PROVE GateInv'
  <2>1. CASE Arrive(r)
    BY <2>1, ArriveKeeps
  <2>2. CASE Enqueue(r)
    BY <2>2, EnqueueKeeps
  <2>3. CASE LeaveQueue(r)
    BY <2>3, LeaveKeeps
  <2>4. CASE CreateNotified(r)
    BY <2>4, CreateKeeps
  <2>5. CASE RetryAcquire(r)
    BY <2>5, RetryKeeps
  <2>6. CASE Poll(r)
    BY <2>6, PollKeeps
  <2>7. CASE Wake(r)
    BY <2>7, WakeKeeps
  <2>8. CASE Expire(r)
    BY <2>8, DropKeeps DEF Expire, GateInv, Bounds
  <2>9. CASE Disconnect(r)
    <3>1. gone' \in 0..MaxDisconnects
      BY <2>9, GateAssumption DEF Disconnect, GateInv, Bounds
    <3> QED
      BY <2>9, <3>1, DropKeeps DEF Disconnect
  <2>10. CASE Release(r)
    BY <2>10, ReleaseKeeps
  <2>11. CASE NotifyReleased(r)
    BY <2>11, NotifyOneKeeps
       DEF NotifyReleased, GateInv, Bounds, GateSteps, Holding, Counted, Queued, Waiting
  <2> QED
    BY <1>1, <2>1, <2>2, <2>3, <2>4, <2>5, <2>6, <2>7, <2>8, <2>9, <2>10, <2>11 DEF Step
<1>2. CASE Reconfigure
  BY <1>2, ReconfigureKeeps
<1>3. CASE NotifyWaiters
  BY <1>3, NotifyWaitersKeeps
<1>4. CASE UNCHANGED gateVars
  BY <1>4 DEF gateVars, GateInv, Bounds, Counts, Registers, Parked, At, HelpIsLeft, Stuck, Helps
<1> QED
  BY <1>1, <1>2, <1>3, <1>4 DEF GateNext

(***************************************************************************)
(* Behind every stuck request of a gate with all slots free there is       *)
(* somebody whose own steps wake a request, whatever deadlines, departures *)
(* and reloads come in between.                                            *)
(***************************************************************************)
THEOREM GateInvariance == GateSpec => []GateInv
  BY GateBegins, GatePreserved, PTL DEF GateSpec

(***************************************************************************)
(* The counters of admission.rs count what they say, the requests that     *)
(* hold a slot and those in the queue or gone from it; Notify registers    *)
(* exactly the parked requests, each once, and stores a permit only while  *)
(* there is none.                                                          *)
(***************************************************************************)
THEOREM GateTypeCorrect == GateSpec => []GateTypeOK
<1>1. GateInv => GateTypeOK
  BY DEF GateInv, Bounds, Counts, Registers, Parked, At, Holding, Counted, GateSteps, GateTypeOK
<1> QED
  BY <1>1, GateInvariance, PTL

(***************************************************************************)
(* The gate never stalls: while every slot is free no request stays parked *)
(* with nobody left to wake it, for any number of requests, any limits and *)
(* any reloads.                                                            *)
(***************************************************************************)
THEOREM NoRequestIsLeftParked == GateSpec => []GateNeverStalls
<1>1. GateInv => GateNeverStalls
  BY DEF GateInv, HelpIsLeft, Stuck, Helps, OnItsWay, At, GateNeverStalls
<1> QED
  BY <1>1, GateInvariance, PTL

-----------------------------------------------------------------------------
(***************************************************************************)
(* Webhook delivery, for any subscriptions, declarations, commits, batch   *)
(* sizes, reloads and restarts, as long as a running server is not given a *)
(* collection declared otherwise (a restart may): MCWebhooksMoved exhibits *)
(* what happens then.                                                      *)
(***************************************************************************)
ReloadStays == \A c \in Configs : Reload(c) => c.place = config.place

CollectionStays == [][ReloadStays]_deliveryVars

(***************************************************************************)
(* Apart from a boot that has not read it, what the manager binds is what  *)
(* is configured: a running server refuses subscriptions declared          *)
(* otherwise, and the collection stays.                                    *)
(***************************************************************************)
BoundIsConfigured ==
    /\ manager.booted \/ manager.pc # "read" =>
          /\ manager.bound.on = config.on /\ manager.bound.decl = config.decl
          /\ manager.bound.place = config.place
    /\ manager.pc = "idle" => manager.booted

(***************************************************************************)
(* Only declared subscriptions are to be bound; between the two steps of a *)
(* binding the runtime has its declaration already.                        *)
(***************************************************************************)
BindingDeclared ==
    \A s \in Subs :
        /\ s \in manager.todo \cup manager.at =>
              manager.pc = "bind" /\ manager.bound.decl[s] # Undeclared
        /\ s \in manager.at =>
              s \notin manager.todo /\ runtime[s].decl = manager.bound.decl[s]

(***************************************************************************)
(* A bound runtime is declared and placed as configured, and matches. A    *)
(* rebind therefore leaves it its cursor.                                  *)
(***************************************************************************)
RuntimesAreConfigured ==
    \A s \in Subs : IsBound(s) =>
        /\ manager.booted \/ manager.pc # "read"
        /\ runtime[s].decl = config.decl[s] /\ config.decl[s] # Undeclared
        /\ runtime[s].place = config.place
        /\ <<config.decl[s], config.place>> \in Matching
        /\ runtime[s].cursor <= lastSeq

Running(s) == task[s].pc # "off"

(***************************************************************************)
(* Delivery tasks run for bound subscriptions only, and not while the      *)
(* manager is about to touch their runtimes.                               *)
(***************************************************************************)
TasksAreBound ==
    \A s \in Subs : Running(s) =>
        IsBound(s) /\ manager.pc # "read" /\ s \notin manager.todo \cup manager.at

(***************************************************************************)
(* What a subscription is owed is in the outbox, beyond its cursor,        *)
(* accepted, and beyond what a retention pass is about to prune. Once the  *)
(* first rebind is complete, whoever is owed anything is bound and found   *)
(* by retention.                                                           *)
(***************************************************************************)
OwedIsSafe(s) ==
    \A n \in owed[s] :
        /\ n \notin sent[s]
        /\ \E o \in outbox : o.seq = n
        /\ manager.booted => IsBound(s) /\ s \in registry
        /\ IsBound(s) => /\ n > runtime[s].cursor
                         /\ \A o \in outbox : o.seq = n => AcceptedBy(runtime[s].decl, o)
        /\ retain.on => n > retain.floor

(***************************************************************************)
(* Retention starts after the first rebind; its floor is a commit.         *)
(***************************************************************************)
Retaining == retain.on => manager.booted /\ retain.floor <= lastSeq

(***************************************************************************)
(* While a batch is delivered each of its obligations is still to do, was  *)
(* handled, or is not accepted; and of the outbox beyond the cursor the    *)
(* batch skips nothing.                                                    *)
(***************************************************************************)
Handles(s, p) ==
    p \in task[s].todo \/ p.seq \in sent[s] \/ ~AcceptedBy(runtime[s].decl, p)

BatchIsTheOutbox(s) ==
    task[s].pc = "deliver" =>
        /\ task[s].batch # {} /\ task[s].todo \subseteq task[s].batch
        /\ \A p \in task[s].batch : p.seq <= lastSeq /\ Handles(s, p)
        /\ \A o \in outbox, p \in task[s].batch :
              /\ o.seq = p.seq => o = p
              /\ o.seq > runtime[s].cursor /\ o.seq <= p.seq => o \in task[s].batch

DeliveryInv ==
    /\ DeliveryTypeOK /\ SequencesDistinct
    /\ BoundIsConfigured /\ BindingDeclared /\ RuntimesAreConfigured /\ TasksAreBound
    /\ Retaining
    /\ \A s \in Subs : OwedIsSafe(s) /\ BatchIsTheOutbox(s)

-----------------------------------------------------------------------------
TaskType ==
    [pc : {"off", "resolving", "idle", "deliver"}, batch : SUBSET Obligation,
     todo : SUBSET Obligation, attempt : 1..MaxAttempts]

RuntimeType ==
    [decl : Declarations \cup {Undeclared}, place : Places \cup {Nowhere},
     cursor : Nat \cup {NoCursor}]

LEMMA SubFacts ==
    ASSUME DeliveryTypeOK, NEW s \in Subs
    PROVE  /\ task[s] \in TaskType /\ runtime[s] \in RuntimeType
           /\ sent[s] \subseteq 1..lastSeq /\ owed[s] \subseteq 1..lastSeq
           /\ lastSeq \in Nat
           /\ IsBound(s) => runtime[s].cursor \in Nat
BY DEF DeliveryTypeOK, LogTypeOK, TaskType, RuntimeType, IsBound

(***************************************************************************)
(* A step of one delivery task: it may handle some sequences and advance   *)
(* its cursor.                                                             *)
(***************************************************************************)
LEMMA TaskMoves ==
    ASSUME DeliveryInv, NEW s \in Subs, Running(s),
           UNCHANGED <<rows, outbox, lastSeq, config, manager, registry, retain, changes>>,
           NEW t \in TaskType, t.pc # "off", task' = [task EXCEPT ![s] = t],
           NEW c \in Nat, c <= lastSeq, runtime' = [runtime EXCEPT ![s].cursor = c],
           NEW x \in SUBSET (1..lastSeq),
           sent' = [sent EXCEPT ![s] = @ \cup x], owed' = [owed EXCEPT ![s] = @ \ x],
           \A n \in owed[s] : n \in x \/ n > c,
           BatchIsTheOutbox(s)'
    PROVE  DeliveryInv'
<1>t. DeliveryTypeOK
  BY DEF DeliveryInv
<1>1. /\ task \in [Subs -> TaskType] /\ runtime \in [Subs -> RuntimeType]
      /\ sent \in [Subs -> SUBSET (1..lastSeq)] /\ owed \in [Subs -> SUBSET (1..lastSeq)]
      /\ lastSeq \in Nat /\ NoCursor \notin Nat
  BY <1>t, DeclarationsAssumption DEF DeliveryTypeOK, LogTypeOK, TaskType, RuntimeType
<1>2. /\ task'[s] = t /\ sent'[s] = sent[s] \cup x /\ owed'[s] = owed[s] \ x
      /\ runtime'[s].cursor = c /\ runtime'[s].decl = runtime[s].decl
      /\ runtime'[s].place = runtime[s].place
  BY <1>1 DEF RuntimeType
<1>3. /\ IsBound(s) /\ manager.pc # "read" /\ s \notin manager.todo \cup manager.at
      /\ IsBound(s)'
  BY <1>1, <1>2 DEF DeliveryInv, TasksAreBound, IsBound
<1>4. \A u \in Subs \ {s} :
        /\ task'[u] = task[u] /\ sent'[u] = sent[u] /\ owed'[u] = owed[u]
        /\ runtime'[u] = runtime[u]
  BY <1>1
<1>5. \A u \in Subs : /\ runtime'[u].decl = runtime[u].decl
                      /\ runtime'[u].place = runtime[u].place
                      /\ IsBound(u)' <=> IsBound(u)
                      /\ Running(u)' <=> Running(u)
  BY <1>2, <1>3, <1>4 DEF IsBound, Running
<1>6. DeliveryTypeOK'
  <2>1. /\ task' \in [Subs -> TaskType] /\ runtime' \in [Subs -> RuntimeType]
        /\ sent' \in [Subs -> SUBSET (1..lastSeq)] /\ owed' \in [Subs -> SUBSET (1..lastSeq)]
    BY <1>1 DEF RuntimeType
  <2>2. LogTypeOK'
    BY <1>t DEF DeliveryTypeOK, LogTypeOK
  <2> QED
    BY <1>t, <1>5, <2>1, <2>2 DEF DeliveryTypeOK, TaskType, RuntimeType
<1>7. SequencesDistinct' /\ BoundIsConfigured' /\ Retaining'
  BY DEF DeliveryInv, SequencesDistinct, BoundIsConfigured, Retaining
<1>8. BindingDeclared' /\ TasksAreBound'
  BY <1>5 DEF DeliveryInv, BindingDeclared, TasksAreBound
<1>9. RuntimesAreConfigured'
  BY <1>2, <1>4, <1>5 DEF DeliveryInv, RuntimesAreConfigured
<1>10. OwedIsSafe(s)'
  <2> SUFFICES ASSUME NEW n \in owed'[s]
               PROVE  /\ n \notin sent'[s]
                      /\ \E o \in outbox' : o.seq = n
                      /\ manager'.booted => IsBound(s)' /\ s \in registry'
                      /\ n > runtime'[s].cursor
                      /\ \A o \in outbox' : o.seq = n => AcceptedBy(runtime'[s].decl, o)
                      /\ retain'.on => n > retain'.floor
    BY <1>3 DEF OwedIsSafe
  <2>1. n \in owed[s] /\ n \notin x
    BY <1>2
  <2> QED
    BY <1>2, <1>3, <2>1 DEF DeliveryInv, OwedIsSafe
<1>11. \A u \in Subs \ {s} : OwedIsSafe(u)' /\ BatchIsTheOutbox(u)'
  <2> SUFFICES ASSUME NEW u \in Subs \ {s} PROVE OwedIsSafe(u)' /\ BatchIsTheOutbox(u)'
    OBVIOUS
  <2> QED
    BY <1>4, <1>5 DEF DeliveryInv, OwedIsSafe, BatchIsTheOutbox, Handles, IsBound
<1> QED
  BY <1>6, <1>7, <1>8, <1>9, <1>10, <1>11 DEF DeliveryInv

LEMMA TaskGoesOn ==
    ASSUME DeliveryInv, NEW s \in Subs, Running(s),
           UNCHANGED <<rows, outbox, lastSeq, config, manager, runtime, registry, retain,
                       changes, sent, owed>>,
           NEW t \in TaskType, t.pc # "off", task' = [task EXCEPT ![s] = t],
           BatchIsTheOutbox(s)'
    PROVE  DeliveryInv'
<1>t. DeliveryTypeOK
  BY DEF DeliveryInv
<1>1. IsBound(s)
  BY DEF DeliveryInv, TasksAreBound
<1>2. runtime[s].cursor \in Nat /\ runtime[s].cursor <= lastSeq
  BY <1>t, <1>1, SubFacts DEF DeliveryInv, RuntimesAreConfigured
<1>3. /\ runtime \in [Subs -> RuntimeType]
      /\ sent \in [Subs -> SUBSET (1..lastSeq)] /\ owed \in [Subs -> SUBSET (1..lastSeq)]
  BY <1>t DEF DeliveryTypeOK, RuntimeType
<1>4. runtime' = [runtime EXCEPT ![s].cursor = runtime[s].cursor]
  BY <1>3 DEF RuntimeType
<1>5. sent' = [sent EXCEPT ![s] = @ \cup {}] /\ owed' = [owed EXCEPT ![s] = @ \ {}]
  BY <1>3
<1>6. \A n \in owed[s] : n \in {} \/ n > runtime[s].cursor
  BY <1>1 DEF DeliveryInv, OwedIsSafe
<1>7. {} \in SUBSET (1..lastSeq)
  OBVIOUS
<1> DEFINE c == runtime[s].cursor
<1> HIDE DEF c
<1>8. /\ c \in Nat /\ c <= lastSeq /\ runtime' = [runtime EXCEPT ![s].cursor = c]
      /\ \A n \in owed[s] : n \in {} \/ n > c
  BY <1>2, <1>4, <1>6 DEF c
<1> QED
  BY <1>5, <1>7, <1>8, TaskMoves

(***************************************************************************)
(* An obligation of the batch is handled.                                  *)
(***************************************************************************)
LEMMA TaskHandles ==
    ASSUME DeliveryInv, NEW s \in Subs, task[s].pc = "deliver", NEW o \in NextUp(task[s].todo),
           UNCHANGED <<rows, outbox, lastSeq, config, manager, runtime, registry, retain,
                       changes>>,
           task' = [task EXCEPT ![s] = Pop(@, o)],
           \/ Handled(s, o)
           \/ ~AcceptedBy(runtime[s].decl, o) /\ UNCHANGED <<sent, owed>>
    PROVE  DeliveryInv'
<1>t. DeliveryTypeOK
  BY DEF DeliveryInv
<1>0. Running(s)
  BY DEF Running
<1>1. IsBound(s)
  BY <1>0 DEF DeliveryInv, TasksAreBound
<1>2. runtime[s].cursor \in Nat /\ runtime[s].cursor <= lastSeq
  BY <1>t, <1>1, SubFacts DEF DeliveryInv, RuntimesAreConfigured
<1>3. /\ runtime \in [Subs -> RuntimeType] /\ task \in [Subs -> TaskType]
      /\ sent \in [Subs -> SUBSET (1..lastSeq)] /\ owed \in [Subs -> SUBSET (1..lastSeq)]
  BY <1>t DEF DeliveryTypeOK, RuntimeType, TaskType
<1>4. BatchIsTheOutbox(s)
  BY DEF DeliveryInv
<1>5. o \in task[s].todo /\ o \in task[s].batch /\ o.seq <= lastSeq /\ o \in Obligation
  BY <1>3, <1>4 DEF NextUp, BatchIsTheOutbox, TaskType
<1>6. o.seq \in 1..lastSeq
  BY <1>t, <1>5 DEF Obligation, DeliveryTypeOK, LogTypeOK
<1> DEFINE t == Pop(task[s], o)
<1>7. /\ t \in TaskType /\ t.pc = "deliver" /\ t.batch = task[s].batch
      /\ t.todo = task[s].todo \ {o}
  <2>1. task[s] \in TaskType /\ 1 \in 1..MaxAttempts
    BY <1>3, WebhookBounds
  <2>2. task[s].todo \ {o} \in SUBSET Obligation
    BY <2>1 DEF TaskType
  <2> QED
    BY <2>1, <2>2 DEF TaskType, Pop
<1>8. t \in TaskType /\ t.pc # "off"
  BY <1>7
<1>9. task' = [task EXCEPT ![s] = t] /\ task'[s] = t
  BY <1>3
<1>10. sent'[s] \in {sent[s], sent[s] \cup {o.seq}}
       /\ (o.seq \in sent'[s] \/ ~AcceptedBy(runtime[s].decl, o))
  BY <1>3 DEF Handled
<1>11. BatchIsTheOutbox(s)'
  <2>1. \A p \in task[s].batch : Handles(s, p)'
    BY <1>4, <1>7, <1>9, <1>10 DEF BatchIsTheOutbox, Handles, AcceptedBy, Operation
  <2> HIDE DEF t
  <2> QED
    BY <1>4, <1>7, <1>9, <2>1 DEF BatchIsTheOutbox
<1>12. CASE ~AcceptedBy(runtime[s].decl, o) /\ UNCHANGED <<sent, owed>>
  <2> HIDE DEF t
  <2> QED
    BY <1>0, <1>8, <1>9, <1>11, <1>12, TaskGoesOn
<1>13. CASE Handled(s, o)
  <2>1. /\ sent' = [sent EXCEPT ![s] = @ \cup {o.seq}]
        /\ owed' = [owed EXCEPT ![s] = @ \ {o.seq}]
    BY <1>13 DEF Handled
  <2>2. runtime' = [runtime EXCEPT ![s].cursor = runtime[s].cursor]
    BY <1>3 DEF RuntimeType
  <2>3. \A n \in owed[s] : n \in {o.seq} \/ n > runtime[s].cursor
    BY <1>1 DEF DeliveryInv, OwedIsSafe
  <2>4. {o.seq} \in SUBSET (1..lastSeq)
    BY <1>6
  <2> HIDE DEF t
  <2> QED
    BY <1>0, <1>2, <1>8, <1>9, <1>11, <2>1, <2>2, <2>3, <2>4, TaskMoves
<1> QED
  BY <1>12, <1>13

LEMMA ReadBatchKeeps ==
    ASSUME DeliveryInv, NEW s \in Subs, ReadBatch(s)
    PROVE  DeliveryInv'
<1>t. DeliveryTypeOK /\ LogTypeOK /\ SequencesDistinct
  BY DEF DeliveryInv, DeliveryTypeOK
<1>0. Running(s) /\ task \in [Subs -> TaskType]
  BY <1>t DEF ReadBatch, Running, DeliveryTypeOK, TaskType
<1>1. runtime[s].cursor \in Nat /\ BatchSize \in Nat
  BY <1>t, <1>0, SubFacts, WebhookBounds DEF DeliveryInv, TasksAreBound
<1> DEFINE b == ReadAfter(runtime[s].cursor, BatchSize)
           t == [NoTask EXCEPT !.pc = "deliver", !.batch = b, !.todo = b]
<1>2. b # {} /\ task' = [task EXCEPT ![s] = t]
  BY DEF ReadBatch
<1>3. \A p \in b : p \in outbox /\ p.seq > runtime[s].cursor
  BY ReadAfterSubset
<1>4. \A o \in outbox, p \in b : o.seq > runtime[s].cursor /\ o.seq <= p.seq => o \in b
  BY <1>t, <1>1, ReadAfterSkipsNothing
<1>5. t \in TaskType /\ t.pc # "off" /\ t.batch = b /\ t.todo = b /\ task'[s] = t
  <2>1. b \in SUBSET Obligation /\ 1 \in 1..MaxAttempts
    BY <1>t, <1>3, WebhookBounds DEF LogTypeOK
  <2>2. task'[s] = t
    BY <1>0, <1>2
  <2> HIDE DEF b
  <2> QED
    BY <2>1, <2>2 DEF TaskType, NoTask
<1>6. UNCHANGED <<rows, outbox, lastSeq, config, manager, runtime, registry, retain,
                  changes, sent, owed>>
  BY DEF ReadBatch
<1>7. BatchIsTheOutbox(s)'
  <2>1. /\ task'[s].batch = b /\ task'[s].todo = b
    BY <1>5
  <2>2. \A p \in b : p.seq <= lastSeq /\ Handles(s, p)'
    BY <1>t, <1>3, <2>1 DEF Handles, LogTypeOK
  <2>3. \A o \in outbox, p \in b : o.seq = p.seq => o = p
    BY <1>t, <1>3 DEF SequencesDistinct
  <2> HIDE DEF b
  <2> QED
    BY <1>2, <1>4, <1>6, <2>1, <2>2, <2>3 DEF BatchIsTheOutbox
<1> HIDE DEF t
<1> QED
  BY <1>0, <1>2, <1>5, <1>6, <1>7, TaskGoesOn

(***************************************************************************)
(* The cursor advances past a batch that is handled: whatever it passes    *)
(* was in the batch.                                                       *)
(***************************************************************************)
LEMMA AdvanceKeeps ==
    ASSUME DeliveryInv, NEW s \in Subs, AdvanceCursor(s)
    PROVE  DeliveryInv'
<1>t. DeliveryTypeOK /\ LogTypeOK
  BY DEF DeliveryInv, DeliveryTypeOK
<1>0. Running(s) /\ task \in [Subs -> TaskType] /\ task[s].pc = "deliver" /\ task[s].todo = {}
  BY <1>t DEF AdvanceCursor, Running, DeliveryTypeOK, TaskType
<1>1. IsBound(s) /\ BatchIsTheOutbox(s) /\ OwedIsSafe(s)
  BY <1>0 DEF DeliveryInv, TasksAreBound
<1> DEFINE b == task[s].batch
           N == {o.seq : o \in b}
<1>2. b # {} /\ b \subseteq Obligation /\ \A p \in b : p.seq <= lastSeq /\ Handles(s, p)
  BY <1>0, <1>1 DEF BatchIsTheOutbox, TaskType
<1>3. Max(N) \in N /\ \A n \in N : n <= Max(N)
  <2>1. (\A n \in N : n \in Nat) /\ N # {} /\ lastSeq \in Nat /\ \A n \in N : n <= lastSeq
    BY <1>t, <1>2 DEF Obligation, LogTypeOK
  <2> HIDE DEF N
  <2> QED
    BY <2>1, MaxOfBounded
<1>4. PICK p \in b : p.seq = Max(N)
  BY <1>3
<1> DEFINE c == p.seq
<1>5. c \in Nat /\ c <= lastSeq
  BY <1>2, <1>4 DEF Obligation
<1>6. \A n \in owed[s] : n \in {} \/ n > c
  <2> SUFFICES ASSUME NEW n \in owed[s], ~(n > c) PROVE FALSE
    OBVIOUS
  <2>1. n \in Nat /\ n <= c
    BY <1>t, <1>5, SubFacts
  <2>2. PICK o \in outbox : o.seq = n
    BY <1>1 DEF OwedIsSafe
  <2>3. o.seq > runtime[s].cursor /\ n \notin sent[s] /\ AcceptedBy(runtime[s].decl, o)
    BY <1>1, <2>2 DEF OwedIsSafe
  <2>4. o \in b
    BY <1>0, <1>1, <2>1, <2>2, <2>3 DEF BatchIsTheOutbox
  <2> QED
    BY <1>0, <1>2, <2>2, <2>3, <2>4 DEF Handles
<1>7. Idle \in TaskType /\ Idle.pc = "idle"
  BY WebhookBounds DEF TaskType, Idle, NoTask
<1>8. /\ task' = [task EXCEPT ![s] = Idle] /\ task'[s] = Idle
      /\ runtime' = [runtime EXCEPT ![s].cursor = c]
      /\ UNCHANGED <<rows, outbox, lastSeq, config, manager, registry, retain, changes,
                     sent, owed>>
  BY <1>0, <1>4 DEF AdvanceCursor, Highest
<1>9. sent' = [sent EXCEPT ![s] = @ \cup {}] /\ owed' = [owed EXCEPT ![s] = @ \ {}]
  BY <1>t, <1>8 DEF DeliveryTypeOK
<1>10. BatchIsTheOutbox(s)'
  BY <1>7, <1>8 DEF BatchIsTheOutbox
<1> HIDE DEF c
<1>11. {} \in SUBSET (1..lastSeq) /\ Idle.pc # "off"
  BY <1>7
<1> QED
  BY <1>11, <1>0, <1>5, <1>6, <1>7, <1>8, <1>9, <1>10, TaskMoves

LEMMA DrainKeeps ==
    ASSUME DeliveryInv, NEW s \in Subs, Drain(s)
    PROVE  DeliveryInv'
<1>t. DeliveryTypeOK /\ task \in [Subs -> TaskType]
  BY DEF DeliveryInv, DeliveryTypeOK, TaskType
<1>1. CASE ResolveOutbox(s)
  <2>1. Idle \in TaskType /\ Idle.pc = "idle"
    BY WebhookBounds DEF TaskType, Idle, NoTask
  <2>2. task' = [task EXCEPT ![s] = Idle] /\ task'[s] = Idle /\ Running(s) /\ Idle.pc # "off"
    BY <1>t, <1>1, <2>1 DEF ResolveOutbox, Running
  <2>3. BatchIsTheOutbox(s)'
    BY <2>1, <2>2 DEF BatchIsTheOutbox
  <2>4. UNCHANGED <<rows, outbox, lastSeq, config, manager, runtime, registry, retain,
                    changes, sent, owed>>
    BY <1>1 DEF ResolveOutbox
  <2> QED
    BY <2>1, <2>2, <2>3, <2>4, TaskGoesOn
<1>2. CASE ReadBatch(s)
  BY <1>2, ReadBatchKeeps
<1>3. CASE SkipFiltered(s)
  BY <1>3, TaskHandles DEF SkipFiltered
<1>4. CASE Deliver(s)
  BY <1>4, TaskHandles DEF Deliver
<1>5. CASE DeadLetter(s)
  BY <1>5, TaskHandles DEF DeadLetter
<1>6. CASE FailAttempt(s)
  <2> DEFINE t == [task[s] EXCEPT !.attempt = task[s].attempt + 1]
  <2>1. task[s].pc = "deliver" /\ task[s].attempt < MaxAttempts /\ Running(s)
    BY <1>6 DEF FailAttempt, Running
  <2>2. /\ t \in TaskType /\ t.pc # "off"
        /\ t.pc = "deliver" /\ t.batch = task[s].batch /\ t.todo = task[s].todo
    BY <1>t, <2>1, WebhookBounds DEF TaskType
  <2>3. task' = [task EXCEPT ![s] = t] /\ task'[s] = t
    BY <1>t, <1>6, <2>1 DEF FailAttempt
  <2>4. UNCHANGED <<rows, outbox, lastSeq, config, manager, runtime, registry, retain,
                    changes, sent, owed>>
    BY <1>6 DEF FailAttempt
  <2>5. BatchIsTheOutbox(s)'
    <3> HIDE DEF t
    <3> QED
      BY <2>1, <2>2, <2>3, <2>4 DEF DeliveryInv, BatchIsTheOutbox, Handles
  <2> HIDE DEF t
  <2> QED
    BY <2>1, <2>2, <2>3, <2>4, <2>5, TaskGoesOn
<1>7. CASE AdvanceCursor(s)
  BY <1>7, AdvanceKeeps
<1> QED
  BY <1>1, <1>2, <1>3, <1>4, <1>5, <1>6, <1>7 DEF Drain

-----------------------------------------------------------------------------
(***************************************************************************)
(* A commit owes its obligation to the bound subscriptions that retention  *)
(* finds; it is above every cursor, every batch and every floor.           *)
(***************************************************************************)
LEMMA WriteKeeps ==
    ASSUME DeliveryInv, NEW m \in Mutation, NEW rec \in Recordings, NEW gap \in 0..MaxGap,
           Write(m, rec, gap)
    PROVE  DeliveryInv'
<1>t. /\ DeliveryTypeOK /\ LogTypeOK /\ SequencesDistinct
      /\ rec \in BOOLEAN /\ gap \in Nat /\ lastSeq \in Nat
  BY RecordingsAssumption, BoundsAssumption DEF DeliveryInv, DeliveryTypeOK, LogTypeOK
<1> DEFINE new == [seq |-> lastSeq', fid |-> m.fid, prior |-> rows[m.fid],
                   current |-> m.to, recorded |-> rec]
<1>1. /\ lastSeq' = lastSeq + gap + 1 /\ outbox' = outbox \cup {new} /\ LogTypeOK'
  BY <1>t, CommitOne DEF Write
<1>2. new.seq = lastSeq' /\ lastSeq' \in Nat /\ lastSeq' > lastSeq
      /\ \A o \in outbox : o.seq \in Nat /\ o.seq <= lastSeq
  BY <1>t, <1>1 DEF LogTypeOK, Obligation
<1> HIDE DEF new
<1>3. UNCHANGED <<config, manager, runtime, registry, task, retain, changes, sent>>
  BY DEF Write
<1>4. /\ \A s \in Subs : owed'[s] \subseteq owed[s] \cup {lastSeq'}
      /\ \A s \in Subs : lastSeq' \in owed'[s] /\ lastSeq' \notin owed[s] =>
            IsBound(s) /\ s \in registry /\ AcceptedBy(runtime[s].decl, new)
      /\ owed' \in [Subs -> SUBSET (1..lastSeq')]
  <2>1. owed \in [Subs -> SUBSET (1..lastSeq)]
    BY <1>t DEF DeliveryTypeOK
  <2>2. \A s \in Subs : owed'[s] =
          IF Listed(s) # NoCursor /\ \E o \in outbox' \ outbox : AcceptedBy(runtime[s].decl, o)
          THEN owed[s] \cup {lastSeq'} ELSE owed[s]
    BY DEF Write
  <2>3. DOMAIN owed' = Subs /\ owed' = [s \in Subs |-> owed'[s]]
    BY DEF Write
  <2>4. \A s \in Subs : owed'[s] \subseteq 1..lastSeq'
    <3>1. lastSeq' \in 1..lastSeq' /\ \A k \in 1..lastSeq : k \in 1..lastSeq'
      BY <1>t, <1>2
    <3>2. \A s \in Subs : owed[s] \subseteq 1..lastSeq'
      BY <2>1, <3>1
    <3> QED
      BY <2>2, <3>1, <3>2
  <2>5. outbox' \ outbox \subseteq {new}
    BY <1>1
  <2> QED
    BY <2>1, <2>2, <2>3, <2>4, <2>5 DEF Listed, IsBound
<1>5. DeliveryTypeOK'
  <2>1. sent' \in [Subs -> SUBSET (1..lastSeq')]
    BY <1>t, <1>2, <1>3 DEF DeliveryTypeOK
  <2> QED
    BY <1>t, <1>1, <1>3, <1>4, <2>1 DEF DeliveryTypeOK, IsBound
<1>6. SequencesDistinct'
  BY <1>t, <1>1, <1>2 DEF SequencesDistinct
<1>7. BoundIsConfigured' /\ BindingDeclared' /\ TasksAreBound' /\ RuntimesAreConfigured'
  <2>1. \A s \in Subs : IsBound(s) => runtime[s].cursor \in Nat
    BY <1>t, SubFacts
  <2> QED
    BY <1>t, <1>2, <1>3, <2>1 DEF DeliveryInv, BoundIsConfigured, BindingDeclared, TasksAreBound,
       RuntimesAreConfigured, IsBound, Running
<1>8. Retaining'
  BY <1>t, <1>2, <1>3 DEF DeliveryInv, Retaining, DeliveryTypeOK
<1>9. ASSUME NEW s \in Subs PROVE OwedIsSafe(s)'
  <2> SUFFICES ASSUME NEW n \in owed'[s]
               PROVE  /\ n \notin sent[s]
                      /\ \E o \in outbox' : o.seq = n
                      /\ manager.booted => IsBound(s) /\ s \in registry
                      /\ IsBound(s) => /\ n > runtime[s].cursor
                                       /\ \A o \in outbox' :
                                             o.seq = n => AcceptedBy(runtime[s].decl, o)
                      /\ retain.on => n > retain.floor
    BY <1>3 DEF OwedIsSafe, IsBound, AcceptedBy
  <2>1. CASE n \in owed[s]
    <3>1. n <= lastSeq /\ n \in Nat
      BY <1>t, <2>1, SubFacts
    <3>2. \A o \in outbox' : o.seq = n => o \in outbox
      BY <1>t, <1>1, <1>2, <3>1
    <3> QED
      BY <1>1, <2>1, <3>2 DEF DeliveryInv, OwedIsSafe
  <2>2. CASE n \notin owed[s]
    <3>1. n = lastSeq' /\ IsBound(s) /\ s \in registry /\ AcceptedBy(runtime[s].decl, new)
      BY <1>4, <2>2
    <3>2. n \notin sent[s]
      <4>1. sent[s] \subseteq 1..lastSeq
        BY <1>t, SubFacts
      <4> QED
        BY <1>t, <1>2, <3>1, <4>1
    <3>3. new \in outbox' /\ \A o \in outbox' : o.seq = n => o = new
      BY <1>t, <1>1, <1>2, <3>1
    <3>4. n > runtime[s].cursor
      <4>1. runtime[s].cursor \in Nat
        BY <1>t, <3>1, SubFacts
      <4>2. runtime[s].cursor <= lastSeq
        BY <3>1 DEF DeliveryInv, RuntimesAreConfigured
      <4> QED
        BY <1>t, <1>2, <3>1, <4>1, <4>2
    <3>5. retain.on => n > retain.floor
      BY <1>t, <1>2, <3>1 DEF DeliveryInv, Retaining, DeliveryTypeOK
    <3> QED
      BY <1>2, <3>1, <3>2, <3>3, <3>4, <3>5
  <2> QED
    BY <2>1, <2>2
<1>10. ASSUME NEW s \in Subs PROVE BatchIsTheOutbox(s)'
  <2> SUFFICES ASSUME task[s].pc = "deliver"
               PROVE  /\ task[s].batch # {} /\ task[s].todo \subseteq task[s].batch
                      /\ \A p \in task[s].batch : p.seq <= lastSeq' /\ Handles(s, p)
                      /\ \A o \in outbox', p \in task[s].batch :
                            /\ o.seq = p.seq => o = p
                            /\ o.seq > runtime[s].cursor /\ o.seq <= p.seq
                                  => o \in task[s].batch
    BY <1>3 DEF BatchIsTheOutbox, Handles, AcceptedBy
  <2>1. \A p \in task[s].batch : p.seq \in Nat /\ p.seq <= lastSeq
    BY <1>t DEF DeliveryInv, BatchIsTheOutbox, DeliveryTypeOK, Obligation
  <2> QED
    BY <1>t, <1>1, <1>2, <2>1 DEF DeliveryInv, BatchIsTheOutbox
<1> QED
  BY <1>5, <1>6, <1>7, <1>8, <1>9, <1>10 DEF DeliveryInv

(***************************************************************************)
(* What is pruned lies at or below the floor, what is owed above it.       *)
(***************************************************************************)
LEMMA PruneKeeps ==
    ASSUME DeliveryInv, PruneBefore
    PROVE  DeliveryInv'
<1>t. DeliveryTypeOK /\ LogTypeOK /\ SequencesDistinct /\ retain.floor \in Nat
  BY DEF DeliveryInv, DeliveryTypeOK
<1>1. /\ outbox' \subseteq outbox /\ \A o \in outbox \ outbox' : o.seq <= retain.floor
      /\ rows' = rows /\ lastSeq' = lastSeq
  <2>1. PruneBatch \in Nat /\ Prune(retain.floor, PruneBatch)
    BY WebhookBounds DEF PruneBefore
  <2> QED
    BY <1>t, <2>1, PruneRemovesAPrefix
<1>2. /\ UNCHANGED <<config, manager, runtime, registry, task, changes, sent, owed>>
      /\ retain.on /\ retain' = NotPruning
  BY DEF PruneBefore
<1>3. DeliveryTypeOK'
  BY <1>t, <1>1, <1>2 DEF DeliveryTypeOK, LogTypeOK, NotPruning, IsBound
<1>4. SequencesDistinct' /\ Retaining'
  BY <1>t, <1>1, <1>2 DEF SequencesDistinct, Retaining, NotPruning
<1>5. BoundIsConfigured' /\ BindingDeclared' /\ TasksAreBound' /\ RuntimesAreConfigured'
  BY <1>1, <1>2 DEF DeliveryInv, BoundIsConfigured, BindingDeclared, TasksAreBound,
     RuntimesAreConfigured, IsBound, Running
<1>6. ASSUME NEW s \in Subs PROVE OwedIsSafe(s)'
  <2> SUFFICES ASSUME NEW n \in owed[s]
               PROVE  /\ n \notin sent[s]
                      /\ \E o \in outbox' : o.seq = n
                      /\ manager.booted => IsBound(s) /\ s \in registry
                      /\ IsBound(s) => /\ n > runtime[s].cursor
                                       /\ \A o \in outbox' :
                                             o.seq = n => AcceptedBy(runtime[s].decl, o)
    BY <1>2 DEF OwedIsSafe, IsBound, AcceptedBy, NotPruning
  <2>1. PICK o \in outbox : o.seq = n
    BY DEF DeliveryInv, OwedIsSafe
  <2>2. n > retain.floor /\ n \in Nat
    BY <1>t, <1>2, SubFacts DEF DeliveryInv, OwedIsSafe
  <2>3. o \in outbox'
    BY <1>t, <1>1, <2>1, <2>2
  <2> QED
    BY <1>1, <2>1, <2>3 DEF DeliveryInv, OwedIsSafe
<1>7. ASSUME NEW s \in Subs PROVE BatchIsTheOutbox(s)'
  BY <1>1, <1>2 DEF DeliveryInv, BatchIsTheOutbox, Handles, AcceptedBy
<1> QED
  BY <1>3, <1>4, <1>5, <1>6, <1>7 DEF DeliveryInv

(***************************************************************************)
(* The floor is no higher than any cursor, and what is owed is beyond the  *)
(* cursor of a subscription retention finds.                               *)
(***************************************************************************)
LEMMA GatherKeeps ==
    ASSUME DeliveryInv, NEW other \in OtherCursors, GatherCursors(other)
    PROVE  DeliveryInv'
<1>t. DeliveryTypeOK /\ LogTypeOK
  BY DEF DeliveryInv, DeliveryTypeOK
<1> DEFINE C == RegisteredCursors \cup {PrimaryHighWater, other}
<1>1. PrimaryHighWater \in Nat /\ PrimaryHighWater <= lastSeq
  <2> DEFINE T == {o.seq : o \in outbox} \cup {0}
  <2>1. (\A t \in T : t \in Nat) /\ T # {} /\ lastSeq \in Nat /\ \A t \in T : t <= lastSeq
    BY <1>t DEF LogTypeOK, Obligation
  <2>2. Max(T) \in T
    <3> HIDE DEF T
    <3> QED
      BY <2>1, MaxOfBounded
  <2> QED
    BY <2>1, <2>2 DEF PrimaryHighWater
<1>2. \A c \in C : c \in Nat
  <2>1. \A s \in Subs : Listed(s) # NoCursor => Listed(s) \in Nat
    BY <1>t, SubFacts DEF Listed, IsBound
  <2> QED
    BY <1>1, <2>1, WebhookBounds DEF RegisteredCursors
<1>3. Min(C) \in C /\ \A c \in C : Min(C) <= c
  <2>1. \E c \in C : \A d \in C : c <= d
    <3>1. C # {}
      OBVIOUS
    <3> HIDE DEF C
    <3> QED
      BY <1>2, <3>1, LeastElement
  <2> QED
    BY <2>1 DEF Min
<1>4. /\ UNCHANGED <<rows, outbox, lastSeq, config, manager, runtime, registry, task, changes,
                     sent, owed>>
      /\ manager.booted
      /\ retain' = [on |-> TRUE, floor |-> Min(C)]
  BY DEF GatherCursors
<1>5. Min(C) \in Nat /\ Min(C) <= lastSeq
  BY <1>t, <1>1, <1>2, <1>3 DEF LogTypeOK
<1>6. ASSUME NEW s \in Subs, NEW n \in owed[s] PROVE n > Min(C)
  <2>1. IsBound(s) /\ s \in registry /\ n > runtime[s].cursor
    BY <1>4 DEF DeliveryInv, OwedIsSafe
  <2>2. runtime[s].cursor \in C /\ runtime[s].cursor \in Nat /\ n \in Nat
    BY <1>t, <2>1, SubFacts DEF RegisteredCursors, Listed, IsBound
  <2>3. Min(C) <= runtime[s].cursor
    BY <1>3, <2>2
  <2> HIDE DEF C
  <2> QED
    BY <1>5, <2>1, <2>2, <2>3
<1> HIDE DEF C
<1>7. retain'.on /\ retain'.floor = Min(C)
  BY <1>4
<1>8. DeliveryTypeOK'
  <2>1. retain' \in [on : BOOLEAN, floor : Nat]
    BY <1>4, <1>5
  <2> QED
    BY <1>t, <1>4, <2>1 DEF DeliveryTypeOK, LogTypeOK, IsBound
<1>9. SequencesDistinct' /\ Retaining' /\ BoundIsConfigured' /\ BindingDeclared'
      /\ TasksAreBound' /\ RuntimesAreConfigured'
  BY <1>4, <1>5, <1>7 DEF DeliveryInv, SequencesDistinct, Retaining, BoundIsConfigured,
     BindingDeclared, TasksAreBound, RuntimesAreConfigured, IsBound, Running
<1>10. ASSUME NEW s \in Subs PROVE OwedIsSafe(s)' /\ BatchIsTheOutbox(s)'
  BY <1>4, <1>6, <1>7 DEF DeliveryInv, OwedIsSafe, BatchIsTheOutbox, Handles, AcceptedBy,
     IsBound
<1> QED
  BY <1>8, <1>9, <1>10 DEF DeliveryInv

-----------------------------------------------------------------------------
LEMMA ConfigFacts ==
    ASSUME DeliveryTypeOK
    PROVE  /\ config \in Configs /\ manager.bound \in Configs
           /\ \A c \in Configs : /\ c.on \in BOOLEAN /\ c.place \in Places
                                 /\ c.decl \in [Subs -> Declarations \cup {Undeclared}]
  BY DeclarationsAssumption DEF DeliveryTypeOK

LEMMA ReloadKeeps ==
    ASSUME ReloadStays, DeliveryInv, NEW c \in Configs, Reload(c)
    PROVE  DeliveryInv'
<1>t. DeliveryTypeOK
  BY DEF DeliveryInv
<1>1. /\ config' = c /\ c.on = config.on /\ c.decl = config.decl /\ c.place = config.place
      /\ UNCHANGED <<rows, outbox, lastSeq, manager, runtime, registry, task, retain, sent, owed>>
      /\ changes.reloads < MaxRebinds /\ changes' = [changes EXCEPT !.reloads = @ + 1]
  BY <1>t, ConfigFacts DEF Reload, HotSwappable, ReloadStays
<1>2. changes' \in [reloads : 0..MaxRebinds, restarts : 0..MaxRestarts]
  BY <1>t, <1>1, WebhookBounds DEF DeliveryTypeOK
<1>3. DeliveryTypeOK'
  BY <1>t, <1>1, <1>2 DEF DeliveryTypeOK, LogTypeOK, IsBound
<1>4. SequencesDistinct' /\ Retaining' /\ BoundIsConfigured' /\ BindingDeclared'
      /\ TasksAreBound' /\ RuntimesAreConfigured'
  BY <1>1 DEF DeliveryInv, SequencesDistinct, Retaining, BoundIsConfigured,
     BindingDeclared, TasksAreBound, RuntimesAreConfigured, IsBound, Running
<1>5. ASSUME NEW s \in Subs PROVE OwedIsSafe(s)' /\ BatchIsTheOutbox(s)'
  BY <1>1 DEF DeliveryInv, OwedIsSafe, BatchIsTheOutbox, Handles, AcceptedBy, IsBound
<1> QED
  BY <1>3, <1>4, <1>5 DEF DeliveryInv

(***************************************************************************)
(* A boot: no runtime, no task, no retention; what is owed is still there. *)
(***************************************************************************)
LEMMA NothingBound ==
    ASSUME runtime' = [s \in Subs |-> NoRuntime], task' = [s \in Subs |-> NoTask],
           NEW s \in Subs
    PROVE  /\ ~IsBound(s)' /\ ~Running(s)' /\ task'[s].pc = "off"
  BY DEF IsBound, Running, NoRuntime, NoTask

LEMMA NothingTyped ==
    /\ NoTask \in TaskType /\ NoRuntime \in RuntimeType
  BY WebhookBounds DEF NoTask, TaskType, NoRuntime, RuntimeType

LEMMA RestartKeeps ==
    ASSUME DeliveryInv, NEW c \in Configs, Restart(c)
    PROVE  DeliveryInv'
<1>t. DeliveryTypeOK
  BY DEF DeliveryInv
<1>1. /\ config' = c /\ registry' = {} /\ retain' = NotPruning
      /\ runtime' = [s \in Subs |-> NoRuntime] /\ task' = [s \in Subs |-> NoTask]
      /\ manager' = Booting /\ UNCHANGED <<rows, outbox, lastSeq, sent, owed>>
      /\ changes.restarts < MaxRestarts /\ changes' = [changes EXCEPT !.restarts = @ + 1]
  BY DEF Restart
<1>2. changes' \in [reloads : 0..MaxRebinds, restarts : 0..MaxRestarts]
  BY <1>t, <1>1, WebhookBounds DEF DeliveryTypeOK
<1>3. /\ manager'.pc = "read" /\ ~manager'.booted /\ manager'.todo = {} /\ manager'.at = {}
      /\ manager' \in [pc : {"idle", "read", "bind"}, booted : BOOLEAN, bound : Configs,
                       todo : SUBSET Subs, at : SUBSET Subs]
  BY <1>t, <1>1 DEF Booting, Resting, DeliveryTypeOK
<1>4. DeliveryTypeOK'
  <2>1. /\ runtime' \in [Subs -> RuntimeType] /\ task' \in [Subs -> TaskType]
    BY <1>1, NothingTyped
  <2>2. retain' \in [on : BOOLEAN, floor : Nat]
    BY <1>1 DEF NotPruning
  <2> QED
    BY <1>t, <1>1, <1>2, <1>3, <2>1, <2>2 DEF DeliveryTypeOK, LogTypeOK, RuntimeType, TaskType
<1>5. SequencesDistinct' /\ Retaining'
  BY <1>1 DEF DeliveryInv, SequencesDistinct, Retaining, NotPruning
<1>6. BoundIsConfigured' /\ BindingDeclared' /\ TasksAreBound' /\ RuntimesAreConfigured'
  BY <1>1, <1>3, NothingBound DEF BoundIsConfigured, BindingDeclared, TasksAreBound,
     RuntimesAreConfigured
<1>7. ASSUME NEW s \in Subs PROVE OwedIsSafe(s)' /\ BatchIsTheOutbox(s)'
  <2>1. ~IsBound(s)' /\ task'[s].pc = "off" /\ ~manager'.booted /\ ~retain'.on
    BY <1>1, <1>3, NothingBound DEF NotPruning
  <2>2. BatchIsTheOutbox(s)'
    BY <2>1 DEF BatchIsTheOutbox
  <2>3. OwedIsSafe(s)'
    BY <1>1, <2>1 DEF DeliveryInv, OwedIsSafe
  <2> QED
    BY <2>2, <2>3
<1> QED
  BY <1>4, <1>5, <1>6, <1>7 DEF DeliveryInv

LEMMA StopKeeps ==
    ASSUME DeliveryInv, StopTasks
    PROVE  DeliveryInv'
<1>t. DeliveryTypeOK
  BY DEF DeliveryInv
<1>1. /\ manager.pc = "idle" /\ task' = [s \in Subs |-> NoTask]
      /\ manager' = [manager EXCEPT !.pc = "read"]
      /\ UNCHANGED <<rows, outbox, lastSeq, config, runtime, registry, retain, changes, sent,
                     owed>>
  BY DEF StopTasks
<1>2. /\ manager'.pc = "read" /\ manager'.booted = manager.booted
      /\ manager'.bound = manager.bound /\ manager'.todo = manager.todo
      /\ manager'.at = manager.at
      /\ manager' \in [pc : {"idle", "read", "bind"}, booted : BOOLEAN, bound : Configs,
                       todo : SUBSET Subs, at : SUBSET Subs]
  BY <1>t, <1>1 DEF DeliveryTypeOK
<1>3. \A s \in Subs : task'[s].pc = "off"
  BY <1>1 DEF NoTask
<1>4. DeliveryTypeOK'
  <2>1. task' \in [Subs -> TaskType]
    BY <1>1, NothingTyped
  <2> QED
    BY <1>t, <1>1, <1>2, <2>1 DEF DeliveryTypeOK, LogTypeOK, TaskType, IsBound
<1>5. \A s \in Subs : s \notin manager.todo \cup manager.at
  BY <1>1 DEF DeliveryInv, BindingDeclared
<1>6. SequencesDistinct' /\ Retaining' /\ BindingDeclared' /\ TasksAreBound'
  BY <1>1, <1>2, <1>3, <1>5 DEF DeliveryInv, SequencesDistinct, Retaining, BindingDeclared,
     TasksAreBound, Running
<1>7. BoundIsConfigured'
  BY <1>1, <1>2 DEF DeliveryInv, BoundIsConfigured
<1>8. RuntimesAreConfigured'
  BY <1>1, <1>2 DEF DeliveryInv, BoundIsConfigured, RuntimesAreConfigured, IsBound
<1>9. ASSUME NEW s \in Subs PROVE OwedIsSafe(s)' /\ BatchIsTheOutbox(s)'
  BY <1>1, <1>2, <1>3 DEF DeliveryInv, OwedIsSafe, BatchIsTheOutbox, AcceptedBy, IsBound
<1> QED
  BY <1>4, <1>6, <1>7, <1>8, <1>9 DEF DeliveryInv

(***************************************************************************)
(* The configuration is read: delivery is disabled, and nobody is owed     *)
(* anything, or the declared subscriptions are to be bound.                *)
(***************************************************************************)
LEMMA TakeConfigKeeps ==
    ASSUME DeliveryInv, TakeConfig
    PROVE  DeliveryInv'
<1>t. DeliveryTypeOK
  BY DEF DeliveryInv
<1>0. /\ manager.pc = "read"
      /\ UNCHANGED <<rows, outbox, lastSeq, config, task, retain, changes, sent>>
  BY DEF TakeConfig
<1>1. \A s \in Subs : task[s].pc = "off"
  BY <1>0 DEF DeliveryInv, TasksAreBound, Running
<1>2. CASE config.on
  <2>1. /\ manager' = [manager EXCEPT !.pc = "bind", !.bound = config,
                          !.todo = {s \in Subs : config.decl[s] # Undeclared}]
        /\ UNCHANGED <<runtime, registry, owed>>
    BY <1>2 DEF TakeConfig
  <2>2. /\ manager'.pc = "bind" /\ manager'.booted = manager.booted /\ manager'.bound = config
        /\ manager'.todo = {s \in Subs : config.decl[s] # Undeclared}
        /\ manager'.at = manager.at
        /\ manager' \in [pc : {"idle", "read", "bind"}, booted : BOOLEAN, bound : Configs,
                         todo : SUBSET Subs, at : SUBSET Subs]
    BY <1>t, <2>1 DEF DeliveryTypeOK
  <2>3. \A s \in Subs : s \notin manager.at
    BY <1>0 DEF DeliveryInv, BindingDeclared
  <2>4. DeliveryTypeOK'
    BY <1>t, <1>0, <2>1, <2>2 DEF DeliveryTypeOK, LogTypeOK, IsBound
  <2>5. SequencesDistinct' /\ Retaining' /\ BoundIsConfigured' /\ BindingDeclared'
        /\ TasksAreBound' /\ RuntimesAreConfigured'
    BY <1>0, <1>1, <2>1, <2>2, <2>3 DEF DeliveryInv, SequencesDistinct, Retaining,
       BoundIsConfigured, BindingDeclared, TasksAreBound, RuntimesAreConfigured, IsBound, Running
  <2>6. ASSUME NEW s \in Subs PROVE OwedIsSafe(s)' /\ BatchIsTheOutbox(s)'
    <3>1. OwedIsSafe(s)'
      BY <1>0, <2>1, <2>2 DEF DeliveryInv, OwedIsSafe, AcceptedBy, IsBound
    <3> QED
      BY <1>0, <1>1, <3>1 DEF BatchIsTheOutbox
  <2> QED
    BY <2>4, <2>5, <2>6 DEF DeliveryInv
<1>3. CASE ~config.on
  <2>1. /\ manager' = Resting /\ registry' = {}
        /\ runtime' = [s \in Subs |-> NoRuntime] /\ owed' = [s \in Subs |-> {}]
    BY <1>3 DEF TakeConfig
  <2>2. /\ manager'.pc = "idle" /\ manager'.booted /\ manager'.bound = config
        /\ manager'.todo = {} /\ manager'.at = {}
        /\ manager' \in [pc : {"idle", "read", "bind"}, booted : BOOLEAN, bound : Configs,
                         todo : SUBSET Subs, at : SUBSET Subs]
    BY <1>t, <2>1 DEF DeliveryTypeOK, Resting
  <2>3. \A s \in Subs : ~IsBound(s)' /\ ~Running(s)'
    BY <1>0, <1>1, <2>1 DEF IsBound, Running, NoRuntime
  <2>4. DeliveryTypeOK'
    <3>1. runtime' \in [Subs -> RuntimeType] /\ owed' \in [Subs -> SUBSET (1..lastSeq)]
      BY <2>1, NothingTyped
    <3> QED
      BY <1>t, <1>0, <2>1, <2>2, <2>3, <3>1 DEF DeliveryTypeOK, LogTypeOK, RuntimeType
  <2>5. SequencesDistinct' /\ Retaining' /\ BoundIsConfigured' /\ BindingDeclared'
        /\ TasksAreBound' /\ RuntimesAreConfigured'
    BY <1>0, <2>1, <2>2, <2>3 DEF DeliveryInv, SequencesDistinct, Retaining,
       BoundIsConfigured, BindingDeclared, TasksAreBound, RuntimesAreConfigured
  <2>6. ASSUME NEW s \in Subs PROVE OwedIsSafe(s)' /\ BatchIsTheOutbox(s)'
    BY <1>0, <1>1, <2>1 DEF OwedIsSafe, BatchIsTheOutbox
  <2> QED
    BY <2>4, <2>5, <2>6 DEF DeliveryInv
<1> QED
  BY <1>2, <1>3

(***************************************************************************)
(* While a rebind is under way what it binds is what is configured, so a   *)
(* subscription that is bound already keeps its runtime and its cursor.    *)
(***************************************************************************)
LEMMA BoundStays ==
    ASSUME DeliveryInv, manager.pc = "bind", NEW s \in Subs
    PROVE  /\ manager.bound.on = config.on /\ manager.bound.decl = config.decl
           /\ manager.bound.place = config.place
           /\ IsBound(s) => /\ Matches(s) /\ SamePlace(s) /\ manager.bound.decl[s] # Undeclared
                            /\ runtime[s].decl = manager.bound.decl[s]
                            /\ runtime[s].place = manager.bound.place
<1>1. manager.bound.on = config.on /\ manager.bound.decl = config.decl
  BY DEF DeliveryInv, BoundIsConfigured
<1>2. manager.bound.place = config.place
  BY DEF DeliveryInv, BoundIsConfigured
<1> QED
  BY <1>1, <1>2 DEF DeliveryInv, RuntimesAreConfigured, Matches, SamePlace

LEMMA TakeRuntimeKeeps ==
    ASSUME DeliveryInv, NEW s \in Subs, TakeRuntime(s)
    PROVE  DeliveryInv'
<1>t. DeliveryTypeOK /\ runtime \in [Subs -> RuntimeType]
  BY DEF DeliveryInv, DeliveryTypeOK, RuntimeType
<1> DEFINE d == manager.bound.decl[s]
           c == IF Matches(s) /\ SamePlace(s) THEN runtime[s].cursor ELSE NoCursor
<1>1. /\ manager.pc = "bind" /\ manager.at = {} /\ s \in manager.todo
      /\ UNCHANGED <<rows, outbox, lastSeq, config, registry, task, retain, changes, sent, owed>>
  BY <1>t DEF TakeRuntime
<1>a. /\ manager' = [manager EXCEPT !.todo = @ \ {s}, !.at = {s}]
      /\ runtime' = [runtime EXCEPT ![s].decl = d, ![s].cursor = c]
  BY <1>t DEF TakeRuntime
<1>2. /\ manager'.pc = "bind" /\ manager'.booted = manager.booted
      /\ manager'.bound = manager.bound /\ manager'.todo = manager.todo \ {s}
      /\ manager'.at = {s}
      /\ manager' \in [pc : {"idle", "read", "bind"}, booted : BOOLEAN, bound : Configs,
                       todo : SUBSET Subs, at : SUBSET Subs]
  BY <1>t, <1>1, <1>a DEF DeliveryTypeOK
<1>3. d \in Declarations \cup {Undeclared} /\ c \in {runtime[s].cursor, NoCursor}
      /\ d # Undeclared
  BY <1>t, <1>1, ConfigFacts DEF DeliveryInv, BindingDeclared
<1>4. c = runtime[s].cursor
  BY <1>1, BoundStays DEF IsBound
<1>5. IsBound(s) => d = runtime[s].decl
  BY <1>1, BoundStays
<1> HIDE DEF c, d
<1>6. /\ runtime' \in [Subs -> RuntimeType]
      /\ runtime'[s].decl = d /\ runtime'[s].cursor = runtime[s].cursor
      /\ runtime'[s].place = runtime[s].place
      /\ \A u \in Subs \ {s} : runtime'[u] = runtime[u]
  BY <1>t, <1>a, <1>3, <1>4 DEF RuntimeType
<1>7. \A u \in Subs : /\ IsBound(u)' <=> IsBound(u)
                      /\ runtime'[u].cursor = runtime[u].cursor
                      /\ runtime'[u].place = runtime[u].place
                      /\ IsBound(u) => runtime'[u].decl = runtime[u].decl
  BY <1>5, <1>6 DEF IsBound
<1>8. DeliveryTypeOK'
  BY <1>t, <1>1, <1>2, <1>6 DEF DeliveryTypeOK, LogTypeOK, RuntimeType
<1>9. SequencesDistinct' /\ Retaining' /\ BoundIsConfigured'
  BY <1>1, <1>2 DEF DeliveryInv, SequencesDistinct, Retaining, BoundIsConfigured
<1>10. BindingDeclared'
  BY <1>1, <1>2, <1>3, <1>6 DEF DeliveryInv, BindingDeclared, d
<1>11. TasksAreBound'
  BY <1>1, <1>2, <1>7 DEF DeliveryInv, TasksAreBound, Running
<1>12. RuntimesAreConfigured'
  <2> SUFFICES ASSUME NEW u \in Subs, IsBound(u)'
               PROVE  /\ runtime'[u].decl = config.decl[u] /\ config.decl[u] # Undeclared
                      /\ runtime'[u].place = config.place
                      /\ <<config.decl[u], config.place>> \in Matching
                      /\ runtime'[u].cursor <= lastSeq
    BY <1>1, <1>2 DEF RuntimesAreConfigured
  <2> QED
    BY <1>7 DEF DeliveryInv, RuntimesAreConfigured
<1>13. ASSUME NEW u \in Subs PROVE OwedIsSafe(u)' /\ BatchIsTheOutbox(u)'
  <2>0. /\ runtime'[u].cursor = runtime[u].cursor
        /\ IsBound(u) => runtime'[u].decl = runtime[u].decl
    BY <1>7
  <2>1. OwedIsSafe(u)'
    <3>1. CASE IsBound(u)
      BY <1>1, <1>2, <2>0, <3>1 DEF DeliveryInv, OwedIsSafe, AcceptedBy, Operation, IsBound
    <3>2. CASE ~IsBound(u)
      BY <1>1, <1>2, <2>0, <3>2 DEF DeliveryInv, OwedIsSafe, IsBound
    <3> QED
      BY <3>1, <3>2
  <2>2. BatchIsTheOutbox(u)'
    <3>1. CASE task[u].pc = "deliver"
      <4>1. IsBound(u) /\ BatchIsTheOutbox(u)
        BY <3>1 DEF DeliveryInv, TasksAreBound, Running
      <4> QED
        BY <1>1, <2>0, <4>1 DEF BatchIsTheOutbox, Handles, AcceptedBy, Operation
    <3>2. CASE task[u].pc # "deliver"
      BY <1>1, <3>2 DEF BatchIsTheOutbox
    <3> QED
      BY <3>1, <3>2
  <2> QED
    BY <2>1, <2>2
<1> QED
  BY <1>8, <1>9, <1>10, <1>11, <1>12, <1>13 DEF DeliveryInv

(***************************************************************************)
(* What a subscription is owed once retention finds it at `start`.         *)
(***************************************************************************)
LEMMA OwedFromFacts ==
    ASSUME DeliveryInv, NEW s \in Subs, NEW d, NEW start \in Nat,
           IsBound(s) => start = runtime[s].cursor, ~IsBound(s) => start = 0,
           NEW n \in OwedFrom(s, d, start)
    PROVE  /\ n \in 1..lastSeq /\ n > start /\ n \notin sent[s]
           /\ \E o \in outbox : o.seq = n
           /\ \A o \in outbox : o.seq = n => AcceptedBy(d, o)
           /\ retain.on => n > retain.floor
<1>t. DeliveryTypeOK /\ LogTypeOK /\ SequencesDistinct
  BY DEF DeliveryInv, DeliveryTypeOK
<1>1. CASE n \in StillOwed(s, d)
  <2>1. n \in owed[s] /\ \A o \in outbox : o.seq = n => AcceptedBy(d, o)
    BY <1>1 DEF StillOwed
  <2>2. n \in 1..lastSeq
    BY <1>t, <2>1, SubFacts
  <2>3. /\ n \notin sent[s] /\ \E o \in outbox : o.seq = n
        /\ IsBound(s) => n > runtime[s].cursor
        /\ retain.on => n > retain.floor
    BY <2>1 DEF DeliveryInv, OwedIsSafe
  <2>4. n > start
    <3>1. CASE IsBound(s)
      BY <2>3, <3>1
    <3>2. CASE ~IsBound(s)
      BY <1>t, <2>2, <3>2 DEF LogTypeOK
    <3> QED
      BY <3>1, <3>2
  <2> QED
    BY <2>1, <2>2, <2>3, <2>4
<1>2. CASE n \notin StillOwed(s, d)
  <2>1. PICK p \in outbox : /\ AcceptedBy(d, p) /\ p.seq > start /\ p.seq \notin sent[s]
                            /\ retain.on => p.seq > retain.floor
                            /\ n = p.seq
    BY <1>2 DEF OwedFrom
  <2>2. p.seq \in 1..lastSeq
    BY <1>t DEF LogTypeOK, Obligation
  <2> QED
    BY <1>t, <2>1, <2>2 DEF SequencesDistinct
<1> QED
  BY <1>1, <1>2

LEMMA RegisterKeeps ==
    ASSUME DeliveryInv, NEW s \in Subs, RegisterCursor(s)
    PROVE  DeliveryInv'
<1>t. /\ DeliveryTypeOK /\ LogTypeOK /\ runtime \in [Subs -> RuntimeType]
      /\ task \in [Subs -> TaskType] /\ owed \in [Subs -> SUBSET (1..lastSeq)]
  BY DEF DeliveryInv, DeliveryTypeOK, RuntimeType, TaskType
<1> DEFINE d == manager.bound.decl[s]
           c == InitialCursor(s)
           T == [NoTask EXCEPT !.pc = "resolving"]
<1>0. /\ manager.pc = "bind" /\ manager.at = {s}
      /\ UNCHANGED <<rows, outbox, lastSeq, config, registry, retain, changes, sent>>
  BY DEF RegisterCursor
<1>1. /\ manager'.pc = "bind" /\ manager'.booted = manager.booted
      /\ manager'.bound = manager.bound /\ manager'.todo = manager.todo
      /\ manager'.at = {}
      /\ manager' \in [pc : {"idle", "read", "bind"}, booted : BOOLEAN, bound : Configs,
                       todo : SUBSET Subs, at : SUBSET Subs]
  <2>1. manager' = [manager EXCEPT !.at = {}]
    BY DEF RegisterCursor
  <2> QED
    BY <1>t, <1>0, <2>1 DEF DeliveryTypeOK
<1>2. runtime[s].decl = d /\ d # Undeclared /\ manager.bound.decl = config.decl
      /\ manager.bound.place = config.place /\ config.place \in Places
  BY <1>t, <1>0, BoundStays, ConfigFacts DEF DeliveryInv, BindingDeclared
<1>3. /\ c \in Nat /\ c <= lastSeq
      /\ IsBound(s) => c = runtime[s].cursor
      /\ ~IsBound(s) => c = 0
  <2>1. IsBound(s) => runtime[s].cursor \in Nat /\ runtime[s].cursor <= lastSeq
    BY <1>t, SubFacts DEF DeliveryInv, RuntimesAreConfigured
  <2> QED
    BY <1>t, <2>1 DEF InitialCursor, LogTypeOK
<1>4. ASSUME NEW u \in Subs \ {s}, runtime'[u] = runtime[u], task'[u] = task[u],
             owed'[u] = owed[u]
      PROVE  OwedIsSafe(u)' /\ BatchIsTheOutbox(u)'
  <2>1. OwedIsSafe(u)'
    BY <1>0, <1>1, <1>4 DEF DeliveryInv, OwedIsSafe, IsBound
  <2>2. BatchIsTheOutbox(u)'
    BY <1>0, <1>4 DEF DeliveryInv, BatchIsTheOutbox, Handles
  <2> QED
    BY <2>1, <2>2
<1>5. SequencesDistinct' /\ Retaining' /\ BoundIsConfigured'
  BY <1>0, <1>1 DEF DeliveryInv, SequencesDistinct, Retaining, BoundIsConfigured
<1>6. CASE Matches(s)
  <2>1. /\ runtime' = [runtime EXCEPT ![s].cursor = c, ![s].place = manager.bound.place]
        /\ task' = [task EXCEPT ![s] = T]
        /\ owed' = [owed EXCEPT ![s] = IF s \in registry THEN OwedFrom(s, d, c)
                                       ELSE StillOwed(s, d)]
    BY <1>6 DEF RegisterCursor
  <2>2. T \in TaskType /\ T.pc = "resolving"
    BY WebhookBounds DEF TaskType, NoTask
  <2> HIDE DEF T, c, d
  <2>3. /\ runtime' \in [Subs -> RuntimeType] /\ task' \in [Subs -> TaskType]
        /\ runtime'[s].decl = d /\ runtime'[s].cursor = c /\ runtime'[s].place = config.place
        /\ task'[s].pc = "resolving"
        /\ \A u \in Subs \ {s} : runtime'[u] = runtime[u] /\ task'[u] = task[u]
    BY <1>t, <1>2, <1>3, <2>1, <2>2 DEF RuntimeType
  <2>4. IsBound(s)' /\ \A u \in Subs \ {s} : IsBound(u)' <=> IsBound(u)
    BY <1>3, <2>3, DeclarationsAssumption DEF IsBound
  <2>5. /\ owed'[s] \subseteq OwedFrom(s, d, c) /\ owed'[s] \subseteq 1..lastSeq
        /\ owed' \in [Subs -> SUBSET (1..lastSeq)]
        /\ s \notin registry => owed'[s] \subseteq owed[s]
        /\ \A u \in Subs \ {s} : owed'[u] = owed[u]
    <3>1. StillOwed(s, d) \subseteq OwedFrom(s, d, c) /\ StillOwed(s, d) \subseteq owed[s]
      BY DEF OwedFrom, StillOwed
    <3>2. OwedFrom(s, d, c) \subseteq 1..lastSeq
      BY <1>3, OwedFromFacts
    <3> QED
      BY <1>t, <2>1, <3>1, <3>2
  <2>6. DeliveryTypeOK'
    BY <1>t, <1>0, <1>1, <2>3, <2>5 DEF DeliveryTypeOK, LogTypeOK, RuntimeType, TaskType
  <2>7. BindingDeclared' /\ TasksAreBound'
    <3>1. ASSUME NEW u \in Subs PROVE /\ (Running(u)' => IsBound(u)')
                                      /\ Running(u)' => u \notin manager'.todo
                                      /\ u \in manager'.todo => manager.bound.decl[u] # Undeclared
      <4>1. s \notin manager.todo
        BY <1>0 DEF DeliveryInv, BindingDeclared
      <4> QED
        BY <1>0, <1>1, <2>3, <2>4, <4>1 DEF DeliveryInv, TasksAreBound, BindingDeclared, Running
    <3> QED
      BY <1>0, <1>1, <3>1 DEF BindingDeclared, TasksAreBound
  <2>8. RuntimesAreConfigured'
    <3> SUFFICES ASSUME NEW u \in Subs, IsBound(u)'
                 PROVE  /\ runtime'[u].decl = config.decl[u] /\ config.decl[u] # Undeclared
                        /\ runtime'[u].place = config.place
                        /\ <<config.decl[u], config.place>> \in Matching
                        /\ runtime'[u].cursor <= lastSeq
      BY <1>0, <1>1 DEF RuntimesAreConfigured
    <3>1. CASE u = s
      BY <1>2, <1>3, <1>6, <2>3, <3>1 DEF Matches, d
    <3>2. CASE u # s
      BY <2>3, <2>4, <3>2 DEF DeliveryInv, RuntimesAreConfigured
    <3> QED
      BY <3>1, <3>2
  <2>9. OwedIsSafe(s)'
    <3> SUFFICES ASSUME NEW n \in owed'[s]
                 PROVE  /\ n \notin sent[s]
                        /\ \E o \in outbox : o.seq = n
                        /\ manager.booted => s \in registry
                        /\ n > c
                        /\ \A o \in outbox : o.seq = n => AcceptedBy(d, o)
                        /\ retain.on => n > retain.floor
      BY <1>0, <1>1, <2>3, <2>4 DEF OwedIsSafe
    <3>1. manager.booted => s \in registry
      BY <2>5 DEF DeliveryInv, OwedIsSafe
    <3> QED
      BY <1>3, <2>5, <3>1, OwedFromFacts
  <2>10. BatchIsTheOutbox(s)'
    BY <2>3 DEF BatchIsTheOutbox
  <2>11. \A u \in Subs : OwedIsSafe(u)' /\ BatchIsTheOutbox(u)'
    BY <1>4, <2>3, <2>5, <2>9, <2>10
  <2> QED
    BY <1>5, <2>6, <2>7, <2>8, <2>11 DEF DeliveryInv
<1>7. CASE ~Matches(s)
  <2>1. /\ runtime' = [runtime EXCEPT ![s].place = Nowhere] /\ task' = task
        /\ owed' = [owed EXCEPT ![s] = {}]
    BY <1>7 DEF RegisterCursor
  <2>2. ~IsBound(s)
    BY <1>0, <1>7, BoundStays
  <2>3. /\ runtime' \in [Subs -> RuntimeType] /\ owed' \in [Subs -> SUBSET (1..lastSeq)]
        /\ runtime'[s].cursor = runtime[s].cursor /\ owed'[s] = {}
        /\ \A u \in Subs \ {s} : runtime'[u] = runtime[u] /\ owed'[u] = owed[u]
    BY <1>t, <2>1 DEF RuntimeType
  <2>4. ~IsBound(s)' /\ ~Running(s) /\ \A u \in Subs \ {s} : IsBound(u)' <=> IsBound(u)
    BY <2>2, <2>3 DEF IsBound, DeliveryInv, TasksAreBound
  <2>5. DeliveryTypeOK'
    BY <1>t, <1>0, <1>1, <2>1, <2>3 DEF DeliveryTypeOK, LogTypeOK, RuntimeType
  <2>6. BindingDeclared' /\ TasksAreBound'
    <3>1. ASSUME NEW u \in Subs PROVE /\ (Running(u) => IsBound(u)')
                                      /\ Running(u) => u \notin manager'.todo
                                      /\ u \in manager'.todo => manager.bound.decl[u] # Undeclared
      BY <1>0, <1>1, <2>3, <2>4 DEF DeliveryInv, TasksAreBound, BindingDeclared
    <3> QED
      BY <1>0, <1>1, <2>1, <3>1 DEF BindingDeclared, TasksAreBound, Running
  <2>7. RuntimesAreConfigured'
    <3> SUFFICES ASSUME NEW u \in Subs, IsBound(u)'
                 PROVE  /\ runtime'[u].decl = config.decl[u] /\ config.decl[u] # Undeclared
                        /\ runtime'[u].place = config.place
                        /\ <<config.decl[u], config.place>> \in Matching
                        /\ runtime'[u].cursor <= lastSeq
      BY <1>0, <1>1 DEF RuntimesAreConfigured
    <3>1. u # s
      BY <2>4
    <3> QED
      BY <2>3, <2>4, <3>1 DEF DeliveryInv, RuntimesAreConfigured
  <2>8. OwedIsSafe(s)' /\ BatchIsTheOutbox(s)'
    BY <2>1, <2>3, <2>4 DEF OwedIsSafe, BatchIsTheOutbox, Running
  <2>9. \A u \in Subs : OwedIsSafe(u)' /\ BatchIsTheOutbox(u)'
    BY <1>4, <2>1, <2>3, <2>8
  <2> QED
    BY <1>5, <2>5, <2>6, <2>7, <2>9 DEF DeliveryInv
<1> QED
  BY <1>6, <1>7

LEMMA FinishKeeps ==
    ASSUME DeliveryInv, FinishRebind
    PROVE  DeliveryInv'
<1>t. /\ DeliveryTypeOK /\ LogTypeOK /\ runtime \in [Subs -> RuntimeType]
      /\ owed \in [Subs -> SUBSET (1..lastSeq)]
  BY DEF DeliveryInv, DeliveryTypeOK, RuntimeType
<1> DEFINE Declared(u) == manager.bound.decl[u] # Undeclared
<1>0. /\ manager.pc = "bind" /\ manager.at = {} /\ manager.todo = {}
      /\ UNCHANGED <<rows, outbox, lastSeq, config, task, retain, changes, sent>>
  BY DEF FinishRebind
<1>1. /\ manager'.pc = "idle" /\ manager'.booted /\ manager'.bound = manager.bound
      /\ manager'.todo = {} /\ manager'.at = {}
      /\ manager' \in [pc : {"idle", "read", "bind"}, booted : BOOLEAN, bound : Configs,
                       todo : SUBSET Subs, at : SUBSET Subs]
  <2>1. manager' = [Resting EXCEPT !.bound = manager.bound]
    BY DEF FinishRebind
  <2> QED
    BY <1>t, <2>1 DEF DeliveryTypeOK, Resting
<1>2. /\ runtime' = [u \in Subs |-> IF Declared(u) THEN runtime[u] ELSE NoRuntime]
      /\ registry' = {u \in Subs : Declared(u)}
      /\ owed' = [u \in Subs |-> IF Declared(u) /\ IsBound(u)
                                 THEN OwedFrom(u, runtime[u].decl, runtime[u].cursor)
                                 ELSE {}]
  BY DEF FinishRebind
<1>3. \A u \in Subs : IsBound(u) => Declared(u)
  BY <1>0, BoundStays
<1> HIDE DEF Declared
<1>4. \A u \in Subs : /\ IsBound(u) => runtime'[u] = runtime[u]
                      /\ IsBound(u)' <=> IsBound(u)
  BY <1>2, <1>3 DEF IsBound, NoRuntime
<1>5. ASSUME NEW u \in Subs, NEW n \in owed'[u]
      PROVE  /\ IsBound(u) /\ u \in registry' /\ n \in 1..lastSeq
             /\ n > runtime[u].cursor /\ n \notin sent[u]
             /\ \E o \in outbox : o.seq = n
             /\ \A o \in outbox : o.seq = n => AcceptedBy(runtime[u].decl, o)
             /\ retain.on => n > retain.floor
  <2>1. /\ IsBound(u) /\ u \in registry'
        /\ n \in OwedFrom(u, runtime[u].decl, runtime[u].cursor)
    BY <1>2, <1>5
  <2>2. runtime[u].cursor \in Nat
    BY <1>t, <2>1, SubFacts
  <2> QED
    BY <2>1, <2>2, OwedFromFacts
<1>6. DeliveryTypeOK'
  <2>1. runtime' \in [Subs -> RuntimeType]
    BY <1>t, <1>2, NothingTyped
  <2>2. owed' \in [Subs -> SUBSET (1..lastSeq)]
    <3>1. owed' = [u \in Subs |-> owed'[u]]
      BY <1>2
    <3> QED
      BY <1>5, <3>1
  <2>3. \A u \in Subs : IsBound(u)' => u \in registry'
    BY <1>2, <1>3, <1>4
  <2>4. registry' \subseteq Subs
    BY <1>2
  <2> QED
    BY <1>t, <1>0, <1>1, <2>1, <2>2, <2>3, <2>4 DEF DeliveryTypeOK, LogTypeOK, RuntimeType
<1>7. SequencesDistinct' /\ Retaining' /\ BoundIsConfigured' /\ BindingDeclared'
  BY <1>0, <1>1 DEF DeliveryInv, SequencesDistinct, Retaining, BoundIsConfigured,
     BindingDeclared
<1>8. TasksAreBound'
  BY <1>0, <1>1, <1>4 DEF DeliveryInv, TasksAreBound, Running
<1>9. RuntimesAreConfigured'
  <2> SUFFICES ASSUME NEW u \in Subs, IsBound(u)'
               PROVE  /\ runtime'[u].decl = config.decl[u] /\ config.decl[u] # Undeclared
                      /\ runtime'[u].place = config.place
                      /\ <<config.decl[u], config.place>> \in Matching
                      /\ runtime'[u].cursor <= lastSeq
    BY <1>0, <1>1 DEF RuntimesAreConfigured
  <2> QED
    BY <1>4 DEF DeliveryInv, RuntimesAreConfigured
<1>10. ASSUME NEW u \in Subs PROVE OwedIsSafe(u)'
  <2> SUFFICES ASSUME NEW n \in owed'[u]
               PROVE  /\ n \notin sent[u]
                      /\ \E o \in outbox : o.seq = n
                      /\ IsBound(u)' /\ u \in registry'
                      /\ n > runtime'[u].cursor
                      /\ \A o \in outbox : o.seq = n => AcceptedBy(runtime'[u].decl, o)
                      /\ retain.on => n > retain.floor
    BY <1>0 DEF OwedIsSafe
  <2>1. IsBound(u)
    BY <1>5
  <2>2. IsBound(u)' /\ runtime'[u] = runtime[u]
    BY <1>4, <2>1
  <2> QED
    BY <1>5, <2>2
<1>11. ASSUME NEW u \in Subs PROVE BatchIsTheOutbox(u)'
  <2>1. CASE task[u].pc = "deliver"
    <3>1. IsBound(u) /\ BatchIsTheOutbox(u)
      BY <2>1 DEF DeliveryInv, TasksAreBound, Running
    <3>2. runtime'[u] = runtime[u]
      BY <1>4, <3>1
    <3> QED
      BY <1>0, <3>1, <3>2 DEF BatchIsTheOutbox, Handles
  <2>2. CASE task[u].pc # "deliver"
    BY <1>0, <2>2 DEF BatchIsTheOutbox
  <2> QED
    BY <2>1, <2>2
<1> QED
  BY <1>6, <1>7, <1>8, <1>9, <1>10, <1>11 DEF DeliveryInv

-----------------------------------------------------------------------------
(***************************************************************************)
(* A boot owes nothing, and every action keeps the invariant.              *)
(***************************************************************************)
LEMMA DeliveryBegins == DeliveryInit => DeliveryInv
<1> SUFFICES ASSUME DeliveryInit PROVE DeliveryInv
  OBVIOUS
<1>1. /\ LogInit /\ config \in Configs /\ manager = Booting /\ registry = {}
      /\ runtime = [s \in Subs |-> NoRuntime] /\ task = [s \in Subs |-> NoTask]
      /\ retain = NotPruning /\ changes = [reloads |-> 0, restarts |-> 0]
      /\ sent = [s \in Subs |-> {}] /\ owed = [s \in Subs |-> {}]
  BY DEF DeliveryInit
<1>2. LogTypeOK /\ SequencesDistinct
  BY <1>1, LogInitInv DEF LogInv
<1>3. /\ manager.pc = "read" /\ ~manager.booted /\ manager.todo = {} /\ manager.at = {}
      /\ manager \in [pc : {"idle", "read", "bind"}, booted : BOOLEAN, bound : Configs,
                      todo : SUBSET Subs, at : SUBSET Subs]
  BY <1>1 DEF Booting, Resting
<1>4. \A s \in Subs : ~IsBound(s) /\ ~Running(s)
  BY <1>1 DEF IsBound, Running, NoRuntime, NoTask
<1>5. retain \in [on : BOOLEAN, floor : Nat] /\ ~retain.on
      /\ changes \in [reloads : 0..MaxRebinds, restarts : 0..MaxRestarts]
  BY <1>1, WebhookBounds DEF NotPruning
<1>6. runtime \in [Subs -> RuntimeType] /\ task \in [Subs -> TaskType]
  BY <1>1, NothingTyped
<1>7. DeliveryTypeOK
  BY <1>1, <1>2, <1>3, <1>5, <1>6 DEF DeliveryTypeOK, RuntimeType, TaskType
<1>8. BoundIsConfigured /\ BindingDeclared /\ TasksAreBound /\ RuntimesAreConfigured /\ Retaining
  BY <1>3, <1>4, <1>5 DEF BoundIsConfigured, BindingDeclared, TasksAreBound,
     RuntimesAreConfigured, Retaining
<1>9. \A s \in Subs : OwedIsSafe(s) /\ BatchIsTheOutbox(s)
  BY <1>1, <1>4 DEF OwedIsSafe, BatchIsTheOutbox, Running, NoTask
<1> QED
  BY <1>2, <1>7, <1>8, <1>9 DEF DeliveryInv

LEMMA DeliveryPreserved ==
    ASSUME ReloadStays, DeliveryInv, DeliveryNext
    PROVE  DeliveryInv'
<1>1. ASSUME NEW m \in Mutation, NEW rec \in Recordings, NEW gap \in 0..MaxGap,
             Write(m, rec, gap)
      PROVE  DeliveryInv'
  BY <1>1, WriteKeeps
<1>2. ASSUME NEW c \in Configs, Reload(c) \/ Restart(c) PROVE DeliveryInv'
  BY <1>2, ReloadKeeps, RestartKeeps
<1>3. CASE Rebind
  BY <1>3, StopKeeps, TakeConfigKeeps, TakeRuntimeKeeps, RegisterKeeps, FinishKeeps DEF Rebind
<1>4. ASSUME NEW s \in Subs, Drain(s) PROVE DeliveryInv'
  BY <1>4, DrainKeeps
<1>5. ASSUME NEW other \in OtherCursors, GatherCursors(other) PROVE DeliveryInv'
  BY <1>5, GatherKeeps
<1>6. CASE PruneBefore
  BY <1>6, PruneKeeps
<1> QED
  BY <1>1, <1>2, <1>3, <1>4, <1>5, <1>6 DEF DeliveryNext

LEMMA DeliveryStutters == DeliveryInv /\ UNCHANGED deliveryVars => DeliveryInv'
  BY DEF deliveryVars, webhookVars, DeliveryInv, DeliveryTypeOK, LogTypeOK, SequencesDistinct,
     BoundIsConfigured, BindingDeclared, RuntimesAreConfigured, TasksAreBound, Retaining,
     OwedIsSafe, BatchIsTheOutbox, Handles, IsBound, Running

(***************************************************************************)
(* The invariant holds of a server whose collection stays as declared: the *)
(* rebinding manager, the delivery tasks and the retention pass keep it in *)
(* every interleaving.                                                     *)
(***************************************************************************)
THEOREM DeliveryInvariance ==
    CollectionStays /\ DeliverySpec => []DeliveryInv
<1>1. DeliveryInv /\ [ReloadStays /\ DeliveryNext]_deliveryVars => DeliveryInv'
  BY DeliveryPreserved, DeliveryStutters
<1>2. [ReloadStays]_deliveryVars /\ [DeliveryNext]_deliveryVars
        => [ReloadStays /\ DeliveryNext]_deliveryVars
  OBVIOUS
<1> QED
  BY <1>1, <1>2, DeliveryBegins, PTL DEF DeliverySpec, CollectionStays

(***************************************************************************)
(* All structures are well formed, and between rebinds the registry hides  *)
(* no bound runtime from retention.                                        *)
(***************************************************************************)
THEOREM DeliveryTypeCorrect == CollectionStays /\ DeliverySpec => []DeliveryTypeOK
<1>1. DeliveryInv => DeliveryTypeOK
  BY DEF DeliveryInv
<1> QED
  BY <1>1, DeliveryInvariance, PTL

(***************************************************************************)
(* prune_before removes nothing that a subscription registered for         *)
(* retention has yet to handle.                                            *)
(***************************************************************************)
THEOREM OwedIsNeverPruned == CollectionStays /\ DeliverySpec => []NothingOwedIsPruned
<1>1. DeliveryInv => NothingOwedIsPruned
  BY DEF DeliveryInv, OwedIsSafe, NothingOwedIsPruned
<1> QED
  BY <1>1, DeliveryInvariance, PTL

(***************************************************************************)
(* advance_cursor, reconcile_cursor and the rebind never take a cursor     *)
(* past an obligation that its subscription has yet to handle.             *)
(***************************************************************************)
THEOREM CursorsNeverSkip == CollectionStays /\ DeliverySpec => []CursorNeverSkips
<1>1. DeliveryInv => CursorNeverSkips
  BY DEF DeliveryInv, OwedIsSafe, CursorNeverSkips
<1> QED
  BY <1>1, DeliveryInvariance, PTL

-----------------------------------------------------------------------------
(***************************************************************************)
(* The dead-letter ring, for any capacity, page size and number of letters *)
(* and runtimes.  The letters of the ring are consecutive.                 *)
(***************************************************************************)
RingIsConsecutive ==
    /\ generation \in 0..MaxReplaced /\ last \in 0..MaxOrdinal
    /\ entries \in Seq(Nat)
    /\ Len(entries) = (IF last > Capacity THEN Capacity ELSE last)
    /\ \A i \in 1..Len(entries) : entries[i] = last - Len(entries) + i

ReaderType ==
    [pc : {"away", "paging", "done"}, gen : Nat, after : Nat, seen : SUBSET Nat,
     stayed : SUBSET Nat]

(***************************************************************************)
(* What has stayed since the first page is still in the ring, and has been *)
(* read as far as the token reaches.  A token of another generation has    *)
(* nothing that stayed.                                                    *)
(***************************************************************************)
ReaderFollows ==
    /\ reader \in ReaderType
    /\ reader.gen <= generation
    /\ reader.stayed \subseteq InRing
    /\ reader.gen < generation => reader.stayed = {}
    /\ reader.pc = "paging" => \A n \in reader.stayed : n <= reader.after => n \in reader.seen
    /\ reader.pc = "done" => reader.stayed \subseteq reader.seen

RingInv == RingIsConsecutive /\ ReaderFollows

(***************************************************************************)
(* The numbers of a ring.                                                  *)
(***************************************************************************)
LEMMA RingNumbers ==
    ASSUME RingIsConsecutive
    PROVE  /\ last \in Nat /\ generation \in Nat /\ Capacity \in Nat \ {0}
           /\ Len(entries) \in Nat /\ Len(entries) <= last /\ Len(entries) <= Capacity
           /\ \A i \in 1..Len(entries) :
                 /\ entries[i] = last - Len(entries) + i
                 /\ entries[i] \in Nat /\ entries[i] > 0
<1> DEFINE l == Len(entries)
<1>1. /\ last \in Nat /\ generation \in Nat /\ Capacity \in Nat \ {0} /\ l \in Nat
  BY RingAssumption DEF RingIsConsecutive
<1>2. l = (IF last > Capacity THEN Capacity ELSE last)
      /\ \A i \in 1..l : entries[i] = last - l + i
  BY DEF RingIsConsecutive
<1> HIDE DEF l
<1>3. l <= last /\ l <= Capacity
  BY <1>1, <1>2
<1>4. ASSUME NEW i \in 1..l PROVE entries[i] \in Nat /\ entries[i] > 0
  <2>1. entries[i] = last - l + i /\ i \in Nat /\ i > 0
    BY <1>1, <1>2
  <2> QED
    BY <1>1, <1>3, <2>1
<1> QED
  BY <1>1, <1>2, <1>3, <1>4 DEF l

LEMMA RingBegins == RingInit => RingInv
<1> SUFFICES ASSUME RingInit PROVE RingInv
  OBVIOUS
<1>1. generation = 0 /\ last = 0 /\ entries = <<>> /\ reader = Away
  BY DEF RingInit
<1>2. RingIsConsecutive
  BY <1>1, RingAssumption DEF RingIsConsecutive
<1>3. Away \in ReaderType /\ Away.pc = "away" /\ Away.gen = 0 /\ Away.stayed = {}
  BY DEF Away, ReaderType
<1>4. ReaderFollows
  BY <1>1, <1>3 DEF ReaderFollows
<1> QED
  BY <1>2, <1>4 DEF RingInv

(***************************************************************************)
(* Letters arrive, the oldest leave, a boot empties the ring: the reader   *)
(* keeps its place and loses what is gone.                                 *)
(***************************************************************************)
LEMMA ReaderKeeps ==
    ASSUME ReaderFollows, generation \in Nat, generation' \in Nat,
           reader' = StillThere(reader, entries'),
           \/ generation' = generation
           \/ generation' > generation /\ entries' = <<>>
    PROVE  ReaderFollows'
<1>1. reader \in ReaderType /\ reader' = [reader EXCEPT !.stayed = @ \cap InRing']
  BY DEF ReaderFollows, StillThere, InRing
<1>2. /\ reader'.pc = reader.pc /\ reader'.gen = reader.gen /\ reader'.after = reader.after
      /\ reader'.seen = reader.seen /\ reader'.stayed = reader.stayed \cap InRing'
      /\ reader' \in ReaderType
  BY <1>1 DEF ReaderType
<1>3. reader.gen \in Nat
  BY <1>1 DEF ReaderType
<1>4. entries' = <<>> => InRing' = {}
  BY DEF InRing
<1> QED
  BY <1>2, <1>3, <1>4 DEF ReaderFollows

LEMMA PushKeeps ==
    ASSUME RingInv, Push
    PROVE  RingInv'
<1>0. Capacity \in Nat \ {0} /\ MaxOrdinal \in Nat /\ MaxReplaced \in Nat
  BY RingAssumption
<1>1. /\ last < MaxOrdinal /\ last' = last + 1 /\ entries' = Kept(entries, last + 1)
      /\ reader' = StillThere(reader, entries') /\ generation' = generation
  BY DEF Push
<1>2. /\ last \in Nat /\ entries \in Seq(Nat) /\ generation \in 0..MaxReplaced
      /\ Len(entries) = (IF last > Capacity THEN Capacity ELSE last)
      /\ \A i \in 1..Len(entries) : entries[i] = last - Len(entries) + i
      /\ Len(entries) \in Nat
  BY <1>0 DEF RingInv, RingIsConsecutive
<1>3. CASE Len(entries) >= Capacity
  <2>1. Len(entries) = Capacity /\ last >= Capacity /\ entries # <<>>
    BY <1>0, <1>2, <1>3
  <2> DEFINE rest == Tail(entries)
  <2>2. /\ rest \in Seq(Nat) /\ Len(rest) = Capacity - 1
        /\ \A i \in 1..Len(rest) : rest[i] = entries[i + 1]
    BY <1>0, <1>2, <2>1
  <2>3. entries' = Append(rest, last + 1)
    BY <1>1, <1>3 DEF Kept
  <2> HIDE DEF rest
  <2>4. /\ entries' \in Seq(Nat) /\ Len(entries') = Capacity
        /\ \A i \in 1..Capacity :
              entries'[i] = IF i = Capacity THEN last + 1 ELSE rest[i]
    BY <1>0, <1>2, <2>2, <2>3
  <2>5. ASSUME NEW i \in 1..Capacity PROVE entries'[i] = last' - Capacity + i
    <3>1. CASE i = Capacity
      BY <1>0, <1>1, <1>2, <2>4, <3>1
    <3>2. CASE i # Capacity
      <4>1. i \in 1..Len(rest) /\ i + 1 \in 1..Capacity /\ i \in Nat
        BY <1>0, <2>2, <3>2
      <4>2. entries'[i] = entries[i + 1] /\ entries[i + 1] = last - Capacity + (i + 1)
        BY <1>2, <2>1, <2>2, <2>4, <3>2, <4>1
      <4> QED
        BY <1>0, <1>1, <1>2, <4>1, <4>2
    <3> QED
      BY <3>1, <3>2
  <2>6. RingIsConsecutive'
    <3>1. Len(entries') = (IF last' > Capacity THEN Capacity ELSE last')
      BY <1>0, <1>1, <1>2, <2>1, <2>4
    <3>2. last' \in 0..MaxOrdinal
      BY <1>0, <1>1, <1>2
    <3> QED
      BY <1>1, <1>2, <2>4, <2>5, <3>1, <3>2 DEF RingIsConsecutive
  <2>7. ReaderFollows'
    BY <1>0, <1>1, <1>2, ReaderKeeps DEF RingInv
  <2> QED
    BY <2>6, <2>7 DEF RingInv
<1>4. CASE ~(Len(entries) >= Capacity)
  <2>1. Len(entries) = last /\ last < Capacity
    BY <1>0, <1>2, <1>4
  <2>2. entries' = Append(entries, last + 1)
    BY <1>1, <1>4 DEF Kept
  <2>3. /\ entries' \in Seq(Nat) /\ Len(entries') = last + 1
        /\ \A i \in 1..Len(entries') :
              entries'[i] = IF i = last + 1 THEN last + 1 ELSE entries[i]
    BY <1>0, <1>2, <2>1, <2>2
  <2>4. \A i \in 1..Len(entries') : entries'[i] = last' - Len(entries') + i
    BY <1>1, <1>2, <2>1, <2>3
  <2> QED
    BY <1>0, <1>1, <1>2, <2>1, <2>3, <2>4, ReaderKeeps DEF RingInv, RingIsConsecutive
<1> QED
  BY <1>3, <1>4

LEMMA ReplaceKeeps ==
    ASSUME RingInv, Replace
    PROVE  RingInv'
<1>1. /\ generation < MaxReplaced /\ generation' = generation + 1 /\ last' = 0
      /\ entries' = <<>> /\ reader' = StillThere(reader, entries')
      /\ generation \in 0..MaxReplaced /\ MaxReplaced \in Nat /\ MaxOrdinal \in Nat
      /\ Capacity \in Nat \ {0}
  BY RingAssumption DEF Replace, RingInv, RingIsConsecutive
<1>2. RingIsConsecutive'
  BY <1>1 DEF RingIsConsecutive
<1>3. ReaderFollows'
  BY <1>1, ReaderKeeps DEF RingInv
<1> QED
  BY <1>2, <1>3 DEF RingInv

-----------------------------------------------------------------------------
(***************************************************************************)
(* A page has no hole, and if more letters follow it the token is its last *)
(* letter.                                                                 *)
(***************************************************************************)
LEMMA PageFacts ==
    ASSUME RingIsConsecutive, NEW after \in Nat, NEW i \in Matched(after)
    PROVE  /\ ~HasMore(Matched(after)) => i \in FirstOf(Matched(after))
           /\ HasMore(Matched(after)) =>
                 /\ Max(FirstOf(Matched(after))) \in FirstOf(Matched(after))
                 /\ i \in FirstOf(Matched(after)) \/ i > Max(FirstOf(Matched(after)))
<1> DEFINE M == Matched(after)
           F == FirstOf(M)
           Below(k) == {j \in M : j < k}
<1>1. /\ Limit \in Nat \ {0} /\ Len(entries) \in Nat /\ M \subseteq 1..Len(entries)
      /\ IsFiniteSet(1..Len(entries))
  <2>1. Len(entries) \in Nat /\ Len(entries) \in Int /\ 1 \in Int
    BY RingNumbers
  <2>2. IsFiniteSet(1..Len(entries))
    BY <2>1, FS_Interval
  <2> QED
    BY <2>1, <2>2, RingAssumption DEF Matched
<1>2. IsFiniteSet(M) /\ \A k : IsFiniteSet(Below(k)) /\ Cardinality(Below(k)) \in Nat
  <2>1. IsFiniteSet(M)
    BY <1>1, FS_Subset
  <2>2. ASSUME NEW k PROVE IsFiniteSet(Below(k)) /\ Cardinality(Below(k)) \in Nat
    <3>1. Below(k) \in SUBSET M
      OBVIOUS
    <3> HIDE DEF M, Below
    <3> QED
      BY <2>1, <3>1, FS_Subset, FS_CardinalityType
  <2> QED
    BY <2>1, <2>2
<1>3. i \in M /\ \A k \in M : k \in Nat /\ k <= Len(entries)
  BY <1>1
<1>4. \A k : k \in F <=> k \in M /\ Cardinality(Below(k)) < Limit
  BY DEF FirstOf
<1>5. HasMore(M) <=> Cardinality(M) > Limit
  BY DEF HasMore
<1> HIDE DEF M, F
<1>6. CASE ~HasMore(M)
  <2>1. Cardinality(M) \in Nat /\ Cardinality(M) <= Limit
    BY <1>1, <1>2, <1>5, <1>6, FS_CardinalityType
  <2>2. Below(i) \in SUBSET M /\ Below(i) # M
    BY <1>3
  <2>3. Cardinality(Below(i)) < Cardinality(M)
    <3> HIDE DEF Below
    <3>1. /\ Cardinality(Below(i)) <= Cardinality(M)
          /\ Cardinality(M) = Cardinality(Below(i)) => M = Below(i)
      BY <1>2, <2>2, FS_Subset
    <3>2. Cardinality(Below(i)) \in Nat
      BY <1>2
    <3> QED
      BY <2>1, <2>2, <3>1, <3>2
  <2>4. i \in F
    <3>1. Cardinality(Below(i)) \in Nat
      BY <1>2
    <3>2. Cardinality(Below(i)) < Limit
      <4> HIDE DEF Below
      <4> QED
        BY <1>1, <2>1, <2>3, <3>1
    <3> QED
      BY <1>3, <1>4, <3>2
  <2> QED
    BY <1>6, <2>4 DEF F, M
<1>7. CASE HasMore(M)
  <2>1. F # {}
    <3>1. PICK m \in M : \A k \in M : m <= k
      BY <1>3, LeastElement
    <3>2. Below(m) = {}
      BY <1>3, <3>1
    <3>3. Cardinality(Below(m)) = 0
      BY <3>2, FS_EmptySet
    <3> QED
      BY <1>1, <1>4, <3>1, <3>3
  <2>2. \A k \in F : k \in Nat /\ k <= Len(entries)
    BY <1>3, <1>4
  <2>3. Max(F) \in F /\ \A k \in F : k <= Max(F)
    BY <1>1, <2>1, <2>2, MaxOfBounded
  <2>4. ASSUME i <= Max(F) PROVE i \in F
    <3>1. Below(i) \in SUBSET Below(Max(F))
      BY <1>3, <2>2, <2>3, <2>4
    <3>2. Cardinality(Below(i)) <= Cardinality(Below(Max(F)))
      <4> HIDE DEF Below
      <4> QED
        BY <1>2, <3>1, FS_Subset
    <3>3. Cardinality(Below(Max(F))) < Limit
      BY <1>4, <2>3
    <3>4. Cardinality(Below(i)) \in Nat /\ Cardinality(Below(Max(F))) \in Nat
      BY <1>2
    <3>5. Cardinality(Below(i)) < Limit
      <4> HIDE DEF Below
      <4> QED
        BY <1>1, <3>2, <3>3, <3>4
    <3> QED
      BY <1>3, <1>4, <3>5
  <2>5. i \in F \/ i > Max(F)
    BY <1>3, <2>2, <2>3, <2>4
  <2> QED
    BY <1>7, <2>3, <2>5 DEF F, M
<1> QED
  BY <1>6, <1>7

(***************************************************************************)
(* One page, for a reader that has read what stayed up to its token.       *)
(***************************************************************************)
LEMMA PageKeeps ==
    ASSUME RingIsConsecutive, NEW r \in ReaderType, NEW after \in Nat,
           r.gen = generation, r.stayed \subseteq InRing,
           \A n \in r.stayed : n <= after => n \in r.seen,
           ReadPage(r, after), UNCHANGED <<generation, last, entries>>
    PROVE  ReaderFollows'
<1> DEFINE M == Matched(after)
           F == FirstOf(M)
<1>1. /\ last \in Nat /\ Len(entries) \in Nat /\ generation \in Nat
      /\ \A i \in 1..Len(entries) : entries[i] = last - Len(entries) + i /\ entries[i] \in Nat
  BY RingNumbers
<1>2. F \subseteq M /\ M \subseteq 1..Len(entries)
      /\ \A i \in 1..Len(entries) : i \in M <=> entries[i] > after
  BY DEF FirstOf, Matched
<1>3. reader' = [r EXCEPT !.pc = IF HasMore(M) THEN "paging" ELSE "done",
                          !.after = IF HasMore(M) THEN entries[Max(F)] ELSE @,
                          !.seen = @ \cup {entries[i] : i \in F}]
  BY DEF ReadPage
<1>4. ASSUME NEW n \in r.stayed, n \notin r.seen
      PROVE  \E i \in M : n = entries[i]
  <2>1. PICK i \in 1..Len(entries) : n = entries[i]
    BY <1>4 DEF InRing
  <2>2. n > after
    BY <1>1, <1>4, <2>1
  <2> QED
    BY <1>2, <2>1, <2>2
<1>5. \A i \in M : /\ ~HasMore(M) => i \in F
                   /\ HasMore(M) => Max(F) \in F /\ (i \in F \/ i > Max(F))
  BY PageFacts
<1> HIDE DEF M, F
<1>6. CASE HasMore(M)
  <2>1. Max(F) \in F
    <3>1. M # {}
      BY <1>6, RingAssumption, FS_EmptySet DEF HasMore
    <3> QED
      BY <1>5, <1>6, <3>1
  <2>2. entries[Max(F)] \in Nat /\ {entries[i] : i \in F} \subseteq Nat
    BY <1>1, <1>2, <2>1
  <2>3. /\ reader' \in ReaderType /\ reader'.pc = "paging" /\ reader'.gen = generation
        /\ reader'.after = entries[Max(F)] /\ reader'.stayed = r.stayed
        /\ reader'.seen = r.seen \cup {entries[i] : i \in F}
    BY <1>3, <1>6, <2>2 DEF ReaderType
  <2>4. ASSUME NEW n \in r.stayed, n <= entries[Max(F)] PROVE n \in reader'.seen
    <3>1. CASE n \in r.seen
      BY <2>3, <3>1
    <3>2. CASE n \notin r.seen
      <4>1. PICK i \in M : n = entries[i]
        BY <1>4, <3>2
      <4>2. ~(i > Max(F))
        <5>1. i \in 1..Len(entries) /\ Max(F) \in 1..Len(entries)
          BY <1>2, <2>1, <4>1
        <5>2. /\ entries[i] = last - Len(entries) + i
              /\ entries[Max(F)] = last - Len(entries) + Max(F)
          BY <1>1, <5>1
        <5>3. entries[i] <= entries[Max(F)]
          BY <2>4, <4>1
        <5> QED
          BY <1>1, <5>1, <5>2, <5>3
      <4> QED
        BY <1>5, <1>6, <2>3, <4>1, <4>2
    <3> QED
      BY <3>1, <3>2
  <2> QED
    BY <1>1, <2>3, <2>4 DEF ReaderFollows, InRing
<1>7. CASE ~HasMore(M)
  <2>1. {entries[i] : i \in F} \subseteq Nat
    BY <1>1, <1>2
  <2>2. /\ reader' \in ReaderType /\ reader'.pc = "done" /\ reader'.gen = generation
        /\ reader'.stayed = r.stayed
        /\ reader'.seen = r.seen \cup {entries[i] : i \in F}
    BY <1>3, <1>7, <2>1 DEF ReaderType
  <2>3. r.stayed \subseteq reader'.seen
    BY <1>4, <1>5, <1>7, <2>2
  <2> QED
    BY <1>1, <2>2, <2>3 DEF ReaderFollows, InRing
<1> QED
  BY <1>6, <1>7

LEMMA RingPreserved == RingInv /\ [RingNext]_ringVars => RingInv'
<1> SUFFICES ASSUME RingInv, [RingNext]_ringVars PROVE RingInv'
  OBVIOUS
<1>0. /\ RingIsConsecutive /\ ReaderFollows /\ reader \in ReaderType /\ generation \in Nat
      /\ InRing \subseteq Nat
  <2>1. \A i \in 1..Len(entries) : entries[i] \in Nat
    BY DEF RingInv, RingIsConsecutive
  <2> QED
    BY <2>1, RingAssumption DEF RingInv, RingIsConsecutive, ReaderFollows, InRing
<1>u. UNCHANGED <<generation, last, entries>> => RingIsConsecutive'
  BY <1>0 DEF RingIsConsecutive
<1>1. CASE Push
  BY <1>1, PushKeeps
<1>2. CASE Replace
  BY <1>2, ReplaceKeeps
<1>3. CASE FirstPage
  <2> DEFINE r == [Away EXCEPT !.gen = generation, !.stayed = InRing]
  <2>1. /\ r \in ReaderType /\ r.gen = generation /\ r.stayed = InRing
    BY <1>0 DEF ReaderType, Away
  <2>2. \A n \in r.stayed : ~(n <= 0)
    <3>1. \A i \in 1..Len(entries) : entries[i] > 0 /\ entries[i] \in Nat
      BY <1>0, RingNumbers
    <3> QED
      BY <2>1, <3>1 DEF InRing
  <2>3. ReadPage(r, 0) /\ UNCHANGED <<generation, last, entries>>
    BY <1>3 DEF FirstPage
  <2> HIDE DEF r
  <2> QED
    BY <1>0, <1>u, <2>1, <2>2, <2>3, PageKeeps DEF RingInv
<1>4. CASE NextPage
  <2>1. /\ reader.pc = "paging" /\ reader.gen = generation /\ ReadPage(reader, reader.after)
        /\ UNCHANGED <<generation, last, entries>>
    BY <1>4 DEF NextPage, Decodes
  <2>2. /\ reader.after \in Nat /\ reader.stayed \subseteq InRing
        /\ \A n \in reader.stayed : n <= reader.after => n \in reader.seen
    BY <1>0, <2>1 DEF ReaderFollows, ReaderType
  <2> QED
    BY <1>0, <1>u, <2>1, <2>2, PageKeeps DEF RingInv
<1>5. CASE Leave
  <2>1. /\ Away \in ReaderType /\ Away.pc = "away" /\ Away.gen = 0 /\ Away.stayed = {}
    BY DEF Away, ReaderType
  <2>2. reader' = Away /\ UNCHANGED <<generation, last, entries>>
    BY <1>5 DEF Leave
  <2>3. ReaderFollows'
    BY <1>0, <2>1, <2>2 DEF ReaderFollows
  <2> QED
    BY <1>u, <2>2, <2>3 DEF RingInv
<1>6. CASE UNCHANGED ringVars
  BY <1>6 DEF ringVars, RingInv, RingIsConsecutive, ReaderFollows, InRing
<1> QED
  BY <1>1, <1>2, <1>3, <1>4, <1>5, <1>6 DEF RingNext

(***************************************************************************)
(* The ring's letters are consecutive, and the operator has read what      *)
(* stayed as far as its token reaches.                                     *)
(***************************************************************************)
THEOREM RingInvariance == RingSpec => []RingInv
BY RingBegins, RingPreserved, PTL DEF RingSpec

(***************************************************************************)
(* DeadLetterRing::push keeps the newest letters of the generation, as     *)
(* many as the capacity allows, without a hole.                            *)
(***************************************************************************)
THEOREM RingKeepsTheNewest == RingSpec => []RingHoldsTheNewest
<1>1. RingInv => RingHoldsTheNewest
  <2> SUFFICES ASSUME RingInv PROVE RingHoldsTheNewest
    OBVIOUS
  <2> DEFINE first == IF last > Capacity THEN last - Capacity + 1 ELSE 1
  <2>a. /\ generation \in 0..MaxReplaced /\ last \in 0..MaxOrdinal
        /\ Len(entries) = (IF last > Capacity THEN Capacity ELSE last)
        /\ \A i \in 1..Len(entries) : entries[i] = last - Len(entries) + i
        /\ last \in Nat /\ Capacity \in Nat /\ Len(entries) \in Nat
    BY RingNumbers DEF RingInv, RingIsConsecutive
  <2>b. Len(entries) = last - first + 1 /\ first \in Nat
    BY <2>a
  <2>0. \A i \in 1..Len(entries) : entries[i] = first - 1 + i
    <3> HIDE DEF first
    <3> QED
      BY <2>a, <2>b
  <2>1. InRing = first..last
    <3>1. ASSUME NEW n \in first..last PROVE n \in InRing
      <4> HIDE DEF first
      <4>1. n - first + 1 \in 1..Len(entries) /\ n = first - 1 + (n - first + 1)
        BY <2>a, <2>b
      <4> QED
        BY <2>0, <4>1 DEF InRing
    <3>2. ASSUME NEW i \in 1..Len(entries) PROVE entries[i] \in first..last
      <4> HIDE DEF first
      <4>1. entries[i] = first - 1 + i
        BY <2>0
      <4> QED
        BY <2>a, <2>b, <4>1
    <3> QED
      BY <3>1, <3>2 DEF InRing
  <2>2. Cardinality(first..last) = Len(entries)
    <3> HIDE DEF first
    <3> QED
      <4>1. first \in Int /\ last \in Int /\ Len(entries) \in Nat
            /\ (IF first > last THEN 0 ELSE last - first + 1) = Len(entries)
        BY <2>a, <2>b
      <4> QED
        BY <4>1, FS_Interval
  <2>3. reader.pc \in {"away", "paging", "done"}
    BY DEF RingInv, ReaderFollows, ReaderType
  <2> QED
    BY <2>a, <2>1, <2>2, <2>3 DEF RingHoldsTheNewest
<1> QED
  BY <1>1, RingInvariance, PTL

(***************************************************************************)
(* Following the tokens of DeadLetterRing::page to the end skips no letter *)
(* that was in the ring all the time, whatever was evicted meanwhile.      *)
(***************************************************************************)
THEOREM PagesSkipNothing == RingSpec => []NothingThatStayedIsSkipped
<1>1. RingInv => NothingThatStayedIsSkipped
  BY DEF RingInv, ReaderFollows, NothingThatStayedIsSkipped
<1> QED
  BY <1>1, RingInvariance, PTL
=============================================================================
