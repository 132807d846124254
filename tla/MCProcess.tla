------------------------------- MODULE MCProcess -------------------------------
(***************************************************************************)
(* One server process for TLC: its configuration file with the reload      *)
(* loop, and its readiness with the way out.  The two share no state, so   *)
(* a behaviour moves one of them and leaves the other where it began:      *)
(* every property is about one of the two, and no step of the other can    *)
(* tell.  Readiness moves in one of two ways: "probing", with every        *)
(* activation and outage but no call that occupies a thread, or "leaving", *)
(* with such calls, one activation and no outage.  Neither takes a step    *)
(* away that fairness asks for.                                            *)
(***************************************************************************)
EXTENDS ConfigFile, Readiness, TLC

VARIABLE part   \* the part that moves

ASSUME FileAssumption /\ ReadinessAssumption

Doc(id, checked, valid) == [id |-> id, checked |-> checked, builds |-> TRUE, valid |-> valid]

(* Two documents that may follow each other, one that asks for a restart,   *)
(* one that is refused.                                                     *)
One == Doc(1, "a", TRUE)
Candidates == {One, Doc(2, "a", TRUE), Doc(3, "b", TRUE), Doc(4, "a", FALSE)}

PartInit == part \in {"file", "probing", "leaving"} /\ Init /\ ReadinessInit

PartNext ==
    \/ part = "file" /\ Next /\ UNCHANGED <<part, readiness>>
    \/ part = "probing" /\ ReadinessNext /\ UNCHANGED <<part, vars, call>>
    \/ /\ part = "leaving" /\ ReadinessNext /\ UNCHANGED <<part, vars, flips>>
       /\ context' <= 2

(* Where readiness moves, it moves as FairReadinessSpec has it; a file       *)
(* that stays as it began owes nothing.                                     *)
Moving == part # "file"

PartSpec ==
    /\ PartInit /\ [][PartNext]_<<part, vars, readiness>>
    /\ FileFairness
    /\ WF_readiness(Moving /\ ~dropping /\ Invalidate)
    /\ WF_readiness(Moving /\ ~dropping /\ Probe)
    /\ WF_readiness(Moving /\ BeginDraining)
    /\ WF_readiness(Moving /\ NotifyServer)
    /\ WF_readiness(Moving /\ DrainDeadline)
    /\ WF_readiness(Moving /\ TaskDeadline)
    /\ WF_readiness(Moving /\ \E t \in Tasks : TaskAborts(t))
    /\ WF_readiness(Moving /\ TasksAborted)
    /\ WF_readiness(Moving /\ BodyEnds)
    /\ WF_readiness(Moving /\ Exit)

(* Readiness's own, of the behaviours that move it.                         *)
MovingReadinessBecomesTrue == Moving => ReadinessBecomesTrue
=============================================================================
