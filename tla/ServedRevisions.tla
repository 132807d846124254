---------------------------- MODULE ServedRevisions ----------------------------
(***************************************************************************)
(* What the replicas of a control store promise of the revisions they      *)
(* serve (README.md of the repository, "Quickstart"): a process boots on a *)
(* committed revision, moves only to later committed ones, and keeps the   *)
(* boot-lifetime resources it was wired with for as long as it lives.      *)
(***************************************************************************)
EXTENDS Naturals, Sequences

CONSTANTS
    Replicas,   \* server processes
    Settings,   \* configurations
    Down        \* a process that does not run

VARIABLES
    ledger,     \* the committed configurations, in revision order
    serving     \* per replica, the revision it serves and its wiring

vars == <<ledger, serving>>

Init == /\ ledger \in {<<c>> : c \in Settings}
        /\ serving = [r \in Replicas |-> Down]

Publish == /\ \E c \in Settings : ledger' = Append(ledger, c)
           /\ UNCHANGED serving

Start(r) ==
    /\ serving[r] = Down
    /\ \E n \in 1..Len(ledger) :
          serving' = [serving EXCEPT ![r] = [revision |-> n, wired |-> ledger[n].checked]]
    /\ UNCHANGED ledger

Advance(r) ==
    /\ serving[r] # Down
    /\ \E n \in serving[r].revision + 1..Len(ledger) :
          /\ ledger[n].checked = serving[r].wired
          /\ serving' = [serving EXCEPT ![r].revision = n]
    /\ UNCHANGED ledger

Stop(r) == /\ serving' = [serving EXCEPT ![r] = Down]
           /\ UNCHANGED ledger

Next == Publish \/ \E r \in Replicas : Start(r) \/ Advance(r) \/ Stop(r)

Spec == Init /\ [][Next]_vars
=============================================================================
