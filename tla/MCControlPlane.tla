---------------------------- MODULE MCControlPlane ----------------------------
(***************************************************************************)
(* The control plane for TLC: the durable store with its administrators,   *)
(* and the replicas that follow its revisions.  What the replicas see of   *)
(* the store is that revisions are appended, which they model themselves:  *)
(* a behaviour moves one of the two and leaves the other where it began.   *)
(***************************************************************************)
EXTENDS ControlConsumer, ControlStore, TLC

CONSTANTS tenant, alice, bob, k1, k2, old, new, other

VARIABLE part   \* the part that moves

Setting(checked, builds) == [checked |-> checked, builds |-> builds]

(* The first, another cache, and one whose readers cannot be built.         *)
First == Setting("a", TRUE)
Swappable == {First, Setting("b", TRUE), Setting("a", FALSE)}

Tombstoned ==
    [value |-> Platform :> old @@ tenant :> old, tombs |-> {tenant}, admins |-> {alice, bob}]

Request(actor, op, key, guarded, tries) ==
    [actor |-> actor, op |-> op, key |-> key, guarded |-> guarded, tries |-> tries]

(* A tombstoned tenant is deleted, with a retry, created again, and edited  *)
(* under a key used already.                                                *)
Lifecycle ==
    {Request(alice, [kind |-> "delete", on |-> tenant], k1, TRUE, 2),
     Request(bob, [kind |-> "create", on |-> tenant, to |-> new], k2, FALSE, 1),
     Request(bob, [kind |-> "set", on |-> tenant, to |-> other], k1, TRUE, 1)}

(* Two edit it, one with a retry, and the other's grant is taken away.      *)
Edits ==
    {Request(alice, [kind |-> "set", on |-> tenant, to |-> new], k1, TRUE, 2),
     Request(bob, [kind |-> "set", on |-> tenant, to |-> other], k2, TRUE, 1),
     Request(alice, [kind |-> "revoke", on |-> bob], k1, FALSE, 1)}

Workload == Lifecycle \cup Edits
Planned == {{}, Lifecycle, Edits}

ASSUME LedgerAssumption /\ RequestsAssumption

PartInit ==
    /\ part \in {"store", "replicas"} /\ Init /\ StoreInit
    /\ part = "replicas" <=> \A a \in Attempts : attempt[a] = Unplanned

PartNext ==
    \/ part = "replicas" /\ Next /\ UNCHANGED <<part, storeState>>
    \/ part = "store" /\ StoreNext /\ UNCHANGED <<part, vars>>

(* A part that stays as it began owes nothing.                              *)
PartSpec ==
    /\ PartInit /\ [][PartNext]_<<part, vars, storeState>>
    /\ Fairness /\ StoreFairness
=============================================================================
