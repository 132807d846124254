----------------------------- MODULE ControlLedger -----------------------------
(***************************************************************************)
(* What the durable control store promises (trait ControlStore of          *)
(* tellurion-core/src/control_store.rs): one ledger of commits, bootstrap  *)
(* first.  Each commit applies one change, authorized, legal and current   *)
(* in the snapshot right before it, and an idempotency key is used once.   *)
(***************************************************************************)
EXTENDS ControlModel

VARIABLE ledger    \* the commits, in revision order

Newest == ledger[Len(ledger)].snap

(***************************************************************************)
(* The entity version of a resource: the revision that touched it last, 0  *)
(* when none did or when the last one deleted it.                          *)
(***************************************************************************)
VersionOf(k) ==
    LET touching == {i \in 2..Len(ledger) : Target(ledger[i].changes.op) = k}
        last == CHOOSE i \in touching : \A j \in touching : j <= i
    IN  IF touching = {} \/ ledger[last].changes.op.kind = "delete" THEN 0 ELSE last

Init == ledger = <<>>

Bootstrap ==
    /\ ledger = <<>>
    /\ ledger' = <<[snap |-> SeedSnapshot, by |-> Bootstrapper, changes |-> NoChanges]>>

Commit(a, c) ==
    /\ ledger # <<>>
    /\ a \in Newest.admins
    /\ IntentHolds(Newest, c.op)
    /\ c.expected \in {AnyVersion, VersionOf(Target(c.op))}
    /\ c.key # NoKey => \A i \in 1..Len(ledger) : ledger[i].changes.key # c.key
    /\ ValidSnapshot(Applied(Newest, c.op))
    /\ ledger' = Append(ledger, [snap |-> Applied(Newest, c.op), by |-> a, changes |-> c])

Next ==
    \/ Bootstrap
    \/ /\ Len(ledger') = Len(ledger) + 1
       /\ \E a \in Actors, op \in Operations, key \in Keys \cup {NoKey} :
             \E v \in {AnyVersion, VersionOf(Target(op))} :
                Commit(a, [op |-> op, expected |-> v, key |-> key])

Spec == Init /\ [][Next]_ledger

=============================================================================
