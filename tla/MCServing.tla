------------------------------- MODULE MCServing -------------------------------
(***************************************************************************)
(* What requests meet in a server, for TLC: a tenant's admission gate, and *)
(* an asset key with its uploads on either kind of object store.  The two  *)
(* share no state, so a behaviour moves one of them and leaves the other   *)
(* where it began: every property is about one of the two, and no step of  *)
(* the other can tell.                                                     *)
(***************************************************************************)
EXTENDS AdmissionGate, AssetUploads, TLC

CONSTANTS s1, s2, c1, c2

VARIABLE part   \* the part that moves

Direct == {"register", "put", "delete"}
Resuming == {"register", "create", "append", "complete", "abandon"}

Setting(profile, operations, size, records) ==
    [profile |-> profile, operations |-> operations, size |-> size, records |-> records,
     alone |-> TRUE, cancels |-> FALSE, failures |-> 2]

(* Requests beside each other, whose clients may go away.                   *)
Racing(c) == [c EXCEPT !.alone = FALSE, !.cancels = TRUE, !.failures = 1]

(* One request at a time, with every operation of the store's; and two,     *)
(* with clients that go away, and appends whose clients stay.               *)
AssetSettings ==
    {Setting("fs", Direct \cup Resuming, 2, 2),
     Setting("s3", Direct \cup Resuming, 2, 1),
     Setting("s3", Direct \cup Resuming \cup {"presign", "finalize"}, 2, 1),
     Racing(Setting("fs", Direct \cup (Resuming \ {"abandon"}), 1, 2)),
     Racing(Setting("s3", Resuming, 2, 1)),
     [Racing(Setting("fs", Resuming, 2, 1)) EXCEPT !.cancels = FALSE]}

PartInit ==
    /\ part \in {"admission", "assets"} /\ GateInit /\ AssetInit
    /\ part = "admission" => setting = Setting("fs", Direct \cup Resuming, 2, 2)
    /\ part = "assets" => limit = 1 /\ capacity = 1

PartNext ==
    \/ part = "admission" /\ GateNext /\ UNCHANGED <<part, assetVars>>
    \/ part = "assets" /\ AssetNext /\ UNCHANGED <<part, gateVars>>

PartSpec == PartInit /\ [][PartNext]_<<part, gateVars, assetVars>>

Interchangeable ==
    Permutations({s1, s2}) \cup Permutations({c1, c2})
=============================================================================
