--------------------------- MODULE MCAdmissionGate ---------------------------
(* Small instances of AdmissionGate for TLC.                               *)
EXTENDS AdmissionGate, TLC

Interchangeable == Permutations(Requests)
=============================================================================
