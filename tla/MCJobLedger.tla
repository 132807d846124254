----------------------------- MODULE MCJobLedger -----------------------------
(* Small instances of JobLedger for TLC: two submissions share a key.      *)
EXTENDS JobLedger

CONSTANTS j1, j2, j3, key

SharedKey == [j \in Jobs |-> IF j = j3 THEN NoKey ELSE key]
=============================================================================
