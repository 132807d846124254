---------------------------- MODULE MCIndexApplier ---------------------------
(* Small instances of IndexApplier for TLC.                                *)
EXTENDS IndexApplier
=============================================================================
