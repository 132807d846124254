-------------------------- MODULE MCTileGenerations --------------------------
(* Small instances of TileGenerations for TLC: two buckets, a tile inside  *)
(* one of them and an overview tile over both, features that can be in     *)
(* either bucket.                                                          *)
EXTENDS TileGenerations, TLC

CONSTANTS west, east, overview

TwoBuckets == {west, east}

InOneBucket == [c \in Stored |-> IF c = Absent THEN {} ELSE {c}]

TileBuckets == [t \in Tiles |-> IF t = overview THEN TwoBuckets ELSE {west}]

Interchangeable == Permutations(Replicas) \cup Permutations(Clients)
=============================================================================
