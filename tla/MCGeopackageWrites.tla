-------------------------- MODULE MCGeopackageWrites -------------------------
(* Small instances of GeopackageWrites for TLC.                            *)
EXTENDS GeopackageWrites
=============================================================================
