------------------------------ MODULE MCWatchSeed ------------------------------
(***************************************************************************)
(* WatchSeed over the catalogues of MCWatchTracking.                       *)
(***************************************************************************)
EXTENDS MCWatchTracking, WatchSeed
=============================================================================
