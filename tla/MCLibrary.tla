------------------------------ MODULE MCLibrary ------------------------------
(***************************************************************************)
(* LibraryQueries over the catalogues of MCWatchTracking.                  *)
(***************************************************************************)
EXTENDS MCWatchTracking, LibraryQueries
=============================================================================
