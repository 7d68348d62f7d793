----------------------------- MODULE MCTrackingTx -----------------------------
(***************************************************************************)
(* TrackingTx with two requests at a time and two episodes; clients and    *)
(* episodes are interchangeable.                                           *)
(***************************************************************************)
EXTENDS TrackingTx

CONSTANTS c1, c2, e1, e2

TxClients  == {c1, c2}
TxEpisodes == {e1, e2}
TxStatuses == {"PLAN_TO_WATCH", "COMPLETED"}
TxSymmetry == Permutations(TxClients) \cup Permutations(TxEpisodes)
=============================================================================
