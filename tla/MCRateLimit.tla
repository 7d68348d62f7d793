----------------------------- MODULE MCRateLimit -----------------------------
(***************************************************************************)
(* Two processes, two requests under way at a time.                        *)
(***************************************************************************)
EXTENDS RateLimit

CONSTANTS i1, i2, k1, k2

McInstances == {i1, i2}
McCalls     == {k1, k2}
=============================================================================
