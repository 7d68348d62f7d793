------------------------------- MODULE MCSocial -------------------------------
(***************************************************************************)
(* SocialQueries with two requests at a time and three users: the third    *)
(* gives the counters more than one follow to count.                       *)
(***************************************************************************)
EXTENDS SocialQueries

CONSTANTS c1, c2, u1, u2, u3

McClients  == {c1, c2}
McTwo      == {u1, u2}
McThree    == {u1, u2, u3}
McTwoSymmetry   == Permutations(McClients) \cup Permutations(McTwo)
McThreeSymmetry == Permutations(McClients) \cup Permutations(McThree)
=============================================================================
