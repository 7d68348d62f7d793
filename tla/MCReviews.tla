------------------------------ MODULE MCReviews ------------------------------
(***************************************************************************)
(* Two requests at a time; an author and a reader.                         *)
(***************************************************************************)
EXTENDS Reviews

CONSTANTS c1, c2, u1, u2

McClients == {c1, c2}
McUsers   == {u1, u2}
McAuthors == {u1}
=============================================================================
