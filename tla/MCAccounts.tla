------------------------------ MODULE MCAccounts ------------------------------
(***************************************************************************)
(* Two browsers on one account: three passwords and two reset links        *)
(* without the clock, or one password change while sessions expire.        *)
(***************************************************************************)
EXTENDS Accounts, TLC

CONSTANTS d1, d2, s1, s2, l1, l2

McDevices == {d1, d2}
McSessions == {s1, s2}
McLinks    == {l1, l2}
McScopes   == {[passwords |-> 3, links |-> McLinks, timed |-> FALSE],
               [passwords |-> 2, links |-> {}, timed |-> TRUE]}
McSymmetry == Permutations(McDevices) \cup Permutations(McSessions) \cup Permutations(McLinks)
=============================================================================
