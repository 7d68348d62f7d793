------------------------------- MODULE Throttle -------------------------------
(***************************************************************************)
(* What the rate limiter promises of one key: a budget is spent by the     *)
(* requests admitted, refilled no sooner than Gap ticks after it was last  *)
(* refilled, and never above Limit.  Each place that keeps a budget        *)
(* (Stores) keeps its own.                                                 *)
(***************************************************************************)
EXTENDS Integers

CONSTANTS Stores, Limit, Gap

VARIABLES
  used,     \* per store, requests admitted since the last refill
  since     \* per store, ticks since the last refill, counted up to Gap

Init == used = [s \in Stores |-> 0] /\ since = [s \in Stores |-> Gap]

Admit(s) ==
  /\ used[s] < Limit
  /\ used' = [used EXCEPT ![s] = @ + 1]
  /\ UNCHANGED since

\* The budget refills when a request finds the window over, and is spent by it.
Refill(s) ==
  /\ since[s] = Gap
  /\ used'  = [used EXCEPT ![s] = 1]
  /\ since' = [since EXCEPT ![s] = 0]

\* A budget in memory goes with its process.
Forget(s) ==
  /\ used'  = [used EXCEPT ![s] = 0]
  /\ since' = [since EXCEPT ![s] = Gap]

Later(n, most) == IF n < most THEN n + 1 ELSE most

Elapse ==
  /\ since' = [s \in Stores |-> Later(since[s], Gap)]
  /\ UNCHANGED used

Next == Elapse \/ \E s \in Stores : Admit(s) \/ Refill(s) \/ Forget(s)

Spec == Init /\ [][Next]_<<used, since>>
=============================================================================
