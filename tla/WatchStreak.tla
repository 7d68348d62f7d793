----------------------------- MODULE WatchStreak -----------------------------
(***************************************************************************)
(* The streak rules of streak.service.ts as operators on the WatchStreak   *)
(* row [current, longest, last] and the daily_watch_logs rollup.  Days are *)
(* UTC calendar days, numbered; 0 is the null lastWatchDate.  A log entry  *)
(* that is zero stands for a missing row too: every reader treats the two  *)
(* alike.                                                                  *)
(***************************************************************************)
EXTENDS Integers, FiniteSets

CONSTANT MaxDay   \* bound: the last day of the modelled calendar

ASSUME DayAssumption == MaxDay \in Nat \ {0}

Days  == 1..MaxDay
NoDay == 0

Larger(m, n) == IF m > n THEN m ELSE n
MaxOf(S) == CHOOSE x \in S : \A y \in S : y <= x

NewStreak == [current |-> 0, longest |-> 0, last |-> NoDay]

\* Faulty variant: longest is not raised with the running streak.
RecordActivityKeepsLongest(k, today) ==
  IF k.last = today THEN k
  ELSE [k EXCEPT !.current = IF k.last # NoDay /\ today - k.last = 1
                             THEN @ + 1 ELSE 1,
                 !.last = today]

\* recordActivity: once per day; a gap of exactly one day continues the run,
\* anything else starts a new one.
RecordActivity(k, today) ==
  IF k.last = today THEN k
  ELSE LET continues == k.last # NoDay /\ today - k.last = 1
           current   == IF continues THEN k.current + 1 ELSE 1
       IN  [current |-> current, longest |-> Larger(k.longest, current),
            last |-> today]

ActiveDays(log) == {d \in Days : log[d].episodes > 0}

\* The length of the unbroken run of active days that ends on day d.
RunEndingOn(active, d) == Cardinality({b \in 1..d : b..d \subseteq active})

LastActive(active) == IF active = {} THEN NoDay ELSE MaxOf(active)

\* recompute: the trailing run is current only if it reaches today or
\* yesterday.
Recompute(log, now) ==
  LET active == ActiveDays(log)
      last   == LastActive(active)
  IN  [current |-> IF last # NoDay /\ now - last <= 1
                   THEN RunEndingOn(active, last) ELSE 0,
       longest |-> MaxOf({0} \cup {RunEndingOn(active, d) : d \in active}),
       last |-> last]
=============================================================================
