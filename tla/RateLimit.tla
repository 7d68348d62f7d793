------------------------------ MODULE RateLimit ------------------------------
(***************************************************************************)
(* src/src/lib/rate-limit.ts for one key: a fixed window kept by each      *)
(* process (driver memory) or in one shared row (driver postgres).         *)
(*                                                                         *)
(* There is no clock: a deadline is kept as the ticks left until it, and a *)
(* time a call read earlier as the ticks since, so `resetAt <= now' of a   *)
(* call that read the time age ticks ago is resetIn <= -age.  With driver  *)
(* postgres the statement runs up to MaxLate ticks after the time it      *)
(* carries was read; that is also how far behind a server's clock may be.  *)
(***************************************************************************)
EXTENDS Integers, FiniteSets

CONSTANTS
  Instances,    \* server processes
  Calls,        \* requests under way at one time
  Limit,        \* rule.limit
  Window,       \* rule.windowMs, in ticks
  SweepEvery,   \* the minute between two sweeps, in ticks
  MaxLate,      \* ticks a statement may take
  MaxFailures   \* bound: requests let through unchecked in the last Gap ticks

ASSUME RateAssumption ==
  /\ Limit \in Nat \ {0}
  /\ SweepEvery \in Nat
  /\ MaxLate \in Nat /\ MaxFailures \in Nat
  /\ Window \in Nat /\ Window > MaxLate

Table  == "rate_limit_windows"
Stores == Instances \cup {Table}
Gap    == Window - MaxLate

ASSUME StoresAssumption == Table \notin Instances

VARIABLES
  driver,       \* RATE_LIMIT_DRIVER
  windows,      \* per store, the window: none, or [count, resetIn]
  sinceSweep,   \* per process, ticks since it last swept
  sweep,        \* per process, the ages of its DELETEs under way
  call,         \* per call, the age of its upsert under way, or NoCall
  used,         \* history: requests admitted since the window began
  since,        \* history: ticks since the window began, counted up to Gap
  admitted,     \* history: requests admitted a ticks ago, for a below Gap
  unchecked     \* history: those let through a ticks ago because a statement failed

Throttles == <<used, since, admitted, unchecked>>
limiterVars == <<driver, windows, sinceSweep, sweep, call, used, since, admitted, unchecked>>

NoWindow == [count |-> 0, resetIn |-> 0]
NoCall   == -1

Least(a, b) == IF a < b THEN a ELSE b
Later(n, most) == IF n < most THEN n + 1 ELSE most

LimiterInit ==
  /\ driver \in {"memory", "postgres"}
  /\ windows = [s \in Stores |-> NoWindow]
  /\ sinceSweep = [i \in Instances |-> SweepEvery]
  /\ sweep = [i \in Instances |-> {}]
  /\ call  = [c \in Calls |-> NoCall]
  /\ used  = [s \in Stores |-> 0]
  /\ since = [s \in Stores |-> Gap]
  /\ admitted = [s \in Stores |-> [a \in 0..Gap - 1 |-> 0]]
  /\ unchecked = [a \in 0..Gap - 1 |-> 0]

-----------------------------------------------------------------------------
(* consume: the same decision by both drivers.                             *)

Over(w, age) == w = NoWindow \/ w.resetIn <= -age

UpsertFromZero(w, age) ==
  IF Over(w, age) THEN [count |-> 0, resetIn |-> Window - age]
                  ELSE [w EXCEPT !.count = Later(@, Limit + 1)]

UpsertSliding(w, age) ==
  [count |-> IF Over(w, age) THEN 1 ELSE Later(w.count, Limit + 1),
   resetIn |-> Window - age]

\* A count past the limit is a refusal, whatever its value.
Upsert(w, age) ==
  IF Over(w, age) THEN [count |-> 1, resetIn |-> Window - age]
                  ELSE [w EXCEPT !.count = Later(@, Limit + 1)]

AllowedOneMore(w) == w.count <= Limit + 1

Allowed(w) == w.count <= Limit

SweptUnconditionally(w, age) == NoWindow

Swept(w, age) == IF w.resetIn <= -age THEN NoWindow ELSE w

\* The window w of s takes a request, and the histories say what came of it.
Count(s, w, age) ==
  LET next == Upsert(w, age) IN
  /\ windows' = [windows EXCEPT ![s] = next]
  /\ admitted' = IF Allowed(next) THEN [admitted EXCEPT ![s][0] = @ + 1]
                                  ELSE admitted
  /\ used' = [used EXCEPT ![s] = IF Over(w, age) THEN 1
                                 ELSE IF Allowed(next) THEN @ + 1 ELSE @]
  /\ since' = IF Over(w, age) THEN [since EXCEPT ![s] = 0] ELSE since

-----------------------------------------------------------------------------
(* MemoryRateLimiter: the sweep and the count are one synchronous step.    *)

SweepDue(i) == sinceSweep[i] >= SweepEvery

MemoryConsume(i) ==
  /\ driver = "memory"
  /\ Count(i, IF SweepDue(i) THEN Swept(windows[i], 0) ELSE windows[i], 0)
  /\ sinceSweep' = IF SweepDue(i) THEN [sinceSweep EXCEPT ![i] = 0] ELSE sinceSweep
  /\ UNCHANGED <<driver, sweep, call, unchecked>>

\* A request for some other key, whose turn it is to sweep them all.
MemorySweep(i) ==
  /\ driver = "memory" /\ SweepDue(i)
  /\ windows' = [windows EXCEPT ![i] = Swept(@, 0)]
  /\ sinceSweep' = [sinceSweep EXCEPT ![i] = 0]
  /\ UNCHANGED <<driver, sweep, call>> /\ UNCHANGED Throttles

-----------------------------------------------------------------------------
(* PostgresRateLimiter: the time is read, a sweep may be started, and the  *)
(* statements of both run later, in either order.                          *)

StartSweep(i) ==
  IF SweepDue(i)
    THEN /\ sweep' = [sweep EXCEPT ![i] = @ \cup {0}]
         /\ sinceSweep' = [sinceSweep EXCEPT ![i] = 0]
    ELSE UNCHANGED <<sweep, sinceSweep>>

PostgresConsume(i, c) ==
  /\ driver = "postgres"
  /\ call[c] = NoCall
  /\ call' = [call EXCEPT ![c] = 0]
  /\ StartSweep(i)
  /\ UNCHANGED <<driver, windows>> /\ UNCHANGED Throttles

PostgresSweep(i) ==
  /\ driver = "postgres" /\ SweepDue(i)
  /\ StartSweep(i)
  /\ UNCHANGED <<driver, windows, call>> /\ UNCHANGED Throttles

UpsertLands(c) ==
  /\ call[c] # NoCall
  /\ Count(Table, windows[Table], call[c])
  /\ call' = [call EXCEPT ![c] = NoCall]
  /\ UNCHANGED <<driver, sinceSweep, sweep, unchecked>>

\* The requests let through unchecked in the last Gap ticks: those of a ticks
\* ago are numbered down from -1, the ones admitted up from 1.
Unchecked == UNION {{a} \X (-unchecked[a]..-1) : a \in 0..Gap - 1}

OneUnchecked == unchecked' = [unchecked EXCEPT ![0] = @ + 1]

\* A statement that fails lets its request through: nothing was counted.
UpsertFails(c) ==
  /\ call[c] # NoCall
  /\ Cardinality(Unchecked) < MaxFailures
  /\ call' = [call EXCEPT ![c] = NoCall]
  /\ OneUnchecked
  /\ UNCHANGED <<driver, windows, sinceSweep, sweep, used, since, admitted>>

\* The statement ran and its answer is lost: the request is let through, also
\* when the row says that it is one too many.
UpsertUnanswered(c) ==
  /\ call[c] # NoCall
  /\ Cardinality(Unchecked) < MaxFailures
  /\ Count(Table, windows[Table], call[c])
  /\ IF Allowed(Upsert(windows[Table], call[c])) THEN UNCHANGED unchecked ELSE OneUnchecked
  /\ call' = [call EXCEPT ![c] = NoCall]
  /\ UNCHANGED <<driver, sinceSweep, sweep>>

SweepEnds(i, age) ==
  /\ age \in sweep[i]
  /\ sweep' = [sweep EXCEPT ![i] = @ \ {age}]

SweepLands(i, age) ==
  /\ SweepEnds(i, age)
  /\ windows' = [windows EXCEPT ![Table] = Swept(@, age)]
  /\ UNCHANGED <<driver, sinceSweep, call>> /\ UNCHANGED Throttles

SweepFails(i, age) ==
  /\ SweepEnds(i, age)
  /\ UNCHANGED <<driver, windows, sinceSweep, call>> /\ UNCHANGED Throttles

-----------------------------------------------------------------------------
(* The environment: a deploy, and time.                                    *)

\* A new process starts with an empty map; the statements the old one sent
\* are with the database, and still run.
Redeploy(i) ==
  /\ windows' = [windows EXCEPT ![i] = NoWindow]
  /\ sinceSweep' = [sinceSweep EXCEPT ![i] = SweepEvery]
  /\ used' = [used EXCEPT ![i] = 0]
  /\ since' = [since EXCEPT ![i] = Gap]
  /\ admitted' = [admitted EXCEPT ![i] = [a \in 0..Gap - 1 |-> 0]]
  /\ UNCHANGED <<driver, sweep, call, unchecked>>

\* A deadline long past is past for every statement still under way.
Nearer(w) ==
  IF w = NoWindow THEN w
  ELSE [w EXCEPT !.resetIn = IF @ > -MaxLate THEN @ - 1 ELSE @]

ClockTick ==
  /\ \A c \in Calls : call[c] < MaxLate
  /\ \A i \in Instances : MaxLate \notin sweep[i]
  /\ windows' = [s \in Stores |-> Nearer(windows[s])]
  /\ sinceSweep' = [i \in Instances |-> Later(sinceSweep[i], SweepEvery)]
  /\ sweep' = [i \in Instances |-> {age + 1 : age \in sweep[i]}]
  /\ call'  = [c \in Calls |-> IF call[c] = NoCall THEN NoCall ELSE call[c] + 1]
  /\ since' = [s \in Stores |-> Later(since[s], Gap)]
  /\ admitted' = [s \in Stores |-> [a \in 0..Gap - 1 |->
                    IF a = 0 THEN 0 ELSE admitted[s][a - 1]]]
  /\ unchecked' = [a \in 0..Gap - 1 |-> IF a = 0 THEN 0 ELSE unchecked[a - 1]]
  /\ UNCHANGED <<driver, used>>

LimiterNext ==
  \/ ClockTick
  \/ \E i \in Instances : \/ MemoryConsume(i) \/ MemorySweep(i)
                          \/ PostgresSweep(i) \/ Redeploy(i)
                          \/ \E age \in 0..MaxLate :
                               SweepLands(i, age) \/ SweepFails(i, age)
                          \/ \E c \in Calls : PostgresConsume(i, c)
  \/ \E c \in Calls : UpsertLands(c) \/ UpsertFails(c) \/ UpsertUnanswered(c)

\* Time passes, and a statement sent is answered: the driver's connection
\* either returns a row or an error.  Nobody has to call.
LimiterFairness ==
  /\ WF_limiterVars(ClockTick)
  /\ \A c \in Calls :
       WF_limiterVars(UpsertLands(c) \/ UpsertFails(c) \/ UpsertUnanswered(c))
  /\ \A i \in Instances, age \in 0..MaxLate :
       WF_limiterVars(SweepLands(i, age) \/ SweepFails(i, age))

LimiterSpec == LimiterInit /\ [][LimiterNext]_limiterVars /\ LimiterFairness

-----------------------------------------------------------------------------
(* Properties.                                                             *)

WindowType == {NoWindow} \cup [count : 1..Limit + 1, resetIn : -MaxLate..Window]
CallType   == {NoCall} \cup 0..MaxLate

\* The type of every variable.
TypeOK ==
  /\ driver \in {"memory", "postgres"}
  /\ windows \in [Stores -> WindowType]
  /\ sinceSweep \in [Instances -> 0..SweepEvery]
  /\ sweep \in [Instances -> SUBSET (0..MaxLate)]
  /\ call \in [Calls -> CallType]
  /\ used \in [Stores -> 0..Limit]
  /\ since \in [Stores -> 0..Gap]
  /\ unchecked \in [0..Gap - 1 -> Nat]

\* The requests s has admitted in the last Gap ticks: the i-th of a ticks ago.
Lately(s) == UNION {{a} \X (1..admitted[s][a]) : a \in 0..Gap - 1}

\* What a failed statement let through, by the store it was meant for, and all
\* the requests s has let through in the last Gap ticks.
Failures(s)   == IF s = Table THEN Unchecked ELSE {}
LetThrough(s) == Lately(s) \cup Failures(s)

\* However calls, late statements and sweeps interleave, the requests let
\* through in any Gap ticks are at most two budgets, the end of one window and
\* the start of the next, and one for each statement that failed: the limiter
\* fails open, so there is no bound on those, but a failure never costs more
\* than its own request.  With driver memory this is so of each process.
TwoBudgetsPerWindow ==
  \A s \in Stores : Cardinality(LetThrough(s)) <= 2 * Limit + Cardinality(Failures(s))

\* The limiter keeps the promise stated in Throttle: a late upsert or sweep
\* never refills a budget early, and a refusal spends none of it.
Promise == INSTANCE Throttle
ImplementsThrottle == Promise!Spec

\* A key that is refused is not refused for ever, however often it tries
\* meanwhile: an attempt over the limit never moves the window's end.
Refusing(s)  == windows[s].count > Limit /\ ~Over(windows[s], 0)
RefusalsEnd  == \A s \in Stores : Refusing(s) ~> ~Refusing(s)
=============================================================================
