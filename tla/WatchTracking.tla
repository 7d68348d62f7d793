---------------------------- MODULE WatchTracking ----------------------------
(***************************************************************************)
(* The core write loop of tracking.service.ts for one user, each           *)
(* transaction a single step (its statements interleaved with those of     *)
(* other transactions are the subject of TrackingTx).  Every query filters *)
(* on the user; other users show only in Show.memberCount, which counts    *)
(* from here on.  The rate limiter in front of the handlers, the rating    *)
(* column and the activities are left to other modules; the timestamps of  *)
(* UserShow follow its status and rows and are left out.                   *)
(*                                                                         *)
(* user_episodes is watchedOn, user_shows is userShow, and user_stats is   *)
(* split into statusCount, typeCompleted, volume, statStreak and the       *)
(* xpTotal and level of account.                                           *)
(***************************************************************************)
EXTENDS Catalogue, XpLedger, WatchStreak, WatchStatus, FiniteSetsExt

CONSTANTS
  AddStatuses,    \* the statuses addToLibrary is called with
  AddPositions,   \* the regular episodes it is called with as a position
  MaxLog,         \* bound: episodes logged on one day
  MaxVolume,      \* bound: how far volume.episodes and .seasons stray from 0
  MaxMinutes      \* bound: the same for the minutes counted

NotWatched == 0
NoEpisode  == "none"

ASSUME InputAssumption ==
  /\ AddStatuses \subseteq Statuses
  /\ AddPositions \subseteq {e \in Episodes : IsRegular(e)}
  /\ MaxLog \in Nat /\ MaxVolume \in Nat /\ MaxMinutes \in Nat

VARIABLES
  day,            \* today, in UTC
  watchedOn,      \* UserEpisode rows: the day each episode was watched on
  userShow,       \* UserShow rows, the progress caches
  memberCount,    \* Show.memberCount
  statusCount,    \* user_stats: one counter per status
  typeCompleted,  \* user_stats: animeCompleted, tvCompleted
  volume,         \* user_stats: episodes, minutes, seasons
  statStreak,     \* user_stats: currentStreak, longestStreak
  account,        \* the ledger, xpTotal and level
  dailyLog,       \* daily_watch_logs
  streak,         \* watch_streaks
  showCompleted   \* TrackingOutcome.showCompleted of the last call

vars == <<day, watchedOn, userShow, memberCount, statusCount, typeCompleted,
          volume, statStreak, account, dailyLog, streak, showCompleted>>

Absent == [status |-> NotInLibrary, episodes |-> 0, minutes |-> 0,
           seasons |-> 0, position |-> NoEpisode]

Init ==
  /\ day = 1
  /\ watchedOn = [e \in Episodes |-> NotWatched]
  /\ userShow = [s \in Shows |-> Absent]
  /\ memberCount = [s \in Shows |-> 0]
  /\ statusCount = [st \in Statuses |-> 0]
  /\ typeCompleted = [t \in Types |-> 0]
  /\ volume = [episodes |-> 0, minutes |-> 0, seasons |-> 0]
  /\ statStreak = [current |-> 0, longest |-> 0]
  /\ account = NewAccount
  /\ dailyLog = [d \in Days |-> [episodes |-> 0, minutes |-> 0]]
  /\ streak = NewStreak
  /\ showCompleted = FALSE

InBounds ==
  /\ \A d \in Days : /\ dailyLog[d].episodes <= MaxLog
                     /\ dailyLog[d].minutes \in -MaxMinutes..MaxMinutes
  /\ volume.episodes \in -MaxVolume..MaxVolume
  /\ volume.seasons \in -MaxVolume..MaxVolume
  /\ volume.minutes \in -MaxMinutes..MaxMinutes

InLibrary(s) == userShow[s].status # NotInLibrary

----------------------------------------------------------------------------
(* Progress: everything cached on UserShow, re-derived from the rows.      *)

Watched(rows) == {e \in Episodes : rows[e] # NotWatched}

CompletedSeasons(rows, s) ==
  {n \in Seasons : /\ SeasonShow[n] = s
                   /\ SeasonNumber[n] > 0
                   /\ EpisodeCount[n] > 0
                   /\ Cardinality(Watched(rows) \cap SeasonEpisodes(n))
                        >= EpisodeCount[n]}

IsComplete(rows, s) ==
  /\ TotalEpisodes[s] > 0
  /\ Cardinality(Watched(rows) \cap RegularEpisodes(s)) >= TotalEpisodes[s]

\* Faulty variant: specials counted as progress.
SyncProgressCountsSpecials(rows, s, base, desired) ==
  LET seen   == Watched(rows) \cap EpisodesOf(s)
      n      == Cardinality(seen)
      status == ResolveStatus(base.status, desired, IsComplete(rows, s), n)
  IN  [status |-> status, episodes |-> n, minutes |-> Minutes[seen],
       seasons |-> Cardinality(CompletedSeasons(rows, s)),
       position |-> IF seen = {} THEN NoEpisode ELSE Last(seen)]

\* The row syncProgress writes, base being the row it read.
SyncProgress(rows, s, base, desired) ==
  LET regular == Watched(rows) \cap RegularEpisodes(s)
      n       == Cardinality(regular)
      status  == ResolveStatus(base.status, desired, IsComplete(rows, s), n)
  IN  [status    |-> status,
       episodes  |-> n,
       minutes   |-> Minutes[Watched(rows) \cap EpisodesOf(s)],
       seasons   |-> Cardinality(CompletedSeasons(rows, s)),
       position  |-> IF regular = {} THEN NoEpisode ELSE Last(regular)]

----------------------------------------------------------------------------
(* Achievements: metric >= threshold.  The counters of reviews and follows *)
(* belong to other components and are 0 here.                              *)

MetricReaches(metric, n, vol, run, log, level) ==
  CASE metric = "SHOWS_COMPLETED"   -> statusCount["COMPLETED"] >= n
    [] metric = "ANIME_COMPLETED"   -> typeCompleted["ANIME"] >= n
    [] metric = "TV_COMPLETED"      -> typeCompleted["TV"] >= n
    [] metric = "EPISODES_WATCHED"  -> vol.episodes >= n
    [] metric = "SEASONS_COMPLETED" -> vol.seasons >= n
    [] metric = "MINUTES_WATCHED"   -> vol.minutes >= n
    [] metric = "EPISODES_IN_ONE_DAY" -> \E d \in Days : log[d].episodes >= n
    [] metric = "CURRENT_STREAK"    -> run.current >= n
    [] metric = "LONGEST_STREAK"    -> run.longest >= n
    [] metric = "LEVEL"             -> level >= n
    [] OTHER                        -> 0 >= n

\* One pass of evaluate: unlock what the metrics read at its start allow.
UnlockPass(a, vol, run, log) ==
  Award(a, "achievement",
        {h \in Achievements \ a.paid["achievement"] :
            MetricReaches(AchMetric[h], AchThreshold[h], vol, run, log, a.level)})

\* Faulty variant: a single pass, so that no unlock can cascade.
EvaluateOnce(a, vol, run, log) == UnlockPass(a, vol, run, log)

\* evaluate: MAX_CASCADE_PASSES passes; one that unlocks nothing changes nothing.
Evaluate(a, vol, run, log) ==
  UnlockPass(UnlockPass(UnlockPass(a, vol, run, log), vol, run, log),
             vol, run, log)

----------------------------------------------------------------------------
(* The tail every tracking transaction shares.                             *)

\* Faulty variant: only the status moved to is counted.
ReconcileOnlyUp(s, from, to) ==
  LET step(x) == IF to = x /\ from # x THEN 1 ELSE 0
  IN  /\ statusCount' = [st \in Statuses |-> statusCount[st] + step(st)]
      /\ typeCompleted' =
           [typeCompleted EXCEPT ![ShowType[s]] = @ + step("COMPLETED")]

\* reconcileStatusCounters: one counter down, one up; NotInLibrary is null.
ReconcileStatusCounters(s, from, to) ==
  LET step(x) == (IF to = x THEN 1 ELSE 0) - (IF from = x THEN 1 ELSE 0)
  IN  /\ statusCount' = [st \in Statuses |-> statusCount[st] + step(st)]
      /\ typeCompleted' =
           [typeCompleted EXCEPT ![ShowType[s]] = @ + step("COMPLETED")]

\* Faulty variant: nothing is awarded unless an episode row is new.
EarnedByNewRows(s, rows, status, fresh) ==
  IF fresh = {} THEN account
  ELSE AwardMany(account, fresh, CompletedSeasons(rows, s),
                 IF status = "COMPLETED" THEN {s} ELSE {})

\* The account after the awards of one change: its new episodes, every season
\* now complete and, if its status says so, the show.
Earned(s, rows, status, fresh) ==
  AwardMany(account, fresh, CompletedSeasons(rows, s),
            IF status = "COMPLETED" THEN {s} ELSE {})

LogActivity(count, minutes) ==
  [dailyLog EXCEPT ![day] = [episodes |-> @.episodes + count,
                             minutes  |-> @.minutes + minutes]]

\* justCompletedShow
JustCompleted(was, now) ==
  now.status = "COMPLETED" /\ was.status # "COMPLETED"

\* applyRewards.  fresh is the set of episodes the call inserted and reports
\* as newEpisodes; was is the UserShow row syncProgress read, now the one it
\* wrote.  The achievements are evaluated before the caller reconciles the
\* status counters.
ApplyRewards(s, rows, was, now, fresh, minutes) ==
  LET earned == Earned(s, rows, now.status, fresh)
      active == fresh # {}
      starts == active /\ streak.last # day
      count  == Cardinality(fresh)
      log    == IF active THEN LogActivity(count, minutes) ELSE dailyLog
      run    == IF active THEN RecordActivity(streak, day) ELSE streak
      shown  == IF starts
                THEN [current |-> run.current, longest |-> run.longest]
                ELSE statStreak
      daily  == IF starts THEN Award(earned, "dailyStreak", {day}) ELSE earned
      vol    == IF active
                THEN [episodes |-> volume.episodes + count,
                      minutes  |-> volume.minutes + minutes,
                      seasons  |-> volume.seasons + now.seasons - was.seasons]
                ELSE volume
  IN  /\ dailyLog' = log
      /\ streak' = run
      /\ statStreak' = shown
      /\ volume' = vol
      /\ account' = Evaluate(daily, vol, shown, log)
      /\ showCompleted' = JustCompleted(was, now)

----------------------------------------------------------------------------
(* Marking.                                                                *)

Insert(eps) ==
  [e \in Episodes |-> IF e \in eps /\ watchedOn[e] = NotWatched
                      THEN day ELSE watchedOn[e]]

Unwatched(eps) == {e \in eps : watchedOn[e] = NotWatched}

\* ensureUserShow: the row a mark works on, created WATCHING if missing.
EnsureUserShow(s) ==
  IF InLibrary(s) THEN userShow[s]
  ELSE [Absent EXCEPT !.status = "WATCHING"]

CountMember(s) ==
  memberCount' = IF InLibrary(s) THEN memberCount
                 ELSE [memberCount EXCEPT ![s] = @ + 1]

\* What markEpisodeWatched, markSeasonWatched and markWatchedUpTo do once
\* they know which episodes they are about.
Mark(s, eps, minutes) ==
  LET rows == Insert(eps)
      base == EnsureUserShow(s)
      now  == SyncProgress(rows, s, base, NotInLibrary)
  IN  /\ watchedOn' = rows
      /\ userShow' = [userShow EXCEPT ![s] = now]
      /\ CountMember(s)
      /\ ApplyRewards(s, rows, base, now, Unwatched(eps), minutes)
      /\ ReconcileStatusCounters(s, userShow[s].status, now.status)
      /\ UNCHANGED day
      /\ InBounds'

MarkEpisodeWatched(e) == Mark(ShowOf(e), {e}, Minutes[Unwatched({e})])

\* Math.round(a / b) for naturals.
RoundedQuotient(a, b) == (2 * a + b) \div (2 * b)

\* Faulty variant: the whole season's minutes, however little was new.
WholeSeason(n) == Minutes[SeasonEpisodes(n)]

\* The season's minutes are apportioned to the episodes inserted.
SeasonShare(n) ==
  LET all   == SeasonEpisodes(n)
      fresh == Unwatched(all)
  IN  IF fresh = {} THEN 0
      ELSE RoundedQuotient(Minutes[all] * Cardinality(fresh), Cardinality(all))

MarkSeasonWatched(n) == Mark(SeasonShow[n], SeasonEpisodes(n), SeasonShare(n))

MarkWatchedUpTo(e) == Mark(ShowOf(e), UpTo(e), Minutes[Unwatched(UpTo(e))])

\* The lowest-numbered unwatched regular episode is marked, if there is one.
ContinueWatching(s) ==
  \E e \in Unwatched(RegularEpisodes(s)) :
    /\ IsFirst(e, Unwatched(RegularEpisodes(s)))
    /\ MarkEpisodeWatched(e)

----------------------------------------------------------------------------
(* Un-marking and library membership.                                      *)

UnmarkEpisodeWatched(e) ==
  LET s    == ShowOf(e)
      on   == watchedOn[e]
      rows == [watchedOn EXCEPT ![e] = NotWatched]
      now  == SyncProgress(rows, s, userShow[s], NotInLibrary)
  IN  /\ on # NotWatched
      /\ InLibrary(s)      \* findUniqueOrThrow in syncProgress
      /\ watchedOn' = rows
      /\ userShow' = [userShow EXCEPT ![s] = now]
      /\ dailyLog' = IF dailyLog[on].episodes > 0
                     THEN [dailyLog EXCEPT
                             ![on] = [episodes |-> @.episodes - 1,
                                      minutes  |-> @.minutes - Minutes[{e}]]]
                     ELSE dailyLog
      /\ volume' = [episodes |-> volume.episodes - 1,
                    minutes  |-> volume.minutes - Minutes[{e}],
                    seasons  |-> volume.seasons + now.seasons
                                   - userShow[s].seasons]
      /\ ReconcileStatusCounters(s, userShow[s].status, now.status)
      /\ showCompleted' = (now.status = "COMPLETED")
      /\ UNCHANGED <<day, memberCount, statStreak, account, streak>>
      /\ InBounds'

\* addToLibrary and setStatus.  eps are the episodes of a position given with
\* the call.  The upsert has already written the status when syncProgress
\* reads the row, and applyRewards is told of no new episodes.
AddToLibrary(s, status, eps) ==
  LET rows == Insert(IF status = "COMPLETED" THEN RegularEpisodes(s) ELSE eps)
      base == IF InLibrary(s) THEN [userShow[s] EXCEPT !.status = status]
              ELSE [Absent EXCEPT !.status = status]
      now  == SyncProgress(rows, s, base, status)
  IN  /\ watchedOn' = rows
      /\ userShow' = [userShow EXCEPT ![s] = now]
      /\ CountMember(s)
      /\ ApplyRewards(s, rows, base, now, {}, 0)
      /\ ReconcileStatusCounters(s, userShow[s].status, now.status)
      /\ UNCHANGED day
      /\ InBounds'

RemoveFromLibrary(s) ==
  LET run == Recompute(dailyLog, day)
  IN  /\ InLibrary(s)
      /\ watchedOn' = [e \in Episodes |->
                         IF ShowOf(e) = s THEN NotWatched ELSE watchedOn[e]]
      /\ userShow' = [userShow EXCEPT ![s] = Absent]
      /\ memberCount' = [memberCount EXCEPT ![s] = @ - 1]
      /\ ReconcileStatusCounters(s, userShow[s].status, NotInLibrary)
      /\ volume' = [episodes |-> volume.episodes - userShow[s].episodes,
                    minutes  |-> volume.minutes - userShow[s].minutes,
                    seasons  |-> volume.seasons - userShow[s].seasons]
      /\ streak' = run
      /\ statStreak' = [current |-> run.current, longest |-> run.longest]
      /\ showCompleted' = FALSE
      /\ UNCHANGED <<day, account, dailyLog>>
      /\ InBounds'

\* Midnight, UTC.
NextDay ==
  /\ day < MaxDay
  /\ day' = day + 1
  /\ showCompleted' = FALSE
  /\ UNCHANGED <<watchedOn, userShow, memberCount, statusCount, typeCompleted,
                 volume, statStreak, account, dailyLog, streak>>

Next ==
  \/ \E e \in Episodes : MarkEpisodeWatched(e)
  \/ \E n \in Seasons : MarkSeasonWatched(n)
  \/ \E e \in Episodes : IsRegular(e) /\ MarkWatchedUpTo(e)
  \/ \E s \in Shows : ContinueWatching(s)
  \/ \E e \in Episodes : UnmarkEpisodeWatched(e)
  \/ \E s \in Shows, status \in AddStatuses : AddToLibrary(s, status, {})
  \/ \E e \in AddPositions, status \in AddStatuses :
        AddToLibrary(ShowOf(e), status, UpTo(e))
  \/ \E s \in Shows : RemoveFromLibrary(s)
  \/ NextDay

Spec == Init /\ [][Next]_vars

----------------------------------------------------------------------------
(* statsService.recompute, the offline repair: every counter of user_stats *)
(* rebuilt from UserShow rows, the ledger and the streak row.              *)

RecomputedStatusCount ==
  [st \in Statuses |-> Cardinality({s \in Shows : userShow[s].status = st})]

RecomputedTypeCompleted ==
  [t \in Types |-> Cardinality({s \in Shows : /\ userShow[s].status = "COMPLETED"
                                              /\ ShowType[s] = t})]

RecomputedVolume ==
  [episodes |-> SumFunction([s \in Shows |-> userShow[s].episodes]),
   minutes  |-> SumFunction([s \in Shows |-> userShow[s].minutes]),
   seasons  |-> SumFunction([s \in Shows |-> userShow[s].seasons])]

RecomputeStats ==
  /\ statusCount' = RecomputedStatusCount
  /\ typeCompleted' = RecomputedTypeCompleted
  /\ volume' = RecomputedVolume
  /\ statStreak' = [current |-> streak.current, longest |-> streak.longest]
  /\ account' = [account EXCEPT !.xpTotal = LedgerSum(account.paid),
                                !.level = XpToLevel(LedgerSum(account.paid))]
  /\ showCompleted' = FALSE
  /\ UNCHANGED <<day, watchedOn, userShow, memberCount, dailyLog, streak>>

\* The service together with the repair script run between transactions.
RepairSpec == Init /\ [][Next \/ RecomputeStats]_vars

----------------------------------------------------------------------------
(* Properties.                                                             *)

UserShowRow ==
  [status : Statuses \cup {NotInLibrary}, episodes : Nat, minutes : Nat,
   seasons : Nat, position : Episodes \cup {NoEpisode}]

\* What an award of each kind is keyed on.
Subjects(kind) ==
  CASE kind = "episode" -> Episodes
    [] kind = "season" -> Seasons
    [] kind = "show" -> Shows
    [] kind = "dailyStreak" -> Days
    [] kind = "achievement" -> Achievements

AccountOK(a) ==
  /\ a = [paid |-> a.paid, xpTotal |-> a.xpTotal, level |-> a.level]
  /\ a.paid = [k \in Kinds |-> a.paid[k]]
  /\ \A k \in Kinds : a.paid[k] \subseteq Subjects(k)
  /\ a.xpTotal \in Nat
  /\ a.level \in 1..MaxLevel

\* Every variable has the type of the columns it stands for; the counters of
\* user_stats and the daily log are plain integers, as in the schema.
TypeOK ==
  /\ day \in Days
  /\ watchedOn \in [Episodes -> Days \cup {NotWatched}]
  /\ userShow \in [Shows -> UserShowRow]
  /\ memberCount \in [Shows -> Int]
  /\ statusCount \in [Statuses -> Int]
  /\ typeCompleted \in [Types -> Int]
  /\ volume \in [episodes : Int, minutes : Int, seasons : Int]
  /\ statStreak \in [current : Nat, longest : Nat]
  /\ AccountOK(account)
  /\ dailyLog \in [Days -> [episodes : Int, minutes : Int]]
  /\ streak \in [current : Nat, longest : Nat, last : Days \cup {NoDay}]
  /\ showCompleted \in BOOLEAN

\* UserEpisode rows are the only facts: whatever sequence of marks, undos,
\* status changes and removals led here, a library entry caches exactly what
\* its rows say, and a show outside the library has no rows left behind
\* (syncProgress, removeFromLibrary).
ProgressDerived ==
  \A s \in Shows :
    LET rows    == Watched(watchedOn) \cap EpisodesOf(s)
        regular == {e \in rows : IsRegular(e)}
    IN  IF InLibrary(s)
        THEN /\ userShow[s].episodes = Cardinality(regular)
             /\ userShow[s].minutes = Minutes[rows]
             /\ userShow[s].seasons = Cardinality(CompletedSeasons(watchedOn, s))
             /\ userShow[s].position = IF regular = {} THEN NoEpisode
                                       ELSE Last(regular)
        ELSE rows = {} /\ userShow[s] = Absent

\* COMPLETED always means every regular episode is ticked, however it was
\* reached and whatever was un-marked since.
CompletedMeansAllWatched ==
  \A s \in Shows : userShow[s].status = "COMPLETED" => IsComplete(watchedOn, s)

\* The per-status counters, the anime/TV split and the member count, moved by
\* differences read at different points of a transaction, never drift from
\* the library they summarise.
StatusCountersAgree ==
  /\ statusCount = RecomputedStatusCount
  /\ typeCompleted = RecomputedTypeCompleted
  /\ \A s \in Shows : memberCount[s] = IF InLibrary(s) THEN 1 ELSE 0

\* xpTotal is a cache of the ledger's sum and level a cache of xpTotal, after
\* any mixture of first payments, repeats, cascaded unlocks and repairs.
LedgerAgrees ==
  /\ account.xpTotal = LedgerSum(account.paid)
  /\ account.level = XpToLevel(account.xpTotal)

\* No completed season goes unpaid: whichever call ticked its last episode,
\* the season's award is in the ledger.
CompletedSeasonsPaid ==
  \A s \in Shows : CompletedSeasons(watchedOn, s) \subseteq account.paid["season"]

\* The incremental streak never sells the log short: it knows of every active
\* day, counts at least the run that ends on its last day, and its record is
\* at least every run in the log; user_stats mirrors it.
StreakCoversLog ==
  LET active == ActiveDays(dailyLog)
  IN  /\ \A d \in active : d <= streak.last
      /\ day - streak.last <= 1 /\ streak.last \in active
            => streak.current >= RunEndingOn(active, streak.last)
      /\ \A d \in active : streak.longest >= RunEndingOn(active, d)
      /\ streak.current <= streak.longest
      /\ statStreak = [current |-> streak.current, longest |-> streak.longest]

\* Everything whose metric does not wait on the per-status counters has been
\* unlocked by the end of the transaction that made it due, level
\* achievements reached through other unlocks included.
UnlocksUpToDate ==
  \A h \in Achievements \ account.paid["achievement"] :
    AchMetric[h] \notin {"SHOWS_COMPLETED", "ANIME_COMPLETED", "TV_COMPLETED"}
      => ~MetricReaches(AchMetric[h], AchThreshold[h], volume, statStreak,
                        dailyLog, account.level)

\* XP is a record of things done: no key leaves the ledger, and neither the
\* total nor the level ever goes down, un-marking and removing included.
XpNeverRevoked ==
  [][/\ \A k \in Kinds : account.paid[k] \subseteq account'.paid[k]
     /\ account'.xpTotal >= account.xpTotal
     /\ account'.level >= account.level]_vars

\* Every user_stats counter derived from the facts still in the database: a
\* full recompute is a no-op after any sequence of calls.  It holds as long as
\* there are no specials, a season's episodes run equally long and episodes
\* enter only through the mark calls.
RecomputeIsNoOp ==
  /\ statusCount = RecomputedStatusCount
  /\ typeCompleted = RecomputedTypeCompleted
  /\ volume = RecomputedVolume
  /\ account.xpTotal = LedgerSum(account.paid)
  /\ account.level = XpToLevel(account.xpTotal)
  /\ statStreak = [current |-> streak.current, longest |-> streak.longest]
=============================================================================
