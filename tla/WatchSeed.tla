------------------------------- MODULE WatchSeed -------------------------------
(***************************************************************************)
(* A database that prisma/seed.ts has filled, for WatchTracking to go on   *)
(* from.  The script writes facts: library entries, watched rows, ledger   *)
(* entries.  Everything cached is then recomputed, by the services' own    *)
(* recompute functions or by SQL of the script's that says the same again. *)
(*                                                                         *)
(* The script's random numbers are choices here.  It is run before 14:24   *)
(* UTC: later, a row may be dated tomorrow.                                *)
(***************************************************************************)
EXTENDS WatchTracking

CONSTANT SeedDay   \* the day the script runs on

ASSUME SeedAssumption == SeedDay \in Days

\* How far through a show a status has got, in hundredths.
Completion(status) ==
  CASE status = "COMPLETED"     -> 100..100
    [] status = "PLAN_TO_WATCH" -> 0..0
    [] status = "DROPPED"       -> 4..31
    [] status = "ON_HOLD"       -> 20..59
    [] status = "WATCHING"      -> 15..84

SeedTargets(s, status) ==
  {(TotalEpisodes[s] * c) \div 100 : c \in Completion(status)}

\* The first n regular episodes; a planted streak moves days, never rows.
SeededRows(s, n) ==
  {e \in RegularEpisodes(s) : Cardinality(UpTo(e)) <= n}

\* The seasons an unbroken run of n episodes covers.
SeededSeasons(s, n) ==
  {m \in Seasons : /\ SeasonShow[m] = s /\ SeasonNumber[m] > 0 /\ SeasonEpisodes(m) # {}
                   /\ Cardinality({e \in RegularEpisodes(s) :
                        SeasonNumber[EpisodeSeason[e]] <= SeasonNumber[m]}) <= n}

\* rebuildDailyLogs
RebuiltLogs(rows) ==
  [d \in Days |-> LET on == {e \in Episodes : rows[e] = d}
                  IN  [episodes |-> Cardinality(on), minutes |-> Minutes[on]]]

\* Faulty variant: a season needs only to be begun.
RecomputedProgressBegun(rows, s, status) ==
  LET seen == Watched(rows) \cap EpisodesOf(s)
  IN  [status |-> status, episodes |-> Cardinality({e \in seen : IsRegular(e)}),
       minutes |-> Minutes[seen],
       seasons |-> Cardinality({EpisodeSeason[e] : e \in seen}),
       position |-> IF seen = {} THEN NoEpisode ELSE Last(seen)]

\* recomputeUserShowProgress: the script's SQL for what syncProgress derives.
\* The position is of all rows, specials included.
RecomputedProgress(rows, s, status) ==
  LET seen == Watched(rows) \cap EpisodesOf(s)
      full == {n \in Seasons : /\ SeasonShow[n] = s /\ SeasonNumber[n] > 0
                               /\ EpisodeCount[n] > 0
                               /\ Cardinality(seen \cap SeasonEpisodes(n)) >= EpisodeCount[n]}
  IN  [status |-> status, episodes |-> Cardinality({e \in seen : IsRegular(e)}),
       minutes |-> Minutes[seen], seasons |-> Cardinality(full),
       position |-> IF seen = {} THEN NoEpisode ELSE Last(seen)]

SeededLedger(status, watched) ==
  [k \in Kinds |->
    CASE k = "episode" -> UNION {SeededRows(s, watched[s]) : s \in DOMAIN status}
      [] k = "season"  -> UNION {SeededSeasons(s, watched[s]) : s \in DOMAIN status}
      [] k = "show"    -> {s \in DOMAIN status : status[s] = "COMPLETED"}
      [] OTHER         -> {}]

\* finalise: caches, streaks, statistics, achievements, statistics again.
Finalised(paid) ==
  LET sum == LedgerSum(paid)
  IN  /\ streak = Recompute(dailyLog, day)
      /\ statusCount = RecomputedStatusCount
      /\ typeCompleted = RecomputedTypeCompleted
      /\ volume = RecomputedVolume
      /\ statStreak = [current |-> streak.current, longest |-> streak.longest]
      /\ account = Evaluate([paid |-> paid, xpTotal |-> sum, level |-> XpToLevel(sum)],
                            volume, statStreak, dailyLog)

\* Whatever library a persona gets, how far through each show, and when each
\* episode was watched.
SeedInit ==
  \E library \in SUBSET Shows \ {{}} :
  \E status \in [library -> Statuses \ {"REWATCHING"}] :
  \E watched \in {f \in [library -> UNION {SeedTargets(s, status[s]) : s \in library}] :
                   \A s \in library : f[s] \in SeedTargets(s, status[s])} :
  LET paid == SeededLedger(status, watched) IN
  \E on \in [paid["episode"] -> 1..SeedDay] :
    /\ day = SeedDay
    /\ watchedOn = [e \in Episodes |-> IF e \in paid["episode"] THEN on[e] ELSE NotWatched]
    /\ userShow = [s \in Shows |-> IF s \in library
                                    THEN RecomputedProgress(watchedOn, s, status[s]) ELSE Absent]
    /\ memberCount = [s \in Shows |-> IF s \in library THEN 1 ELSE 0]
    /\ dailyLog = RebuiltLogs(watchedOn)
    /\ Finalised(paid)
    /\ showCompleted = FALSE
    /\ InBounds

\* The service and its repair, from an empty database or a seeded one.
SeededSpec == (Init \/ SeedInit) /\ [][Next \/ RecomputeStats]_vars
=============================================================================
