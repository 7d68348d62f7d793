--------------------------- MODULE MCWatchTracking ---------------------------
(***************************************************************************)
(* Small catalogues for WatchTracking.  "anime" has a season of two        *)
(* episodes and one special; "tv" is one longer episode.                   *)
(* The level thresholds are those of the shipped curve, 80 (l-1)^2.5.      *)
(***************************************************************************)
EXTENDS WatchTracking

CONSTANTS
  WithSpecial,   \* whether the catalogue has the special
  WithTv         \* whether it has the second show

McShows    == {"anime"} \cup (IF WithTv THEN {"tv"} ELSE {})
McSeasons  == {"a1"} \cup (IF WithSpecial THEN {"a0"} ELSE {})
                     \cup (IF WithTv THEN {"t1"} ELSE {})
McEpisodes == {"a1e1", "a1e2"} \cup (IF WithSpecial THEN {"a0e1"} ELSE {})
                               \cup (IF WithTv THEN {"t1e1"} ELSE {})

McSeasonShow    == [n \in McSeasons |-> IF n = "t1" THEN "tv" ELSE "anime"]
McSeasonNumber  == [n \in McSeasons |-> IF n = "a0" THEN 0 ELSE 1]
McEpisodeSeason == [e \in McEpisodes |->
                      IF e = "t1e1" THEN "t1" ELSE IF e = "a0e1" THEN "a0" ELSE "a1"]
McEpisodeNumber == [e \in McEpisodes |-> IF e = "a1e2" THEN 2 ELSE 1]
McShowType      == [s \in McShows |-> IF s = "tv" THEN "TV" ELSE "ANIME"]
McTotalEpisodes == [s \in McShows |-> IF s = "tv" THEN 1 ELSE 2]
McEpisodeCount  == [n \in McSeasons |-> IF n = "a1" THEN 2 ELSE 1]

\* 24 minutes an episode, 45 the one of "tv".
McMinutes == [S \in SUBSET McEpisodes |->
                24 * Cardinality(S \ {"t1e1"}) + 45 * Cardinality(S \cap {"t1e1"})]

\* "binge" tests the day's rollup and its reward reaches level 2, which
\* "level2" tests; "firstBlood" tests a per-status counter.
McCascade      == {"binge", "level2"}
McFirstBlood   == {"firstBlood"}
AllAchievements == McCascade \cup McFirstBlood
McAchMetric    == [h \in AllAchievements |->
                     CASE h = "binge" -> "EPISODES_IN_ONE_DAY"
                       [] h = "level2" -> "LEVEL"
                       [] h = "firstBlood" -> "SHOWS_COMPLETED"]
McAchThreshold == [h \in AllAchievements |-> IF h = "firstBlood" THEN 1 ELSE 2]
\* 50 XP for "binge", 100 for the others.
McRewardOf     == [S \in SUBSET Achievements |->
                     50 * Cardinality(S \cap {"binge"}) + 100 * Cardinality(S \ {"binge"})]

McLevelXp == <<0, 80, 453, 1247>>

McPositions == {"a1e1"}
McNoPositions == {}
McMenu == {"COMPLETED", "DROPPED", "REWATCHING"}
McNoStatuses == {}
McNoAchievements == {}
=============================================================================
