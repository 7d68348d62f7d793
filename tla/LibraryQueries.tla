---------------------------- MODULE LibraryQueries ----------------------------
(***************************************************************************)
(* What the dashboard and the library page make of a library: the reads of *)
(* queries/library.ts over the rows WatchTracking writes.  Rows that the   *)
(* pages order by their times are sets here, and the ratings and titles    *)
(* some orders use are left to other modules.                              *)
(***************************************************************************)
EXTENDS WatchTracking

CONSTANT RowLimit   \* how many shows the continue-watching row looks at

ASSUME RowAssumption == RowLimit \in Nat /\ NoEpisode \notin Episodes

\* The import's stamps are true (TotalsMatchRows of CatalogImport says when).
ASSUME TotalsAssumption ==
  \A s \in Shows : TotalEpisodes[s] = Cardinality(RegularEpisodes(s))

Library == {s \in Shows : InLibrary(s)}

\* toEntry's percentage: rounded, so 100 does not mean that all is watched.
ShownProgress(s) ==
  IF TotalEpisodes[s] = 0 THEN 0
  ELSE LET percent == RoundedQuotient(100 * userShow[s].episodes, TotalEpisodes[s])
       IN  IF percent > 100 THEN 100 ELSE percent

Entry(s) == [show |-> s, status |-> userShow[s].status,
             episodes |-> userShow[s].episodes, progress |-> ShownProgress(s)]

\* getLibrary as the page calls it; an absent filter allows every value.
GetLibrary(statuses, types) ==
  {Entry(s) : s \in {x \in Library : /\ userShow[x].status \in statuses
                                     /\ ShowType[x] \in types}}

GetLibraryCounts ==
  [st \in Statuses |-> Cardinality({s \in Library : userShow[s].status = st})]

\* The library page: its tabs, badges and tiles.
LibraryPage(statuses, types) ==
  LET n == GetLibraryCounts
  IN  [tracked |-> n["PLAN_TO_WATCH"] + n["WATCHING"] + n["COMPLETED"]
                     + n["ON_HOLD"] + n["DROPPED"] + n["REWATCHING"],
       badges  |-> n,
       tiles   |-> GetLibrary(statuses, types)]

\* Faulty variant: the specials are offered too.
NextEpisodeOfAny(s) ==
  LET left == Unwatched(EpisodesOf(s))
  IN  IF left = {} THEN NoEpisode ELSE CHOOSE e \in left : IsFirst(e, left)

\* The first regular episode no row of the user's covers.
NextEpisode(s) ==
  LET left == Unwatched(RegularEpisodes(s))
  IN  IF left = {} THEN NoEpisode ELSE CHOOSE e \in left : IsFirst(e, left)

InProgress == {s \in Shows : userShow[s].status \in {"WATCHING", "REWATCHING"}}

\* getContinueWatching: the limit is taken before the shows with nothing left
\* are filtered out.
ContinueRows ==
  LET offered(S) == {[entry |-> Entry(s), next |-> NextEpisode(s)] :
                       s \in {x \in S : NextEpisode(x) # NoEpisode}}
      looked == {S \in SUBSET InProgress :
                   Cardinality(S) = IF Cardinality(InProgress) < RowLimit
                                    THEN Cardinality(InProgress) ELSE RowLimit}
  IN  {offered(S) : S \in looked}

\* The dashboard: the level card, the tiles, the row and the quick counters.
Dashboard(row) ==
  [level |-> account.level, xp |-> account.xpTotal,
   watched |-> volume, streak |-> statStreak,
   completed |-> statusCount["COMPLETED"], byType |-> typeCompleted, row |-> row,
   watching |-> statusCount["WATCHING"], planned |-> statusCount["PLAN_TO_WATCH"]]

----------------------------------------------------------------------------
\* Three sources tell one story: the dashboard's counters were moved by
\* differences, the library page counts rows and caches, and the row works
\* out afresh what is left.  The tabs add up to the tiles.  A show in progress
\* is off the row exactly when its tile says n of n, as long as the limit has
\* room for it; and in a show of fewer than 200 episodes the bar reads 100%
\* exactly then.
PagesAgree ==
  \A row \in ContinueRows :
    LET page == LibraryPage(Statuses, Types)
        home == Dashboard(row)
    IN  /\ home.completed = page.badges["COMPLETED"]
        /\ home.byType["ANIME"] + home.byType["TV"] = home.completed
        /\ home.watching = page.badges["WATCHING"]
        /\ home.planned = page.badges["PLAN_TO_WATCH"]
        /\ page.tracked = Cardinality(page.tiles)
        /\ \A tile \in page.tiles :
             LET done == tile.episodes = TotalEpisodes[tile.show]
             IN  /\ /\ tile.show \in InProgress
                    /\ Cardinality(InProgress) <= RowLimit
                    => done = (\A card \in home.row : card.entry # tile)
                 /\ TotalEpisodes[tile.show] \in 1..199 => done = (tile.progress = 100)
=============================================================================
