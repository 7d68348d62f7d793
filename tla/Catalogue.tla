------------------------------ MODULE Catalogue ------------------------------
(***************************************************************************)
(* The imported catalogue as the tracking code reads it: shows, their      *)
(* seasons and episodes, with the two denormalised totals the progress     *)
(* arithmetic trusts (Show.totalEpisodes and Season.episodeCount).  Season *)
(* number 0 holds the specials.                                            *)
(***************************************************************************)
EXTENDS Integers, FiniteSets

CONSTANTS
  Shows,          \* ids of Show rows
  Seasons,        \* ids of Season rows
  Episodes,       \* ids of Episode rows
  SeasonShow,     \* the show a season belongs to
  SeasonNumber,   \* 0 for the specials
  EpisodeSeason,  \* the season an episode belongs to
  EpisodeNumber,  \* its number within the season
  ShowType,       \* "ANIME" or "TV"
  TotalEpisodes,  \* Show.totalEpisodes, stamped by the import
  EpisodeCount,   \* Season.episodeCount, stamped by the import
  Minutes         \* Minutes[S]: the runtimes of the episodes of S added up,
                  \* the show's average standing in for a missing runtime

Types == {"ANIME", "TV"}

ASSUME CatalogueAssumption ==
  /\ IsFiniteSet(Shows) /\ IsFiniteSet(Seasons) /\ IsFiniteSet(Episodes)
  /\ SeasonShow \in [Seasons -> Shows]
  /\ SeasonNumber \in [Seasons -> Nat]
  /\ EpisodeSeason \in [Episodes -> Seasons]
  /\ EpisodeNumber \in [Episodes -> Nat]
  /\ ShowType \in [Shows -> Types]
  /\ TotalEpisodes \in [Shows -> Nat]
  /\ EpisodeCount \in [Seasons -> Nat]

\* The unique indexes on (showId, number) and (seasonId, number).
ASSUME NumberingAssumption ==
  /\ \A m, n \in Seasons :
        SeasonShow[m] = SeasonShow[n] /\ SeasonNumber[m] = SeasonNumber[n] => m = n
  /\ \A e, f \in Episodes :
        /\ EpisodeSeason[e] = EpisodeSeason[f]
        /\ EpisodeNumber[e] = EpisodeNumber[f]
        => e = f

\* Runtimes add up: Minutes is a sum over a set of episodes.
ASSUME MinutesAssumption ==
  /\ Minutes \in [SUBSET Episodes -> Nat]
  /\ Minutes[{}] = 0
  /\ \A S, T \in SUBSET Episodes :
        S \cap T = {} => Minutes[S \cup T] = Minutes[S] + Minutes[T]

ShowOf(e) == SeasonShow[EpisodeSeason[e]]

EpisodesOf(s) == {e \in Episodes : ShowOf(e) = s}

SeasonEpisodes(n) == {e \in Episodes : EpisodeSeason[e] = n}

\* The filter seasonNumber > 0: specials never count toward completion.
IsRegular(e) == SeasonNumber[EpisodeSeason[e]] > 0

RegularEpisodes(s) == {e \in EpisodesOf(s) : IsRegular(e)}

\* The order (seasonNumber, number) the queries sort and compare by.
Precedes(e, f) ==
  \/ SeasonNumber[EpisodeSeason[e]] < SeasonNumber[EpisodeSeason[f]]
  \/ /\ SeasonNumber[EpisodeSeason[e]] = SeasonNumber[EpisodeSeason[f]]
     /\ EpisodeNumber[e] < EpisodeNumber[f]

\* Every regular episode at or before e.
UpTo(e) == {f \in RegularEpisodes(ShowOf(e)) : f = e \/ Precedes(f, e)}

IsFirst(e, S) == e \in S /\ \A f \in S \ {e} : Precedes(e, f)
Last(S) == CHOOSE e \in S : \A f \in S \ {e} : Precedes(f, e)
=============================================================================
