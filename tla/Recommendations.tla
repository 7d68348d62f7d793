---------------------------- MODULE Recommendations ----------------------------
(***************************************************************************)
(* The shelf of recommended shows and the row of similar ones, as          *)
(* queries/recommendations.ts works them out from the catalogue and the    *)
(* libraries.  The code's doubles are whole thousandths here, logarithms   *)
(* and square roots come from tables, and every order that the code leaves *)
(* open ends with the show's number.                                       *)
(***************************************************************************)
EXTENDS WatchStatus, Sequences, SequencesExt, FiniteSetsExt

CONSTANTS
  Shows,          \* numbers of the Show rows
  Fact,           \* a show's work, source, type, genres, credits, episodes, place
                  \* among the titles, externalRating in tenths and popularity
  Neighbours,     \* the libraries of other users: show -> status
  ShelfSize,      \* how many shows a shelf holds
  CandidatePool,  \* CANDIDATE_POOL: how many candidates are scored
  Ln, Ln1001,     \* Ln[n], for 1 + n, and the logarithm of 1001
  Sqrt            \* the square root

NoRating == 0
NoShow   == 0

Genres(s) == Fact[s].genres

ASSUME ShelfAssumption ==
  /\ Shows \subseteq Nat \ {NoShow} /\ IsFiniteSet(Shows)
  /\ ShelfSize \in Nat \ {0} /\ CandidatePool \in Nat \ {0}
  /\ IsFiniteSet(DOMAIN Neighbours)

ASSUME FactAssumption ==
  \A s \in Shows :
    /\ Fact[s].title \in Nat /\ Fact[s].episodes \in Nat
    /\ Fact[s].rating \in Nat /\ Fact[s].popularity \in Nat
    /\ IsFiniteSet(Genres(s)) /\ IsFiniteSet(Fact[s].credits)

\* The tables reach as far as they are used, and both functions grow.
ASSUME TableAssumption ==
  /\ \A n \in 1..Cardinality(Shows) : Ln[n] \in Nat /\ \A m \in 1..n : Ln[m] <= Ln[n]
  /\ \A s \in Shows : Ln[1 + Fact[s].popularity] \in Nat
  /\ Ln1001 \in Nat \ {0}
  /\ \A s \in Shows : Genres(s) # {} =>
       /\ Sqrt[Cardinality(Genres(s))] \in Nat \ {0}
       /\ \A t \in Shows :
            Genres(t) # {} /\ Cardinality(Genres(t)) <= Cardinality(Genres(s)) =>
              Sqrt[Cardinality(Genres(t))] <= Sqrt[Cardinality(Genres(s))]

\* a * b / c to the nearest thousandth below, on either side of zero.
Scaled(a, b, c) == IF a < 0 THEN -((-a * b) \div c) ELSE (a * b) \div c

\* The members of S, each after those that R puts before it.
Sorted(S, R) ==
  LET ahead == [s \in S |-> Cardinality({t \in S : <<t, s>> \in R})]
  IN  [i \in 1..Cardinality(S) |-> CHOOSE s \in S : ahead[s] = i - 1]

\* Highest first, by a lexicographic key.
Above(key, s, t) ==
  \/ key[s][1] > key[t][1]
  \/ key[s][1] = key[t][1] /\ key[s][2] > key[t][2]
  \/ key[s][1] = key[t][1] /\ key[s][2] = key[t][2] /\ s < t

Ranked(S, key) == Sorted(S, {p \in S \X S : Above(key, p[1], p[2])})

First(n, q) == SubSeq(q, 1, IF n < Len(q) THEN n ELSE Len(q))

SumWeights(weight, S) == MapThenSumSet(LAMBDA x : weight[x], S)

----------------------------------------------------------------------------
(* Taste.  A library maps the shows held to their status and rating; the   *)
(* ratings 0.5 to 5 are counted in halves.                                 *)

\* STATUS_WEIGHT, in quarters.
StatusWeight ==
  [REWATCHING |-> 5, COMPLETED |-> 4, WATCHING |-> 3, ON_HOLD |-> 1,
   PLAN_TO_WATCH |-> 1, DROPPED |-> -2]

\* Faulty variant: what was finished was liked.
OpinionByStatus(entry) == StatusWeight[entry.status]

\* A rating beats behaviour; three stars are no opinion.
Opinion(entry) ==
  IF entry.rating = NoRating THEN StatusWeight[entry.status] ELSE entry.rating - 6

\* getGenreIdf.  A show with no episodes counts too.
GenreIdf(g) ==
  Ln[Cardinality(Shows)] - Ln[Cardinality({s \in Shows : g \in Genres(s)})]

\* What the library says of a genre, before it is normalised.  An opinion is
\* split over the show's genres; 12 keeps the quotients whole.
GenreTotal(lib, g) ==
  LET holding == {s \in DOMAIN lib : g \in Genres(s)}
      share   == [s \in holding |-> Scaled(12, Opinion(lib[s]), Cardinality(Genres(s)))]
  IN  GenreIdf(g) * SumWeights(share, holding)

\* buildGenreAffinity: the strongest genre weighs 1000 one way or the other.
GenreAffinity(lib) ==
  LET known == UNION {Genres(s) : s \in Shows}
      total == [g \in known |-> GenreTotal(lib, g)]
      size(n) == IF n < 0 THEN -n ELSE n
      peak  == Max({size(total[g]) : g \in known} \cup {1})
  IN  [g \in known |-> Scaled(total[g], 1000, peak)]

----------------------------------------------------------------------------
(* The shelf.                                                              *)

\* The root of the number of genres: breadth neither wins nor loses outright.
PerRoot(s, n) == Scaled(n, 1000, Sqrt[Cardinality(Genres(s))])

Liked(weight) == {g \in DOMAIN weight : weight[g] > 50}

GenreScore(weight, s) == PerRoot(s, SumWeights(weight, Genres(s) \cap Liked(weight)))

\* scoreCandidates: what shares a liked genre, is trackable and is not held.
Candidates(lib, weight) ==
  LET sharing == {s \in Shows \ DOMAIN lib : /\ Genres(s) \cap Liked(weight) # {}
                                             /\ Fact[s].episodes > 0}
  IN  First(CandidatePool,
            Ranked(sharing, [s \in sharing |-> <<GenreScore(weight, s), Fact[s].popularity>>]))

\* coWatchScores: of the users who share a show, how many hold this one and
\* have not dropped it.
CoWatchScore(lib, s) ==
  LET near == {u \in DOMAIN Neighbours : DOMAIN Neighbours[u] \cap DOMAIN lib # {}}
      with == {u \in near : s \in DOMAIN Neighbours[u] /\ Neighbours[u][s] # "DROPPED"}
  IN  IF near = {} THEN 0 ELSE (1000 * Cardinality(with)) \div Cardinality(near)

Quality(s)    == Scaled(Fact[s].rating - 70, 1000, 30)
Popularity(s) == Min({1000, Scaled(Ln[1 + Fact[s].popularity], 1000, Ln1001)})

\* Genre weighs 1, company 0.35, quality 0.25, popularity 0.15, and a genre
\* that is disliked takes off what a liked one would add.
Score(lib, weight, s) ==
  LET disliked == {g \in Genres(s) : weight[g] < 0}
  IN  GenreScore(weight, s) + Scaled(CoWatchScore(lib, s), 35, 100)
        + Scaled(Quality(s), 25, 100) + Scaled(Popularity(s), 15, 100)
        + PerRoot(s, SumWeights(weight, disliked))

\* The rarity of what two shows share, by how much the held one was liked.
Strength(lib, source, s) ==
  LET idf == [g \in Genres(s) |-> GenreIdf(g)]
  IN  Opinion(lib[source]) * SumWeights(idf, Genres(source) \cap Genres(s))

\* explain.  A card cites a show if it can, then company, then a genre.
Reason(lib, weight, s) ==
  LET sources == {t \in DOMAIN lib : Strength(lib, t, s) > 0}
      best    == CHOOSE t \in sources :
                   \A u \in sources : Strength(lib, u, s) <= Strength(lib, t, s)
  IN  IF sources # {} THEN [kind |-> "because you watched", show |-> best]
      ELSE [kind |-> IF CoWatchScore(lib, s) > 250 THEN "popular with people like you"
                     ELSE IF \E g \in Genres(s) : weight[g] > 0
                     THEN "more of a genre" ELSE "close to your taste",
            show |-> NoShow]

\* coldStart: well regarded, most popular first, nothing held.
ColdStart(lib) ==
  LET liked == {s \in Shows \ DOMAIN lib : /\ Fact[s].episodes > 0
                                           /\ Fact[s].rating >= 75}
      rows  == First(ShelfSize, Ranked(liked, [s \in liked |-> <<Fact[s].popularity, 0>>]))
  IN  [i \in DOMAIN rows |->
         [show |-> rows[i], reason |-> [kind |-> "popular right now", show |-> NoShow]]]

\* getRecommendations.  Without a genre liked or a candidate, the cold start.
Recommendations(lib) ==
  LET weight == GenreAffinity(lib)
      pool   == Candidates(lib, weight)
      score  == [s \in Range(pool) |-> <<Score(lib, weight, s), 0>>]
      best   == First(ShelfSize, Ranked(Range(pool), score))
  IN  IF Liked(weight) = {} \/ pool = <<>> THEN ColdStart(lib)
      ELSE [i \in DOMAIN best |->
              [show |-> best[i], reason |-> Reason(lib, weight, best[i])]]

----------------------------------------------------------------------------
\* getSimilarShows: genres by rarity, and 0.15 for every credit in common.
SimilarShows(s) ==
  LET idf == [g \in Genres(s) |-> GenreIdf(g)]
      likeness(t) == PerRoot(t, SumWeights(idf, Genres(t) \cap Genres(s)))
                       + 150 * Cardinality(Fact[t].credits \cap Fact[s].credits)
      alike == {t \in Shows \ {s} : /\ Fact[t].episodes > 0
                                    /\ Fact[t].type = Fact[s].type
                                    /\ Genres(t) \cap Genres(s) # {}}
  IN  First(ShelfSize, Ranked(alike, [t \in alike |-> <<likeness(t), Fact[t].popularity>>]))
=============================================================================
