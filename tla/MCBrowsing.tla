------------------------------ MODULE MCBrowsing ------------------------------
(***************************************************************************)
(* Two anime and four series, one of which (6) is a seeded row of work 1   *)
(* under another identity; 4 is not in the catalogue at first, and "drma"  *)
(* is a misspelling.                                                       *)
(***************************************************************************)
EXTENDS Browsing, TLC

About(work, source, title, type, genres, credits, episodes, rating, popularity) ==
  [work |-> work, source |-> source, title |-> title, type |-> type, genres |-> genres,
   credits |-> credits, episodes |-> episodes, rating |-> rating, popularity |-> popularity]

MCFact ==
  <<About("w1", "tmdb",  3, "TV",    {"drama", "crime"}, {"p", "q"}, 8, 90, 4),
    About("w2", "tmdb",  1, "TV",    {"drama"},          {"p"},      3, 80, 4),
    About("w3", "tmdb",  5, "ANIME", {"action", "drama"}, {},       12, 76, 5),
    About("w4", "tmdb",  2, "ANIME", {"action", "drama", "crime"}, {"q"}, 6, 60, 1),
    About("w5", "local",  4, "TV",    {"crime", "drama"}, {"p"},      0, 50, 2),
    About("w1", "local", 6, "TV",    {"crime", "drama"}, {},         8, 90, 3)>>

MCLn   == <<0, 693, 1099, 1386, 1609, 1792, 1946, 2079>>
MCSqrt == <<1000, 1414, 1732, 2000>>

Held(status, rating) == [status |-> status, rating |-> rating]

MCEntries == {Held("PLAN_TO_WATCH", 0), Held("DROPPED", 0), Held("COMPLETED", 0),
              Held("COMPLETED", 2), Held("WATCHING", 6), Held("DROPPED", 9)}

MCLibraries == UNION {[S -> MCEntries] : S \in {T \in SUBSET (1..6) : Cardinality(T) <= 2}}

MCNeighbours == [u |-> 1 :> "COMPLETED" @@ 3 :> "WATCHING", v |-> 2 :> "DROPPED" @@ 3 :> "COMPLETED"]

MCJoined    == <<4, 3, 5, 0, 0, 6>>
MCTitled    == [d |-> {1, 2, 4, 6}, x |-> {}]
MCResembles == [d |-> 1 :> 100 @@ 2 :> 90, x |-> 1 :> 58 @@ 2 :> 80 @@ 3 :> 46 @@ 4 :> 67]
MCListed    == [d |-> {"w1", "w2", "w4"}, x |-> {"w4"}]

Row(held, rating, ticks, liked, following) ==
  [held |-> held, rating |-> rating, ticks |-> ticks, review |-> NoStars,
   liked |-> liked, others |-> 1, following |-> following]

MCLoaded == {Row(FALSE, NoStars, {}, FALSE, FALSE), Row(TRUE, 1, {1}, TRUE, TRUE)}
=============================================================================
