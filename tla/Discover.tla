-------------------------------- MODULE Discover --------------------------------
(***************************************************************************)
(* The discover page: its address, the rows queries/shows.ts and           *)
(* queries/search.ts find for it, and the half remote-results.tsx streams  *)
(* in afterwards from the provider, while shows enter the catalogue and    *)
(* are tracked by others.                                                  *)
(*                                                                         *)
(* Left out: the airing filter (like the type's), the sorts by rating and  *)
(* date (like the one by members), and the rate limiter, which lets a      *)
(* request through or not.                                                 *)
(***************************************************************************)
EXTENDS Recommendations

CONSTANTS
  Stocked,       \* shows in the catalogue at first
  Joined,        \* members of each show at first
  Titled,        \* per query, the shows whose title holds it
  Resembles,     \* per query, word_similarity of the titles above the threshold
  Listed,        \* per query, the works the provider lists
  PageSize,      \* rows of a page
  FuzzyLimit,    \* MAX_FUZZY_CANDIDATES
  Enough,        \* LOCAL_RESULTS_CONSIDERED_ENOUGH
  MaxPage,       \* bound: pages typed into the address
  MaxMembers,    \* bound: members a show may grow to
  MaxMoves       \* bound: imports and new members in a behaviour

ASSUME DiscoverAssumption ==
  /\ Stocked \subseteq Shows /\ Joined \in [Shows -> Nat] /\ DOMAIN Titled = DOMAIN Resembles
  /\ \A q \in DOMAIN Resembles : \A s \in DOMAIN Resembles[q] : Resembles[q][s] \in Nat
  /\ PageSize \in Nat \ {0} /\ FuzzyLimit \in Nat /\ Enough \in Nat
  /\ MaxPage \in Nat \ {0} /\ MaxMembers \in Nat /\ MaxMoves \in Nat

\* Two shows a search resembles equally differ in popularity: the query's order
\* leaves no choice.
ASSUME GuessAssumption ==
  \A q \in DOMAIN Resembles : \A s, t \in DOMAIN Resembles[q] :
    Resembles[q][s] = Resembles[q][t] /\ Fact[s].popularity = Fact[t].popularity => s = t

VARIABLES
  catalogue,   \* the Show rows there are
  members,     \* Show.memberCount
  screen,      \* [at, rows, total, pages, remote, waiting]; at is the address,
               \* [q, type, genre, sort, page]
  walk         \* history: the pages seen since the filters were set, whether
               \* nothing moved meanwhile, and how often something has

discoverVars == <<catalogue, members, screen, walk>>

Every   == ""                  \* an absent filter
Queries == DOMAIN Titled \cup {Every}
Types   == {Fact[s].type : s \in Shows}
Tags    == UNION {Genres(s) : s \in Shows}
Sorts   == {"popular", "members", "title"}

----------------------------------------------------------------------------
(* discoverShows.                                                          *)

InScope(a, s) == /\ a.type # Every => Fact[s].type = a.type
                 /\ a.genre # Every => a.genre \in Genres(s)

Matches(a) ==
  {s \in catalogue : InScope(a, s) /\ (a.q # Every => s \in Titled[a.q])}

Before(sort, s, t) ==
  CASE sort = "popular" -> Fact[s].popularity > Fact[t].popularity
    [] sort = "members" -> members[s] > members[t]
    [] sort = "title"   -> Fact[s].title < Fact[t].title

\* The orders a query may come back in.  Nothing decides between rows that tie:
\* here the older come first, or the younger.
Orders(sort, S) ==
  {Sorted(S, {p \in S \X S : \/ Before(sort, p[1], p[2])
                             \/ /\ ~Before(sort, p[2], p[1])
                                /\ IF older THEN p[1] < p[2] ELSE p[1] > p[2]}) :
     older \in BOOLEAN}

\* fuzzyShowIds, over the whole catalogue; the filters apply afterwards, and
\* rankByFuzzyScore puts what is left into the order of the scores again.
\* Resembles has no two shows tie, whose order and cut the database would choose.
Guesses(a) ==
  LET near  == {s \in catalogue : s \in DOMAIN Resembles[a.q]}
      score == [s \in near |-> <<Resembles[a.q][s], Fact[s].popularity>>]
      best  == Range(First(FuzzyLimit, Ranked(near, score)))
  IN  Ranked({s \in best : InScope(a, s)}, score)

\* The fuzzy search runs when the exact one found nothing.
Guessing(a) == a.q # Every /\ Matches(a) = {} /\ Guesses(a) # <<>>

Found(a) == IF Guessing(a) THEN {Guesses(a)} ELSE Orders(a.sort, Matches(a))

\* Faulty variant: skips one row less per page.
PageTooEarly(o, n) ==
  LET from == (n - 1) * (PageSize - 1)
  IN  [i \in 1..(Min({Len(o), from + PageSize}) - Min({Len(o), from})) |-> o[from + i]]

\* skip and take.
PageOf(o, n) ==
  LET from == (n - 1) * PageSize
  IN  [i \in 1..(Min({Len(o), from + PageSize}) - Min({Len(o), from})) |-> o[from + i]]

\* What the server may send for an address.
Screens(a) ==
  {[at |-> a, rows |-> PageOf(found, a.page), total |-> Len(found),
    pages |-> Max({1, (Len(found) + PageSize - 1) \div PageSize}),
    remote |-> {}, waiting |-> a.q # Every] : found \in Found(a)}

Address(q, n) == [q |-> q, type |-> Every, genre |-> Every, sort |-> "popular", page |-> n]

\* The address bar: any page may be asked for.
DiscoverInit ==
  /\ catalogue = Stocked
  /\ members = Joined
  /\ screen \in UNION {Screens(Address(q, n)) : q \in Queries, n \in 1..MaxPage}
  /\ walk = [seen |-> [n \in {screen.at.page} |-> screen.rows], still |-> TRUE, moves |-> 0]

----------------------------------------------------------------------------
(* The filter bar and the links.  The page asked for is rendered from the  *)
(* catalogue as it is by then.                                             *)

\* A changed filter drops the page number.
Apply(patched) ==
  /\ screen' \in Screens([patched EXCEPT !.page = 1])
  /\ walk' = [walk EXCEPT !.seen = [n \in {1} |-> screen'.rows], !.still = TRUE]
  /\ UNCHANGED <<catalogue, members>>

Search(q) == Apply([screen.at EXCEPT !.q = q])

PickType(t) == Apply([screen.at EXCEPT !.type = t])

\* The chip of the chosen genre takes it away.
PickGenre(g) == Apply([screen.at EXCEPT !.genre = IF @ = g THEN Every ELSE g])

PickSort(o) == Apply([screen.at EXCEPT !.sort = o])

ClearFilters ==
  /\ screen.at.q # Every \/ screen.at.type # Every \/ screen.at.genre # Every
  /\ Apply([screen.at EXCEPT !.q = Every, !.type = Every, !.genre = Every,
                             !.sort = "popular"])

\* Previous and Next, which carry the filters along, and a reload.
Turn(n) ==
  /\ \/ n = screen.at.page
     \/ screen.pages > 1 /\ n = screen.at.page - 1 /\ n >= 1
     \/ screen.pages > 1 /\ n = screen.at.page + 1 /\ n <= screen.pages
  /\ screen' \in Screens([screen.at EXCEPT !.page = n])
  /\ walk' = [walk EXCEPT !.seen = [k \in DOMAIN @ \cup {n} |->
                                      IF k = n THEN screen'.rows ELSE @[k]]]
  /\ UNCHANGED <<catalogue, members>>

----------------------------------------------------------------------------
(* The other half.                                                         *)

HeldWorks(S) == {Fact[s].work : s \in {t \in S : Fact[t].source = "tmdb"}}

WorksOf(type) == {Fact[s].work : s \in {t \in Shows : type = Every \/ Fact[t].type = type}}

\* Faulty variant: what the page shows is taken out, not what the catalogue holds.
SearchRemotePage(a) ==
  (Listed[a.q] \cap WorksOf(a.type)) \ HeldWorks(Range(screen.rows))

\* searchRemote: what the provider lists and no row has the identity of.
SearchRemote(a) == (Listed[a.q] \cap WorksOf(a.type)) \ HeldWorks(catalogue)

\* RemoteResults: counts the rows of the page, not the matches.
Stream ==
  /\ screen.waiting
  /\ \E allowed \in BOOLEAN :
       screen' = [screen EXCEPT
         !.waiting = FALSE,
         !.remote = IF Len(screen.rows) >= Enough \/ ~allowed THEN {}
                    ELSE SearchRemote(screen.at)]
  /\ UNCHANGED <<catalogue, members, walk>>

Moved == walk' = [walk EXCEPT !.still = FALSE, !.moves = @ + 1]

\* Somebody opens a card, and the show page imports the work.
Import(s) ==
  /\ walk.moves < MaxMoves
  /\ s \notin catalogue /\ Fact[s].source = "tmdb"
  /\ catalogue' = catalogue \cup {s}
  /\ Moved
  /\ UNCHANGED <<members, screen>>

\* Somebody adds a show to a library.
Join(s) ==
  /\ walk.moves < MaxMoves
  /\ s \in catalogue /\ members[s] < MaxMembers
  /\ members' = [members EXCEPT ![s] = @ + 1]
  /\ Moved
  /\ UNCHANGED <<catalogue, screen>>

DiscoverNext ==
  \/ \E q \in Queries : Search(q)
  \/ \E t \in Types \cup {Every} : PickType(t)
  \/ \E g \in Tags : PickGenre(g)
  \/ \E o \in Sorts : PickSort(o)
  \/ ClearFilters
  \/ \E n \in 1..(Cardinality(Shows) + MaxPage) : Turn(n)
  \/ Stream
  \/ \E s \in Shows : Import(s)
  \/ \E s \in Shows : Join(s)

----------------------------------------------------------------------------
\* A title is offered by one half of the page only.  What the provider's half
\* offers as not in the catalogue yet is on no page of the results seen since
\* the filters were set, however many shows others have imported between the
\* query for the rows and the one for the rest.  Seeded rows, whose identity is
\* not the provider's, are the exception.
NoRowTwice ==
  \A n \in DOMAIN walk.seen : HeldWorks(Range(walk.seen[n])) \cap screen.remote = {}

\* Paging misses nothing.  A reader who has seen every page of one search, with
\* nothing moving meanwhile and no two matches that tie in the chosen order, has
\* seen each match once, and as many rows as the heading counts; also when the
\* titles are guesses.
PagesCover ==
  LET a       == screen.at
      matches == IF Guessing(a) THEN Range(Guesses(a)) ELSE Matches(a)
      seen    == {p \in (1..screen.pages) \X (1..PageSize) :
                    p[2] \in DOMAIN walk.seen[p[1]]}
      untied  == Guessing(a) \/ \A s, t \in matches :
                   s # t => Before(a.sort, s, t) \/ Before(a.sort, t, s)
  IN  walk.still /\ 1..screen.pages \subseteq DOMAIN walk.seen /\ untied =>
        /\ Cardinality(seen) = screen.total
        /\ {walk.seen[p[1]][p[2]] : p \in seen} = matches
        /\ Cardinality(matches) = screen.total
=============================================================================
