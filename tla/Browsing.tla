-------------------------------- MODULE Browsing --------------------------------
(***************************************************************************)
(* One viewer browsing: the dashboard's shelf and the rows of similar      *)
(* shows, worked out from the library as it stands, the discover page, and *)
(* the page of a show.  A behaviour keeps to one of the three.             *)
(***************************************************************************)
EXTENDS Discover, ShowPage

CONSTANTS
  Scopes,      \* what a behaviour may be about
  Libraries    \* libraries a viewer may come with

ASSUME LibraryAssumption ==
  \A lib \in Libraries : /\ DOMAIN lib \subseteq Shows
                         /\ \A s \in DOMAIN lib : /\ lib[s].status \in Statuses
                                                  /\ lib[s].rating \in Nat

VARIABLES
  scope,
  library,     \* show -> [status, rating]
  cards        \* [page, row]: the shelf on the dashboard, or the row under a show

vars == <<scope, library, cards, discoverVars, pageVars>>

shelfVars == <<library, cards>>

Blank == [page |-> "none", row |-> <<>>]

Init ==
  /\ scope \in Scopes
  /\ cards = Blank
  /\ DiscoverInit
  /\ scope # "discover" => screen = CHOOSE x \in Screens(Address(Every, 1)) : TRUE
  /\ PageInit
  /\ scope # "page" => server = CHOOSE rows \in Loaded : TRUE
  /\ library \in IF scope = "shelf" THEN Libraries ELSE {<<>>}

\* Recommended, on the dashboard.
OpenDashboard ==
  /\ cards = Blank
  /\ cards' = [page |-> "dashboard", row |-> Recommendations(library)]

\* SimilarShows, streamed under the page of a show.
OpenShow(s) ==
  /\ cards = Blank
  /\ cards' = [page |-> "show", of |-> s, row |-> SimilarShows(s)]

LeavePage == cards # Blank /\ cards' = Blank

ShelfNext ==
  /\ OpenDashboard \/ (\E s \in Shows : OpenShow(s)) \/ LeavePage
  /\ UNCHANGED library

Next ==
  /\ UNCHANGED scope
  /\ \/ scope = "shelf" /\ ShelfNext /\ UNCHANGED <<discoverVars, pageVars>>
     \/ scope = "discover" /\ DiscoverNext /\ UNCHANGED <<shelfVars, pageVars>>
     \/ scope = "page" /\ PageNext /\ UNCHANGED <<shelfVars, discoverVars>>

Spec == Init /\ [][Next]_vars /\ PageFairness

----------------------------------------------------------------------------
\* Liked by its own entry: more than three stars, or no rating and not dropped.
OwnLiking(entry) ==
  \/ entry.rating > 6
  \/ entry.rating = NoRating /\ entry.status # "DROPPED"

\* Cards are honest.  A shelf shows each show once, none that the viewer holds
\* and none without episodes.  A personal card names the show it comes from, and
\* that show is one the viewer holds, likes by the entry itself and shares a
\* genre with the card that does not run through the whole catalogue.
HonestShelf(row) ==
  \A i \in DOMAIN row :
    LET s == row[i].show
        t == row[i].reason.show
    IN  /\ \A j \in DOMAIN row : row[j].show = s => i = j
        /\ s \notin DOMAIN library /\ Fact[s].episodes > 0
        /\ \/ row[i].reason.kind = "popular right now"
           \/ /\ row[i].reason.kind = "because you watched"
              /\ t \in DOMAIN library /\ OwnLiking(library[t])
              /\ \E g \in Genres(s) \cap Genres(t) : \E u \in Shows : g \notin Genres(u)

\* Of two candidates for the row under show s, the one that shares all the genres
\* and credits the other does, is no broader and more popular comes first.
HonestRow(s, row) ==
  \A i \in DOMAIN row : \A t \in Shows \ {s} :
    LET u == row[i]
    IN  (/\ Fact[t].type = Fact[s].type /\ Fact[t].episodes > 0
         /\ Genres(u) \cap Genres(s) \subseteq Genres(t)
         /\ Fact[u].credits \cap Fact[s].credits \subseteq Fact[t].credits
         /\ Cardinality(Genres(t)) <= Cardinality(Genres(u))
         /\ Fact[t].popularity > Fact[u].popularity)
        => \E k \in 1..(i - 1) : row[k] = t

CardsAreHonest ==
  CASE cards.page = "dashboard" -> HonestShelf(cards.row)
    [] cards.page = "show"      -> HonestRow(cards.of, cards.row)
    [] OTHER -> TRUE
=============================================================================
