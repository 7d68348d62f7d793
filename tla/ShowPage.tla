-------------------------------- MODULE ShowPage --------------------------------
(***************************************************************************)
(* What a signed-in viewer's tab shows of a show against what the server   *)
(* holds: episode-list.tsx, track-panel.tsx, review-section.tsx and        *)
(* follow-button.tsx over the server actions they call.  The follow button *)
(* of the profile page is put on the same page, the status picker (drawn   *)
(* from the props alone) is left out, and episodes form one season.        *)
(*                                                                         *)
(* Next runs a tab's actions and refreshes one after another, in order; an *)
(* action that revalidates the page brings its new rows along.  React      *)
(* keeps an optimistic tick until no action of the tab is under way, and   *)
(* gives useState its argument only when the component is mounted.         *)
(***************************************************************************)
EXTENDS Naturals, Sequences, FiniteSetsExt

CONSTANTS
  LastEpisode,     \* episodes are numbered 1 to LastEpisode
  Stars,           \* ratings the viewer may click
  Loaded,          \* rows of the server when the page is opened
  MaxClicks,       \* bound: clicks of the viewer
  MaxElsewhere     \* bound: changes made in other tabs and by other users

NoStars == 0
Episodes == 1..LastEpisode

Rows == [held : BOOLEAN, rating : Stars \cup {NoStars}, ticks : SUBSET Episodes,
         review : Stars \cup {NoStars}, liked : BOOLEAN, others : Nat,
         following : BOOLEAN]

ASSUME PageAssumption ==
  /\ LastEpisode \in Nat \ {0} /\ Stars \subseteq Nat \ {NoStars}
  /\ Loaded \subseteq Rows /\ MaxClicks \in Nat /\ MaxElsewhere \in Nat

VARIABLES
  server,   \* the rows about this show and viewer; others counts others' likes
  tab,      \* [props, rating, liked, likes, following, optimistic, queue]
  past      \* history: [clicks, elsewhere, behind, unread, burst, astray]

pageVars == <<server, tab, past>>

Likes(rows) == rows.others + IF rows.liked THEN 1 ELSE 0

\* Mounting: the props are the server's rows, and four controls copy theirs.
Mounted(rows) ==
  [props |-> rows, rating |-> rows.rating, liked |-> rows.liked,
   likes |-> Likes(rows), following |-> rows.following,
   optimistic |-> <<>>, queue |-> <<>>]

\* behind: the rows changed since the props were read.  unread: a like was
\* accepted since.  burst: a star was clicked while another was under way.
\* astray: copies that one of the accidents PageSettles names has hit.
Unblemished(clicks, elsewhere) ==
  [clicks |-> clicks, elsewhere |-> elsewhere, behind |-> FALSE,
   unread |-> FALSE, burst |-> FALSE, astray |-> {}]

PageInit ==
  /\ server \in Loaded
  /\ tab = Mounted(server)
  /\ past = Unblemished(0, 0)

\* useOptimistic: the changes under way over the props.  The last one says.
ShownTicks ==
  {e \in Episodes :
     LET changes == {i \in DOMAIN tab.optimistic : tab.optimistic[i].episode = e}
     IN  IF changes = {} THEN e \in tab.props.ticks
         ELSE tab.optimistic[Max(changes)].on}

Quiet == tab.queue = <<>>

Pending(kinds) == \E i \in DOMAIN tab.queue : tab.queue[i].does \in kinds

PanelKinds == {"add", "remove", "continue", "rate"}
ListKinds  == {"tick", "untick", "up to", "season"}

----------------------------------------------------------------------------
(* Clicks.  A request remembers the props its handler closed over.         *)

Request(does, to) ==
  [does |-> does, to |-> to, closure |-> tab.props, risky |-> past.unread,
   answered |-> FALSE, ok |-> FALSE, seen |-> tab.props]

\* A handler sends its request; change is what it sets before it waits.
Click(does, to, change) ==
  /\ past.clicks < MaxClicks
  /\ tab' = [change EXCEPT !.queue = Append(@, Request(does, to))]
  /\ past' = [past EXCEPT !.clicks = @ + 1,
                          !.burst = @ \/ (does = "rate" /\ Pending({"rate"}))]
  /\ UNCHANGED server

\* toggleEpisode: the box may be clicked at any time.
ToggleEpisode(e) ==
  LET on == e \notin ShownTicks
  IN  Click(IF on THEN "tick" ELSE "untick", e,
            [tab EXCEPT !.optimistic = Append(@, [episode |-> e, on |-> on])])

UpToHere(e) == e \notin ShownTicks /\ Click("up to", e, tab)

MarkSeason ==
  ShownTicks # Episodes /\ ~Pending(ListKinds) /\ Click("season", LastEpisode, tab)

\* The buttons of the panel show a spinner, and are dead, while it is busy.
AddToLibrary == ~tab.props.held /\ ~Pending(PanelKinds) /\ Click("add", 0, tab)

RemoveShow == tab.props.held /\ ~Pending(PanelKinds) /\ Click("remove", 0, tab)

WatchNext ==
  /\ tab.props.held /\ tab.props.ticks # Episodes /\ ~Pending(PanelKinds)
  /\ Click("continue", 0, tab)

\* StarRating: a click on the rating shown takes it away.
Rate(v) ==
  LET next == IF tab.rating = v THEN NoStars ELSE v
  IN  tab.props.held /\ Click("rate", next, [tab EXCEPT !.rating = next])

SaveReview(v) == ~Pending({"save review"}) /\ Click("save review", v, tab)

DeleteReview ==
  /\ tab.props.review # NoStars /\ ~Pending({"delete review"})
  /\ Click("delete review", 0, tab)

ToggleLike ==
  /\ ~Pending({"like"})
  /\ Click("like", 0, [tab EXCEPT !.liked = ~@,
                                  !.likes = IF tab.liked THEN @ - 1 ELSE @ + 1])

ToggleFollow ==
  /\ ~Pending({"follow", "unfollow"})
  /\ Click(IF tab.following THEN "unfollow" ELSE "follow", 0,
           [tab EXCEPT !.following = ~@])

----------------------------------------------------------------------------
(* The server.                                                             *)

Ticked(rows, S) == [rows EXCEPT !.held = TRUE, !.ticks = @ \cup S]

\* The service calls, as far as the page can tell: what each makes of the rows.
Effect(rows, r) ==
  CASE r.does = "tick"     -> Ticked(rows, {r.to})
    [] r.does = "untick"   -> [rows EXCEPT !.ticks = @ \ {r.to}]
    [] r.does \in {"up to", "season"} -> Ticked(rows, 1..r.to)
    [] r.does = "continue" ->
         IF rows.ticks = Episodes THEN rows
         ELSE Ticked(rows, {CHOOSE e \in Episodes \ rows.ticks :
                            \A d \in Episodes \ rows.ticks : e <= d})
    [] r.does = "add"      -> [rows EXCEPT !.held = TRUE]
    [] r.does = "remove"   -> [rows EXCEPT !.held = FALSE, !.rating = NoStars, !.ticks = {}]
    [] r.does = "rate"     -> [rows EXCEPT !.rating = r.to]
    [] r.does = "save review"   -> [rows EXCEPT !.review = r.to, !.rating = r.to]
    [] r.does = "delete review" -> [rows EXCEPT !.review = NoStars]
    [] r.does = "like"     -> [rows EXCEPT !.liked = ~@]
    [] r.does = "follow"   -> [rows EXCEPT !.following = TRUE]
    [] r.does = "unfollow" -> [rows EXCEPT !.following = FALSE]
    [] r.does = "refresh"  -> rows

Accepts(rows, r) ==
  /\ r.does = "untick" => r.to \in rows.ticks
  /\ r.does \in {"rate", "save review"} => rows.held
  /\ r.does = "delete review" => rows.review # NoStars

\* Any action may be refused (a limit, a lost session, the database).  A review
\* is committed before its rating is tried.
Outcomes(rows, r) ==
  (IF Accepts(rows, r) THEN {[ok |-> TRUE, rows |-> Effect(rows, r)]} ELSE {})
    \cup (IF r.does = "refresh" THEN {} ELSE {[ok |-> FALSE, rows |-> rows]})
    \cup (IF r.does = "save review"
          THEN {[ok |-> FALSE, rows |-> [rows EXCEPT !.review = r.to]]} ELSE {})

\* The tab's oldest request reaches the server.
Serve ==
  /\ ~Quiet /\ ~Head(tab.queue).answered
  /\ \E out \in Outcomes(server, Head(tab.queue)) :
       /\ server' = out.rows
       /\ tab' = [tab EXCEPT !.queue[1].answered = TRUE, !.queue[1].ok = out.ok,
                             !.queue[1].seen = out.rows]
       /\ past' = IF out.ok \/ out.rows = server THEN past
                  ELSE [past EXCEPT !.behind = TRUE]

\* Another tab or another user: ticks, rates, likes or follows.
Elsewhere ==
  /\ past.elsewhere < MaxElsewhere
  /\ \E change \in
          {<<[server EXCEPT !.held = TRUE, !.ticks = Episodes], {}>>,
           <<[server EXCEPT !.liked = ~@], {"like"}>>,
           <<[server EXCEPT !.others = @ + 1], {"like"}>>,
           <<[server EXCEPT !.following = ~@], {"following"}>>}
            \cup IF server.held
                 THEN {<<[server EXCEPT !.rating = v], {"rating"}>> : v \in Stars} ELSE {} :
       /\ change[1] # server
       /\ server' = change[1]
       /\ past' = [past EXCEPT !.elsewhere = @ + 1, !.behind = TRUE,
                               !.astray = @ \cup change[2]]
  /\ UNCHANGED tab

----------------------------------------------------------------------------
(* Answers.                                                                *)

Control(does) == CASE does = "rate" -> "rating"
                   [] does = "like" -> "like"
                   [] does \in {"follow", "unfollow"} -> "following"
                   [] OTHER -> "none"

\* Faulty variant: the new state is kept whatever the server says.
FollowAnyway(t, r) == t

\* FollowButton: what the server says, or the state before the click.
FollowAnswered(t, r) == [t EXCEPT !.following = (r.does = "follow") = r.ok]

\* What the handler does to the copies when its answer arrives.
Answered(t, r) ==
  CASE r.does = "rate" /\ ~r.ok -> [t EXCEPT !.rating = r.closure.rating]
    [] r.does = "like" -> [t EXCEPT
         !.liked = IF r.ok THEN r.seen.liked ELSE r.closure.liked,
         !.likes = IF r.ok THEN Likes(r.seen) ELSE Likes(r.closure)]
    [] r.does \in {"follow", "unfollow"} -> FollowAnswered(t, r)
    [] OTHER -> t

\* Faulty variant: the page is refreshed after whatever brought it.
RefreshesAgain(r) == r.ok /\ r.does # "like"

\* router.refresh: after what was accepted, and after a rejected tick; a like
\* asks for nothing.
Refreshes(r) ==
  \/ r.ok /\ r.does \notin {"like", "refresh"}
  \/ ~r.ok /\ r.does \in {"tick", "untick"}

\* The props follow a refresh, and an action that revalidates the page.
Brings(r) == r.ok /\ r.does # "like"

Land ==
  /\ ~Quiet /\ Head(tab.queue).answered
  /\ LET r    == Head(tab.queue)
         rest == Tail(tab.queue) \o IF Refreshes(r) THEN <<Request("refresh", 0)>> ELSE <<>>
         more == [i \in DOMAIN rest |-> rest[i].does]
     IN  /\ tab' = [Answered(tab, r) EXCEPT
                      !.props = IF Brings(r) THEN r.seen ELSE @,
                      !.queue = rest,
                      !.optimistic = IF rest = <<>> THEN <<>> ELSE @]
         /\ past' = [past EXCEPT
              !.behind = IF Brings(r) THEN server # r.seen ELSE @,
              !.unread = IF Brings(r) THEN FALSE ELSE @ \/ (r.does = "like" /\ r.ok),
              !.burst = @ /\ \E i \in DOMAIN rest : more[i] = "rate",
              !.astray =
                 IF r.does \in {"remove", "save review"} THEN @ \cup {"rating"}
                 ELSE IF ~r.ok /\ (\/ r.does = "like" /\ r.risky
                                   \/ r.does = "rate" /\ past.burst)
                 THEN @ \cup {Control(r.does)}
                 ELSE @]
  /\ UNCHANGED server

Reload ==
  /\ Quiet
  /\ tab' = Mounted(server)
  /\ past' = Unblemished(past.clicks, past.elsewhere)
  /\ UNCHANGED server

PageNext ==
  \/ \E e \in Episodes : ToggleEpisode(e)
  \/ \E e \in Episodes : UpToHere(e)
  \/ MarkSeason
  \/ AddToLibrary
  \/ RemoveShow
  \/ WatchNext
  \/ \E v \in Stars : Rate(v)
  \/ \E v \in Stars : SaveReview(v)
  \/ DeleteReview
  \/ ToggleLike
  \/ ToggleFollow
  \/ Serve
  \/ Land
  \/ Elsewhere
  \/ Reload

\* The network answers in the end; the viewer owes no click.
PageFairness == WF_pageVars(Serve) /\ WF_pageVars(Land)

----------------------------------------------------------------------------
\* Once nothing is under way the page tells the truth.  The ticks, the entry
\* and the review it shows are the server's, unless they were changed elsewhere,
\* or by a save that was half rejected, after the page was last read.  The
\* follow button, the heart with its count and the stars, which keep copies of
\* their own, agree with the server too, except where they were changed
\* elsewhere; the heart, once a like is rejected after one was accepted that
\* the props have not caught up with; and the stars, once the show was removed
\* or reviewed, or a rejection hit one of a burst of clicks.
PageSettles ==
  Quiet =>
    /\ ShownTicks = tab.props.ticks
    /\ ~past.behind => /\ tab.props.held = server.held
                       /\ tab.props.ticks = server.ticks
                       /\ tab.props.review = server.review
                       /\ tab.props.rating = server.rating
    /\ "following" \notin past.astray => tab.following = server.following
    /\ "like" \notin past.astray => tab.liked = server.liked /\ tab.likes = Likes(server)
    /\ "rating" \notin past.astray => tab.rating = server.rating

\* Every burst of clicks comes to rest.
Settles == ~Quiet ~> Quiet
=============================================================================
