------------------------------- MODULE Reviews -------------------------------
(***************************************************************************)
(* Reviews of one show, their likes and comments, and the show's rating    *)
(* average: reviews.service.ts and trackingService.rate, several requests  *)
(* at a time.                                                              *)
(*                                                                         *)
(* A user has at most one review of the show, so a review is named by its  *)
(* author.  Statements that touch only rows the transaction holds already, *)
(* or rows nobody else can reach, are one step, and the last of them       *)
(* commits; every other row is locked by a step of its own, in the code's  *)
(* order.  Left out: texts and their limits, the rate limiter, SHOW_RATED  *)
(* activities, and of the library what no row here depends on.             *)
(***************************************************************************)
EXTENDS ReadCommitted, Integers, FiniteSets

CONSTANTS
  Users,
  Authors,   \* users whose reviews are followed; the others rate, like and comment
  Ratings,   \* stars, in halves
  Cap,       \* REVIEW_LIKE_XP_CAP, compared with likes received
  Goal,      \* the threshold of the achievement on likes received
  MaxCalls   \* bound: calls made in a behaviour

ASSUME ReviewsAssumption ==
  /\ IsFiniteSet(Users) /\ "nobody" \notin Users /\ Authors \subseteq Users
  /\ Ratings \subseteq Nat \ {0} /\ Ratings # {}
  /\ Cap \in Nat /\ Goal \in Nat \ {0} /\ MaxCalls \in Nat

VARIABLES
  calls,   \* calls begun
  raced,   \* history: users two of whose calls overlapped
  strayed  \* history: users whose entry's rating came or went without the show's

vars == <<db, tx, calls, raced, strayed>>

Unrated == 0
Absent  == -1
Nobody  == "nobody"

\* Row ids; p is <<liker, author>>, n a call.
Show        == <<"Show">>                \* [ratingSum, ratingCount]
UserShow(u) == <<"UserShow", u>>         \* a rating, Unrated, or Absent
Review(u)   == <<"Review", u>>
Like(p)     == <<"ReviewLike", p>>
Comment(n)  == <<"Comment", n>>          \* the author of the review, or Nobody
Posted(n)   == <<"Activity", n>>         \* a REVIEW_POSTED of this user's, or Nobody
Stats(u)    == <<"UserStats", u>>        \* [reviewsPosted, reviewLikesReceived]
XpEvent(k)  == <<"XpEvent", k>>
Unlocked(u) == <<"UserAchievement", u>>

Pairs   == {p \in Users \X Authors : p[1] # p[2]}
CallIds == 0..MaxCalls   \* 0 is the call that posted the review there is at first
Rows == {Show}
          \cup (UNION {{UserShow(u), Review(u), Stats(u), Unlocked(u), XpEvent(u)} : u \in Users})
          \cup (UNION {{Like(p), XpEvent(p)} : p \in Pairs})
          \cup (UNION {{Comment(n), Posted(n)} : n \in CallIds})

NoReview == [rating |-> Unrated, live |-> FALSE, likes |-> 0, comments |-> 0]

\* The tables with every user in the library and nothing rated or reviewed.
Fresh == [r \in Rows |->
  CASE r[1] = "Show"      -> [ratingSum |-> 0, ratingCount |-> 0]
    [] r[1] = "UserShow"  -> Unrated
    [] r[1] = "Review"    -> NoReview
    [] r[1] = "UserStats" -> [posted |-> 0, received |-> 0]
    [] r[1] \in {"Comment", "Activity"} -> Nobody
    [] OTHER -> FALSE]

\* The same after author a has posted a review with this rating and u liked it.
Reviewed(a, u, rating) == [r \in Rows |->
  CASE r = Show        -> [ratingSum |-> rating, ratingCount |-> 1]
    [] r = UserShow(a) -> rating
    [] r = Review(a)   -> [rating |-> rating, live |-> TRUE, likes |-> 1, comments |-> 0]
    [] r = Stats(a)    -> [posted |-> 1, received |-> 1]
    [] r \in {XpEvent(a), Like(<<u, a>>)} -> TRUE
    [] r = Posted(0)   -> a
    [] r = XpEvent(<<u, a>>) -> 1 <= Cap
    [] r = Unlocked(a) -> 1 >= Goal
    [] OTHER -> Fresh[r]]

Init ==
  /\ db \in {Reviewed(p[2], p[1], CHOOSE rating \in Ratings : TRUE) : p \in Pairs}
  /\ tx = [c \in Clients |-> Idle]
  /\ calls = 0 /\ raced = {} /\ strayed = {}

History == <<calls, raced, strayed>>
At(c, statement)         == tx[c].pc = statement
Read(c, next)            == Advance(c, next) /\ UNCHANGED History
Write(c, r, value, next) == Put(c, r, value, next) /\ UNCHANGED History
Throw(c)                 == Abort(c) /\ UNCHANGED History
Commit(c, values)        == Finish(c, values) /\ UNCHANGED History

\* A call of user u about the review of author; only likes and comments are
\* about other people's reviews.  rating is Unrated to take a rating back, and
\* Absent for an add to the library that says nothing of a rating.
Kinds == {"save", "remove", "rate", "leave", "join", "like", "comment"}
Call(kind, u, author, rating) ==
  [pc |-> kind, kind |-> kind, user |-> u, author |-> author, rating |-> rating,
   id |-> calls + 1, found |-> FALSE, previous |-> Unrated, mine |-> <<>>]

Own(kind) == kind \notin {"like", "comment"}

\* Which of the idle clients takes the next call does not matter.
Begin(c) ==
  /\ tx[c].pc = "idle" /\ c = CHOOSE d \in Clients : tx[d].pc = "idle"
  /\ calls < MaxCalls
  /\ calls' = calls + 1
  /\ \E kind \in Kinds, u \in Users, author \in Authors, rating \in Ratings \cup {Unrated, Absent} :
       /\ CASE kind = "rate" -> rating # Absent
            [] kind = "save" -> u = author /\ rating \in Ratings
            [] kind = "join" -> u = author
            [] kind = "like" -> u # author /\ rating = Unrated
            [] kind = "comment" -> rating = Unrated
            [] OTHER -> u = author /\ rating = Unrated
       /\ tx' = [tx EXCEPT ![c] = Call(kind, u, author, rating)]
       /\ raced' = IF Own(kind) /\ \E d \in Clients : tx[d].pc # "idle" /\ tx[d].user = u
                                                      /\ Own(tx[d].kind)
                   THEN raced \cup {u} ELSE raced
  /\ UNCHANGED <<db, strayed>>

\* The transaction timeout or a lost process.
Rollback(c) == tx[c].pc # "idle" /\ Throw(c)

Received(c, author) == See(c)[Stats(author)].received

\* The row achievementsService.evaluate sets for a user whose stats these are.
Evaluated(u, stats) == IF stats.received >= Goal THEN {Unlocked(u)} ELSE {}

-----------------------------------------------------------------------------
(* upsert: the review in one transaction, the rating in a second.          *)

SaveFind(c) ==
  /\ At(c, "save")
  /\ Read(c, [pc |-> "saveUpsert", found |-> See(c)[Review(tx[c].user)].live])

SaveUpsert(c) ==
  LET r == Review(tx[c].user) IN
  /\ At(c, "saveUpsert")
  /\ Write(c, r, [See(c)[r] EXCEPT !.rating = tx[c].rating, !.live = TRUE],
           [pc |-> "savePost"])

\* What a first post writes: the counter, the XP, the announcement, the goal.
Posting(c) ==
  LET u == tx[c].user
      stats == [See(c)[Stats(u)] EXCEPT !.posted = @ + 1]
  IN  [r \in {Stats(u), XpEvent(u), Posted(tx[c].id)} \cup Evaluated(u, stats) |->
         CASE r = Stats(u) -> stats [] r = Posted(tx[c].id) -> u [] OTHER -> TRUE]

\* The first transaction commits, and the call goes on to rate the show in one
\* of its own.
CommitFirst(c, values) ==
  /\ \A r \in DOMAIN values : Free(c, r)
  /\ db' = Over(values, See(c))
  /\ tx' = [tx EXCEPT ![c] = [@ EXCEPT !.pc = "rate", !.mine = <<>>]]
  /\ UNCHANGED History

\* Faulty variant: an edit is announced and counted like a first review.
SavePostAlways(c) == At(c, "savePost") /\ CommitFirst(c, Posting(c))

\* Only what was not live before counts, pays and is announced.
SavePost(c) ==
  /\ At(c, "savePost")
  /\ CommitFirst(c, IF tx[c].found THEN <<>> ELSE Posting(c))

-----------------------------------------------------------------------------
(* rate, called for a review or by itself.                                 *)

RateFind(c) ==
  LET existing == See(c)[UserShow(tx[c].user)] IN
  /\ At(c, "rate")
  /\ IF existing \in {Absent, tx[c].rating} THEN Throw(c)
     ELSE Read(c, [pc |-> "rateEntry", previous |-> existing])

\* update throws when the entry has gone meanwhile.
RateEntry(c) ==
  LET r == UserShow(tx[c].user) IN
  /\ At(c, "rateEntry")
  /\ Free(c, r)
  /\ IF See(c)[r] = Absent THEN Throw(c)
     ELSE Write(c, r, tx[c].rating, [pc |-> "rateShow"])

One(rating) == IF rating = Unrated THEN 0 ELSE 1

\* Faulty variant: a changed rating is one more rating.
RateShowRecounts(c) ==
  LET show == See(c)[Show] IN
  /\ At(c, "rateShow")
  /\ Commit(c, [r \in {Show} |->
       [ratingSum |-> show.ratingSum + tx[c].rating - tx[c].previous,
        ratingCount |-> show.ratingCount + One(tx[c].rating)]])

RateShow(c) ==
  LET show == See(c)[Show] IN
  /\ At(c, "rateShow")
  /\ Commit(c, [r \in {Show} |->
       [ratingSum |-> show.ratingSum + tx[c].rating - tx[c].previous,
        ratingCount |-> show.ratingCount + One(tx[c].rating) - One(tx[c].previous)]])

-----------------------------------------------------------------------------
(* remove.                                                                 *)

RemoveFind(c) ==
  /\ At(c, "remove")
  /\ IF See(c)[Review(tx[c].user)].live THEN Read(c, [pc |-> "removeMark"]) ELSE Throw(c)

RemoveMark(c) ==
  LET r == Review(tx[c].user) IN
  /\ At(c, "removeMark")
  /\ Write(c, r, [See(c)[r] EXCEPT !.live = FALSE], [pc |-> "removeCount"])

\* The announcements of u that c can see.
AnnouncedBy(c, u) == {Posted(n) : n \in {m \in CallIds : See(c)[Posted(m)] = u}}

RemoveCount(c) ==
  LET r == Stats(tx[c].user) IN
  /\ At(c, "removeCount")
  /\ Write(c, r, [See(c)[r] EXCEPT !.posted = @ - 1], [pc |-> "removePosts"])

RemovePosts(c) ==
  /\ At(c, "removePosts")
  /\ Commit(c, [r \in AnnouncedBy(c, tx[c].user) |-> Nobody])

-----------------------------------------------------------------------------
(* Joining and leaving the library.                                        *)

Stars(x) == IF x = Absent THEN Unrated ELSE x

\* An add or a removal commits the rows of values.  Neither moves the show's
\* rating sum and count, so an entry that comes or goes with a rating strays.
CommitEntry(c, values) ==
  LET r == UserShow(tx[c].user) IN
  /\ Finish(c, values)
  /\ strayed' = IF Stars(See(c)[r]) = Stars(db[r]) THEN strayed
                ELSE strayed \cup {tx[c].user}
  /\ UNCHANGED <<calls, raced>>

JoinFind(c) ==
  /\ At(c, "join")
  /\ Read(c, [pc |-> "joinEntry", found |-> See(c)[UserShow(tx[c].user)] # Absent])

\* upsert: a rating that is given is written, also on an entry there is.  An
\* add whose status stays the same moves no counter.
JoinEntry(c) ==
  LET r == UserShow(tx[c].user)
      rating == IF tx[c].rating = Absent THEN Stars(See(c)[r]) ELSE tx[c].rating
  IN  /\ At(c, "joinEntry")
      /\ \E next \in IF tx[c].found THEN {"joinStats", "joinEnd"} ELSE {"joinShow"} :
           Write(c, r, rating, [pc |-> next])

\* memberCount.
JoinShow(c) ==
  /\ At(c, "joinShow")
  /\ Write(c, Show, See(c)[Show], [pc |-> "joinStats"])

JoinStats(c) ==
  /\ At(c, "joinStats")
  /\ CommitEntry(c, [r \in {Stats(tx[c].user)} |-> See(c)[r]])

JoinEnd(c) == At(c, "joinEnd") /\ CommitEntry(c, <<>>)

LeaveFind(c) ==
  /\ At(c, "leave")
  /\ IF See(c)[UserShow(tx[c].user)] = Absent THEN Throw(c)
     ELSE Read(c, [pc |-> "leaveDelete"])

LeaveDelete(c) ==
  LET r == UserShow(tx[c].user) IN
  /\ At(c, "leaveDelete")
  /\ Free(c, r)
  /\ IF See(c)[r] = Absent THEN Throw(c)
     ELSE Write(c, r, Absent, [pc |-> "leavePosts"])

\* The activities about the show go.
LeavePosts(c) ==
  LET posts == AnnouncedBy(c, tx[c].user) IN
  /\ At(c, "leavePosts")
  /\ \A r \in posts : Free(c, r)
  /\ Read(c, [pc |-> "leaveShow",
              mine |-> Over([r \in posts |-> Nobody], tx[c].mine)])

LeaveShow(c) ==
  /\ At(c, "leaveShow")
  /\ Write(c, Show, See(c)[Show], [pc |-> "leaveStats"])

LeaveStats(c) ==
  /\ At(c, "leaveStats")
  /\ CommitEntry(c, [r \in {Stats(tx[c].user)} |-> See(c)[r]])

-----------------------------------------------------------------------------
(* toggleLike.                                                             *)

LikeReview(c) ==
  /\ At(c, "like")
  /\ IF See(c)[Review(tx[c].author)].live THEN Read(c, [pc |-> "likeFind"]) ELSE Throw(c)

Pair(c) == <<tx[c].user, tx[c].author>>

LikeFind(c) ==
  /\ At(c, "likeFind")
  /\ Read(c, [pc |-> "likeRow", found |-> See(c)[Like(Pair(c))]])

\* Faulty variant: createMany with skipDuplicates and deleteMany, which do not
\* mind that another toggle came first.
LikeRowAnyway(c) ==
  /\ At(c, "likeRow")
  /\ Write(c, Like(Pair(c)), ~tx[c].found, [pc |-> "likeCount"])


\* create on a row that is there, or delete on one that is not, throws.
LikeRow(c) ==
  LET r == Like(Pair(c)) IN
  /\ At(c, "likeRow")
  /\ Free(c, r)
  /\ IF See(c)[r] # tx[c].found THEN Throw(c)
     ELSE Write(c, r, ~tx[c].found, [pc |-> "likeCount"])

Delta(c) == IF tx[c].found THEN -1 ELSE 1

LikeCount(c) ==
  LET r == Review(tx[c].author) IN
  /\ At(c, "likeCount")
  /\ Write(c, r, [See(c)[r] EXCEPT !.likes = @ + Delta(c)], [pc |-> "likeStats"])

\* The author is paid for a like below the cap, once per liker.
LikeStats(c) ==
  LET a == tx[c].author
      stats == [See(c)[Stats(a)] EXCEPT !.received = @ + Delta(c)]
      paid == IF stats.received <= Cap THEN {XpEvent(Pair(c))} ELSE {}
      rewards == IF tx[c].found THEN {} ELSE paid \cup Evaluated(a, stats)
  IN  /\ At(c, "likeStats")
      /\ Commit(c, [r \in {Stats(a)} \cup rewards |-> IF r = Stats(a) THEN stats ELSE TRUE])

-----------------------------------------------------------------------------
(* comment.                                                                *)

CommentFind(c) ==
  /\ At(c, "comment")
  /\ IF See(c)[Review(tx[c].author)].live THEN Read(c, [pc |-> "commentCount"]) ELSE Throw(c)

CommentCount(c) ==
  LET review == Review(tx[c].author) IN
  /\ At(c, "commentCount")
  /\ Commit(c, [r \in {Comment(tx[c].id), review} |->
                  IF r = review THEN [See(c)[r] EXCEPT !.comments = @ + 1]
                  ELSE tx[c].author])

-----------------------------------------------------------------------------
Statement(c) ==
  \/ SaveFind(c) \/ SaveUpsert(c) \/ SavePost(c)
  \/ RateFind(c) \/ RateEntry(c) \/ RateShow(c)
  \/ RemoveFind(c) \/ RemoveMark(c) \/ RemoveCount(c) \/ RemovePosts(c)
  \/ JoinFind(c) \/ JoinEntry(c) \/ JoinShow(c) \/ JoinStats(c) \/ JoinEnd(c)
  \/ LeaveFind(c) \/ LeaveDelete(c) \/ LeavePosts(c) \/ LeaveShow(c) \/ LeaveStats(c)
  \/ LikeReview(c) \/ LikeFind(c) \/ LikeRow(c) \/ LikeCount(c) \/ LikeStats(c)
  \/ CommentFind(c) \/ CommentCount(c)

Next == \E c \in Clients : Begin(c) \/ Rollback(c) \/ Statement(c)

\* The database answers every statement that is not waiting for a lock.
Spec == Init /\ [][Next]_vars /\ \A c \in Clients : WF_vars(Statement(c))

-----------------------------------------------------------------------------
(* Properties.                                                             *)

Likers(u)      == {v \in Users \ {u} : db[Like(<<v, u>>)]}
CommentsOn(u)  == {n \in CallIds : db[Comment(n)] = u}
Announced(u)   == {n \in CallIds : db[Posted(n)] = u}

\* The ratings of the entries, one element per half star.
HalfStars == UNION {{u} \X (1..db[UserShow(u)]) : u \in Users}

\* The counters of likes and comments are the number of rows they count, on
\* the review and, while it stands, on its author's statistics, however toggles
\* of one like, likes of several users and a deletion of the review interleave.
\* The likes received are compared with what statsService.recompute would write,
\* which counts those of live reviews only: a review that is removed keeps its
\* likes in the counter until it is posted again, and that difference between
\* the increments and the recompute is left out here.
CountersMatchRows == \A u \in Authors :
  /\ db[Review(u)].likes = Cardinality(Likers(u))
  /\ db[Review(u)].live => db[Stats(u)].received = Cardinality(Likers(u))
  /\ db[Review(u)].comments = Cardinality(CommentsOn(u))

\* A user whose own calls never overlapped has counted and announced a review
\* exactly while it stands, also after a save that failed half way and was
\* tried again; leaving the library takes the announcement only.
PostedOnce == \A u \in Authors \ raced :
  /\ db[Stats(u)].posted = IF db[Review(u)].live THEN 1 ELSE 0
  /\ Cardinality(Announced(u)) <= db[Stats(u)].posted

\* The show's sum and count are those of the entries' ratings, as long as
\* nobody's own calls overlapped and no entry came or went with a rating: an add
\* that gives one and the removal of a rated entry both leave sum and count.
AverageExact ==
  LET rated == {u \in Users : db[UserShow(u)] \notin {Absent, Unrated}} IN
  raced = {} /\ strayed = {} =>
    /\ db[Show].ratingCount = Cardinality(rated)
    /\ db[Show].ratingSum = Cardinality(HalfStars)

\* A user takes the show from the library and the review off it at once: one
\* call has the announcements locked and waits for the statistics, the other
\* the reverse.
Crossed == \E c, d \in Clients :
  /\ At(c, "leaveStats") /\ At(d, "removePosts") /\ tx[c].user = tx[d].user
  /\ Stats(tx[c].user) \in DOMAIN tx[d].mine
  /\ AnnouncedBy(d, tx[d].user) \cap DOMAIN tx[c].mine # {}

=============================================================================
