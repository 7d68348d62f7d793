---------------------------- MODULE ReviewsProofs -----------------------------
(***************************************************************************)
(* Reviews for any number of users and of requests at a time: the counters *)
(* on reviews and authors are the rows they count and, as long as a user's *)
(* own calls do not overlap, so are announcements and the show's average.  *)
(***************************************************************************)
EXTENDS Reviews, ReadCommittedProofs, FiniteSetTheorems, TLAPS

----------------------------------------------------------------------------
(* The inductive invariant.  t is the record of an open call, base the     *)
(* committed rows: of base it speaks of the rows t has locked and of those *)
(* only the user's own calls change.                                       *)

Fields == {"pc", "kind", "user", "author", "rating", "id", "found", "previous", "mine"}

Statements ==
  [save    |-> {"save", "saveUpsert", "savePost", "rate", "rateEntry", "rateShow"},
   remove  |-> {"remove", "removeMark", "removeCount", "removePosts"},
   rate    |-> {"rate", "rateEntry", "rateShow"},
   leave   |-> {"leave", "leaveDelete", "leavePosts", "leaveShow", "leaveStats"},
   join    |-> {"join", "joinEntry", "joinShow", "joinStats", "joinEnd"},
   like    |-> {"like", "likeFind", "likeRow", "likeCount", "likeStats"},
   comment |-> {"comment", "commentCount"}]

StarRatings == Ratings \cup {Unrated}

CallTyped(t) ==
  /\ DOMAIN t = Fields
  /\ t.kind \in Kinds /\ t.pc \in Statements[t.kind]
  /\ t.user \in Users /\ t.author \in Authors
  /\ t.kind \in {"save", "remove"} => t.user = t.author
  /\ t.kind = "like" => t.user # t.author
  /\ t.rating \in StarRatings \cup (IF t.kind = "join" THEN {Absent} ELSE {})
  /\ t.previous \in StarRatings /\ t.found \in BOOLEAN

\* The announcements t has written.
Erased(t) == {r \in DOMAIN t.mine : \E n \in CallIds : r = Posted(n)}

\* The rows a call has written at each of its statements.
Held(t) ==
  CASE t.pc \in {"savePost", "removeCount"} -> {Review(t.user)}
    [] t.pc = "removePosts" -> {Review(t.user), Stats(t.user)}
    [] t.pc \in {"rateShow", "joinShow", "joinEnd", "leavePosts"} -> {UserShow(t.user)}
    [] t.pc = "joinStats" -> {UserShow(t.user)} \cup (IF t.found THEN {} ELSE {Show})
    [] t.pc = "leaveShow" -> {UserShow(t.user)} \cup Erased(t)
    [] t.pc = "leaveStats" -> {UserShow(t.user), Show} \cup Erased(t)
    [] t.pc = "likeCount" -> {Like(<<t.user, t.author>>)}
    [] t.pc = "likeStats" -> {Like(<<t.user, t.author>>), Review(t.author)}
    [] OTHER -> {}

Step(t) == IF t.found THEN -1 ELSE 1

\* What it has written is what it found there, but for what the call is about.
WritesOK(t, base) ==
  /\ DOMAIN t.mine = Held(t)
  /\ t.pc = "savePost" => t.mine[Review(t.user)] =
       [rating |-> t.rating, live |-> TRUE, likes |-> base[Review(t.user)].likes,
        comments |-> base[Review(t.user)].comments]
  /\ t.pc \in {"removeCount", "removePosts"} => t.mine[Review(t.user)] =
       [base[Review(t.user)] EXCEPT !.live = FALSE]
  /\ t.pc = "removePosts" => t.mine[Stats(t.user)] =
       [base[Stats(t.user)] EXCEPT !.posted = @ - 1]
  /\ t.pc = "rateShow" => t.mine[UserShow(t.user)] = t.rating
  /\ t.pc \in {"joinShow", "joinStats", "joinEnd"} => t.mine[UserShow(t.user)] \in StarRatings
  /\ t.pc = "joinShow" => ~t.found
  /\ t.pc = "joinStats" /\ ~t.found => t.mine[Show] = base[Show]
  /\ t.pc \in {"leavePosts", "leaveShow", "leaveStats"} =>
       /\ t.mine[UserShow(t.user)] = Absent
       /\ \A r \in Erased(t) : t.mine[r] = Nobody
  /\ t.pc = "leaveStats" => t.mine[Show] = base[Show]
  /\ t.pc \in {"likeCount", "likeStats"} =>
       /\ base[Like(<<t.user, t.author>>)] = t.found
       /\ t.mine[Like(<<t.user, t.author>>)] = ~t.found
  /\ t.pc = "likeStats" => t.mine[Review(t.author)] =
       [base[Review(t.author)] EXCEPT !.likes = @ + Step(t)]

\* What it has found still holds, if no other call of the user's own overlaps.
FoundOK(t, base) ==
  /\ t.pc \in {"saveUpsert", "savePost"} => t.found = base[Review(t.user)].live
  /\ t.pc \in {"removeMark", "removeCount", "removePosts"} => base[Review(t.user)].live
  /\ t.pc \in {"rateEntry", "rateShow"} => base[UserShow(t.user)] = t.previous

CallOK(t, base) ==
  /\ CallTyped(t) /\ WritesOK(t, base)
  /\ t.kind = "comment" => base[Comment(t.id)] = Nobody

\* Comments are made by the calls begun, one by each.
IdsOK ==
  /\ calls \in 0..MaxCalls
  /\ \A n \in CallIds : n > calls => db[Comment(n)] = Nobody
  /\ \A c \in Clients : tx[c] # Idle => tx[c].id \in 1..calls
  /\ \A c, d \in Clients :
       tx[c] # Idle /\ tx[d] # Idle /\ tx[c].id = tx[d].id => c = d

CallsOK ==
  /\ tx = [c \in Clients |-> tx[c]]
  /\ \A c \in Clients : tx[c] = Idle \/ CallOK(tx[c], db)
  /\ \A c \in Clients : tx[c] # Idle /\ tx[c].user \notin raced => FoundOK(tx[c], db)

\* Two calls of a user's own overlap only if the user has raced.
Alone ==
  \A c, d \in Clients :
    /\ c # d /\ tx[c] # Idle /\ tx[d] # Idle
    /\ Own(tx[c].kind) /\ Own(tx[d].kind) /\ tx[c].user = tx[d].user
    => tx[c].user \in raced

BaseOK(base) ==
  /\ DOMAIN base = Rows
  /\ base[Show] \in [ratingSum : Int, ratingCount : Int]
  /\ \A u \in Users : /\ base[UserShow(u)] \in StarRatings \cup {Absent}
                      /\ base[Review(u)] \in [rating : StarRatings, live : BOOLEAN,
                                              likes : Int, comments : Int]
                      /\ base[Stats(u)] \in [posted : Int, received : Int]
  /\ \A p \in Pairs : base[Like(p)] \in BOOLEAN
  /\ \A n \in CallIds : base[Comment(n)] \in Users \cup {Nobody}

\* The counters of likes agree also while the review is removed.
CountersOf(u) ==
  /\ db[Review(u)].likes = Cardinality(Likers(u))
  /\ db[Stats(u)].received = db[Review(u)].likes
  /\ db[Review(u)].comments = Cardinality(CommentsOn(u))

CountersHold == \A u \in Authors : CountersOf(u)

ReviewsInv ==
  /\ BaseOK(db)
  /\ IdsOK /\ CallsOK /\ Alone /\ Locked
  /\ CountersHold /\ PostedOnce
  /\ IsFiniteSet(HalfStars) /\ AverageExact

----------------------------------------------------------------------------
(* Rows, and what the statements of ReadCommitted do to them.              *)

\* Rows of different tables or keys are different rows.
LEMMA RowIds ==
  /\ \A p, q : /\ UserShow(p) = UserShow(q) => p = q
               /\ Review(p) = Review(q) => p = q
               /\ Like(p) = Like(q) => p = q
               /\ Comment(p) = Comment(q) => p = q
               /\ Posted(p) = Posted(q) => p = q
               /\ Stats(p) = Stats(q) => p = q
  /\ \A p, q : /\ UserShow(p) # Review(q) /\ UserShow(p) # Like(q) /\ UserShow(p) # Comment(q)
               /\ UserShow(p) # Posted(q) /\ UserShow(p) # Stats(q) /\ UserShow(p) # XpEvent(q)
               /\ UserShow(p) # Unlocked(q) /\ UserShow(p) # Show
  /\ \A p, q : /\ Review(p) # Like(q) /\ Review(p) # Comment(q) /\ Review(p) # Posted(q)
               /\ Review(p) # Stats(q) /\ Review(p) # XpEvent(q) /\ Review(p) # Unlocked(q)
               /\ Review(p) # Show
  /\ \A p, q : /\ Like(p) # Comment(q) /\ Like(p) # Posted(q) /\ Like(p) # Stats(q)
               /\ Like(p) # XpEvent(q) /\ Like(p) # Unlocked(q) /\ Like(p) # Show
  /\ \A p, q : /\ Comment(p) # Posted(q) /\ Comment(p) # Stats(q) /\ Comment(p) # XpEvent(q)
               /\ Comment(p) # Unlocked(q) /\ Comment(p) # Show
  /\ \A p, q : /\ Posted(p) # Stats(q) /\ Posted(p) # XpEvent(q) /\ Posted(p) # Unlocked(q)
               /\ Posted(p) # Show
  /\ \A p, q : Stats(p) # XpEvent(q) /\ Stats(p) # Unlocked(q) /\ Stats(p) # Show
  /\ \A p, q : XpEvent(p) # Unlocked(q) /\ XpEvent(p) # Show /\ Unlocked(p) # Show
BY DEF UserShow, Review, Like, Comment, Posted, Stats, XpEvent, Unlocked, Show

LEMMA RowTypes ==
  /\ Show \in Rows
  /\ \A u \in Users : /\ UserShow(u) \in Rows /\ Review(u) \in Rows /\ Stats(u) \in Rows
                      /\ Unlocked(u) \in Rows /\ XpEvent(u) \in Rows
  /\ \A p \in Pairs : Like(p) \in Rows /\ XpEvent(p) \in Rows
  /\ \A n \in CallIds : Comment(n) \in Rows /\ Posted(n) \in Rows
<1>1. ASSUME NEW u \in Users
      PROVE  {UserShow(u), Review(u), Stats(u), Unlocked(u), XpEvent(u)} \subseteq Rows
  BY DEF Rows
<1>2. ASSUME NEW p \in Pairs PROVE {Like(p), XpEvent(p)} \subseteq Rows
  BY DEF Rows
<1>3. ASSUME NEW n \in CallIds PROVE {Comment(n), Posted(n)} \subseteq Rows
  BY DEF Rows
<1>4. Show \in Rows
  BY DEF Rows
<1> QED BY <1>1, <1>2, <1>3, <1>4

LEMMA PairTypes ==
  ASSUME NEW u \in Users, NEW a \in Authors, u # a
  PROVE  <<u, a>> \in Pairs
BY DEF Pairs

\* The calls about a pair of users have two of them.
LEMMA HeldRows ==
  ASSUME NEW t, CallTyped(t)
  PROVE  /\ Held(t) \subseteq Rows /\ t.author \in Users
         /\ t.kind = "like" => <<t.user, t.author>> \in Pairs
         /\ t.pc \in {"likeCount", "likeStats"} => t.kind = "like"
<1>1. t.author \in Users /\ t.user \in Users
  BY ReviewsAssumption DEF CallTyped
<1>2. t.kind = "like" => <<t.user, t.author>> \in Pairs
  BY <1>1 DEF CallTyped, Pairs
<1>3. t.pc \in {"likeCount", "likeStats"} => t.kind = "like"
  BY DEF CallTyped, Kinds, Statements
<1>4. Held(t) \subseteq {Review(t.user), UserShow(t.user), Stats(t.user), Show, Review(t.author)}
        \cup Erased(t) \cup (IF t.kind = "like" THEN {Like(<<t.user, t.author>>)} ELSE {})
  BY <1>3 DEF Held
<1>5. Erased(t) \subseteq Rows
  BY RowTypes DEF Erased
<1> QED BY <1>1, <1>2, <1>3, <1>4, <1>5, RowTypes

\* A client at a statement has a call in hand, and sees through its writes.
LEMMA InHand ==
  ASSUME ReviewsInv, NEW c \in Clients, tx[c].pc # "idle"
  PROVE  /\ tx[c] # Idle /\ CallOK(tx[c], db)
         /\ tx[c].user \notin raced => FoundOK(tx[c], db)
         /\ tx = [d \in Clients |-> tx[d]]
         /\ DOMAIN tx[c].mine \subseteq DOMAIN db /\ DOMAIN db = Rows
         /\ \A r \in Rows : See(c)[r] = IF Wrote(tx[c], r) THEN tx[c].mine[r] ELSE db[r]
<1>1. tx[c] # Idle
  BY NothingWritten
<1>2. /\ CallOK(tx[c], db) /\ (tx[c].user \notin raced => FoundOK(tx[c], db))
      /\ tx = [d \in Clients |-> tx[d]] /\ DOMAIN db = Rows
  BY <1>1 DEF ReviewsInv, CallsOK, BaseOK
<1>3. DOMAIN tx[c].mine \subseteq DOMAIN db
  BY <1>2, HeldRows DEF CallOK, WritesOK
<1> QED BY <1>1, <1>2, <1>3, SeeEffect

\* t gone on to s at the statement pc, and with what it has found.
Further(t, s, pc) ==
  /\ CallTyped(s) /\ s.pc = pc
  /\ s.kind = t.kind /\ s.user = t.user /\ s.author = t.author
  /\ s.rating = t.rating /\ s.id = t.id

LEMMA GoneFurther ==
  ASSUME NEW t, NEW s, NEW next, CallTyped(t), GoneOn(t, s, next),
         "pc" \in DOMAIN next, DOMAIN next \subseteq {"pc", "found", "previous"},
         next.pc \in Statements[t.kind],
         "found" \in DOMAIN next => next.found \in BOOLEAN,
         "previous" \in DOMAIN next => next.previous \in StarRatings
  PROVE  /\ Further(t, s, next.pc)
         /\ s.found = IF "found" \in DOMAIN next THEN next.found ELSE t.found
         /\ s.previous = IF "previous" \in DOMAIN next THEN next.previous ELSE t.previous
<1>1. /\ DOMAIN s = Fields
      /\ s.pc = next.pc /\ s.kind = t.kind /\ s.user = t.user /\ s.author = t.author
      /\ s.rating = t.rating /\ s.id = t.id
      /\ s.found = IF "found" \in DOMAIN next THEN next.found ELSE t.found
      /\ s.previous = IF "previous" \in DOMAIN next THEN next.previous ELSE t.previous
  BY DEF GoneOn, CallTyped, Fields
<1>2. s.found \in BOOLEAN /\ s.previous \in StarRatings
  BY <1>1, Zenon DEF CallTyped
<1> QED BY <1>1, <1>2 DEF CallTyped, Further

----------------------------------------------------------------------------
(* The statements that commit nothing.                                     *)

\* What a statement leads to: the call is given up, or goes on as it may.
Onward(c) ==
  /\ Others(c) /\ UNCHANGED <<db, calls, raced, strayed>>
  /\ \/ tx'[c] = Idle
     \/ /\ tx[c] # Idle
        /\ tx'[c].kind = tx[c].kind /\ tx'[c].user = tx[c].user /\ tx'[c].id = tx[c].id
        /\ CallOK(tx'[c], db)
        /\ tx[c].user \notin raced => FoundOK(tx'[c], db)
        /\ \A r \in DOMAIN tx'[c].mine : Wrote(tx[c], r) \/ Free(c, r)

LEMMA OnwardKeeps ==
  ASSUME ReviewsInv, NEW c \in Clients, Onward(c)
  PROVE  ReviewsInv'
<1>1. BaseOK(db)'
  BY DEF ReviewsInv, Onward, BaseOK
<1>2. CountersHold' /\ PostedOnce'
  <2>1. /\ CountersHold /\ PostedOnce /\ db' = db /\ raced' = raced
    BY DEF ReviewsInv, Onward
  <2>2. \A u : Likers(u)' = Likers(u) /\ CommentsOn(u)' = CommentsOn(u)
               /\ Announced(u)' = Announced(u)
    BY <2>1 DEF Likers, CommentsOn, Announced
  <2> QED BY <2>1, <2>2 DEF CountersHold, CountersOf, PostedOnce
<1>3. IsFiniteSet(HalfStars)' /\ AverageExact'
  <2>1. /\ IsFiniteSet(HalfStars) /\ AverageExact
        /\ db' = db /\ raced' = raced /\ strayed' = strayed
    BY DEF ReviewsInv, Onward
  <2>2. HalfStars' = HalfStars
    BY <2>1 DEF HalfStars
  <2> QED BY <2>1, <2>2 DEF AverageExact
<1>4. CallsOK'
  BY DEF ReviewsInv, Onward, CallsOK, Others
<1>5. Locked'
  <2>1. Locked /\ Others(c) /\ \A r \in DOMAIN tx'[c].mine : Wrote(tx[c], r) \/ Free(c, r)
    BY NothingWritten DEF Onward, ReviewsInv
  <2> QED BY <2>1, LockedKept
<1>6. \A d \in Clients : tx'[d] # Idle => /\ tx[d] # Idle /\ tx'[d].id = tx[d].id
                                        /\ tx'[d].user = tx[d].user
                                        /\ tx'[d].kind = tx[d].kind
  BY DEF Onward, Others
<1>7. IdsOK'
  BY <1>6 DEF ReviewsInv, IdsOK, Onward
<1>8. Alone'
  BY <1>6 DEF ReviewsInv, Alone, Onward
<1> QED BY <1>1, <1>2, <1>3, <1>4, <1>5, <1>7, <1>8 DEF ReviewsInv

LEMMA ThrowOnward ==
  ASSUME ReviewsInv, NEW c \in Clients, tx[c].pc # "idle", Throw(c)
  PROVE  Onward(c)
<1>1. tx = [d \in Clients |-> tx[d]] /\ Abort(c) /\ UNCHANGED History
  BY InHand DEF Throw
<1> QED BY <1>1, AbortEffect, NothingWritten DEF Onward, History

\* The statements that only read, and where they lead.
Reading == {"save", "rate", "remove", "join", "leave", "like", "likeFind", "comment"}
AfterReading ==
  {"saveUpsert", "rateEntry", "removeMark", "joinEntry", "leaveDelete", "likeFind", "likeRow",
   "commentCount"}

LEMMA ReadOnward ==
  ASSUME ReviewsInv, NEW c \in Clients, tx[c].pc \in Reading, NEW next,
         "pc" \in DOMAIN next, DOMAIN next \subseteq {"pc", "found", "previous"},
         next.pc \in Statements[tx[c].kind] \cap AfterReading,
         "found" \in DOMAIN next => next.found \in BOOLEAN,
         "previous" \in DOMAIN next => next.previous \in StarRatings,
         next.pc = "saveUpsert" =>
           "found" \in DOMAIN next /\ next.found = db[Review(tx[c].user)].live,
         next.pc = "rateEntry" =>
           "previous" \in DOMAIN next /\ next.previous = db[UserShow(tx[c].user)],
         next.pc = "removeMark" => db[Review(tx[c].user)].live,
         Read(c, next)
  PROVE  Onward(c)
<1> DEFINE t == tx[c]
           s == tx'[c]
<1>1. /\ t # Idle /\ CallOK(t, db) /\ CallTyped(t)
      /\ tx = [d \in Clients |-> tx[d]]
  BY InHand DEF CallOK, Reading
<1>2. Advance(c, next) /\ UNCHANGED <<calls, raced, strayed>>
  BY DEF Read, History
<1>3. DOMAIN next \subseteq DOMAIN t /\ "mine" \in DOMAIN t /\ "mine" \notin DOMAIN next
  BY <1>1 DEF CallTyped, Fields
<1>4. /\ Others(c) /\ UNCHANGED db
      /\ GoneOn(t, s, next) /\ s.mine = t.mine
  BY <1>1, <1>2, <1>3, AdvanceEffect
<1> HIDE DEF t, s
<1>5. /\ Further(t, s, next.pc)
      /\ s.found = IF "found" \in DOMAIN next THEN next.found ELSE t.found
      /\ s.previous = IF "previous" \in DOMAIN next THEN next.previous ELSE t.previous
  <2>1. next.pc \in Statements[t.kind]
    BY DEF t
  <2> QED BY <1>1, <1>4, <2>1, GoneFurther
<1>6. CallTyped(s) /\ s.pc = next.pc /\ s.kind = t.kind /\ s.user = t.user /\ s.id = t.id
  BY <1>5 DEF Further
<1>7. WritesOK(s, db)
  <2>1. t.pc \in Reading /\ s.pc \in AfterReading
    BY <1>6 DEF t
  <2>2. Held(t) = {} /\ Held(s) = {}
    BY <2>1 DEF Held, Reading, AfterReading
  <2>3. DOMAIN s.mine = Held(s)
    BY <1>1, <1>4, <2>2 DEF CallOK, WritesOK
  <2> QED BY <2>1, <2>3 DEF WritesOK, AfterReading
<1>8. FoundOK(s, db)
  <2>1. s.pc \in AfterReading
    BY <1>6
  <2> QED BY <1>5, <1>6, <2>1 DEF FoundOK, AfterReading, t
<1>9. CallOK(s, db)
  BY <1>1, <1>6, <1>7 DEF CallOK
<1>10. \A r \in DOMAIN s.mine : Wrote(t, r)
  BY <1>4 DEF Wrote
<1> QED BY <1>1, <1>2, <1>4, <1>6, <1>8, <1>9, <1>10 DEF Onward, t, s

\* c has gone on to pc after writing v at r.
Written(c, r, v, pc) ==
  /\ Others(c) /\ UNCHANGED <<db, calls, raced, strayed>> /\ Free(c, r)
  /\ Further(tx[c], tx'[c], pc) /\ tx'[c].found = tx[c].found
  /\ OneRow(tx[c], tx'[c], r, v)

LEMMA WriteEffect ==
  ASSUME ReviewsInv, NEW c \in Clients, tx[c].pc # "idle", NEW r, NEW v, NEW next,
         "pc" \in DOMAIN next, DOMAIN next \subseteq {"pc", "previous"},
         next.pc \in Statements[tx[c].kind],
         "previous" \in DOMAIN next => next.previous \in StarRatings,
         Write(c, r, v, next)
  PROVE  /\ Written(c, r, v, next.pc)
         /\ tx'[c].previous = IF "previous" \in DOMAIN next THEN next.previous
                              ELSE tx[c].previous
<1> DEFINE t == tx[c]
           s == tx'[c]
<1>1. t # Idle /\ CallTyped(t) /\ tx = [d \in Clients |-> tx[d]]
  BY InHand DEF CallOK
<1>2. Put(c, r, v, next) /\ UNCHANGED <<calls, raced, strayed>>
  BY DEF Write, History
<1>3. DOMAIN next \subseteq DOMAIN t /\ "mine" \in DOMAIN t /\ "mine" \notin DOMAIN next
  BY <1>1 DEF CallTyped, Fields
<1>4. /\ Others(c) /\ UNCHANGED db /\ Free(c, r)
      /\ GoneOn(t, s, next) /\ OneRow(t, s, r, v)
  BY <1>1, <1>2, <1>3, PutEffect
<1> HIDE DEF t, s
<1>5. next.pc \in Statements[t.kind]
  BY DEF t
<1>6. /\ Further(t, s, next.pc) /\ s.found = t.found
      /\ s.previous = IF "previous" \in DOMAIN next THEN next.previous ELSE t.previous
  BY <1>1, <1>4, <1>5, GoneFurther
<1> QED BY <1>2, <1>4, <1>6 DEF Written, t, s

\* So a statement that writes goes onward, if what it leads to may be.
LEMMA WriteOnward ==
  ASSUME ReviewsInv, NEW c \in Clients, tx[c].pc # "idle", NEW r, NEW v, NEW pc,
         Written(c, r, v, pc), WritesOK(tx'[c], db),
         tx[c].user \notin raced => FoundOK(tx'[c], db)
  PROVE  Onward(c)
<1> DEFINE t == tx[c]
           s == tx'[c]
<1>1. t # Idle /\ CallOK(t, db)
  BY InHand
<1>2. /\ CallTyped(s) /\ s.pc = pc
      /\ s.kind = t.kind /\ s.user = t.user /\ s.id = t.id
  BY DEF Written, Further
<1>3. CallOK(s, db)
  BY <1>1, <1>2 DEF CallOK
<1>4. \A x \in DOMAIN s.mine : Wrote(t, x) \/ Free(c, x)
  BY DEF Written, OneRow, Wrote
<1> QED BY <1>1, <1>2, <1>3, <1>4 DEF Onward, Written

\* What a call at each of its statements is, and so which rows it may meet.
LEMMA CallKinds ==
  ASSUME NEW t, CallTyped(t)
  PROVE  /\ t.pc \in {"saveUpsert", "savePost"} => t.kind = "save"
         /\ t.pc = "save" => t.kind = "save"
         /\ t.pc \in {"rate", "rateEntry", "rateShow"} => t.kind \in {"save", "rate"}
         /\ t.pc \in {"remove", "removeMark", "removeCount", "removePosts"} => t.kind = "remove"
         /\ t.pc \in {"leave", "leaveDelete", "leavePosts", "leaveShow", "leaveStats"} =>
              t.kind = "leave"
         /\ t.pc \in {"join", "joinEntry", "joinShow", "joinStats", "joinEnd"} => t.kind = "join"
         /\ t.pc \in {"like", "likeFind", "likeRow", "likeCount", "likeStats"} => t.kind = "like"
         /\ t.pc \in {"comment", "commentCount"} => t.kind = "comment"
BY DEF CallTyped, Kinds, Statements

LEMMA FindsOnward ==
  ASSUME ReviewsInv, NEW c \in Clients,
         \/ SaveFind(c) \/ RateFind(c) \/ RemoveFind(c) \/ JoinFind(c) \/ LeaveFind(c)
         \/ LikeReview(c) \/ LikeFind(c) \/ CommentFind(c)
  PROVE  Onward(c)
<1> DEFINE t == tx[c]
<1>1. t.pc \in Reading
  BY DEF SaveFind, RateFind, RemoveFind, JoinFind, LeaveFind, LikeReview, LikeFind,
         CommentFind, At, Reading
<1>2. /\ CallTyped(t) /\ BaseOK(db)
      /\ \A r \in Rows : See(c)[r] = IF Wrote(t, r) THEN t.mine[r] ELSE db[r]
      /\ DOMAIN t.mine = Held(t)
  BY <1>1, InHand DEF CallOK, WritesOK, ReviewsInv, Reading
<1>3. \A r \in Rows : See(c)[r] = db[r]
  <2>1. Held(t) = {}
    BY <1>1 DEF Held, Reading
  <2> QED BY <1>2, <2>1 DEF Wrote
<1>4. t.user \in Users /\ t.author \in Users
  BY <1>2, HeldRows DEF CallTyped
<1>5. /\ See(c)[Review(t.user)] = db[Review(t.user)]
      /\ See(c)[UserShow(t.user)] = db[UserShow(t.user)]
      /\ db[Review(t.user)].live \in BOOLEAN
      /\ db[UserShow(t.user)] \in StarRatings \cup {Absent}
  BY <1>2, <1>3, <1>4, RowTypes DEF BaseOK
<1>6. CASE Throw(c)
  BY <1>1, <1>6, ThrowOnward DEF Reading
<1>7. CASE SaveFind(c)
  <2> DEFINE next == [pc |-> "saveUpsert", found |-> See(c)[Review(t.user)].live]
  <2>1. Read(c, next) /\ t.pc = "save"
    BY <1>7 DEF SaveFind, At
  <2>2. next.pc \in Statements[t.kind] \cap AfterReading
    BY <1>2, <2>1, CallKinds DEF Statements, AfterReading
  <2>3. next.found = db[Review(t.user)].live
    BY <1>5
  <2> QED BY <1>1, <1>5, <2>1, <2>2, <2>3, ReadOnward
<1>8. CASE RateFind(c) /\ ~Throw(c)
  <2> DEFINE next == [pc |-> "rateEntry", previous |-> See(c)[UserShow(t.user)]]
  <2>1. Read(c, next) /\ t.pc = "rate" /\ See(c)[UserShow(t.user)] # Absent
    BY <1>8 DEF RateFind, At
  <2>2. next.pc \in Statements[t.kind] \cap AfterReading
    BY <1>2, <2>1, CallKinds DEF Statements, AfterReading
  <2>3. next.previous = db[UserShow(t.user)] /\ next.previous \in StarRatings
    BY <1>5, <2>1
  <2> QED BY <1>1, <1>5, <2>1, <2>2, <2>3, ReadOnward
<1>9. CASE RemoveFind(c) /\ ~Throw(c)
  <2> DEFINE next == [pc |-> "removeMark"]
  <2>1. Read(c, next) /\ t.pc = "remove" /\ See(c)[Review(t.user)].live
    BY <1>9 DEF RemoveFind, At
  <2>2. next.pc \in Statements[t.kind] \cap AfterReading
    BY <1>2, <2>1, CallKinds DEF Statements, AfterReading
  <2> QED BY <1>1, <1>5, <2>1, <2>2, ReadOnward
<1>10. CASE LeaveFind(c) /\ ~Throw(c)
  <2> DEFINE next == [pc |-> "leaveDelete"]
  <2>1. Read(c, next) /\ t.pc = "leave"
    BY <1>10 DEF LeaveFind, At
  <2>2. next.pc \in Statements[t.kind] \cap AfterReading
    BY <1>2, <2>1, CallKinds DEF Statements, AfterReading
  <2> QED BY <1>1, <2>1, <2>2, ReadOnward
<1>11. CASE LikeReview(c) /\ ~Throw(c)
  <2> DEFINE next == [pc |-> "likeFind"]
  <2>1. Read(c, next) /\ t.pc = "like"
    BY <1>11 DEF LikeReview, At
  <2>2. next.pc \in Statements[t.kind] \cap AfterReading
    BY <1>2, <2>1, CallKinds DEF Statements, AfterReading
  <2> QED BY <1>1, <2>1, <2>2, ReadOnward
<1>12. CASE LikeFind(c)
  <2> DEFINE next == [pc |-> "likeRow", found |-> See(c)[Like(Pair(c))]]
  <2>1. Read(c, next) /\ t.pc = "likeFind"
    BY <1>12 DEF LikeFind, At
  <2>2. next.pc \in Statements[t.kind] \cap AfterReading
    BY <1>2, <2>1, CallKinds DEF Statements, AfterReading
  <2>3. next.found \in BOOLEAN
    <3>1. Pair(c) \in Pairs
      BY <1>2, <2>1, CallKinds, HeldRows DEF Pair
    <3>2. See(c)[Like(Pair(c))] = db[Like(Pair(c))] /\ db[Like(Pair(c))] \in BOOLEAN
      BY <1>2, <1>3, <3>1, RowTypes DEF BaseOK
    <3> QED BY <3>2
  <2> QED BY <1>1, <2>1, <2>2, <2>3, ReadOnward
<1>13. CASE CommentFind(c) /\ ~Throw(c)
  <2> DEFINE next == [pc |-> "commentCount"]
  <2>1. Read(c, next) /\ t.pc = "comment"
    BY <1>13 DEF CommentFind, At
  <2>2. next.pc \in Statements[t.kind] \cap AfterReading
    BY <1>2, <2>1, CallKinds DEF Statements, AfterReading
  <2> QED BY <1>1, <2>1, <2>2, ReadOnward
<1>14. CASE JoinFind(c)
  <2> DEFINE next == [pc |-> "joinEntry", found |-> See(c)[UserShow(t.user)] # Absent]
  <2>1. Read(c, next) /\ t.pc = "join"
    BY <1>14 DEF JoinFind, At
  <2>2. next.pc \in Statements[t.kind] \cap AfterReading
    BY <1>2, <2>1, CallKinds DEF Statements, AfterReading
  <2>3. next.found \in BOOLEAN
    OBVIOUS
  <2> QED BY <1>1, <2>1, <2>2, <2>3, ReadOnward
<1> QED BY <1>6, <1>7, <1>8, <1>9, <1>10, <1>11, <1>12, <1>13, <1>14

LEMMA ReviewEdited ==
  ASSUME NEW old \in [rating : StarRatings, live : BOOLEAN, likes : Int, comments : Int], NEW x
  PROVE  [old EXCEPT !.rating = x, !.live = TRUE] =
           [rating |-> x, live |-> TRUE, likes |-> old.likes, comments |-> old.comments]
<1> DEFINE new == [old EXCEPT !.rating = x, !.live = TRUE]
<1>1. /\ DOMAIN new = {"rating", "live", "likes", "comments"}
      /\ new.rating = x /\ new.live = TRUE
      /\ new.likes = old.likes /\ new.comments = old.comments
  OBVIOUS
<1>2. new = [f \in {"rating", "live", "likes", "comments"} |-> new[f]]
  OBVIOUS
<1> HIDE DEF new
<1> QED BY <1>1, <1>2

LEMMA WritesOnward ==
  ASSUME ReviewsInv, NEW c \in Clients,
         \/ SaveUpsert(c) \/ RateEntry(c) \/ RemoveMark(c) \/ RemoveCount(c)
         \/ LeaveDelete(c) \/ LikeRow(c) \/ LikeCount(c)
  PROVE  Onward(c)
<1> DEFINE t == tx[c]
           s == tx'[c]
           a == t.author
<1>1. t.pc \in {"saveUpsert", "rateEntry", "removeMark", "removeCount", "leaveDelete", "likeRow",
                "likeCount"}
  BY DEF SaveUpsert, RateEntry, RemoveMark, RemoveCount, LeaveDelete, LikeRow, LikeCount, At
<1>2. /\ CallTyped(t) /\ BaseOK(db) /\ t.pc # "idle" /\ WritesOK(t, db)
      /\ t.user \notin raced => FoundOK(t, db)
      /\ \A r \in Rows : See(c)[r] = IF Wrote(t, r) THEN t.mine[r] ELSE db[r]
  BY <1>1, InHand DEF CallOK, ReviewsInv
<1>3. t.user \in Users /\ a \in Users
  BY <1>2, HeldRows DEF CallTyped
<1>4. CASE Throw(c)
  BY <1>1, <1>4, ThrowOnward
<1>5. ASSUME NEW r \in Rows, t.pc \in {"saveUpsert", "rateEntry", "removeMark", "leaveDelete",
                                       "likeRow"}
      PROVE  See(c)[r] = db[r]
  <2>1. Held(t) = {}
    BY <1>5 DEF Held
  <2> QED BY <1>2, <2>1 DEF WritesOK, Wrote
<1>6. CASE SaveUpsert(c)
  <2> DEFINE r == Review(t.user)
             v == [See(c)[r] EXCEPT !.rating = t.rating, !.live = TRUE]
             next == [pc |-> "savePost"]
  <2>1. Write(c, r, v, next) /\ t.pc = "saveUpsert"
    BY <1>6 DEF SaveUpsert, At
  <2>2. next.pc \in Statements[t.kind]
    BY <1>2, <2>1, CallKinds DEF Statements
  <2>3. Written(c, r, v, "savePost")
    BY <1>2, <2>1, <2>2, WriteEffect
  <2>4. v = [rating |-> t.rating, live |-> TRUE, likes |-> db[r].likes,
             comments |-> db[r].comments]
    <3>1. See(c)[r] = db[r] /\ db[r] \in [rating : StarRatings, live : BOOLEAN,
                                          likes : Int, comments : Int]
      BY <1>2, <1>3, <1>5, <2>1, RowTypes DEF BaseOK
    <3> QED BY <3>1, ReviewEdited
  <2>5. s.pc = "savePost" /\ s.user = t.user /\ s.rating = t.rating /\ s.found = t.found
    BY <2>3 DEF Written, Further
  <2>6. WritesOK(s, db)
    <3>1. DOMAIN t.mine = {}
      BY <1>2, <2>1 DEF WritesOK, Held
    <3>2. DOMAIN s.mine = {r} /\ s.mine[r] = v
      BY <2>3, <3>1 DEF Written, OneRow, Wrote
    <3> QED BY <2>4, <2>5, <3>2 DEF WritesOK, Held
  <2>7. t.user \notin raced => FoundOK(s, db)
    BY <1>2, <2>1, <2>5 DEF FoundOK
  <2> QED BY <1>2, <2>3, <2>6, <2>7, WriteOnward
<1>7. CASE RateEntry(c) /\ ~Throw(c)
  <2> DEFINE r == UserShow(t.user)
             next == [pc |-> "rateShow"]
  <2>1. Write(c, r, t.rating, next) /\ t.pc = "rateEntry"
    BY <1>7 DEF RateEntry, At
  <2>2. next.pc \in Statements[t.kind]
    BY <1>2, <2>1, CallKinds DEF Statements
  <2>3. Written(c, r, t.rating, "rateShow") /\ s.previous = t.previous
    BY <1>2, <2>1, <2>2, WriteEffect
  <2>4. s.pc = "rateShow" /\ s.user = t.user /\ s.rating = t.rating
    BY <2>3 DEF Written, Further
  <2>5. WritesOK(s, db)
    <3>1. DOMAIN t.mine = {}
      BY <1>2, <2>1 DEF WritesOK, Held
    <3>2. DOMAIN s.mine = {r} /\ s.mine[r] = t.rating
      BY <2>3, <3>1 DEF Written, OneRow, Wrote
    <3> QED BY <2>4, <3>2 DEF WritesOK, Held
  <2>6. t.user \notin raced => FoundOK(s, db)
    BY <1>2, <2>1, <2>3, <2>4 DEF FoundOK
  <2> QED BY <1>2, <2>3, <2>5, <2>6, WriteOnward
<1>8. CASE RemoveMark(c)
  <2> DEFINE r == Review(t.user)
             v == [See(c)[r] EXCEPT !.live = FALSE]
             next == [pc |-> "removeCount"]
  <2>1. Write(c, r, v, next) /\ t.pc = "removeMark"
    BY <1>8 DEF RemoveMark, At
  <2>2. next.pc \in Statements[t.kind]
    BY <1>2, <2>1, CallKinds DEF Statements
  <2>3. Written(c, r, v, "removeCount")
    BY <1>2, <2>1, <2>2, WriteEffect
  <2>4. v = [db[r] EXCEPT !.live = FALSE]
    BY <1>3, <1>5, <2>1, RowTypes
  <2>5. s.pc = "removeCount" /\ s.user = t.user
    BY <2>3 DEF Written, Further
  <2>6. WritesOK(s, db)
    <3>1. DOMAIN t.mine = {}
      BY <1>2, <2>1 DEF WritesOK, Held
    <3>2. DOMAIN s.mine = {r} /\ s.mine[r] = v
      BY <2>3, <3>1 DEF Written, OneRow, Wrote
    <3> HIDE DEF v
    <3> QED BY <2>4, <2>5, <3>2 DEF WritesOK, Held
  <2>7. t.user \notin raced => FoundOK(s, db)
    BY <1>2, <2>1, <2>5 DEF FoundOK
  <2> QED BY <1>2, <2>3, <2>6, <2>7, WriteOnward
<1>9. CASE LeaveDelete(c) /\ ~Throw(c)
  <2> DEFINE r == UserShow(t.user)
             next == [pc |-> "leavePosts"]
  <2>1. Write(c, r, Absent, next) /\ t.pc = "leaveDelete"
    BY <1>9 DEF LeaveDelete, At
  <2>2. next.pc \in Statements[t.kind]
    BY <1>2, <2>1, CallKinds DEF Statements
  <2>4. Written(c, r, Absent, "leavePosts")
    BY <1>2, <2>1, <2>2, WriteEffect
  <2>5. s.pc = "leavePosts" /\ s.user = t.user
    BY <2>4 DEF Written, Further
  <2>6. WritesOK(s, db)
    <3>1. DOMAIN t.mine = {}
      BY <1>2, <2>1 DEF WritesOK, Held
    <3>2. DOMAIN s.mine = {r} /\ s.mine[r] = Absent
      BY <2>4, <3>1 DEF Written, OneRow, Wrote
    <3>3. Erased(s) = {}
      BY <3>2, RowIds DEF Erased
    <3> QED BY <2>4, <2>5, <3>2, <3>3 DEF WritesOK, Held
  <2>7. FoundOK(s, db)
    BY <2>5 DEF FoundOK
  <2> QED BY <1>2, <2>4, <2>6, <2>7, WriteOnward
<1>10. CASE LikeRow(c) /\ ~Throw(c)
  <2> DEFINE r == Like(<<t.user, a>>)
             v == ~t.found
             next == [pc |-> "likeCount"]
  <2>1. Write(c, r, v, next) /\ t.pc = "likeRow" /\ See(c)[r] = t.found
    BY <1>10 DEF LikeRow, At, Pair
  <2>2. next.pc \in Statements[t.kind]
    BY <1>2, <2>1, CallKinds DEF Statements
  <2>3. Written(c, r, v, "likeCount")
    BY <1>2, <2>1, <2>2, WriteEffect
  <2>4. db[r] = t.found
    <3>1. <<t.user, a>> \in Pairs
      BY <1>2, <2>1, CallKinds, HeldRows
    <3> QED BY <1>5, <2>1, <3>1, RowTypes
  <2>5. s.pc = "likeCount" /\ s.user = t.user /\ s.author = a /\ s.found = t.found
    BY <2>3 DEF Written, Further
  <2>6. WritesOK(s, db)
    <3>1. DOMAIN t.mine = {}
      BY <1>2, <2>1 DEF WritesOK, Held
    <3>2. DOMAIN s.mine = {r} /\ s.mine[r] = v
      BY <2>3, <3>1 DEF Written, OneRow, Wrote
    <3> QED BY <2>4, <2>5, <3>2 DEF WritesOK, Held
  <2>7. FoundOK(s, db)
    BY <2>5 DEF FoundOK
  <2> QED BY <1>2, <2>3, <2>6, <2>7, WriteOnward
<1>11. CASE LikeCount(c)
  <2> DEFINE r == Review(a)
             like == Like(<<t.user, a>>)
             v == [See(c)[r] EXCEPT !.likes = @ + Delta(c)]
             next == [pc |-> "likeStats"]
  <2>1. Write(c, r, v, next) /\ t.pc = "likeCount"
    BY <1>11 DEF LikeCount, At
  <2>2. next.pc \in Statements[t.kind]
    BY <1>2, <2>1, CallKinds DEF Statements
  <2>3. Written(c, r, v, "likeStats")
    BY <1>2, <2>1, <2>2, WriteEffect
  <2>4. DOMAIN t.mine = {like} /\ r # like
    BY <1>2, <2>1, RowIds DEF WritesOK, Held
  <2>5. v = [db[r] EXCEPT !.likes = @ + Step(t)]
    <3>1. See(c)[r] = db[r]
      BY <1>2, <1>3, <2>4, RowTypes DEF Wrote
    <3> QED BY <3>1 DEF Delta, Step
  <2>6. /\ s.pc = "likeStats" /\ s.user = t.user /\ s.author = a /\ s.found = t.found
        /\ Step(s) = Step(t)
    BY <2>3 DEF Written, Further, Step
  <2>7. WritesOK(s, db)
    <3>1. DOMAIN s.mine = {like, r} /\ s.mine[r] = v /\ s.mine[like] = t.mine[like]
      BY <2>3, <2>4 DEF Written, OneRow, Wrote
    <3>2. db[like] = t.found /\ t.mine[like] = ~t.found
      BY <1>2, <2>1 DEF WritesOK
    <3> HIDE DEF v
    <3> QED BY <2>5, <2>6, <3>1, <3>2 DEF WritesOK, Held
  <2>8. FoundOK(s, db)
    BY <2>6 DEF FoundOK
  <2> QED BY <1>2, <2>3, <2>7, <2>8, WriteOnward
<1>12. CASE RemoveCount(c)
  <2> DEFINE r == Stats(t.user)
             v == [See(c)[r] EXCEPT !.posted = @ - 1]
             next == [pc |-> "removePosts"]
  <2>1. Write(c, r, v, next) /\ t.pc = "removeCount"
    BY <1>12 DEF RemoveCount, At
  <2>2. next.pc \in Statements[t.kind]
    BY <1>2, <2>1, CallKinds DEF Statements
  <2>3. Written(c, r, v, "removePosts")
    BY <1>2, <2>1, <2>2, WriteEffect
  <2>4. DOMAIN t.mine = {Review(t.user)} /\ r # Review(t.user)
    BY <1>2, <2>1, RowIds DEF WritesOK, Held
  <2>5. v = [db[r] EXCEPT !.posted = @ - 1]
    BY <1>2, <1>3, <2>4, RowTypes DEF Wrote
  <2>6. s.pc = "removePosts" /\ s.user = t.user
    BY <2>3 DEF Written, Further
  <2>7. WritesOK(s, db)
    <3>1. /\ DOMAIN s.mine = {Review(t.user), r} /\ s.mine[r] = v
          /\ s.mine[Review(t.user)] = t.mine[Review(t.user)]
      BY <2>3, <2>4 DEF Written, OneRow, Wrote
    <3>2. t.mine[Review(t.user)] = [db[Review(t.user)] EXCEPT !.live = FALSE]
      BY <1>2, <2>1 DEF WritesOK
    <3> HIDE DEF v
    <3> QED BY <2>5, <2>6, <3>1, <3>2 DEF WritesOK, Held
  <2>8. t.user \notin raced => FoundOK(s, db)
    BY <1>2, <2>1, <2>6 DEF FoundOK
  <2> QED BY <1>2, <2>3, <2>7, <2>8, WriteOnward
<1> QED BY <1>4, <1>6, <1>7, <1>8, <1>9, <1>10, <1>11, <1>12

\* The statements of an add and of a removal that write one row.
LEMMA LibraryOnward ==
  ASSUME ReviewsInv, NEW c \in Clients, JoinEntry(c) \/ JoinShow(c) \/ LeaveShow(c)
  PROVE  Onward(c)
<1> DEFINE t == tx[c]
           s == tx'[c]
           entry == UserShow(t.user)
<1>1. t.pc \in {"joinEntry", "joinShow", "leaveShow"}
  BY DEF JoinEntry, JoinShow, LeaveShow, At
<1>2. /\ CallTyped(t) /\ BaseOK(db) /\ t.pc # "idle" /\ WritesOK(t, db)
      /\ \A r \in Rows : See(c)[r] = IF Wrote(t, r) THEN t.mine[r] ELSE db[r]
      /\ t.user \in Users
  BY <1>1, InHand DEF CallOK, CallTyped, ReviewsInv
<1>3. CASE JoinEntry(c)
  <2> DEFINE v == IF t.rating = Absent THEN Stars(See(c)[entry]) ELSE t.rating
  <2>1. t.pc = "joinEntry"
    BY <1>3 DEF JoinEntry, At
  <2>2. PICK pc \in IF t.found THEN {"joinStats", "joinEnd"} ELSE {"joinShow"} :
          Write(c, entry, v, [pc |-> pc])
    BY <1>3 DEF JoinEntry
  <2> HIDE DEF v
  <2> DEFINE next == [pc |-> pc]
  <2>3. next.pc \in Statements[t.kind] /\ t.kind = "join"
    BY <1>2, <2>1, <2>2, CallKinds DEF Statements
  <2>4. Written(c, entry, v, pc)
    BY <1>2, <2>2, <2>3, WriteEffect
  <2>5. s.pc = pc /\ s.user = t.user /\ s.found = t.found
    BY <2>4 DEF Written, Further
  <2>6. DOMAIN t.mine = {}
    BY <1>2, <2>1 DEF WritesOK, Held
  <2>7. v \in StarRatings
    <3>1. See(c)[entry] = db[entry] /\ db[entry] \in StarRatings \cup {Absent}
      BY <1>2, <2>6, RowTypes DEF Wrote, BaseOK
    <3>2. Unrated \in StarRatings /\ t.rating \in StarRatings \cup {Absent}
      BY <1>2, <2>3 DEF CallTyped, StarRatings
    <3> QED BY <3>1, <3>2 DEF v, Stars
  <2>8. DOMAIN s.mine = {entry} /\ s.mine[entry] = v
    BY <2>4, <2>6 DEF Written, OneRow, Wrote
  <2>9. WritesOK(s, db)
    BY <2>2, <2>5, <2>7, <2>8 DEF WritesOK, Held
  <2>10. FoundOK(s, db)
    BY <2>2, <2>5 DEF FoundOK
  <2> QED BY <1>2, <2>4, <2>9, <2>10, WriteOnward
<1>4. CASE JoinShow(c)
  <2> DEFINE next == [pc |-> "joinStats"]
             v == See(c)[Show]
  <2>1. Write(c, Show, v, next) /\ t.pc = "joinShow"
    BY <1>4 DEF JoinShow, At
  <2>2. next.pc \in Statements[t.kind]
    BY <1>2, <2>1, CallKinds DEF Statements
  <2>3. Written(c, Show, v, "joinStats")
    BY <1>2, <2>1, <2>2, WriteEffect
  <2>4. /\ DOMAIN t.mine = {entry} /\ Show # entry /\ t.mine[entry] \in StarRatings /\ ~t.found
    BY <1>2, <2>1, RowIds DEF WritesOK, Held
  <2>5. v = db[Show]
    BY <1>2, <2>4, RowTypes DEF Wrote
  <2>6. s.pc = "joinStats" /\ s.user = t.user /\ s.found = t.found
    BY <2>3 DEF Written, Further
  <2>7. DOMAIN s.mine = {entry, Show} /\ s.mine[Show] = v /\ s.mine[entry] = t.mine[entry]
    BY <2>3, <2>4 DEF Written, OneRow, Wrote
  <2> HIDE DEF v
  <2>8. WritesOK(s, db)
    BY <2>4, <2>5, <2>6, <2>7 DEF WritesOK, Held
  <2>9. FoundOK(s, db)
    BY <2>6 DEF FoundOK
  <2> QED BY <1>2, <2>3, <2>8, <2>9, WriteOnward
<1>5. CASE LeaveShow(c)
  <2> DEFINE next == [pc |-> "leaveStats"]
             v == See(c)[Show]
  <2>1. Write(c, Show, v, next) /\ t.pc = "leaveShow"
    BY <1>5 DEF LeaveShow, At
  <2>2. next.pc \in Statements[t.kind]
    BY <1>2, <2>1, CallKinds DEF Statements
  <2>3. Written(c, Show, v, "leaveStats")
    BY <1>2, <2>1, <2>2, WriteEffect
  <2>4. /\ DOMAIN t.mine = {entry} \cup Erased(t) /\ Show # entry /\ Show \notin Erased(t)
        /\ t.mine[entry] = Absent /\ \A r \in Erased(t) : t.mine[r] = Nobody
    BY <1>2, <2>1, RowIds DEF WritesOK, Held, Erased
  <2>5. v = db[Show]
    BY <1>2, <2>4, RowTypes DEF Wrote
  <2>6. s.pc = "leaveStats" /\ s.user = t.user
    BY <2>3 DEF Written, Further
  <2>7. /\ DOMAIN s.mine = DOMAIN t.mine \cup {Show} /\ s.mine[Show] = v
        /\ \A r \in DOMAIN t.mine : r # Show => s.mine[r] = t.mine[r]
    BY <2>3 DEF Written, OneRow, Wrote
  <2>8. Erased(s) = Erased(t)
    BY <2>7, RowIds DEF Erased
  <2> HIDE DEF v
  <2>9. WritesOK(s, db)
    BY <2>4, <2>5, <2>6, <2>7, <2>8 DEF WritesOK, Held
  <2>10. FoundOK(s, db)
    BY <2>6 DEF FoundOK
  <2> QED BY <1>2, <2>3, <2>9, <2>10, WriteOnward
<1> QED BY <1>3, <1>4, <1>5

\* The announcements of a removal are erased by one statement.
LEMMA LeavePostsOnward ==
  ASSUME ReviewsInv, NEW c \in Clients, LeavePosts(c)
  PROVE  Onward(c)
<1> DEFINE t == tx[c]
           s == tx'[c]
           entry == UserShow(t.user)
           posts == AnnouncedBy(c, t.user)
           erased == [r \in posts |-> Nobody]
           mine == Over(erased, t.mine)
           next == [pc |-> "leaveShow", mine |-> mine]
<1>1. /\ t.pc = "leavePosts" /\ \A r \in posts : Free(c, r)
      /\ Advance(c, next) /\ UNCHANGED <<calls, raced, strayed>>
  BY DEF LeavePosts, At, Read, History
<1>2. /\ t # Idle /\ CallOK(t, db) /\ CallTyped(t) /\ WritesOK(t, db)
      /\ tx = [d \in Clients |-> tx[d]] /\ t.kind = "leave"
  BY <1>1, InHand, CallKinds DEF CallOK
<1>3. DOMAIN t.mine = {entry} /\ t.mine[entry] = Absent
  BY <1>1, <1>2 DEF WritesOK, Held
<1>4. posts \subseteq {Posted(n) : n \in CallIds}
  BY DEF AnnouncedBy
<1> HIDE DEF posts
<1>5. /\ DOMAIN mine = posts \cup {entry} /\ mine[entry] = Absent
      /\ \A r \in posts : mine[r] = Nobody
  <2>1. DOMAIN erased = posts /\ \A r \in posts : erased[r] = Nobody
    OBVIOUS
  <2>2. entry \notin posts
    BY <1>4, RowIds
  <2> DEFINE before == t.mine
  <2>3. DOMAIN before = {entry} /\ before[entry] = Absent
    BY <1>3
  <2> HIDE DEF erased, before, entry
  <2>4. /\ DOMAIN Over(erased, before) = DOMAIN erased \cup DOMAIN before
        /\ \A r \in DOMAIN erased : Over(erased, before)[r] = erased[r]
        /\ \A r \in DOMAIN before : r \notin DOMAIN erased => Over(erased, before)[r] = before[r]
    BY OverTypes
  <2>5. mine = Over(erased, before)
    BY DEF before
  <2> QED BY <2>1, <2>2, <2>3, <2>4, <2>5
<1> HIDE DEF mine
<1>6. Others(c) /\ db' = db /\ s = Over(next, t)
  <2>1. tx' = [tx EXCEPT ![c] = Over(next, t)] /\ db' = db
    BY <1>1 DEF Advance
  <2> HIDE DEF next
  <2> QED BY <1>2, <2>1 DEF Others
<1>7. /\ DOMAIN s = Fields /\ s.pc = "leaveShow" /\ s.mine = mine
      /\ s.kind = t.kind /\ s.user = t.user /\ s.author = t.author /\ s.rating = t.rating
      /\ s.id = t.id /\ s.found = t.found /\ s.previous = t.previous
  <2>1. DOMAIN t = Fields
    BY <1>2 DEF CallTyped
  <2>2. DOMAIN next = {"pc", "mine"} /\ next.pc = "leaveShow" /\ next.mine = mine
    OBVIOUS
  <2> HIDE DEF next, t, s
  <2>3. /\ DOMAIN Over(next, t) = DOMAIN next \cup DOMAIN t
        /\ \A f \in DOMAIN next : Over(next, t)[f] = next[f]
        /\ \A f \in DOMAIN t : f \notin DOMAIN next => Over(next, t)[f] = t[f]
    BY OverTypes
  <2> QED BY <1>6, <2>1, <2>2, <2>3 DEF Fields
<1> HIDE DEF next, s
<1>8. CallTyped(s)
  BY <1>2, <1>7 DEF CallTyped, Statements
<1>9. Erased(s) = posts
  BY <1>4, <1>5, <1>7, RowIds DEF Erased
<1>10. WritesOK(s, db) /\ FoundOK(s, db)
  BY <1>5, <1>7, <1>9 DEF WritesOK, FoundOK, Held
<1>11. CallOK(s, db)
  BY <1>2, <1>7, <1>8, <1>10 DEF CallOK
<1>12. \A r \in DOMAIN s.mine : Wrote(t, r) \/ Free(c, r)
  BY <1>1, <1>3, <1>5, <1>7 DEF Wrote
<1> QED BY <1>1, <1>2, <1>6, <1>7, <1>10, <1>11, <1>12 DEF Onward, s, t

LEMMA RollbackOnward ==
  ASSUME ReviewsInv, NEW c \in Clients, Rollback(c)
  PROVE  Onward(c)
BY ThrowOnward DEF Rollback

\* A call begun: its number is new, and a user who has two of their own under
\* way has raced from now on.
LEMMA BeginKeeps ==
  ASSUME ReviewsInv, NEW c \in Clients, Begin(c)
  PROVE  ReviewsInv'
<1>1. /\ tx[c].pc = "idle" /\ calls < MaxCalls /\ calls' = calls + 1
      /\ db' = db /\ strayed' = strayed
  BY DEF Begin
<1>2. tx[c] = Idle
  <2>1. ASSUME CallOK(tx[c], db) PROVE FALSE
    BY <1>1, <2>1 DEF CallOK, CallTyped, Kinds, Statements
  <2> QED BY <2>1 DEF ReviewsInv, CallsOK
<1>3. PICK kind \in Kinds, u \in Users, author \in Authors,
           rating \in Ratings \cup {Unrated, Absent} :
        /\ CASE kind = "rate" -> rating # Absent
             [] kind = "save" -> u = author /\ rating \in Ratings
             [] kind = "join" -> u = author
             [] kind = "like" -> u # author /\ rating = Unrated
             [] kind = "comment" -> rating = Unrated
             [] OTHER -> u = author /\ rating = Unrated
        /\ tx' = [tx EXCEPT ![c] = Call(kind, u, author, rating)]
        /\ raced' = IF Own(kind) /\ \E d \in Clients : tx[d].pc # "idle" /\ tx[d].user = u
                                                       /\ Own(tx[d].kind)
                    THEN raced \cup {u} ELSE raced
  BY DEF Begin
<1> DEFINE s == Call(kind, u, author, rating)
<1>4. kind \in {"save", "remove"} => u = author
  BY <1>3
<1>5. kind = "like" => u # author
  BY <1>3
<1>6. /\ tx = [d \in Clients |-> tx[d]]
      /\ raced \subseteq raced'
  BY <1>3 DEF ReviewsInv, CallsOK
<1>7. Others(c) /\ tx'[c] = s
  <2> HIDE DEF s
  <2>1. tx' = [tx EXCEPT ![c] = s]
    BY <1>3 DEF s
  <2> QED BY <1>6, <2>1 DEF Others
<1>8. /\ DOMAIN s = Fields
      /\ s.pc = kind /\ s.kind = kind /\ s.user = u /\ s.author = author
      /\ s.rating = rating /\ s.id = calls + 1 /\ s.found = FALSE /\ s.previous = Unrated
      /\ DOMAIN s.mine = {}
  BY DEF Call, Fields
<1> HIDE DEF s
<1>9. calls \in 0..MaxCalls /\ MaxCalls \in Nat /\ s.id \in CallIds
  BY <1>1, <1>8, ReviewsAssumption DEF ReviewsInv, IdsOK, CallIds
<1>10. CallTyped(s)
  <2>1. kind \in Statements[kind]
    BY <1>3 DEF Kinds, Statements
  <2>2. /\ s.rating \in StarRatings \cup (IF kind = "join" THEN {Absent} ELSE {})
        /\ s.previous \in StarRatings
    BY <1>3, <1>8 DEF StarRatings
  <2>3. s.found \in BOOLEAN
    BY <1>8, Zenon
  <2> QED BY <1>3, <1>4, <1>5, <1>8, <2>1, <2>2, <2>3 DEF CallTyped
<1>11. WritesOK(s, db) /\ FoundOK(s, db)
  <2>1. s.pc \in Kinds
    BY <1>3, <1>8
  <2>2. Held(s) = {}
    BY <2>1 DEF Held, Kinds
  <2> QED BY <1>8, <2>1, <2>2 DEF WritesOK, FoundOK, Kinds
<1>12. CallOK(s, db)
  <2>1. db[Comment(s.id)] = Nobody
    BY <1>1, <1>8, <1>9 DEF ReviewsInv, IdsOK
  <2> QED BY <1>10, <1>11, <2>1 DEF CallOK
<1>13. CallsOK'
  <2>1. \A d \in Clients : tx'[d] = IF d = c THEN s ELSE tx[d]
    BY <1>7 DEF Others
  <2>2. /\ \A d \in Clients : tx[d] = Idle \/ CallOK(tx[d], db)
        /\ \A d \in Clients : tx[d] # Idle /\ tx[d].user \notin raced => FoundOK(tx[d], db)
    BY DEF ReviewsInv, CallsOK
  <2>3. \A d \in Clients : tx'[d] = Idle \/ CallOK(tx'[d], db)
    BY <1>12, <2>1, <2>2
  <2>4. \A d \in Clients : tx'[d] # Idle /\ tx'[d].user \notin raced' => FoundOK(tx'[d], db)
    BY <1>6, <1>11, <2>1, <2>2
  <2> QED BY <1>1, <1>7, <2>3, <2>4 DEF CallsOK, Others
<1>14. Locked'
  <2>1. Locked /\ DOMAIN tx'[c].mine = {}
    BY <1>7, <1>8 DEF ReviewsInv
  <2> QED BY <1>7, <2>1, LockedKept
<1>15. IdsOK'
  <2>1. /\ \A n \in CallIds : n > calls => db[Comment(n)] = Nobody
        /\ \A d \in Clients : tx[d] # Idle => tx[d].id \in 1..calls
        /\ \A d, e \in Clients :
             tx[d] # Idle /\ tx[e] # Idle /\ tx[d].id = tx[e].id => d = e
    BY DEF ReviewsInv, IdsOK
  <2>2. \A d \in Clients \ {c} : tx'[d] = tx[d]
    BY <1>7 DEF Others
  <2>3. \A d \in Clients : tx'[d] # Idle => tx'[d].id \in 1..calls'
    BY <1>1, <1>7, <1>8, <1>9, <2>1, <2>2
  <2>4. ASSUME NEW d \in Clients, NEW e \in Clients, tx'[d] # Idle, tx'[e] # Idle,
               tx'[d].id = tx'[e].id
        PROVE  d = e
    <3>1. ASSUME NEW f \in Clients \ {c}, tx'[f] # Idle PROVE tx'[f].id # calls + 1
      BY <1>9, <2>1, <2>2, <3>1
    <3>2. tx'[c].id = calls + 1
      BY <1>7, <1>8
    <3> QED BY <2>1, <2>2, <2>4, <3>1, <3>2
  <2>5. \A n \in CallIds : n > calls' => db'[Comment(n)] = Nobody
    BY <1>1, <1>9, <2>1 DEF CallIds
  <2>6. calls' \in 0..MaxCalls
    BY <1>1, <1>9
  <2> QED BY <2>3, <2>4, <2>5, <2>6 DEF IdsOK
<1>16. Alone'
  <2>1. Alone
    BY DEF ReviewsInv
  <2>2. \A d \in Clients \ {c} : tx'[d] = tx[d]
    BY <1>7 DEF Others
  <2>3. ASSUME NEW d \in Clients \ {c}, tx[d] # Idle, Own(tx[d].kind), tx[d].user = u, Own(kind)
        PROVE  u \in raced'
    <3>1. CallOK(tx[d], db)
      BY <2>3 DEF ReviewsInv, CallsOK
    <3>2. tx[d].pc # "idle"
      BY <3>1 DEF CallOK, CallTyped, Kinds, Statements
    <3> QED BY <1>3, <2>3, <3>2
  <2>4. ASSUME NEW d \in Clients, NEW e \in Clients, d # e, tx'[d] # Idle, tx'[e] # Idle,
               Own(tx'[d].kind), Own(tx'[e].kind), tx'[d].user = tx'[e].user
        PROVE  tx'[d].user \in raced'
    <3>1. CASE d = c
      BY <1>7, <1>8, <2>2, <2>3, <2>4, <3>1
    <3>2. CASE e = c
      BY <1>7, <1>8, <2>2, <2>3, <2>4, <3>2
    <3>3. CASE d # c /\ e # c
      BY <1>6, <2>1, <2>2, <2>4, <3>3 DEF Alone
    <3> QED BY <3>1, <3>2, <3>3
  <2> QED BY <2>4 DEF Alone
<1>17. CountersHold' /\ PostedOnce'
  <2>1. \A v : Likers(v)' = Likers(v) /\ CommentsOn(v)' = CommentsOn(v)
               /\ Announced(v)' = Announced(v)
    BY <1>1 DEF Likers, CommentsOn, Announced
  <2> QED BY <1>1, <1>6, <2>1 DEF CountersHold, CountersOf, PostedOnce, ReviewsInv
<1>18. IsFiniteSet(HalfStars)' /\ AverageExact'
  <2>1. HalfStars' = HalfStars
    BY <1>1 DEF HalfStars
  <2>2. raced' = {} => raced = {}
    BY <1>6
  <2> QED BY <1>1, <2>1, <2>2 DEF AverageExact, ReviewsInv
<1>19. BaseOK(db)'
  BY <1>1 DEF ReviewsInv, BaseOK
<1> QED BY <1>13, <1>14, <1>15, <1>16, <1>17, <1>18, <1>19 DEF ReviewsInv

----------------------------------------------------------------------------
(* The statements that commit.                                             *)

\* What c sees and what it writes now are committed; no row that another call
\* has written is among them.
LEMMA CommitRows ==
  ASSUME ReviewsInv, NEW c \in Clients, tx[c].pc # "idle", NEW values,
         DOMAIN values \subseteq Rows, \A r \in DOMAIN values : Free(c, r),
         db' = Over(values, See(c))
  PROVE  /\ DOMAIN db' = Rows
         /\ \A r \in Rows : db'[r] = IF r \in DOMAIN values THEN values[r]
                                     ELSE IF Wrote(tx[c], r) THEN tx[c].mine[r] ELSE db[r]
         /\ \A d \in Clients \ {c} : \A r \in DOMAIN tx[d].mine :
              r \in Rows => db'[r] = db[r]
<1>1. DOMAIN tx[c].mine \subseteq DOMAIN db /\ DOMAIN db = Rows
  BY InHand
<1>2. /\ DOMAIN db' = Rows
      /\ \A r \in Rows : db'[r] = IF r \in DOMAIN values THEN values[r]
                                  ELSE IF Wrote(tx[c], r) THEN tx[c].mine[r] ELSE db[r]
  BY <1>1, OverSeen
<1>3. ASSUME NEW d \in Clients \ {c}, NEW r \in DOMAIN tx[d].mine
      PROVE  r \notin DOMAIN values /\ ~Wrote(tx[c], r)
  BY <1>3 DEF Free, Wrote, ReviewsInv, Locked
<1> QED BY <1>2, <1>3

\* What a commit of c may do to the rows other calls depend on, and what is
\* left of c's own call: none, or a save that goes on to rate.
Committed(c) ==
  /\ tx[c] # Idle /\ Others(c) /\ UNCHANGED <<calls, raced>>
  /\ tx'[c] # Idle =>
       /\ Further(tx[c], tx'[c], "rate") /\ DOMAIN tx'[c].mine = {}
       /\ tx[c].kind = "save"
  /\ BaseOK(db')
  /\ \A d \in Clients \ {c} : \A r \in DOMAIN tx[d].mine : r \in Rows => db'[r] = db[r]
  /\ \A n \in CallIds : n # tx[c].id => db'[Comment(n)] = db[Comment(n)]
  /\ \A u \in Users :
       ~(u = tx[c].user /\ Own(tx[c].kind)) =>
         db'[Review(u)].live = db[Review(u)].live /\ db'[UserShow(u)] = db[UserShow(u)]

LEMMA CommitKeepsIds ==
  ASSUME ReviewsInv, NEW c \in Clients, Committed(c)
  PROVE  IdsOK' /\ Alone' /\ Locked'
<1>1. IdsOK /\ Alone /\ Locked /\ Others(c) /\ tx[c] # Idle
      /\ calls' = calls /\ raced' = raced
  BY DEF ReviewsInv, Committed
<1>2. \A d \in Clients : tx'[d] # Idle => /\ tx[d] # Idle /\ tx'[d].id = tx[d].id
                                        /\ tx'[d].user = tx[d].user
                                        /\ tx'[d].kind = tx[d].kind
  BY DEF Committed, Others, Further
<1>3. \A n \in CallIds : n > calls => db'[Comment(n)] = Nobody
  <2>1. tx[c].id \in 1..calls /\ calls \in 0..MaxCalls
    BY <1>1 DEF IdsOK
  <2>2. ASSUME NEW n \in CallIds, n > calls PROVE n # tx[c].id
    BY <2>1, <2>2, ReviewsAssumption DEF CallIds
  <2> QED BY <1>1, <2>2 DEF IdsOK, Committed
<1>4. IdsOK'
  BY <1>1, <1>2, <1>3 DEF IdsOK
<1>5. Alone'
  BY <1>1, <1>2 DEF Alone
<1>6. Locked'
  <2>1. DOMAIN tx'[c].mine = {}
    BY NothingWritten DEF Committed
  <2> QED BY <1>1, <2>1, LockedKept
<1> QED BY <1>4, <1>5, <1>6

LEMMA CommitKeepsCalls ==
  ASSUME ReviewsInv, NEW c \in Clients, Committed(c)
  PROVE  CallsOK'
<1>1. /\ Others(c) /\ tx[c] # Idle /\ calls' = calls /\ raced' = raced
      /\ IdsOK /\ Alone /\ CallsOK
  BY DEF ReviewsInv, Committed
<1>2. ASSUME NEW d \in Clients \ {c}, tx[d] # Idle
      PROVE  CallOK(tx[d], db') /\ (tx[d].user \notin raced => FoundOK(tx[d], db'))
  <2> DEFINE t == tx[d]
  <2>1. CallOK(t, db) /\ (t.user \notin raced => FoundOK(t, db))
    BY <1>1, <1>2 DEF CallsOK
  <2>2. CallTyped(t) /\ WritesOK(t, db) /\ t.user \in Users
    BY <2>1 DEF CallOK, CallTyped
  <2>3. \A r \in Held(t) : db'[r] = db[r]
    <3>1. Held(t) \subseteq Rows /\ DOMAIN t.mine = Held(t)
      BY <2>2, HeldRows DEF WritesOK
    <3> QED BY <3>1 DEF Committed
  <2>4. WritesOK(t, db')
    <3> HIDE DEF t
    <3>1. CASE t.pc \in {"savePost", "removeCount", "removePosts"}
      <4>1. /\ db'[Review(t.user)] = db[Review(t.user)]
            /\ t.pc = "removePosts" => db'[Stats(t.user)] = db[Stats(t.user)]
        BY <2>3, <3>1 DEF Held
      <4> QED BY <2>2, <3>1, <4>1 DEF WritesOK
    <3>2. CASE t.pc \in {"joinStats", "leaveStats"}
      <4>1. t.pc = "leaveStats" \/ ~t.found => db'[Show] = db[Show]
        BY <2>3, <3>2 DEF Held
      <4> QED BY <2>2, <3>2, <4>1 DEF WritesOK
    <3>3. CASE t.pc \in {"likeCount", "likeStats"}
      <4>1. /\ db'[Like(<<t.user, t.author>>)] = db[Like(<<t.user, t.author>>)]
            /\ t.pc = "likeStats" => db'[Review(t.author)] = db[Review(t.author)]
        BY <2>3, <3>3 DEF Held
      <4> QED BY <2>2, <3>3, <4>1 DEF WritesOK
    <3>4. CASE t.pc \notin {"savePost", "removeCount", "removePosts", "joinStats", "leaveStats",
                            "likeCount", "likeStats"}
      BY <2>2, <3>4 DEF WritesOK
    <3> QED BY <3>1, <3>2, <3>3, <3>4
  <2>5. t.kind = "comment" => db'[Comment(t.id)] = Nobody
    <3>1. t.id # tx[c].id /\ t.id \in CallIds
      <4>1. t.id \in 1..calls /\ calls \in 0..MaxCalls
        BY <1>1, <1>2 DEF IdsOK
      <4> QED BY <1>1, <1>2, <4>1, ReviewsAssumption DEF IdsOK, CallIds
    <3>2. db'[Comment(t.id)] = db[Comment(t.id)]
      BY <3>1 DEF Committed
    <3> QED BY <2>1, <3>2 DEF CallOK
  <2>6. ASSUME t.user \notin raced PROVE FoundOK(t, db')
    <3>1. FoundOK(t, db)
      BY <2>1, <2>6
    <3>2. CASE Own(t.kind)
      <4>1. ~(t.user = tx[c].user /\ Own(tx[c].kind))
        BY <1>1, <1>2, <2>6, <3>2 DEF Alone
      <4>2. /\ db'[Review(t.user)].live = db[Review(t.user)].live
            /\ db'[UserShow(t.user)] = db[UserShow(t.user)]
        BY <2>2, <4>1 DEF Committed
      <4> HIDE DEF t
      <4> QED BY <3>1, <4>2 DEF FoundOK
    <3>3. CASE ~Own(t.kind)
      <4>1. t.pc \notin {"saveUpsert", "savePost", "removeMark", "removeCount", "removePosts",
                         "rateEntry", "rateShow"}
        BY <2>2, <3>3, CallKinds DEF Own
      <4> HIDE DEF t
      <4> QED BY <4>1 DEF FoundOK
    <3> QED BY <3>2, <3>3
  <2> QED BY <2>2, <2>4, <2>5, <2>6 DEF CallOK
<1>3. ASSUME tx'[c] # Idle
      PROVE  CallOK(tx'[c], db') /\ FoundOK(tx'[c], db')
  <2> DEFINE s == tx'[c]
  <2>1. CallTyped(s) /\ s.pc = "rate" /\ s.kind = "save" /\ DOMAIN s.mine = {}
    BY <1>3 DEF Committed, Further
  <2> HIDE DEF s
  <2> QED BY <2>1 DEF CallOK, WritesOK, FoundOK, Held, s
<1>4. \A d \in Clients : d # c => tx'[d] = tx[d]
  BY <1>1 DEF Others
<1>5. \A d \in Clients : tx'[d] = Idle \/ CallOK(tx'[d], db')
  BY <1>2, <1>3, <1>4
<1>6. \A d \in Clients : tx'[d] # Idle /\ tx'[d].user \notin raced' => FoundOK(tx'[d], db')
  BY <1>1, <1>2, <1>3, <1>4
<1> QED BY <1>1, <1>5, <1>6 DEF CallsOK, Others

----------------------------------------------------------------------------
(* The properties, author by author, and what they rest on.                *)

PostedOf(u) ==
  /\ db[Stats(u)].posted = IF db[Review(u)].live THEN 1 ELSE 0
  /\ Cardinality(Announced(u)) <= db[Stats(u)].posted

Rated == {u \in Users : db[UserShow(u)] \notin {Absent, Unrated}}

LEMMA PropertiesOf ==
  /\ CountersHold <=> \A u \in Authors : CountersOf(u)
  /\ CountersHold' <=> \A u \in Authors : CountersOf(u)'
  /\ PostedOnce <=> \A u \in Authors \ raced : PostedOf(u)
  /\ PostedOnce' <=> \A u \in Authors \ raced' : PostedOf(u)'
BY DEF CountersHold, PostedOnce, CountersOf, PostedOf

LEMMA FiniteRows ==
  /\ IsFiniteSet(CallIds) /\ IsFiniteSet(Users)
  /\ \A u : IsFiniteSet(Likers(u)) /\ IsFiniteSet(CommentsOn(u)) /\ IsFiniteSet(Announced(u))
  /\ IsFiniteSet(Rated)
<1>1. IsFiniteSet(CallIds) /\ IsFiniteSet(Users)
  BY ReviewsAssumption, FS_Interval DEF CallIds
<1>2. ASSUME NEW u
      PROVE  IsFiniteSet(Likers(u)) /\ IsFiniteSet(CommentsOn(u)) /\ IsFiniteSet(Announced(u))
  <2>1. Likers(u) \in SUBSET Users /\ CommentsOn(u) \in SUBSET CallIds
        /\ Announced(u) \in SUBSET CallIds
    BY DEF Likers, CommentsOn, Announced
  <2> QED BY <1>1, <2>1, FS_Subset
<1>3. IsFiniteSet(Rated)
  <2>1. Rated \in SUBSET Users
    BY DEF Rated
  <2> QED BY <1>1, <2>1, FS_Subset
<1> QED BY <1>1, <1>2, <1>3

LEMMA CountersKept ==
  ASSUME NEW u, CountersOf(u),
         db'[Review(u)].likes = db[Review(u)].likes,
         db'[Review(u)].comments = db[Review(u)].comments,
         db'[Stats(u)].received = db[Stats(u)].received,
         \A v \in Users \ {u} : db'[Like(<<v, u>>)] = db[Like(<<v, u>>)],
         \A n \in CallIds : db'[Comment(n)] = u <=> db[Comment(n)] = u
  PROVE  CountersOf(u)'
<1>1. Likers(u)' = Likers(u) /\ CommentsOn(u)' = CommentsOn(u)
  BY DEF Likers, CommentsOn
<1> QED BY <1>1 DEF CountersOf

LEMMA PostedKept ==
  ASSUME NEW u, PostedOf(u),
         db'[Review(u)].live = db[Review(u)].live,
         db'[Stats(u)].posted = db[Stats(u)].posted,
         \A n \in CallIds : db'[Posted(n)] = u => db[Posted(n)] = u
  PROVE  PostedOf(u)'
<1>1. Announced(u)' \in SUBSET Announced(u)
  BY DEF Announced
<1>2. /\ Cardinality(Announced(u)') <= Cardinality(Announced(u))
      /\ Cardinality(Announced(u)') \in Nat /\ Cardinality(Announced(u)) \in Nat
  BY <1>1, FiniteRows, FS_Subset, FS_CardinalityType
<1>3. db[Stats(u)].posted \in Int
  BY DEF PostedOf
<1> DEFINE now == Cardinality(Announced(u)')
           before == Cardinality(Announced(u))
<1>4. Cardinality(Announced(u))' = now
  OBVIOUS
<1>5. now <= db[Stats(u)].posted
  <2>1. before <= db[Stats(u)].posted
    BY DEF PostedOf
  <2> HIDE DEF now, before
  <2>2. now <= before /\ now \in Nat /\ before \in Nat
    BY <1>2 DEF now, before
  <2> QED BY <1>3, <2>1, <2>2
<1> QED BY <1>4, <1>5 DEF PostedOf

LEMMA AverageKept ==
  ASSUME ReviewsInv, db'[Show] = db[Show], strayed' = strayed, raced' = raced,
         \A u \in Users : db'[UserShow(u)] = db[UserShow(u)]
  PROVE  IsFiniteSet(HalfStars)' /\ AverageExact'
<1>1. HalfStars' = HalfStars
  BY DEF HalfStars
<1>2. {u \in Users : db[UserShow(u)] \notin {Absent, Unrated}}'
        = {u \in Users : db[UserShow(u)] \notin {Absent, Unrated}}
  OBVIOUS
<1>3. IsFiniteSet(HalfStars) /\ AverageExact
  BY DEF ReviewsInv
<1> QED BY <1>1, <1>2, <1>3 DEF AverageExact

\* What one entry adds to the count and to the sum of the show's ratings.
Amount(rating) == IF rating \in {Absent, Unrated} THEN 0 ELSE rating
Counts(rating) == IF rating \in {Absent, Unrated} THEN 0 ELSE 1

LEMMA StarsOf ==
  ASSUME NEW u, NEW x \in StarRatings \cup {Absent}
  PROVE  /\ IsFiniteSet({u} \X (1..x)) /\ Cardinality({u} \X (1..x)) = Amount(x)
         /\ Amount(x) \in Nat /\ Counts(x) \in Nat
<1>1. x \in Int /\ (x \notin {Absent, Unrated} => x \in Nat /\ x > 0)
  BY ReviewsAssumption DEF StarRatings, Absent, Unrated
<1>2. IsFiniteSet(1..x) /\ Cardinality(1..x) = IF 1 > x THEN 0 ELSE x - 1 + 1
  BY <1>1, FS_Interval
<1>3. Cardinality(1..x) = Amount(x)
  BY <1>1, <1>2 DEF Amount, Absent, Unrated
<1>4. Amount(x) \in Nat /\ Counts(x) \in Nat
  BY <1>1 DEF Amount, Counts
<1>5. /\ IsFiniteSet({u} \X (1..x))
      /\ Cardinality({u} \X (1..x)) = Cardinality({u}) * Cardinality(1..x)
      /\ Cardinality({u}) = 1
  BY <1>2, FS_Singleton, FS_Product
<1>6. Cardinality({u} \X (1..x)) = 1 * Amount(x)
  BY <1>3, <1>5
<1> QED BY <1>4, <1>5, <1>6

\* One entry's rating changed: count and sum move by its share.
LEMMA OneEntry ==
  ASSUME IsFiniteSet(HalfStars), NEW u \in Users,
         db[UserShow(u)] \in StarRatings \cup {Absent}, db'[UserShow(u)] \in StarRatings \cup {Absent},
         \A v \in Users \ {u} : db'[UserShow(v)] = db[UserShow(v)]
  PROVE  /\ IsFiniteSet(HalfStars)'
         /\ Cardinality(HalfStars') =
              Cardinality(HalfStars) - Amount(db[UserShow(u)]) + Amount(db'[UserShow(u)])
         /\ Cardinality(Rated') =
              Cardinality(Rated) - Counts(db[UserShow(u)]) + Counts(db'[UserShow(u)])
         /\ Cardinality(HalfStars) \in Nat /\ Cardinality(Rated) \in Nat
<1> DEFINE x == db[UserShow(u)]
           y == db'[UserShow(u)]
           before == {u} \X (1..x)
           after == {u} \X (1..y)
           rest == UNION {{v} \X (1..db[UserShow(v)]) : v \in Users \ {u}}
<1>1. /\ IsFiniteSet(before) /\ Cardinality(before) = Amount(x)
      /\ IsFiniteSet(after) /\ Cardinality(after) = Amount(y)
      /\ Amount(x) \in Nat /\ Amount(y) \in Nat
  BY StarsOf
<1>2. HalfStars = rest \cup before
  BY DEF HalfStars
<1>3. HalfStars' = rest \cup after
  <2>1. rest = UNION {{v} \X (1..db'[UserShow(v)]) : v \in Users \ {u}}
    OBVIOUS
  <2> QED BY <2>1 DEF HalfStars
<1>4. rest \cap before = {} /\ rest \cap after = {}
  OBVIOUS
<1> HIDE DEF rest, before, after
<1>5. IsFiniteSet(rest)
  BY <1>2, FS_Subset
<1>6. /\ Cardinality(HalfStars) = Cardinality(rest) + Cardinality(before)
      /\ IsFiniteSet(HalfStars') /\ Cardinality(HalfStars') = Cardinality(rest) + Cardinality(after)
  <2>1. /\ Cardinality(rest \cup before) =
             Cardinality(rest) + Cardinality(before) - Cardinality(rest \cap before)
        /\ IsFiniteSet(rest \cup after)
        /\ Cardinality(rest \cup after) =
             Cardinality(rest) + Cardinality(after) - Cardinality(rest \cap after)
    BY <1>1, <1>5, FS_Union
  <2>2. Cardinality(rest \cap before) = 0 /\ Cardinality(rest \cap after) = 0
    BY <1>4, FS_EmptySet
  <2>3. Cardinality(rest) \in Nat /\ Cardinality(before) \in Nat /\ Cardinality(after) \in Nat
    BY <1>1, <1>5, FS_CardinalityType
  <2> QED BY <1>2, <1>3, <2>1, <2>2, <2>3
<1>7. Cardinality(HalfStars') = Cardinality(HalfStars) - Amount(x) + Amount(y)
      /\ Cardinality(HalfStars) \in Nat
  <2>1. Cardinality(rest) \in Nat
    BY <1>5, FS_CardinalityType
  <2> HIDE DEF x, y
  <2> QED BY <1>1, <1>6, <2>1
<1> DEFINE others == Rated \ {u}
<1>8. IsFiniteSet(others) /\ Cardinality(others) \in Nat
  <2>1. others \in SUBSET Rated
    OBVIOUS
  <2> QED BY <2>1, FiniteRows, FS_Subset, FS_CardinalityType
<1>9. Rated = (IF Counts(x) = 1 THEN others \cup {u} ELSE others)
      /\ Rated' = (IF Counts(y) = 1 THEN others \cup {u} ELSE others)
  BY DEF Rated, Counts
<1>10. Cardinality(others \cup {u}) = Cardinality(others) + 1
  <2>1. u \notin others
    OBVIOUS
  <2> HIDE DEF others
  <2> QED BY <1>8, <2>1, FS_AddElement
<1>11. Cardinality(Rated) = Cardinality(others) + Counts(x)
       /\ Cardinality(Rated') = Cardinality(others) + Counts(y)
  <2>1. Counts(x) \in {0, 1} /\ Counts(y) \in {0, 1}
    BY DEF Counts
  <2> HIDE DEF others, x, y
  <2> QED BY <1>8, <1>9, <1>10, <2>1
<1>12. /\ Cardinality(Rated') = Cardinality(Rated) - Counts(x) + Counts(y)
       /\ Cardinality(Rated) \in Nat
  <2>1. Counts(x) \in {0, 1} /\ Counts(y) \in {0, 1}
    BY DEF Counts
  <2> HIDE DEF others, x, y
  <2> QED BY <1>8, <1>11, <2>1
<1> QED BY <1>6, <1>7, <1>12

LEMMA AverageOf ==
  /\ AverageExact <=> (raced = {} /\ strayed = {} =>
       /\ db[Show].ratingCount = Cardinality(Rated)
       /\ db[Show].ratingSum = Cardinality(HalfStars))
  /\ AverageExact' <=> (raced' = {} /\ strayed' = {} =>
       /\ db'[Show].ratingCount = Cardinality(Rated')
       /\ db'[Show].ratingSum = Cardinality(HalfStars'))
BY DEF AverageExact, Rated

LEMMA CommitKeeps ==
  ASSUME ReviewsInv, NEW c \in Clients, Committed(c),
         \A u \in Authors : CountersOf(u)', \A u \in Authors \ raced : PostedOf(u)',
         IsFiniteSet(HalfStars)', AverageExact'
  PROVE  ReviewsInv'
<1>1. BaseOK(db)' /\ raced' = raced
  BY DEF Committed, BaseOK
<1> QED BY <1>1, CommitKeepsIds, CommitKeepsCalls, PropertiesOf DEF ReviewsInv

LEMMA InHandCommit ==
  ASSUME ReviewsInv, NEW c \in Clients, tx[c].pc # "idle"
  PROVE  /\ tx[c] # Idle /\ CallTyped(tx[c]) /\ WritesOK(tx[c], db) /\ BaseOK(db)
         /\ tx[c].user \notin raced => FoundOK(tx[c], db)
         /\ tx[c].kind = "comment" => db[Comment(tx[c].id)] = Nobody
         /\ tx[c].user \in Users /\ tx[c].author \in Authors /\ Authors \subseteq Users
         /\ tx[c].id \in CallIds
         /\ \A r \in Rows : See(c)[r] = IF Wrote(tx[c], r) THEN tx[c].mine[r] ELSE db[r]
         /\ \A u \in Authors : CountersOf(u)
         /\ \A u \in Authors \ raced : PostedOf(u)
<1>1. tx[c].id \in CallIds
  <2>1. tx[c].id \in 1..calls /\ calls \in 0..MaxCalls
    BY InHand DEF ReviewsInv, IdsOK
  <2> QED BY <2>1, ReviewsAssumption DEF CallIds
<1> QED BY <1>1, InHand, PropertiesOf, ReviewsAssumption DEF CallOK, CallTyped, ReviewsInv

\* The rows after the last statement of a call.
LEMMA FinishRows ==
  ASSUME ReviewsInv, NEW c \in Clients, tx[c].pc # "idle", NEW values,
         DOMAIN values \subseteq Rows, Finish(c, values)
  PROVE  /\ Others(c) /\ tx'[c] = Idle /\ DOMAIN db' = Rows
         /\ \A r \in Rows : db'[r] = IF r \in DOMAIN values THEN values[r]
                                     ELSE IF Wrote(tx[c], r) THEN tx[c].mine[r] ELSE db[r]
         /\ \A d \in Clients \ {c} : \A r \in DOMAIN tx[d].mine : r \in Rows => db'[r] = db[r]
<1>1. tx = [d \in Clients |-> tx[d]]
  BY InHand
<1>2. /\ Others(c) /\ tx'[c] = Idle /\ db' = Over(values, See(c))
      /\ \A r \in DOMAIN values : Free(c, r)
  BY <1>1, FinishEffect
<1> QED BY <1>2, CommitRows

LEMMA RateShowKeeps ==
  ASSUME ReviewsInv, NEW c \in Clients, RateShow(c)
  PROVE  ReviewsInv'
<1> DEFINE t == tx[c]
           u == t.user
           show == [ratingSum |-> See(c)[Show].ratingSum + t.rating - t.previous,
                    ratingCount |-> See(c)[Show].ratingCount + One(t.rating) - One(t.previous)]
           values == [r \in {Show} |-> show]
<1>1. t.pc = "rateShow" /\ Finish(c, values) /\ UNCHANGED <<calls, raced, strayed>>
  BY DEF RateShow, At, Commit, History
<1>2. /\ t # Idle /\ CallTyped(t) /\ WritesOK(t, db) /\ BaseOK(db)
      /\ u \notin raced => FoundOK(t, db)
      /\ u \in Users /\ Authors \subseteq Users
      /\ \A v \in Authors : CountersOf(v)
      /\ \A v \in Authors \ raced : PostedOf(v)
      /\ \A r \in Rows : See(c)[r] = IF Wrote(t, r) THEN t.mine[r] ELSE db[r]
  BY <1>1, InHandCommit
<1>3. /\ \A r : Wrote(t, r) <=> r = UserShow(u)
      /\ t.mine[UserShow(u)] = t.rating
  BY <1>1, <1>2 DEF WritesOK, Held, Wrote
<1>4. DOMAIN values = {Show} /\ values[Show] = show
  OBVIOUS
<1> HIDE DEF show, values
<1>5. /\ Others(c) /\ tx'[c] = Idle /\ DOMAIN db' = Rows
      /\ \A r \in Rows : db'[r] = IF r = Show THEN show
                                  ELSE IF Wrote(t, r) THEN t.mine[r] ELSE db[r]
      /\ \A d \in Clients \ {c} : \A r \in DOMAIN tx[d].mine : r \in Rows => db'[r] = db[r]
  <2>1. DOMAIN values \subseteq Rows
    BY <1>4, RowTypes
  <2> QED BY <1>1, <1>4, <2>1, FinishRows
<1>6. /\ db'[Show] = show /\ db'[UserShow(u)] = t.rating
      /\ \A r \in Rows : r # Show /\ r # UserShow(u) => db'[r] = db[r]
  BY <1>2, <1>3, <1>5, RowIds, RowTypes
<1>7. t.rating \in StarRatings /\ t.previous \in StarRatings /\ t.rating \in Int /\ t.previous \in Int
      /\ Own(t.kind)
  <2>1. StarRatings \subseteq Int
    BY ReviewsAssumption DEF StarRatings, Unrated
  <2>2. t.kind \in {"save", "rate"}
    BY <1>1, <1>2, CallKinds
  <2> QED BY <1>2, <2>1, <2>2 DEF CallTyped, Own
<1>8. /\ \A v \in Users : db'[Review(v)] = db[Review(v)] /\ db'[Stats(v)] = db[Stats(v)]
      /\ \A v \in Users \ {u} : db'[UserShow(v)] = db[UserShow(v)]
      /\ \A p \in Pairs : db'[Like(p)] = db[Like(p)]
      /\ \A n \in CallIds : db'[Comment(n)] = db[Comment(n)] /\ db'[Posted(n)] = db[Posted(n)]
  BY <1>6, RowIds, RowTypes
<1>9. /\ show \in [ratingSum : Int, ratingCount : Int]
      /\ show.ratingSum = db[Show].ratingSum + t.rating - t.previous
      /\ show.ratingCount = db[Show].ratingCount + One(t.rating) - One(t.previous)
      /\ One(t.rating) \in Int /\ One(t.previous) \in Int
      /\ db[Show].ratingSum \in Int /\ db[Show].ratingCount \in Int
  <2>1. See(c)[Show] = db[Show] /\ db[Show] \in [ratingSum : Int, ratingCount : Int]
    BY <1>2, <1>3, RowIds, RowTypes DEF BaseOK
  <2>2. One(t.rating) \in Int /\ One(t.previous) \in Int
    BY DEF One
  <2> QED BY <1>7, <2>1, <2>2 DEF show
<1>10. BaseOK(db')
  BY <1>2, <1>5, <1>6, <1>7, <1>8, <1>9 DEF BaseOK
<1>11. Committed(c)
  BY <1>1, <1>2, <1>5, <1>7, <1>8, <1>10 DEF Committed
<1>12. \A v \in Authors : CountersOf(v)'
  <2> SUFFICES ASSUME NEW v \in Authors PROVE CountersOf(v)'
    OBVIOUS
  <2>1. \A w \in Users \ {v} : <<w, v>> \in Pairs
    BY PairTypes
  <2> QED BY <1>2, <1>8, <2>1, CountersKept
<1>13. \A v \in Authors \ raced : PostedOf(v)'
  BY <1>2, <1>8, PostedKept
<1>14. IsFiniteSet(HalfStars)' /\ AverageExact'
  <2>1. db[UserShow(u)] \in StarRatings \cup {Absent} /\ db'[UserShow(u)] \in StarRatings \cup {Absent}
        /\ IsFiniteSet(HalfStars)
    BY <1>2, <1>6, <1>7 DEF BaseOK, ReviewsInv
  <2>2. /\ IsFiniteSet(HalfStars)'
        /\ Cardinality(HalfStars') =
             Cardinality(HalfStars) - Amount(db[UserShow(u)]) + Amount(db'[UserShow(u)])
        /\ Cardinality(Rated') =
             Cardinality(Rated) - Counts(db[UserShow(u)]) + Counts(db'[UserShow(u)])
        /\ Cardinality(HalfStars) \in Nat /\ Cardinality(Rated) \in Nat
    BY <1>2, <1>8, <2>1, OneEntry
  <2>3. AverageExact'
    <3>1. SUFFICES ASSUME raced' = {}, strayed' = {}
                   PROVE  /\ db'[Show].ratingCount = Cardinality(Rated')
                          /\ db'[Show].ratingSum = Cardinality(HalfStars')
      BY AverageOf
    <3>2. raced = {} /\ strayed = {}
      BY <1>1, <3>1
    <3>3. /\ db[Show].ratingCount = Cardinality(Rated)
          /\ db[Show].ratingSum = Cardinality(HalfStars)
      BY <3>2, AverageOf DEF ReviewsInv
    <3>4. db[UserShow(u)] = t.previous
      BY <1>1, <1>2, <3>2 DEF FoundOK
    <3>5. \A x \in StarRatings : Amount(x) = x /\ Counts(x) = One(x)
      BY ReviewsAssumption DEF Amount, Counts, One, StarRatings, Unrated, Absent
    <3>6. Cardinality(HalfStars') = Cardinality(HalfStars) - t.previous + t.rating
      BY <1>6, <1>7, <2>2, <3>4, <3>5
    <3>7. Cardinality(Rated') = Cardinality(Rated) - One(t.previous) + One(t.rating)
      BY <1>6, <1>7, <2>2, <3>4, <3>5
    <3>8. db'[Show].ratingCount = Cardinality(Rated')
      <4>1. db'[Show].ratingCount = db[Show].ratingCount + One(t.rating) - One(t.previous)
        BY <1>6, <1>9
      <4> QED BY <1>9, <2>2, <3>2, <3>3, <3>7, <4>1
    <3>9. db'[Show].ratingSum = Cardinality(HalfStars')
      <4>1. db'[Show].ratingSum = db[Show].ratingSum + t.rating - t.previous
        BY <1>6, <1>9
      <4> QED BY <1>7, <1>9, <2>2, <3>2, <3>3, <3>6, <4>1
    <3> QED BY <3>8, <3>9
  <2> QED BY <2>2, <2>3
<1> QED BY <1>1, <1>11, <1>12, <1>13, <1>14, CommitKeeps DEF ReviewsInv

\* An add or a removal leaves the show's sum and count, and the entry's rating
\* too, or the entry has strayed.
LEMMA EntryKeeps ==
  ASSUME ReviewsInv, NEW c \in Clients, NEW values,
         tx[c].pc \in {"joinStats", "joinEnd", "leaveStats"}, CommitEntry(c, values),
         DOMAIN values \subseteq {Stats(tx[c].user)},
         \A r \in DOMAIN values : values[r] = See(c)[r]
  PROVE  ReviewsInv'
<1> DEFINE t == tx[c]
           u == t.user
           x == db[UserShow(u)]
           y == t.mine[UserShow(u)]
<1>1. /\ Finish(c, values) /\ UNCHANGED <<calls, raced>>
      /\ strayed' = IF Stars(See(c)[UserShow(u)]) = Stars(x) THEN strayed ELSE strayed \cup {u}
  BY DEF CommitEntry
<1>2. /\ t # Idle /\ CallTyped(t) /\ WritesOK(t, db) /\ BaseOK(db)
      /\ u \in Users /\ Authors \subseteq Users
      /\ \A v \in Authors : CountersOf(v)
      /\ \A v \in Authors \ raced : PostedOf(v)
      /\ \A r \in Rows : See(c)[r] = IF Wrote(t, r) THEN t.mine[r] ELSE db[r]
  BY InHandCommit
<1>3. /\ UserShow(u) \in DOMAIN t.mine
      /\ DOMAIN t.mine \subseteq {UserShow(u), Show} \cup Erased(t)
      /\ Show \in DOMAIN t.mine => t.mine[Show] = db[Show]
      /\ y \in StarRatings \cup {Absent}
      /\ \A r \in Erased(t) : t.mine[r] = Nobody
  <2>1. CASE t.pc = "leaveStats"
    BY <1>2, <2>1 DEF WritesOK, Held
  <2>2. CASE t.pc \in {"joinStats", "joinEnd"}
    <3>1. DOMAIN t.mine \subseteq {UserShow(u), Show}
      BY <1>2, <2>2 DEF WritesOK, Held
    <3>2. Erased(t) = {}
      BY <3>1, RowIds DEF Erased
    <3> QED BY <1>2, <2>2, <3>1, <3>2, RowIds DEF WritesOK, Held
  <2> QED BY <2>1, <2>2
<1>4. Erased(t) \subseteq {Posted(n) : n \in CallIds}
  BY DEF Erased
<1>5. /\ DOMAIN values \subseteq Rows
      /\ \A r \in DOMAIN values : values[r] = db[r]
  BY <1>2, <1>3, <1>4, RowIds, RowTypes DEF Wrote
<1>6. /\ Others(c) /\ tx'[c] = Idle /\ DOMAIN db' = Rows
      /\ \A r \in Rows : db'[r] = IF r \in DOMAIN values THEN values[r]
                                  ELSE IF Wrote(t, r) THEN t.mine[r] ELSE db[r]
      /\ \A d \in Clients \ {c} : \A r \in DOMAIN tx[d].mine : r \in Rows => db'[r] = db[r]
  BY <1>1, <1>5, FinishRows
<1>7. /\ db'[UserShow(u)] = y /\ See(c)[UserShow(u)] = y
      /\ \A r \in Rows : r # UserShow(u) /\ r \notin Erased(t) => db'[r] = db[r]
      /\ \A r \in Erased(t) : db'[r] = Nobody
  <2>1. UserShow(u) \notin DOMAIN values /\ UserShow(u) \in Rows
    BY <1>2, RowIds, RowTypes
  <2>2. \A r \in Erased(t) : r \in Rows /\ r \in DOMAIN t.mine /\ r \notin DOMAIN values
    BY <1>4, RowIds, RowTypes DEF Erased
  <2> QED BY <1>2, <1>3, <1>5, <1>6, <2>1, <2>2 DEF Wrote
<1>8. /\ db'[Show] = db[Show]
      /\ \A v \in Users : db'[Review(v)] = db[Review(v)] /\ db'[Stats(v)] = db[Stats(v)]
      /\ \A v \in Users \ {u} : db'[UserShow(v)] = db[UserShow(v)]
      /\ \A p \in Pairs : db'[Like(p)] = db[Like(p)]
      /\ \A n \in CallIds : db'[Comment(n)] = db[Comment(n)]
      /\ \A n \in CallIds : db'[Posted(n)] \in {Nobody, db[Posted(n)]}
  BY <1>4, <1>7, RowIds, RowTypes
<1>9. Own(t.kind)
  BY <1>2, CallKinds DEF Own
<1>10. BaseOK(db')
  BY <1>2, <1>3, <1>6, <1>7, <1>8 DEF BaseOK
<1>11. Committed(c)
  BY <1>1, <1>2, <1>6, <1>8, <1>9, <1>10 DEF Committed
<1>12. \A v \in Authors : CountersOf(v)'
  BY <1>2, <1>8, PairTypes, CountersKept
<1>13. \A v \in Authors \ raced : PostedOf(v)'
  <2>1. Nobody \notin Users
    BY ReviewsAssumption DEF Nobody
  <2> QED BY <1>2, <1>8, <2>1, PostedKept
<1>14. IsFiniteSet(HalfStars)' /\ AverageExact'
  <2>1. x \in StarRatings \cup {Absent} /\ IsFiniteSet(HalfStars)
    BY <1>2 DEF BaseOK, ReviewsInv
  <2>2. /\ IsFiniteSet(HalfStars)'
        /\ Cardinality(HalfStars') = Cardinality(HalfStars) - Amount(x) + Amount(y)
        /\ Cardinality(Rated') = Cardinality(Rated) - Counts(x) + Counts(y)
        /\ Cardinality(HalfStars) \in Nat /\ Cardinality(Rated) \in Nat
    BY <1>2, <1>3, <1>7, <1>8, <2>1, OneEntry
  <2>3. ASSUME raced' = {}, strayed' = {}
        PROVE  /\ db'[Show].ratingCount = Cardinality(Rated')
               /\ db'[Show].ratingSum = Cardinality(HalfStars')
    <3>1. strayed = {} /\ Stars(y) = Stars(x)
      BY <1>1, <1>7, <2>3
    <3>2. Amount(y) = Amount(x) /\ Counts(y) = Counts(x)
      BY <3>1 DEF Stars, Amount, Counts, Unrated, Absent
    <3>3. Amount(x) \in Nat /\ Counts(x) \in Nat
      BY <2>1, StarsOf
    <3>4. db[Show].ratingCount = Cardinality(Rated) /\ db[Show].ratingSum = Cardinality(HalfStars)
      BY <1>1, <2>3, <3>1, AverageOf DEF ReviewsInv
    <3> HIDE DEF x, y
    <3> QED BY <1>8, <2>2, <3>2, <3>3, <3>4
  <2> QED BY <2>2, <2>3, AverageOf
<1> QED BY <1>11, <1>12, <1>13, <1>14, CommitKeeps

LEMMA LibraryKeeps ==
  ASSUME ReviewsInv, NEW c \in Clients, JoinStats(c) \/ JoinEnd(c) \/ LeaveStats(c)
  PROVE  ReviewsInv'
<1> DEFINE values == [r \in {Stats(tx[c].user)} |-> See(c)[r]]
<1>1. CASE JoinStats(c) \/ LeaveStats(c)
  <2>1. tx[c].pc \in {"joinStats", "leaveStats"} /\ CommitEntry(c, values)
    BY <1>1 DEF JoinStats, LeaveStats, At
  <2>2. DOMAIN values \subseteq {Stats(tx[c].user)} /\ \A r \in DOMAIN values : values[r] = See(c)[r]
    OBVIOUS
  <2> HIDE DEF values
  <2> QED BY <2>1, <2>2, EntryKeeps
<1>2. CASE JoinEnd(c)
  <2>1. tx[c].pc = "joinEnd" /\ CommitEntry(c, <<>>)
    BY <1>2 DEF JoinEnd, At
  <2>2. DOMAIN <<>> = {}
    OBVIOUS
  <2> QED BY <2>1, <2>2, EntryKeeps
<1> QED BY <1>1, <1>2

LEMMA RemovePostsKeeps ==
  ASSUME ReviewsInv, NEW c \in Clients, RemovePosts(c)
  PROVE  ReviewsInv'
<1> DEFINE t == tx[c]
           u == t.user
           stats == t.mine[Stats(u)]
           values == [r \in AnnouncedBy(c, u) |-> Nobody]
<1>1. t.pc = "removePosts" /\ Finish(c, values) /\ UNCHANGED <<calls, raced, strayed>>
  BY DEF RemovePosts, At, Commit, History
<1>2. /\ t # Idle /\ CallTyped(t) /\ WritesOK(t, db) /\ BaseOK(db)
      /\ u \notin raced => FoundOK(t, db)
      /\ u \in Users /\ Authors \subseteq Users
      /\ \A v \in Authors : CountersOf(v)
      /\ \A v \in Authors \ raced : PostedOf(v)
      /\ \A r \in Rows : See(c)[r] = IF Wrote(t, r) THEN t.mine[r] ELSE db[r]
  BY <1>1, InHandCommit
<1>3. /\ \A r : Wrote(t, r) <=> r \in {Review(u), Stats(u)}
      /\ stats = [db[Stats(u)] EXCEPT !.posted = @ - 1]
      /\ t.mine[Review(u)] = [db[Review(u)] EXCEPT !.live = FALSE]
  BY <1>1, <1>2 DEF WritesOK, Held, Wrote
<1>4. AnnouncedBy(c, u) = {Posted(n) : n \in {m \in CallIds : db[Posted(m)] = u}}
  <2>1. \A n \in CallIds : See(c)[Posted(n)] = db[Posted(n)]
    BY <1>2, <1>3, RowIds, RowTypes
  <2> QED BY <2>1 DEF AnnouncedBy
<1>5. /\ DOMAIN values = AnnouncedBy(c, u) /\ DOMAIN values \subseteq Rows
      /\ \A r \in AnnouncedBy(c, u) : values[r] = Nobody
  BY <1>2, <1>4, RowIds, RowTypes
<1>6. stats \in [posted : Int, received : Int] /\ stats.posted = db[Stats(u)].posted - 1
      /\ stats.received = db[Stats(u)].received
  <2>1. db[Stats(u)] \in [posted : Int, received : Int]
    BY <1>2 DEF BaseOK
  <2> HIDE DEF stats
  <2> QED BY <1>3, <2>1
<1> HIDE DEF values, stats
<1>7. /\ Others(c) /\ tx'[c] = Idle /\ DOMAIN db' = Rows
      /\ \A r \in Rows : db'[r] = IF r \in DOMAIN values THEN values[r]
                                  ELSE IF Wrote(t, r) THEN t.mine[r] ELSE db[r]
      /\ \A d \in Clients \ {c} : \A r \in DOMAIN tx[d].mine : r \in Rows => db'[r] = db[r]
  BY <1>1, <1>5, FinishRows
<1>8. /\ db'[Stats(u)] = stats
      /\ \A r \in AnnouncedBy(c, u) : db'[r] = Nobody
      /\ \A r \in Rows : r \notin {Review(u), Stats(u)} \cup AnnouncedBy(c, u) => db'[r] = db[r]
  <2>1. Stats(u) \in Rows /\ Stats(u) \notin DOMAIN values
    BY <1>2, <1>4, <1>5, RowIds, RowTypes
  <2>2. db'[Stats(u)] = stats
    BY <1>3, <1>7, <2>1 DEF stats
  <2> QED BY <1>2, <1>3, <1>5, <1>7, <2>2, RowTypes
<1>9. db'[Review(u)] = [db[Review(u)] EXCEPT !.live = FALSE]
  BY <1>2, <1>3, <1>4, <1>5, <1>7, RowIds, RowTypes
<1>10. /\ db'[Review(u)] \in [rating : StarRatings, live : BOOLEAN, likes : Int, comments : Int]
       /\ db'[Review(u)].live = FALSE
       /\ db'[Review(u)].likes = db[Review(u)].likes
       /\ db'[Review(u)].comments = db[Review(u)].comments
  <2>1. db[Review(u)] \in [rating : StarRatings, live : BOOLEAN, likes : Int, comments : Int]
    BY <1>2 DEF BaseOK
  <2> QED BY <1>9, <2>1
<1>11. /\ db'[Show] = db[Show]
       /\ \A v \in Users \ {u} : db'[Review(v)] = db[Review(v)] /\ db'[Stats(v)] = db[Stats(v)]
       /\ \A v \in Users : db'[UserShow(v)] = db[UserShow(v)]
       /\ \A p \in Pairs : db'[Like(p)] = db[Like(p)]
       /\ \A n \in CallIds : db'[Comment(n)] = db[Comment(n)]
  BY <1>4, <1>8, RowIds, RowTypes
<1>12. \A n \in CallIds : db'[Posted(n)] = IF db[Posted(n)] = u THEN Nobody ELSE db[Posted(n)]
  BY <1>4, <1>8, RowIds, RowTypes
<1>13. Own(t.kind)
  BY <1>1, <1>2, CallKinds DEF Own
<1>14. BaseOK(db')
  BY <1>2, <1>6, <1>7, <1>8, <1>10, <1>11 DEF BaseOK
<1>15. Committed(c)
  BY <1>1, <1>2, <1>7, <1>11, <1>13, <1>14 DEF Committed
<1>16. ASSUME NEW v \in Authors PROVE CountersOf(v)'
  <2>1. /\ db'[Review(v)].likes = db[Review(v)].likes
        /\ db'[Review(v)].comments = db[Review(v)].comments
        /\ db'[Stats(v)].received = db[Stats(v)].received
    BY <1>2, <1>6, <1>8, <1>10, <1>11
  <2> QED BY <1>2, <1>11, <2>1, PairTypes, CountersKept
<1>17. ASSUME NEW v \in Authors \ raced PROVE PostedOf(v)'
  <2>1. Nobody \notin Users /\ PostedOf(v) /\ v \in Users
    BY <1>2, ReviewsAssumption DEF Nobody
  <2>2. CASE v # u
    BY <1>11, <1>12, <2>1, <2>2, PostedKept
  <2>3. CASE v = u
    <3>1. db[Review(u)].live /\ db[Stats(u)].posted = 1
      BY <1>1, <1>2, <2>1, <2>3 DEF FoundOK, PostedOf
    <3>2. db'[Stats(u)].posted = 0
      BY <1>6, <1>8, <3>1
    <3>3. Announced(v)' = {}
      BY <1>2, <1>12, <2>1, <2>3 DEF Announced
    <3>4. Cardinality(Announced(v)') = 0
      BY <3>3, FS_EmptySet
    <3> QED BY <1>10, <2>3, <3>2, <3>4 DEF PostedOf
  <2> QED BY <2>2, <2>3
<1>18. IsFiniteSet(HalfStars)' /\ AverageExact'
  BY <1>1, <1>11, AverageKept
<1> QED BY <1>1, <1>15, <1>16, <1>17, <1>18, CommitKeeps DEF ReviewsInv

LEMMA CommentCountKeeps ==
  ASSUME ReviewsInv, NEW c \in Clients, CommentCount(c)
  PROVE  ReviewsInv'
<1> DEFINE t == tx[c]
           a == t.author
           review == [See(c)[Review(a)] EXCEPT !.comments = @ + 1]
           values == [r \in {Comment(t.id), Review(a)} |->
                        IF r = Review(a) THEN [See(c)[r] EXCEPT !.comments = @ + 1] ELSE a]
<1>1. t.pc = "commentCount" /\ Finish(c, values) /\ UNCHANGED <<calls, raced, strayed>>
  BY DEF CommentCount, At, Commit, History
<1>2. /\ t # Idle /\ CallTyped(t) /\ WritesOK(t, db) /\ BaseOK(db)
      /\ t.kind = "comment" => db[Comment(t.id)] = Nobody
      /\ a \in Users /\ a \in Authors /\ Authors \subseteq Users /\ t.id \in CallIds
      /\ \A v \in Authors : CountersOf(v)
      /\ \A v \in Authors \ raced : PostedOf(v)
      /\ \A r \in Rows : See(c)[r] = IF Wrote(t, r) THEN t.mine[r] ELSE db[r]
  BY <1>1, InHandCommit
<1>3. \A r : ~Wrote(t, r)
  BY <1>1, <1>2 DEF WritesOK, Held, Wrote
<1>4. /\ DOMAIN values = {Comment(t.id), Review(a)} /\ DOMAIN values \subseteq Rows
      /\ values[Review(a)] = review /\ values[Comment(t.id)] = a
  BY <1>2, RowIds, RowTypes
<1>5. /\ review \in [rating : StarRatings, live : BOOLEAN, likes : Int, comments : Int]
      /\ review.live = db[Review(a)].live /\ review.likes = db[Review(a)].likes
      /\ review.comments = db[Review(a)].comments + 1
  <2>1. /\ See(c)[Review(a)] = db[Review(a)]
        /\ db[Review(a)] \in [rating : StarRatings, live : BOOLEAN, likes : Int, comments : Int]
    BY <1>2, <1>3, RowTypes DEF BaseOK
  <2> QED BY <2>1
<1> HIDE DEF values, review
<1>6. /\ Others(c) /\ tx'[c] = Idle /\ DOMAIN db' = Rows
      /\ \A r \in Rows : db'[r] = IF r \in DOMAIN values THEN values[r]
                                  ELSE IF Wrote(t, r) THEN t.mine[r] ELSE db[r]
      /\ \A d \in Clients \ {c} : \A r \in DOMAIN tx[d].mine : r \in Rows => db'[r] = db[r]
  BY <1>1, <1>4, FinishRows
<1>7. /\ db'[Review(a)] = review /\ db'[Comment(t.id)] = a
      /\ \A r \in Rows : r \notin {Review(a), Comment(t.id)} => db'[r] = db[r]
  BY <1>2, <1>3, <1>4, <1>6, RowTypes
<1>8. /\ db'[Show] = db[Show]
      /\ \A v \in Users \ {a} : db'[Review(v)] = db[Review(v)]
      /\ \A v \in Users : db'[UserShow(v)] = db[UserShow(v)] /\ db'[Stats(v)] = db[Stats(v)]
      /\ \A p \in Pairs : db'[Like(p)] = db[Like(p)]
      /\ \A n \in CallIds : db'[Posted(n)] = db[Posted(n)]
      /\ \A n \in CallIds : n # t.id => db'[Comment(n)] = db[Comment(n)]
  <2>1. db'[Show] = db[Show]
    BY <1>7, RowIds, RowTypes
  <2>2. \A v \in Users : /\ v # a => db'[Review(v)] = db[Review(v)]
                         /\ db'[UserShow(v)] = db[UserShow(v)] /\ db'[Stats(v)] = db[Stats(v)]
    BY <1>7, RowIds, RowTypes
  <2>3. \A p \in Pairs : db'[Like(p)] = db[Like(p)]
    BY <1>7, RowIds, RowTypes
  <2>4. \A n \in CallIds : /\ db'[Posted(n)] = db[Posted(n)]
                           /\ n # t.id => db'[Comment(n)] = db[Comment(n)]
    BY <1>7, RowIds, RowTypes
  <2> QED BY <2>1, <2>2, <2>3, <2>4
<1>9. t.kind = "comment" /\ db[Comment(t.id)] = Nobody
  BY <1>1, <1>2, CallKinds
<1>10. BaseOK(db')
  BY <1>2, <1>5, <1>6, <1>7, <1>8 DEF BaseOK
<1>11. Committed(c)
  <2>1. \A v \in Users : /\ db'[Review(v)].live = db[Review(v)].live
                         /\ db'[UserShow(v)] = db[UserShow(v)]
    BY <1>5, <1>7, <1>8
  <2> QED BY <1>1, <1>2, <1>6, <1>8, <1>10, <2>1 DEF Committed
<1>12. Nobody \notin Users
  BY ReviewsAssumption DEF Nobody
<1>13. ASSUME NEW v \in Authors PROVE CountersOf(v)'
  <2>1. CASE v # a
    <3>1. \A n \in CallIds : db'[Comment(n)] = v <=> db[Comment(n)] = v
      BY <1>2, <1>7, <1>8, <1>9, <1>12, <2>1
    <3>2. v \in Users
      BY <1>2
    <3> QED BY <1>2, <1>8, <2>1, <3>1, <3>2, PairTypes, CountersKept
  <2>2. CASE v = a
    <3>1. CommentsOn(v)' = CommentsOn(v) \cup {t.id}
      BY <1>2, <1>7, <1>8, <2>2 DEF CommentsOn
    <3>2. t.id \notin CommentsOn(v)
      BY <1>2, <1>9, <1>12, <2>2 DEF CommentsOn
    <3>3. Cardinality(CommentsOn(v)') = Cardinality(CommentsOn(v)) + 1
      BY <3>1, <3>2, FiniteRows, FS_AddElement
    <3>4. Likers(v)' = Likers(v)
      BY <1>8, PairTypes DEF Likers
    <3> QED BY <1>2, <1>5, <1>7, <1>8, <2>2, <3>3, <3>4 DEF CountersOf
  <2> QED BY <2>1, <2>2
<1>14. ASSUME NEW v \in Authors \ raced PROVE PostedOf(v)'
  <2>1. db'[Review(v)].live = db[Review(v)].live /\ v \in Users
    BY <1>2, <1>5, <1>7, <1>8
  <2> QED BY <1>2, <1>8, <2>1, PostedKept
<1>15. IsFiniteSet(HalfStars)' /\ AverageExact'
  BY <1>1, <1>8, AverageKept
<1> QED BY <1>1, <1>11, <1>13, <1>14, <1>15, CommitKeeps DEF ReviewsInv

\* A like given or taken back moves the row, the review's counter and the
\* author's by one.
LEMMA LikeStatsKeeps ==
  ASSUME ReviewsInv, NEW c \in Clients, LikeStats(c)
  PROVE  ReviewsInv'
<1> DEFINE t == tx[c]
           u == t.user
           a == t.author
           p == <<u, a>>
           stats == [See(c)[Stats(a)] EXCEPT !.received = @ + Delta(c)]
           paid == IF stats.received <= Cap THEN {XpEvent(Pair(c))} ELSE {}
           rewards == IF t.found THEN {} ELSE paid \cup Evaluated(a, stats)
           values == [r \in {Stats(a)} \cup rewards |-> IF r = Stats(a) THEN stats ELSE TRUE]
<1>1. t.pc = "likeStats" /\ Finish(c, values) /\ UNCHANGED <<calls, raced, strayed>>
  BY DEF LikeStats, At, Commit, History
<1>2. /\ t # Idle /\ CallTyped(t) /\ WritesOK(t, db) /\ BaseOK(db)
      /\ u \in Users /\ a \in Users /\ a \in Authors /\ Authors \subseteq Users
      /\ \A v \in Authors : CountersOf(v)
      /\ \A v \in Authors \ raced : PostedOf(v)
      /\ \A r \in Rows : See(c)[r] = IF Wrote(t, r) THEN t.mine[r] ELSE db[r]
  BY <1>1, InHandCommit
<1>3. /\ \A r : Wrote(t, r) <=> r \in {Like(p), Review(a)}
      /\ t.mine[Review(a)] = [db[Review(a)] EXCEPT !.likes = @ + Step(t)]
      /\ t.mine[Like(p)] = ~t.found /\ db[Like(p)] = t.found
  BY <1>1, <1>2 DEF WritesOK, Held, Wrote
<1>4. /\ t.kind = "like" /\ u # a /\ p \in Pairs /\ t.found \in BOOLEAN
      /\ Delta(c) = Step(t) /\ Step(t) \in Int
  <2>1. t.kind = "like"
    BY <1>1, <1>2, CallKinds
  <2>2. u # a /\ t.found \in BOOLEAN
    BY <1>2, <2>1 DEF CallTyped
  <2> QED BY <1>2, <2>1, <2>2, PairTypes DEF Delta, Step
<1>5. rewards \subseteq {XpEvent(p), Unlocked(a)}
  BY DEF Pair, Evaluated
<1>6. /\ stats \in [posted : Int, received : Int] /\ stats.posted = db[Stats(a)].posted
      /\ stats.received = db[Stats(a)].received + Step(t)
  <2>1. See(c)[Stats(a)] = db[Stats(a)] /\ db[Stats(a)] \in [posted : Int, received : Int]
    BY <1>2, <1>3, RowIds, RowTypes DEF BaseOK
  <2> QED BY <1>4, <2>1
<1> HIDE DEF stats
<1>7. /\ DOMAIN values = {Stats(a)} \cup rewards /\ values[Stats(a)] = stats
  OBVIOUS
<1> HIDE DEF rewards, values, p
<1>8. DOMAIN values \subseteq Rows
  BY <1>2, <1>4, <1>5, <1>7, RowTypes
<1>9. /\ Others(c) /\ tx'[c] = Idle /\ DOMAIN db' = Rows
      /\ \A r \in Rows : db'[r] = IF r \in DOMAIN values THEN values[r]
                                  ELSE IF Wrote(t, r) THEN t.mine[r] ELSE db[r]
      /\ \A d \in Clients \ {c} : \A r \in DOMAIN tx[d].mine : r \in Rows => db'[r] = db[r]
  BY <1>1, <1>8, FinishRows
<1>10. db'[Stats(a)] = stats
  BY <1>2, <1>7, <1>9, RowTypes
<1>11. /\ Like(p) \notin DOMAIN values /\ Review(a) \notin DOMAIN values
       /\ Like(p) \in Rows /\ Review(a) \in Rows
  BY <1>2, <1>4, <1>5, <1>7, RowIds, RowTypes
<1>12. db'[Like(p)] = ~t.found
  <2>1. db'[Like(p)] = t.mine[Like(p)]
    BY <1>3, <1>9, <1>11
  <2> QED BY <1>3, <2>1, Zenon
<1>13. db'[Review(a)] = [db[Review(a)] EXCEPT !.likes = @ + Step(t)]
  <2>1. db'[Review(a)] = t.mine[Review(a)]
    BY <1>3, <1>9, <1>11
  <2> QED BY <1>3, <2>1
<1>14. \A r \in Rows : r \notin {Stats(a), Like(p), Review(a), XpEvent(p), Unlocked(a)} =>
                          db'[r] = db[r]
  BY <1>3, <1>5, <1>7, <1>9
<1>15. /\ db'[Review(a)] \in [rating : StarRatings, live : BOOLEAN, likes : Int, comments : Int]
       /\ db'[Review(a)].live = db[Review(a)].live
       /\ db'[Review(a)].likes = db[Review(a)].likes + Step(t)
       /\ db'[Review(a)].comments = db[Review(a)].comments
       /\ db[Review(a)].likes \in Int
  <2>1. db[Review(a)] \in [rating : StarRatings, live : BOOLEAN, likes : Int, comments : Int]
    BY <1>2 DEF BaseOK
  <2> QED BY <1>4, <1>13, <2>1
<1>16. /\ db'[Show] = db[Show]
       /\ \A v \in Users \ {a} : db'[Review(v)] = db[Review(v)] /\ db'[Stats(v)] = db[Stats(v)]
       /\ \A v \in Users : db'[UserShow(v)] = db[UserShow(v)]
       /\ \A q \in Pairs \ {p} : db'[Like(q)] = db[Like(q)]
       /\ \A n \in CallIds : db'[Comment(n)] = db[Comment(n)] /\ db'[Posted(n)] = db[Posted(n)]
  <2>1. db'[Show] = db[Show]
    BY <1>14, RowIds, RowTypes
  <2>2. \A v \in Users : v # a => db'[Review(v)] = db[Review(v)] /\ db'[Stats(v)] = db[Stats(v)]
    BY <1>14, RowIds, RowTypes
  <2>3. \A v \in Users : db'[UserShow(v)] = db[UserShow(v)]
    BY <1>14, RowIds, RowTypes
  <2>4. \A q \in Pairs : q # p => db'[Like(q)] = db[Like(q)]
    BY <1>14, RowIds, RowTypes
  <2>5. \A n \in CallIds : db'[Comment(n)] = db[Comment(n)] /\ db'[Posted(n)] = db[Posted(n)]
    BY <1>14, RowIds, RowTypes
  <2> QED BY <2>1, <2>2, <2>3, <2>4, <2>5
<1>17. BaseOK(db')
  <2>1. db'[Like(p)] \in BOOLEAN
    BY <1>12, Zenon
  <2>2. \A q \in Pairs : db'[Like(q)] \in BOOLEAN
    BY <1>2, <1>16, <2>1 DEF BaseOK
  <2> QED BY <1>2, <1>6, <1>9, <1>10, <1>15, <1>16, <2>2 DEF BaseOK
<1>18. Committed(c)
  <2>1. \A v \in Users : /\ db'[Review(v)].live = db[Review(v)].live
                         /\ db'[UserShow(v)] = db[UserShow(v)]
    BY <1>15, <1>16
  <2> QED BY <1>1, <1>2, <1>9, <1>16, <1>17, <2>1 DEF Committed
<1>19. ASSUME NEW v \in Authors PROVE CountersOf(v)'
  <2>1. \A w \in Users \ {v} : <<w, v>> \in Pairs
    BY PairTypes
  <2>2. CASE v # a
    <3>1. \A w \in Users \ {v} : db'[Like(<<w, v>>)] = db[Like(<<w, v>>)]
      BY <1>16, <2>1, <2>2 DEF p
    <3>2. v \in Users
      BY <1>2
    <3> QED BY <1>2, <1>16, <2>2, <3>1, <3>2, CountersKept
  <2>3. CASE v = a
    <3>1. \A w \in Users \ {v} : w # u => db'[Like(<<w, v>>)] = db[Like(<<w, v>>)]
      BY <1>16, <2>1 DEF p
    <3>2. db'[Like(<<u, v>>)] = ~t.found /\ db[Like(<<u, v>>)] = t.found /\ u \in Users \ {v}
      BY <1>2, <1>3, <1>4, <1>12, <2>3 DEF p
    <3>3. CASE t.found
      <4>1. Likers(v)' = Likers(v) \ {u} /\ u \in Likers(v)
        BY <3>1, <3>2, <3>3 DEF Likers
      <4>2. Cardinality(Likers(v)') = Cardinality(Likers(v)) - 1
        BY <4>1, FiniteRows, FS_RemoveElement
      <4>3. CommentsOn(v)' = CommentsOn(v)
        BY <1>16 DEF CommentsOn
      <4>4. Step(t) = -1
        BY <3>3 DEF Step
      <4> HIDE DEF t, a
      <4> QED BY <1>2, <1>6, <1>10, <1>15, <2>3, <4>2, <4>3, <4>4 DEF CountersOf
    <3>4. CASE ~t.found
      <4>1. Likers(v)' = Likers(v) \cup {u} /\ u \notin Likers(v)
        BY <3>1, <3>2, <3>4 DEF Likers
      <4>2. Cardinality(Likers(v)') = Cardinality(Likers(v)) + 1
        BY <4>1, FiniteRows, FS_AddElement
      <4>3. CommentsOn(v)' = CommentsOn(v)
        BY <1>16 DEF CommentsOn
      <4>4. Step(t) = 1
        BY <3>4 DEF Step
      <4> HIDE DEF t, a
      <4> QED BY <1>2, <1>6, <1>10, <1>15, <2>3, <4>2, <4>3, <4>4 DEF CountersOf
    <3> QED BY <3>3, <3>4
  <2> QED BY <2>2, <2>3
<1>20. ASSUME NEW v \in Authors \ raced PROVE PostedOf(v)'
  <2>1. /\ db'[Review(v)].live = db[Review(v)].live /\ v \in Users
        /\ db'[Stats(v)].posted = db[Stats(v)].posted
    BY <1>2, <1>6, <1>10, <1>15, <1>16
  <2> QED BY <1>2, <1>16, <2>1, PostedKept
<1>21. IsFiniteSet(HalfStars)' /\ AverageExact'
  BY <1>1, <1>16, AverageKept
<1> QED BY <1>1, <1>18, <1>19, <1>20, <1>21, CommitKeeps DEF ReviewsInv

\* A save counts and announces only what was not live before, and goes on to
\* rate.
LEMMA SavePostKeeps ==
  ASSUME ReviewsInv, NEW c \in Clients, SavePost(c)
  PROVE  ReviewsInv'
<1> DEFINE t == tx[c]
           s == tx'[c]
           u == t.user
           values == IF t.found THEN <<>> ELSE Posting(c)
<1>1. t.pc = "savePost" /\ CommitFirst(c, values)
  BY DEF SavePost, At
<1>2. /\ t # Idle /\ CallTyped(t) /\ WritesOK(t, db) /\ BaseOK(db)
      /\ u \notin raced => FoundOK(t, db)
      /\ u \in Users /\ Authors \subseteq Users /\ t.id \in CallIds
      /\ \A v \in Authors : CountersOf(v)
      /\ \A v \in Authors \ raced : PostedOf(v)
      /\ \A r \in Rows : See(c)[r] = IF Wrote(t, r) THEN t.mine[r] ELSE db[r]
  BY <1>1, InHandCommit
<1>3. /\ \A r : Wrote(t, r) <=> r = Review(u)
      /\ t.mine[Review(u)] =
           [rating |-> t.rating, live |-> TRUE, likes |-> db[Review(u)].likes,
            comments |-> db[Review(u)].comments]
  BY <1>1, <1>2 DEF WritesOK, Held, Wrote
<1>4. /\ t.kind = "save" /\ Own(t.kind) /\ t.found \in BOOLEAN /\ t.rating \in StarRatings
  <2>1. t.kind = "save"
    BY <1>1, <1>2, CallKinds
  <2> QED BY <1>2, <2>1 DEF CallTyped, Own
<1> DEFINE old == See(c)[Stats(u)]
           stats == [old EXCEPT !.posted = @ + 1]
<1>5. /\ stats \in [posted : Int, received : Int] /\ stats.posted = db[Stats(u)].posted + 1
      /\ stats.received = db[Stats(u)].received
  <2>1. old = db[Stats(u)] /\ db[Stats(u)] \in [posted : Int, received : Int]
    BY <1>2, <1>3, RowIds, RowTypes DEF BaseOK
  <2> HIDE DEF old
  <2> QED BY <2>1
<1> HIDE DEF stats
<1>6. /\ DOMAIN Posting(c) = {Stats(u), XpEvent(u), Posted(t.id)} \cup Evaluated(u, stats)
      /\ Posting(c)[Stats(u)] = stats /\ Posting(c)[Posted(t.id)] = u
  <2> DEFINE rows == {Stats(u), XpEvent(u), Posted(t.id)} \cup Evaluated(u, stats)
  <2>1. Posting(c) = [r \in rows |-> CASE r = Stats(u) -> stats [] r = Posted(t.id) -> u
                                       [] OTHER -> TRUE]
    BY DEF Posting, stats
  <2>2. Stats(u) \in rows /\ Posted(t.id) \in rows /\ Stats(u) # Posted(t.id)
    BY RowIds
  <2> HIDE DEF rows
  <2>3. DOMAIN Posting(c) = rows
    BY <2>1
  <2>4. Posting(c)[Stats(u)] = stats
    BY <2>1, <2>2
  <2>5. Posting(c)[Posted(t.id)] = u
    BY <2>1, <2>2
  <2> QED BY <2>3, <2>4, <2>5 DEF rows
<1>7. Evaluated(u, stats) \subseteq {Unlocked(u)}
  BY DEF Evaluated
<1>8. DOMAIN values = IF t.found THEN {}
                      ELSE {Stats(u), XpEvent(u), Posted(t.id)} \cup Evaluated(u, stats)
  <2>1. CASE t.found
    BY <2>1
  <2>2. CASE ~t.found
    BY <1>6, <2>2
  <2> QED BY <2>1, <2>2
<1>9. DOMAIN values \subseteq Rows
  BY <1>2, <1>7, <1>8, RowTypes
<1>10. ~t.found => values[Stats(u)] = stats /\ values[Posted(t.id)] = u
  BY <1>6
<1> HIDE DEF values
<1>11. /\ tx = [d \in Clients |-> tx[d]]
       /\ UNCHANGED <<calls, raced, strayed>> /\ db' = Over(values, See(c))
       /\ \A r \in DOMAIN values : Free(c, r)
       /\ tx' = [tx EXCEPT ![c] = [t EXCEPT !.pc = "rate", !.mine = <<>>]]
  BY <1>1, InHand, Zenon DEF CommitFirst, History
<1>12. Others(c) /\ s = [t EXCEPT !.pc = "rate", !.mine = <<>>]
  <2> DEFINE new == [t EXCEPT !.pc = "rate", !.mine = <<>>]
  <2>1. tx' = [tx EXCEPT ![c] = new]
    BY <1>11
  <2> HIDE DEF new
  <2>2. Others(c) /\ s = new
    BY <1>11, <2>1 DEF Others
  <2> QED BY <2>2 DEF new
<1>13. /\ DOMAIN db' = Rows
       /\ \A r \in Rows : db'[r] = IF r \in DOMAIN values THEN values[r]
                                   ELSE IF Wrote(t, r) THEN t.mine[r] ELSE db[r]
       /\ \A d \in Clients \ {c} : \A r \in DOMAIN tx[d].mine : r \in Rows => db'[r] = db[r]
  BY <1>1, <1>9, <1>11, CommitRows
<1>14. Further(t, s, "rate") /\ DOMAIN s.mine = {}
  <2> HIDE DEF t, s
  <2>1. DOMAIN t = Fields
    BY <1>2 DEF CallTyped
  <2>2. /\ DOMAIN s = Fields /\ s.pc = "rate" /\ DOMAIN s.mine = {}
        /\ s.kind = t.kind /\ s.user = t.user /\ s.author = t.author /\ s.rating = t.rating
        /\ s.id = t.id /\ s.found = t.found /\ s.previous = t.previous
    BY <1>12, <2>1 DEF Fields
  <2>3. "rate" \in Statements[t.kind]
    BY <1>4 DEF Statements, t
  <2> QED BY <1>2, <2>2, <2>3 DEF Further, CallTyped
<1>15. db'[Review(u)] = [rating |-> t.rating, live |-> TRUE, likes |-> db[Review(u)].likes,
                         comments |-> db[Review(u)].comments]
  <2>1. Review(u) \notin DOMAIN values /\ Review(u) \in Rows
    BY <1>2, <1>7, <1>8, RowIds, RowTypes
  <2>2. db'[Review(u)] = t.mine[Review(u)]
    BY <1>3, <1>13, <2>1
  <2> QED BY <1>3, <2>2
<1>16. /\ db'[Review(u)] \in [rating : StarRatings, live : BOOLEAN, likes : Int, comments : Int]
       /\ db'[Review(u)].live = TRUE
       /\ db'[Review(u)].likes = db[Review(u)].likes
       /\ db'[Review(u)].comments = db[Review(u)].comments
  <2>1. db[Review(u)] \in [rating : StarRatings, live : BOOLEAN, likes : Int, comments : Int]
    BY <1>2 DEF BaseOK
  <2> QED BY <1>4, <1>15, <2>1
<1>17. db'[Stats(u)] = IF t.found THEN db[Stats(u)] ELSE stats
  <2>1. Stats(u) \in Rows /\ ~Wrote(t, Stats(u)) /\ (Stats(u) \in DOMAIN values <=> ~t.found)
    BY <1>2, <1>3, <1>8, RowIds, RowTypes
  <2> QED BY <1>10, <1>13, <2>1
<1>18. /\ db'[Stats(u)] \in [posted : Int, received : Int]
       /\ db'[Stats(u)].received = db[Stats(u)].received
       /\ db'[Stats(u)].posted = db[Stats(u)].posted + (IF t.found THEN 0 ELSE 1)
  <2>1. db[Stats(u)] \in [posted : Int, received : Int]
    BY <1>2 DEF BaseOK
  <2> QED BY <1>5, <1>17, <2>1
<1>19. db'[Posted(t.id)] = IF t.found THEN db[Posted(t.id)] ELSE u
  <2>1. Posted(t.id) \in Rows /\ ~Wrote(t, Posted(t.id))
        /\ (Posted(t.id) \in DOMAIN values <=> ~t.found)
    BY <1>2, <1>3, <1>7, <1>8, RowIds, RowTypes
  <2> QED BY <1>10, <1>13, <2>1
<1>20. \A r \in Rows : r \notin {Review(u), Stats(u), XpEvent(u), Posted(t.id), Unlocked(u)} =>
                          db'[r] = db[r]
  BY <1>3, <1>7, <1>8, <1>13
<1>21. /\ db'[Show] = db[Show]
       /\ \A v \in Users \ {u} : db'[Review(v)] = db[Review(v)] /\ db'[Stats(v)] = db[Stats(v)]
       /\ \A v \in Users : db'[UserShow(v)] = db[UserShow(v)]
       /\ \A p \in Pairs : db'[Like(p)] = db[Like(p)]
       /\ \A n \in CallIds : db'[Comment(n)] = db[Comment(n)]
       /\ \A n \in CallIds \ {t.id} : db'[Posted(n)] = db[Posted(n)]
  <2>1. db'[Show] = db[Show]
    BY <1>20, RowIds, RowTypes
  <2>2. \A v \in Users : v # u => db'[Review(v)] = db[Review(v)] /\ db'[Stats(v)] = db[Stats(v)]
    BY <1>20, RowIds, RowTypes
  <2>3. \A v \in Users : db'[UserShow(v)] = db[UserShow(v)]
    BY <1>20, RowIds, RowTypes
  <2>4. \A p \in Pairs : db'[Like(p)] = db[Like(p)]
    BY <1>20, RowIds, RowTypes
  <2>5. \A n \in CallIds : /\ db'[Comment(n)] = db[Comment(n)]
                           /\ n # t.id => db'[Posted(n)] = db[Posted(n)]
    BY <1>20, RowIds, RowTypes
  <2> QED BY <2>1, <2>2, <2>3, <2>4, <2>5
<1>22. BaseOK(db')
  BY <1>2, <1>13, <1>16, <1>18, <1>21 DEF BaseOK
<1>23. Committed(c)
  BY <1>2, <1>4, <1>11, <1>12, <1>13, <1>14, <1>21, <1>22 DEF Committed
<1>24. ASSUME NEW v \in Authors PROVE CountersOf(v)'
  <2>1. /\ db'[Review(v)].likes = db[Review(v)].likes
        /\ db'[Review(v)].comments = db[Review(v)].comments
        /\ db'[Stats(v)].received = db[Stats(v)].received /\ v \in Users
    BY <1>2, <1>16, <1>18, <1>21
  <2> QED BY <1>2, <1>21, <2>1, PairTypes, CountersKept
<1>25. ASSUME NEW v \in Authors \ raced PROVE PostedOf(v)'
  <2>1. PostedOf(v) /\ v \in Users
    BY <1>2
  <2>2. CASE v # u
    <3>1. \A n \in CallIds : db'[Posted(n)] = v => db[Posted(n)] = v
      BY <1>19, <1>21, <2>2
    <3> QED BY <1>21, <2>1, <2>2, <3>1, PostedKept
  <2>3. CASE v = u /\ t.found
    <3>1. db[Review(v)].live = t.found
      BY <1>1, <1>2, <2>3 DEF FoundOK
    <3>2. \A n \in CallIds : db'[Posted(n)] = db[Posted(n)]
      BY <1>19, <1>21, <2>3
    <3>3. db'[Review(v)].live = db[Review(v)].live
      BY <1>16, <2>3, <3>1
    <3>4. db'[Stats(v)].posted = db[Stats(v)].posted
      BY <1>17, <2>3
    <3> QED BY <2>1, <3>2, <3>3, <3>4, PostedKept
  <2>4. CASE v = u /\ ~t.found
    <3>1. ~db[Review(v)].live
      BY <1>1, <1>2, <2>4 DEF FoundOK
    <3>2. db[Stats(v)].posted = 0 /\ Cardinality(Announced(v)) <= 0
      BY <2>1, <3>1 DEF PostedOf
    <3>3. Announced(v) = {}
      <4>1. Cardinality(Announced(v)) \in Nat
        BY FiniteRows, FS_CardinalityType
      <4>2. Cardinality(Announced(v)) = 0
        BY <3>2, <4>1
      <4> QED BY <4>2, FiniteRows, FS_EmptySet
    <3>4. Announced(v)' = {t.id}
      BY <1>2, <1>19, <1>21, <2>4, <3>3 DEF Announced
    <3>5. Cardinality(Announced(v)') = 1
      BY <3>4, FS_Singleton
    <3>6. db'[Stats(v)].posted = 1 /\ db'[Review(v)].live = TRUE
      BY <1>16, <1>18, <2>4, <3>2
    <3> QED BY <3>5, <3>6 DEF PostedOf
  <2> QED BY <2>2, <2>3, <2>4
<1>26. IsFiniteSet(HalfStars)' /\ AverageExact'
  BY <1>11, <1>21, AverageKept
<1> QED BY <1>23, <1>24, <1>25, <1>26, CommitKeeps

----------------------------------------------------------------------------
(* The start, and the theorems.                                            *)

LEMMA FreshRows ==
  /\ DOMAIN Fresh = Rows
  /\ \A v \in Users : /\ Fresh[UserShow(v)] = Unrated /\ Fresh[Review(v)] = NoReview
                      /\ Fresh[Stats(v)] = [posted |-> 0, received |-> 0]
  /\ \A q \in Pairs : Fresh[Like(q)] = FALSE
  /\ \A n \in CallIds : Fresh[Comment(n)] = Nobody /\ Fresh[Posted(n)] = Nobody
<1>1. ASSUME NEW v \in Users
      PROVE  /\ Fresh[UserShow(v)] = Unrated /\ Fresh[Review(v)] = NoReview
             /\ Fresh[Stats(v)] = [posted |-> 0, received |-> 0]
  <2>1. UserShow(v)[1] = "UserShow" /\ Review(v)[1] = "Review" /\ Stats(v)[1] = "UserStats"
    BY DEF UserShow, Review, Stats
  <2>2. UserShow(v) \in Rows /\ Review(v) \in Rows /\ Stats(v) \in Rows
    BY RowTypes
  <2> QED BY <2>1, <2>2 DEF Fresh
<1>2. ASSUME NEW q \in Pairs PROVE Fresh[Like(q)] = FALSE
  <2>1. Like(q)[1] = "ReviewLike" /\ Like(q) \in Rows
    BY RowTypes DEF Like
  <2> QED BY <2>1 DEF Fresh
<1>3. ASSUME NEW n \in CallIds PROVE Fresh[Comment(n)] = Nobody /\ Fresh[Posted(n)] = Nobody
  <2>1. Comment(n)[1] = "Comment" /\ Posted(n)[1] = "Activity"
        /\ Comment(n) \in Rows /\ Posted(n) \in Rows
    BY RowTypes DEF Comment, Posted
  <2> QED BY <2>1 DEF Fresh
<1>4. DOMAIN Fresh = Rows
  BY DEF Fresh
<1> QED BY <1>1, <1>2, <1>3, <1>4

LEMMA ReviewedRows ==
  ASSUME NEW u \in Users, NEW a \in Users, <<u, a>> \in Pairs, NEW rating \in Ratings,
         db = Reviewed(a, u, rating)
  PROVE  /\ DOMAIN db = Rows /\ db[Show] = [ratingSum |-> rating, ratingCount |-> 1]
         /\ \A v \in Users :
              /\ db[UserShow(v)] = IF v = a THEN rating ELSE Unrated
              /\ db[Review(v)] = IF v = a THEN [rating |-> rating, live |-> TRUE,
                                                likes |-> 1, comments |-> 0]
                                 ELSE NoReview
              /\ db[Stats(v)] = IF v = a THEN [posted |-> 1, received |-> 1]
                                ELSE [posted |-> 0, received |-> 0]
         /\ db[Like(<<u, a>>)] = TRUE
         /\ \A q \in Pairs : q # <<u, a>> => db[Like(q)] = FALSE
         /\ \A n \in CallIds : /\ db[Comment(n)] = Nobody
                                /\ db[Posted(n)] = IF n = 0 THEN a ELSE Nobody
<1>1. ASSUME NEW r \in Rows,
             r \notin {Show, UserShow(a), Review(a), Stats(a), XpEvent(a), Like(<<u, a>>), Posted(0),
                       XpEvent(<<u, a>>), Unlocked(a)}
      PROVE  db[r] = Fresh[r]
  BY <1>1 DEF Reviewed
<1>2. db[Show] = [ratingSum |-> rating, ratingCount |-> 1]
  BY RowIds, RowTypes DEF Reviewed
<1>3. db[UserShow(a)] = rating
  BY RowIds, RowTypes DEF Reviewed
<1>4. db[Review(a)] = [rating |-> rating, live |-> TRUE, likes |-> 1, comments |-> 0]
  BY RowIds, RowTypes DEF Reviewed
<1>5. db[Stats(a)] = [posted |-> 1, received |-> 1]
  BY RowIds, RowTypes DEF Reviewed
<1>6. db[Like(<<u, a>>)] = TRUE
  BY RowIds, RowTypes DEF Reviewed
<1>7. ASSUME NEW v \in Users, v # a
      PROVE  /\ db[UserShow(v)] = Unrated /\ db[Review(v)] = NoReview
             /\ db[Stats(v)] = [posted |-> 0, received |-> 0]
  <2>1. db[UserShow(v)] = Fresh[UserShow(v)]
    BY <1>1, <1>7, RowIds, RowTypes
  <2>2. db[Review(v)] = Fresh[Review(v)]
    BY <1>1, <1>7, RowIds, RowTypes
  <2>3. db[Stats(v)] = Fresh[Stats(v)]
    BY <1>1, <1>7, RowIds, RowTypes
  <2> QED BY <2>1, <2>2, <2>3, FreshRows
<1>8. ASSUME NEW q \in Pairs, q # <<u, a>> PROVE db[Like(q)] = FALSE
  <2>1. db[Like(q)] = Fresh[Like(q)]
    BY <1>1, <1>8, RowIds, RowTypes
  <2> QED BY <2>1, FreshRows
<1>9. ASSUME NEW n \in CallIds
      PROVE  db[Comment(n)] = Nobody /\ db[Posted(n)] = IF n = 0 THEN a ELSE Nobody
  <2>1. db[Comment(n)] = Fresh[Comment(n)]
    BY <1>1, RowIds, RowTypes
  <2>2. CASE n = 0
    BY <2>1, <2>2, FreshRows, RowIds, RowTypes DEF Reviewed
  <2>3. CASE n # 0
    <3>1. db[Posted(n)] = Fresh[Posted(n)]
      BY <1>1, <2>3, RowIds, RowTypes
    <3> QED BY <2>1, <2>3, <3>1, FreshRows
  <2> QED BY <2>2, <2>3
<1>10. DOMAIN db = Rows
  BY DEF Reviewed
<1> QED BY <1>2, <1>3, <1>4, <1>5, <1>6, <1>7, <1>8, <1>9, <1>10

LEMMA InitReviews == Init => ReviewsInv
<1> SUFFICES ASSUME Init PROVE ReviewsInv
  OBVIOUS
<1>1. PICK p \in Pairs : db = Reviewed(p[2], p[1], CHOOSE rating \in Ratings : TRUE)
  BY DEF Init
<1> DEFINE u == p[1]
           a == p[2]
           stars == CHOOSE rating \in Ratings : TRUE
<1>2. u \in Users /\ a \in Users /\ a \in Authors /\ u # a /\ p = <<u, a>> /\ Authors \subseteq Users
  BY ReviewsAssumption DEF Pairs
<1>3. stars \in Ratings /\ stars \in Nat \ {0} /\ stars \in StarRatings
  BY ReviewsAssumption DEF StarRatings
<1> HIDE DEF u, a, stars
<1>4. /\ DOMAIN db = Rows /\ db[Show] = [ratingSum |-> stars, ratingCount |-> 1]
      /\ \A v \in Users :
           /\ db[UserShow(v)] = IF v = a THEN stars ELSE Unrated
           /\ db[Review(v)] = IF v = a THEN [rating |-> stars, live |-> TRUE,
                                             likes |-> 1, comments |-> 0]
                              ELSE NoReview
           /\ db[Stats(v)] = IF v = a THEN [posted |-> 1, received |-> 1]
                             ELSE [posted |-> 0, received |-> 0]
      /\ db[Like(<<u, a>>)] = TRUE
      /\ \A q \in Pairs : q # <<u, a>> => db[Like(q)] = FALSE
      /\ \A n \in CallIds : /\ db[Comment(n)] = Nobody
                             /\ db[Posted(n)] = IF n = 0 THEN a ELSE Nobody
  <2>1. <<u, a>> \in Pairs /\ db = Reviewed(a, u, stars)
    BY <1>1, <1>2 DEF u, a, stars
  <2> QED BY <1>2, <1>3, <2>1, ReviewedRows
<1>5. /\ tx = [c \in Clients |-> Idle] /\ calls = 0 /\ raced = {} /\ strayed = {}
  BY DEF Init
<1>6. BaseOK(db)
  <2>1. Unrated \in StarRatings /\ Unrated \in Int
    BY DEF StarRatings, Unrated
  <2>2. NoReview \in [rating : StarRatings, live : BOOLEAN, likes : Int, comments : Int]
    BY <2>1 DEF NoReview
  <2>3. \A v \in Users : /\ db[UserShow(v)] \in StarRatings \cup {Absent}
                         /\ db[Review(v)] \in [rating : StarRatings, live : BOOLEAN,
                                               likes : Int, comments : Int]
                         /\ db[Stats(v)] \in [posted : Int, received : Int]
    <3>1. ASSUME NEW v \in Users, v = a
          PROVE  /\ db[UserShow(v)] \in StarRatings
                 /\ db[Review(v)] \in [rating : StarRatings, live : BOOLEAN, likes : Int, comments : Int]
                 /\ db[Stats(v)] \in [posted : Int, received : Int]
      <4>1. /\ db[UserShow(v)] = stars /\ db[Stats(v)] = [posted |-> 1, received |-> 1]
            /\ db[Review(v)] = [rating |-> stars, live |-> TRUE, likes |-> 1, comments |-> 0]
        BY <1>4, <3>1
      <4> QED BY <1>3, <4>1
    <3>2. ASSUME NEW v \in Users, v # a
          PROVE  /\ db[UserShow(v)] \in StarRatings
                 /\ db[Review(v)] \in [rating : StarRatings, live : BOOLEAN, likes : Int, comments : Int]
                 /\ db[Stats(v)] \in [posted : Int, received : Int]
      BY <1>4, <2>1, <2>2, <3>2
    <3> QED BY <3>1, <3>2
  <2>4. ASSUME NEW q \in Pairs PROVE db[Like(q)] \in BOOLEAN
    <3>1. CASE q = <<u, a>>
      BY <1>4, <3>1, Zenon
    <3>2. CASE q # <<u, a>>
      BY <1>4, <3>2, Zenon
    <3> QED BY <3>1, <3>2
  <2> QED BY <1>3, <1>4, <1>5, <2>3, <2>4 DEF BaseOK
<1>7. IdsOK /\ CallsOK /\ Alone /\ Locked
  <2>1. \A c \in Clients : tx[c] = Idle
    BY <1>5
  <2>2. IdsOK
    BY <1>4, <1>5, <2>1, ReviewsAssumption DEF IdsOK
  <2>3. CallsOK /\ Alone
    BY <1>5, <2>1 DEF CallsOK, Alone
  <2>4. Locked
    BY <2>1, NothingWritten DEF Locked
  <2> QED BY <2>2, <2>3, <2>4
<1>8. ASSUME NEW v \in Authors
      PROVE  /\ CommentsOn(v) = {} /\ Announced(v) = IF v = a THEN {0} ELSE {}
             /\ Likers(v) = IF v = a THEN {u} ELSE {}
  <2>1. v # Nobody /\ 0 \in CallIds
    BY <1>2, ReviewsAssumption DEF Nobody, CallIds
  <2>2. CommentsOn(v) = {} /\ Announced(v) = IF v = a THEN {0} ELSE {}
    BY <1>4, <2>1 DEF CommentsOn, Announced
  <2>3. \A w \in Users \ {v} : <<w, v>> \in Pairs
    BY PairTypes
  <2>4. CASE v = a
    <3>1. \A w \in Users \ {v} : w # u => db[Like(<<w, v>>)] = FALSE
      BY <1>4, <2>3
    <3>2. u \in Users \ {v} /\ db[Like(<<u, v>>)] = TRUE
      BY <1>2, <1>4, <2>4
    <3>3. Likers(v) = {u}
      BY <3>1, <3>2 DEF Likers
    <3> QED BY <2>2, <2>4, <3>3
  <2>5. CASE v # a
    <3>1. \A w \in Users \ {v} : db[Like(<<w, v>>)] = FALSE
      BY <1>4, <2>3, <2>5
    <3>2. Likers(v) = {}
      BY <3>1 DEF Likers
    <3> QED BY <2>2, <2>5, <3>2
  <2> QED BY <2>4, <2>5
<1>9. Cardinality({}) = 0 /\ Cardinality({u}) = 1 /\ Cardinality({a}) = 1 /\ Cardinality({0}) = 1
  BY FS_EmptySet, FS_Singleton
<1>10. ASSUME NEW v \in Authors PROVE CountersOf(v) /\ PostedOf(v)
  <2>1. CASE v = a
    <3>1. db[Review(v)].likes = 1 /\ db[Review(v)].comments = 0 /\ db[Review(v)].live = TRUE
      BY <1>2, <1>4, <2>1
    <3>2. db[Stats(v)].received = 1 /\ db[Stats(v)].posted = 1
      BY <1>2, <1>4, <2>1
    <3> QED BY <1>8, <1>9, <2>1, <3>1, <3>2 DEF CountersOf, PostedOf
  <2>2. CASE v # a
    <3>1. db[Review(v)].likes = 0 /\ db[Review(v)].comments = 0 /\ db[Review(v)].live = FALSE
      BY <1>2, <1>4, <2>2 DEF NoReview
    <3>2. db[Stats(v)].received = 0 /\ db[Stats(v)].posted = 0
      BY <1>2, <1>4, <2>2
    <3> QED BY <1>8, <1>9, <2>2, <3>1, <3>2 DEF CountersOf, PostedOf
  <2> QED BY <2>1, <2>2
<1>11. CountersHold /\ PostedOnce
  BY <1>10, PropertiesOf
<1>12. HalfStars = {a} \X (1..stars)
  <2>1. \A v \in Users : v # a => {v} \X (1..db[UserShow(v)]) = {}
    BY <1>4 DEF Unrated
  <2>2. db[UserShow(a)] = stars
    BY <1>2, <1>4
  <2> QED BY <1>2, <2>1, <2>2 DEF HalfStars
<1>13. Rated = {a}
  BY <1>2, <1>3, <1>4 DEF Rated, Absent, Unrated
<1>14. /\ IsFiniteSet(HalfStars) /\ Cardinality(HalfStars) = stars
  <2>1. /\ IsFiniteSet({a} \X (1..stars))
        /\ Cardinality({a} \X (1..stars)) = Amount(stars)
    BY <1>3, StarsOf
  <2>2. Amount(stars) = stars
    BY <1>3 DEF Amount, Absent, Unrated
  <2> QED BY <1>12, <2>1, <2>2
<1>15. AverageExact
  BY <1>3, <1>4, <1>5, <1>9, <1>13, <1>14, AverageOf
<1> QED BY <1>6, <1>7, <1>11, <1>14, <1>15 DEF ReviewsInv

LEMMA NextReviews == ReviewsInv /\ [Next]_vars => ReviewsInv'
<1> SUFFICES ASSUME ReviewsInv, [Next]_vars PROVE ReviewsInv'
  OBVIOUS
<1>1. ASSUME NEW c \in Clients, Begin(c) PROVE ReviewsInv'
  BY <1>1, BeginKeeps
<1>2. ASSUME NEW c \in Clients, Rollback(c) PROVE ReviewsInv'
  BY <1>2, RollbackOnward, OnwardKeeps
<1>3. ASSUME NEW c \in Clients, Statement(c) PROVE ReviewsInv'
  <2>1. CASE \/ SaveFind(c) \/ RateFind(c) \/ RemoveFind(c) \/ JoinFind(c) \/ LeaveFind(c)
             \/ LikeReview(c) \/ LikeFind(c) \/ CommentFind(c)
    BY <2>1, FindsOnward, OnwardKeeps
  <2>2. CASE \/ SaveUpsert(c) \/ RateEntry(c) \/ RemoveMark(c) \/ RemoveCount(c)
             \/ LeaveDelete(c) \/ LikeRow(c) \/ LikeCount(c)
    BY <2>2, WritesOnward, OnwardKeeps
  <2>3. CASE SavePost(c)
    BY <2>3, SavePostKeeps
  <2>4. CASE RateShow(c)
    BY <2>4, RateShowKeeps
  <2>5. CASE RemovePosts(c)
    BY <2>5, RemovePostsKeeps
  <2>6. CASE JoinStats(c) \/ JoinEnd(c) \/ LeaveStats(c)
    BY <2>6, LibraryKeeps
  <2>7. CASE JoinEntry(c) \/ JoinShow(c) \/ LeaveShow(c) \/ LeavePosts(c)
    BY <2>7, LibraryOnward, LeavePostsOnward, OnwardKeeps
  <2>8. CASE LikeStats(c)
    BY <2>8, LikeStatsKeeps
  <2>9. CASE CommentCount(c)
    BY <2>9, CommentCountKeeps
  <2> QED BY <1>3, <2>1, <2>2, <2>3, <2>4, <2>5, <2>6, <2>7, <2>8, <2>9 DEF Statement
<1>4. ASSUME UNCHANGED vars PROVE ReviewsInv'
  <2>1. db' = db /\ tx' = tx /\ calls' = calls /\ raced' = raced /\ strayed' = strayed
    BY <1>4 DEF vars
  <2>2. \A v : Likers(v)' = Likers(v) /\ CommentsOn(v)' = CommentsOn(v)
               /\ Announced(v)' = Announced(v)
    BY <2>1 DEF Likers, CommentsOn, Announced
  <2>3. CountersHold' /\ PostedOnce'
    BY <2>1, <2>2 DEF ReviewsInv, CountersHold, CountersOf, PostedOnce
  <2>4. IsFiniteSet(HalfStars)' /\ AverageExact'
    BY <2>1, AverageKept
  <2>5. IdsOK' /\ CallsOK' /\ Alone' /\ Locked' /\ BaseOK(db)'
    BY <2>1 DEF ReviewsInv, IdsOK, CallsOK, Alone, Locked, BaseOK
  <2> QED BY <2>1, <2>3, <2>4, <2>5 DEF ReviewsInv
<1> QED BY <1>1, <1>2, <1>3, <1>4 DEF Next

\* At every moment the open calls of reviews.service.ts and trackingService.rate
\* hold the rows their statements have written and have read what still stands,
\* two calls of one user's own are open only if the user is in raced, and the
\* three properties below hold.
THEOREM ReviewsInvariant == Spec => []ReviewsInv
<1> QED BY InitReviews, NextReviews, PTL DEF Spec

\* likeCount and commentCount are the numbers of ReviewLike and Comment rows, and
\* while the review stands the author's reviewLikesReceived is the number of its
\* likes, for any number of requests that toggle one like, like, comment on, edit
\* and delete the review at a time.
THEOREM CountersAreRows == Spec => []CountersMatchRows
<1>1. ReviewsInv => CountersMatchRows
  BY DEF ReviewsInv, CountersHold, CountersOf, CountersMatchRows
<1> QED BY <1>1, ReviewsInvariant, PTL

\* upsert and remove count and announce a review exactly while it stands, for
\* every author whose own calls have never overlapped, whatever others do and
\* wherever a call has been cut off and tried again.
THEOREM PostedWhileLive == Spec => []PostedOnce
<1>1. ReviewsInv => PostedOnce
  BY DEF ReviewsInv
<1> QED BY <1>1, ReviewsInvariant, PTL

\* ratingSum and ratingCount of the show are those of the entries, as long as no
\* user's own calls have overlapped and no addToLibrary gave and no
\* removeFromLibrary took a rating, however the ratings of different users
\* interleave.
THEOREM AverageOfEntries == Spec => []AverageExact
<1>1. ReviewsInv => AverageExact
  BY DEF ReviewsInv
<1> QED BY <1>1, ReviewsInvariant, PTL
=============================================================================
