----------------------------- MODULE SocialProofs -----------------------------
(***************************************************************************)
(* Social for any number of users and of requests at a time: what an open  *)
(* transaction has in hand is one change of the graph, however the others  *)
(* get in between, so every commit is a step of SocialGraph.               *)
(***************************************************************************)
EXTENDS SocialQueries, ReadCommittedProofs, FiniteSetTheorems, TLAPS

----------------------------------------------------------------------------
(* The inductive invariant.  t is the record of an open call, base the     *)
(* committed rows: of base it speaks of the rows t has locked only.        *)

Fields == {"pc", "kind", "pair", "row", "todo", "mine"}

Statements ==
  [follow   |-> {"findBlock", "findFollow", "create", "following", "followers",
                 "announce", "evaluate", "commit"},
   unfollow |-> {"findFollow", "delete", "following", "followers", "announce", "commit"},
   block    |-> {"upsertBlock", "findFollows", "delete", "following", "followers", "commit"},
   unblock  |-> {"deleteBlock", "commit"}]

\* Which call it is, where it stands, and which rows are its to write.
CallTyped(t) ==
  /\ DOMAIN t = Fields
  /\ t.kind \in {"follow", "unfollow", "block", "unblock"}
  /\ t.pc \in Statements[t.kind]
  /\ t.pair \in Pairs
  /\ t.row \in {t.pair, Swap(t.pair)}
  /\ t.todo \subseteq {t.pair, Swap(t.pair)}
  /\ t.kind # "block" => t.row = t.pair /\ t.todo \subseteq {t.pair}
  /\ DOMAIN t.mine \subseteq Rows

\* The follows the call has made or deleted, and those of them it has yet to
\* count on the one side and on the other.
Changed(t)   == {q \in Pairs : Wrote(t, Follow(q))}
Uncounted(t) == [following |-> IF t.pc = "following" THEN {t.row} ELSE {},
                 followers |-> IF t.pc \in {"following", "followers"} THEN {t.row} ELSE {}]

Sign(t) == IF t.kind = "follow" THEN 1 ELSE -1

\* By how much the call has moved a user's counters so far.
MovedFollowing(t, u) ==
  IF \E q \in Changed(t) \ Uncounted(t).following : q[1] = u THEN Sign(t) ELSE 0
MovedFollowers(t, u) ==
  IF \E q \in Changed(t) \ Uncounted(t).followers : q[2] = u THEN Sign(t) ELSE 0

\* A follow changed is one of the call's two users, and was the other way.
FollowsOK(t, base) ==
  /\ \A q \in Changed(t) :
       /\ q \in {t.pair, Swap(t.pair)}
       /\ t.kind # "block" => q = t.pair
       /\ t.mine[Follow(q)] = (t.kind = "follow")
       /\ base[Follow(q)] = (t.kind # "follow")
  /\ t.kind = "unblock" => Changed(t) = {}
  /\ t.kind = "follow" /\ t.pc \in {"findBlock", "findFollow", "create"} => Changed(t) = {}
  /\ t.pc \in {"following", "followers", "announce", "evaluate"} => t.row \in Changed(t)

StatsOK(t, base) ==
  \A u \in Users :
    LET r == UserStats(u)
    IN  IF Wrote(t, r)
        THEN t.mine[r] = [following |-> base[r].following + MovedFollowing(t, u),
                          followers |-> base[r].followers + MovedFollowers(t, u)]
        ELSE MovedFollowing(t, u) = 0 /\ MovedFollowers(t, u) = 0

BlocksOK(t) ==
  /\ \A q \in Pairs : Wrote(t, Block(q)) =>
       /\ q = t.pair
       /\ t.kind \in {"block", "unblock"}
       /\ t.mine[Block(q)] = (t.kind = "block")
  /\ t.kind = "block" /\ t.pc # "upsertBlock" => Wrote(t, Block(t.pair))

\* Announcements go with the follows, and an achievement with the counter.
RewardsOK(t) ==
  /\ \A q \in Pairs : Wrote(t, Activity(q)) =>
       /\ q = t.pair
       /\ q \in Changed(t)
       /\ t.mine[Activity(q)] \in Nat
       /\ t.kind = "follow" => t.mine[Activity(q)] > 0
  /\ \A u \in Users : Wrote(t, UserAchievement(u)) => t.mine[UserAchievement(u)] = TRUE
  /\ t.kind = "follow" /\ t.pc \in {"evaluate", "commit"} =>
       \A q \in Changed(t) : Wrote(t, Activity(q))
  /\ t.kind = "follow" /\ t.pc = "commit" =>
       \A q \in Changed(t) :
         t.mine[UserStats(q[2])].followers >= Goal => Wrote(t, UserAchievement(q[2]))

CallOK(t, base) ==
  /\ CallTyped(t)
  /\ FollowsOK(t, base)
  /\ StatsOK(t, base)
  /\ BlocksOK(t)
  /\ RewardsOK(t)

BaseOK(base) ==
  /\ DOMAIN base = Rows
  /\ \A p \in Pairs : /\ base[Follow(p)] \in BOOLEAN /\ base[Block(p)] \in BOOLEAN
                      /\ base[Activity(p)] \in Nat
  /\ \A u \in Users :
       /\ base[UserStats(u)] = [following |-> base[UserStats(u)].following,
                                followers |-> base[UserStats(u)].followers]
       /\ base[UserStats(u)].following \in Int
       /\ base[UserStats(u)].followers \in Int
       /\ base[UserAchievement(u)] \in BOOLEAN

CallsOK ==
  /\ tx = [c \in Clients |-> tx[c]]
  /\ \A c \in Clients : tx[c] = Idle \/ CallOK(tx[c], db)

\* Without a race no call of the one kind is open beside one of the other about
\* the same two users, and what each of them read still holds.
Together(t, o) ==
  {t.kind, o.kind} = {"follow", "block"} /\ o.pair \in {t.pair, Swap(t.pair)}

Unraced(t, base) ==
  /\ t.kind = "follow" /\ t.pc # "findBlock" =>
       ~base[Block(t.pair)] /\ ~base[Block(Swap(t.pair))]
  /\ t.kind = "block" /\ t.pc \notin {"upsertBlock", "findFollows"} =>
       \A q \in {t.pair, Swap(t.pair)} : base[Follow(q)] =>
         q \in Changed(t) \/ (t.pc # "commit" /\ q \in t.todo)

RaceInv ==
  ~raced => /\ ~Crossed
            /\ \A c \in Clients : tx[c] # Idle => Unraced(tx[c], db)
            /\ \A c, d \in Clients :
                 tx[c] # Idle /\ tx[d] # Idle => ~Together(tx[c], tx[d])

SocialInv ==
  /\ BaseOK(db)
  /\ CallsOK
  /\ Locked
  /\ FollowAnnounced
  /\ GoalRewarded
  /\ RaceInv

----------------------------------------------------------------------------
(* Rows, and what the statements of ReadCommitted do to them.              *)

\* Rows of different tables or keys are different rows.
LEMMA RowIds ==
  /\ \A p, q : /\ Follow(p) = Follow(q) => p = q
               /\ Block(p) = Block(q) => p = q
               /\ Activity(p) = Activity(q) => p = q
               /\ UserStats(p) = UserStats(q) => p = q
               /\ UserAchievement(p) = UserAchievement(q) => p = q
  /\ \A p, q : /\ Follow(p) # Block(q) /\ Follow(p) # Activity(q)
               /\ Follow(p) # UserStats(q) /\ Follow(p) # UserAchievement(q)
               /\ Block(p) # Activity(q) /\ Block(p) # UserStats(q)
               /\ Block(p) # UserAchievement(q) /\ Activity(p) # UserStats(q)
               /\ Activity(p) # UserAchievement(q) /\ UserStats(p) # UserAchievement(q)
BY DEF Follow, Block, Activity, UserStats, UserAchievement

LEMMA RowTypes ==
  /\ \A p \in Pairs : Follow(p) \in Rows /\ Block(p) \in Rows /\ Activity(p) \in Rows
  /\ \A u \in Users : UserStats(u) \in Rows /\ UserAchievement(u) \in Rows
<1>1. ASSUME NEW p \in Pairs
      PROVE  {Follow(p), Block(p), Activity(p)} \subseteq Rows
  BY DEF Rows
<1>2. ASSUME NEW u \in Users
      PROVE  {UserStats(u), UserAchievement(u)} \subseteq Rows
  BY DEF Rows
<1> QED BY <1>1, <1>2

LEMMA PairTypes ==
  \A p \in Pairs : /\ Swap(p) \in Pairs /\ Swap(Swap(p)) = p /\ Swap(p) # p
                   /\ p[1] \in Users /\ p[2] \in Users /\ p[1] # p[2]
                   /\ Swap(p)[1] = p[2] /\ Swap(p)[2] = p[1]
BY DEF Pairs, Swap

\* What a statement leads to: the call is given up, or goes on as it may.
Onward(c) ==
  /\ Others(c) /\ UNCHANGED <<db, raced>>
  /\ \/ tx'[c] = Idle
     \/ /\ tx[c] # Idle /\ tx'[c].kind = tx[c].kind /\ tx'[c].pair = tx[c].pair
        /\ CallOK(tx'[c], db)
        /\ ~raced => Unraced(tx'[c], db)
        /\ \A r \in DOMAIN tx'[c].mine : Wrote(tx[c], r) \/ Free(c, r)

LEMMA OnwardKeeps ==
  ASSUME SocialInv, NEW c \in Clients, Onward(c)
  PROVE  SocialInv'
<1>1. BaseOK(db)' /\ FollowAnnounced' /\ GoalRewarded'
  BY DEF SocialInv, Onward, BaseOK, FollowAnnounced, GoalRewarded
<1>2. CallsOK'
  BY DEF SocialInv, Onward, CallsOK, Others
<1>3. Locked'
  <2>1. Locked /\ Others(c) /\ \A r \in DOMAIN tx'[c].mine : Wrote(tx[c], r) \/ Free(c, r)
    BY NothingWritten DEF Onward, SocialInv
  <2> QED BY <2>1, LockedKept
<1>4. RaceInv'
  <2> SUFFICES ASSUME ~raced' PROVE RaceInv'
    BY DEF RaceInv
  <2>1. ~raced /\ ~Crossed'
    BY DEF Onward, SocialInv, RaceInv, Crossed
  <2>2. \A d \in Clients : tx'[d] # Idle => /\ tx[d] # Idle /\ Unraced(tx'[d], db')
                                          /\ tx'[d].kind = tx[d].kind
                                          /\ tx'[d].pair = tx[d].pair
    BY <2>1 DEF Onward, Others, SocialInv, RaceInv
  <2> QED BY <2>1, <2>2 DEF RaceInv, SocialInv, Together
<1> QED BY <1>1, <1>2, <1>3, <1>4 DEF SocialInv

----------------------------------------------------------------------------
(* Statement by statement.                                                 *)

\* A call that is at some statement, and what it sees there.
LEMMA InHand ==
  ASSUME SocialInv, NEW c \in Clients, tx[c].pc # "idle"
  PROVE  /\ tx[c] # Idle /\ CallOK(tx[c], db) /\ (~raced => Unraced(tx[c], db))
         /\ DOMAIN See(c) = Rows
         /\ \A r \in Rows : See(c)[r] = IF Wrote(tx[c], r) THEN tx[c].mine[r] ELSE db[r]
<1>1. tx[c] # Idle /\ CallOK(tx[c], db) /\ (~raced => Unraced(tx[c], db))
  BY NothingWritten DEF SocialInv, CallsOK, RaceInv
<1>2. DOMAIN tx[c].mine \subseteq DOMAIN db /\ DOMAIN db = Rows
  BY <1>1 DEF SocialInv, BaseOK, CallOK, CallTyped
<1> QED BY <1>1, <1>2, SeeEffect

LEMMA ReadEffect ==
  ASSUME CallsOK, NEW c \in Clients, CallTyped(tx[c]),
         NEW next, DOMAIN next \subseteq Fields \ {"mine"}, Read(c, next)
  PROVE  /\ Others(c) /\ UNCHANGED <<db, raced>>
         /\ DOMAIN tx'[c] = Fields
         /\ \A f \in Fields : tx'[c][f] = IF f \in DOMAIN next THEN next[f] ELSE tx[c][f]
<1>1. /\ DOMAIN next \subseteq DOMAIN tx[c] /\ "mine" \notin DOMAIN next
      /\ "mine" \in DOMAIN tx[c] /\ tx = [d \in Clients |-> tx[d]] /\ DOMAIN tx[c] = Fields
      /\ Advance(c, next) /\ UNCHANGED raced
  BY DEF Read, CallsOK, CallTyped, Fields
<1>2. /\ Others(c) /\ UNCHANGED db
      /\ GoneOn(tx[c], tx'[c], next) /\ tx'[c].mine = tx[c].mine
  BY <1>1, AdvanceEffect
<1> QED BY <1>1, <1>2 DEF GoneOn

LEMMA WriteEffect ==
  ASSUME CallsOK, NEW c \in Clients, CallTyped(tx[c]), NEW r, NEW v,
         NEW next, DOMAIN next \subseteq Fields \ {"mine"}, Write(c, r, v, next)
  PROVE  /\ Others(c) /\ UNCHANGED <<db, raced>> /\ Free(c, r)
         /\ DOMAIN tx'[c] = Fields
         /\ OneRow(tx[c], tx'[c], r, v)
         /\ \A f \in Fields \ {"mine"} :
              tx'[c][f] = IF f \in DOMAIN next THEN next[f] ELSE tx[c][f]
<1>1. /\ DOMAIN next \subseteq DOMAIN tx[c] /\ "mine" \notin DOMAIN next
      /\ "mine" \in DOMAIN tx[c] /\ tx = [d \in Clients |-> tx[d]] /\ DOMAIN tx[c] = Fields
      /\ Put(c, r, v, next) /\ UNCHANGED raced
  BY DEF Write, CallsOK, CallTyped, Fields
<1>2. /\ Others(c) /\ UNCHANGED db /\ Free(c, r)
      /\ GoneOn(tx[c], tx'[c], next) /\ OneRow(tx[c], tx'[c], r, v)
  BY <1>1, PutEffect
<1> QED BY <1>1, <1>2 DEF GoneOn

\* Between two statements that count the same, the counters stay right.
LEMMA SameCounts ==
  ASSUME NEW t, NEW s, NEW base, StatsOK(t, base), s.kind = t.kind,
         \A u \in Users : /\ Wrote(s, UserStats(u)) = Wrote(t, UserStats(u))
                          /\ Wrote(t, UserStats(u)) => s.mine[UserStats(u)] = t.mine[UserStats(u)],
         Changed(s) \ Uncounted(s).following = Changed(t) \ Uncounted(t).following,
         Changed(s) \ Uncounted(s).followers = Changed(t) \ Uncounted(t).followers
  PROVE  StatsOK(s, base)
<1>1. \A u \in Users : /\ MovedFollowing(s, u) = MovedFollowing(t, u)
                       /\ MovedFollowers(s, u) = MovedFollowers(t, u)
  BY DEF MovedFollowing, MovedFollowers, Sign
<1> QED BY <1>1 DEF StatsOK

\* A statement that only reads may move the call on.
LEMMA ReadOnward ==
  ASSUME SocialInv, NEW c \in Clients, tx[c].pc # "idle", NEW next,
         DOMAIN next \subseteq {"pc", "todo"}, Read(c, next),
         tx'[c].pc \in Statements[tx[c].kind],
         {tx[c].pc, tx'[c].pc} \cap {"following", "followers", "announce", "evaluate"} = {},
         tx'[c].todo \subseteq {tx[c].pair, Swap(tx[c].pair)},
         tx[c].kind # "block" => tx'[c].todo \subseteq {tx[c].pair},
         tx[c].kind = "follow" /\ tx'[c].pc \in {"findBlock", "findFollow", "create"} =>
           tx[c].pc \in {"findBlock", "findFollow", "create"},
         tx[c].kind = "follow" /\ tx'[c].pc = "commit" => Changed(tx[c]) = {},
         tx[c].kind = "block" => tx[c].pc # "upsertBlock",
         ~raced => Unraced(tx'[c], db)
  PROVE  Onward(c)
<1> DEFINE t == tx[c]
           s == tx'[c]
<1>1. tx[c] # Idle /\ CallOK(t, db)
  BY InHand
<1>2. /\ Others(c) /\ UNCHANGED <<db, raced>>
      /\ DOMAIN s = Fields
      /\ \A f \in Fields : s[f] = IF f \in DOMAIN next THEN next[f] ELSE t[f]
  BY <1>1, ReadEffect DEF SocialInv, CallOK, Fields
<1>3. s.kind = t.kind /\ s.pair = t.pair /\ s.row = t.row /\ s.mine = t.mine
  BY <1>2 DEF Fields
<1>4. Changed(s) = Changed(t) /\ \A r : Wrote(s, r) <=> Wrote(t, r)
  BY <1>3 DEF Changed, Wrote
<1>5. CallTyped(s)
  BY <1>1, <1>2, <1>3 DEF CallOK, CallTyped
<1>6. FollowsOK(s, db)
  BY <1>1, <1>3, <1>4 DEF CallOK, FollowsOK
<1>7. StatsOK(s, db)
  <2>1. Uncounted(s).following = Uncounted(t).following
         /\ Uncounted(s).followers = Uncounted(t).followers
    BY DEF Uncounted
  <2>2. \A u \in Users : Wrote(s, UserStats(u)) = Wrote(t, UserStats(u))
    BY <1>3 DEF Wrote
  <2> HIDE DEF s, t
  <2> QED BY <1>1, <1>3, <1>4, <2>1, <2>2, SameCounts DEF CallOK
<1>8. BlocksOK(s)
  BY <1>1, <1>3, <1>4 DEF CallOK, BlocksOK
<1>9. RewardsOK(s)
  BY <1>1, <1>3, <1>4 DEF CallOK, RewardsOK
<1> QED
  <2>1. CallOK(s, db)
    BY <1>5, <1>6, <1>7, <1>8, <1>9 DEF CallOK
  <2>2. \A x \in DOMAIN s.mine : Wrote(t, x)
    BY <1>3 DEF Wrote
  <2> QED BY <1>1, <1>2, <1>3, <2>1, <2>2 DEF Onward

\* A statement that writes one row may move the call on.
LEMMA WriteOnward ==
  ASSUME SocialInv, NEW c \in Clients, tx[c].pc # "idle", NEW r \in Rows, NEW v, NEW next,
         DOMAIN next \subseteq {"pc", "row", "todo"}, Write(c, r, v, next),
         tx'[c].pc \in Statements[tx[c].kind],
         tx'[c].row \in {tx[c].pair, Swap(tx[c].pair)},
         tx'[c].todo \subseteq {tx[c].pair, Swap(tx[c].pair)},
         tx[c].kind # "block" =>
           tx'[c].row = tx[c].pair /\ tx'[c].todo \subseteq {tx[c].pair},
         FollowsOK(tx'[c], db), StatsOK(tx'[c], db), BlocksOK(tx'[c]), RewardsOK(tx'[c]),
         ~raced => Unraced(tx'[c], db)
  PROVE  Onward(c)
<1> DEFINE t == tx[c]
           s == tx'[c]
<1>1. tx[c] # Idle /\ CallOK(t, db)
  BY InHand
<1>2. /\ Others(c) /\ UNCHANGED <<db, raced>> /\ Free(c, r)
      /\ DOMAIN s = Fields
      /\ \A x : Wrote(s, x) => Wrote(t, x) \/ x = r
      /\ \A f \in Fields \ {"mine"} : s[f] = IF f \in DOMAIN next THEN next[f] ELSE t[f]
  <2>1. CallsOK /\ CallTyped(t) /\ DOMAIN next \subseteq Fields \ {"mine"}
    BY <1>1 DEF SocialInv, CallOK, Fields
  <2>2. OneRow(t, s, r, v) /\ Others(c) /\ UNCHANGED <<db, raced>> /\ Free(c, r)
        /\ DOMAIN s = Fields
        /\ \A f \in Fields \ {"mine"} : s[f] = IF f \in DOMAIN next THEN next[f] ELSE t[f]
    BY <2>1, WriteEffect
  <2> QED BY <2>2 DEF OneRow
<1>3. s.kind = t.kind /\ s.pair = t.pair
  BY <1>2 DEF Fields
<1>4. CallTyped(s)
  BY <1>1, <1>2, <1>3 DEF CallOK, CallTyped, Wrote
<1> QED BY <1>1, <1>2, <1>3, <1>4 DEF Onward, CallOK, Wrote

LEMMA RollbackOnward ==
  ASSUME SocialInv, NEW c \in Clients, Rollback(c)
  PROVE  Onward(c)
BY DEF Rollback, Throw, Abort, SocialInv, CallsOK, Onward, Others

LEMMA FindBlockOnward ==
  ASSUME SocialInv, NEW c \in Clients, FindBlock(c)
  PROVE  Onward(c)
<1> DEFINE p == tx[c].pair
<1>1. tx[c].pc = "findBlock" /\ tx[c].kind = "follow"
  BY DEF FindBlock, At
<1>2. /\ CallOK(tx[c], db)
      /\ \A r \in Rows : See(c)[r] = IF Wrote(tx[c], r) THEN tx[c].mine[r] ELSE db[r]
  BY <1>1, InHand
<1>3. CASE See(c)[Block(p)] \/ See(c)[Block(Swap(p))]
  BY <1>3 DEF FindBlock, Throw, Abort, SocialInv, CallsOK, Onward, Others
<1>4. CASE ~(See(c)[Block(p)] \/ See(c)[Block(Swap(p))])
  <2>1. Read(c, [pc |-> "findFollow"])
    BY <1>4 DEF FindBlock
  <2>2. p \in Pairs /\ Swap(p) \in Pairs
    BY <1>2, PairTypes DEF CallOK, CallTyped
  <2>3. ~db[Block(p)] /\ ~db[Block(Swap(p))]
    BY <1>1, <1>2, <1>4, <2>2, RowTypes DEF CallOK, BlocksOK
  <2>4. /\ tx'[c].pc = "findFollow" /\ tx'[c].kind = "follow"
        /\ tx'[c].pair = p /\ tx'[c].todo = tx[c].todo
    BY <1>1, <1>2, <2>1, ReadEffect DEF SocialInv, CallOK, Fields
  <2>5. Unraced(tx'[c], db)
    BY <2>3, <2>4 DEF Unraced
  <2> QED BY <1>1, <1>2, <2>1, <2>4, <2>5, ReadOnward DEF CallOK, CallTyped, Statements
<1> QED BY <1>3, <1>4

LEMMA FindFollowOnward ==
  ASSUME SocialInv, NEW c \in Clients, FindFollow(c)
  PROVE  Onward(c)
<1> DEFINE p      == tx[c].pair
           exists == See(c)[Follow(p)]
           pc     == IF exists = (tx[c].kind = "follow") THEN "commit"
                     ELSE IF exists THEN "delete" ELSE "create"
           todo   == IF exists THEN {p} ELSE {}
<1>1. /\ tx[c].pc = "findFollow" /\ tx[c].kind \in {"follow", "unfollow"}
      /\ Read(c, [pc |-> pc, todo |-> todo])
  BY DEF FindFollow, At
<1>2. CallOK(tx[c], db) /\ (~raced => Unraced(tx[c], db))
  BY <1>1, InHand
<1>3. /\ tx'[c].pc = pc /\ tx'[c].kind = tx[c].kind
      /\ tx'[c].pair = p /\ tx'[c].todo = todo
  <2> HIDE DEF pc, todo
  <2> QED BY <1>1, <1>2, ReadEffect DEF SocialInv, CallOK, Fields
<1>4. exists \in BOOLEAN
  <2>1. p \in Pairs
    BY <1>2 DEF CallOK, CallTyped
  <2>2. exists = IF Wrote(tx[c], Follow(p)) THEN tx[c].mine[Follow(p)] ELSE db[Follow(p)]
    BY <1>1, <2>1, InHand, RowTypes
  <2>3. Wrote(tx[c], Follow(p)) => tx[c].mine[Follow(p)] = (tx[c].kind = "follow")
    BY <1>2, <2>1 DEF CallOK, FollowsOK, Changed
  <2>4. db[Follow(p)] \in BOOLEAN
    BY <2>1 DEF SocialInv, BaseOK
  <2> HIDE DEF exists
  <2> QED BY <2>2, <2>3, <2>4
<1>5. /\ tx[c].kind = "follow" => pc \in {"commit", "create"}
      /\ tx[c].kind = "unfollow" => pc \in {"commit", "delete"}
  BY <1>1, <1>4
<1>6. ~raced => Unraced(tx'[c], db)
  BY <1>1, <1>2, <1>3 DEF Unraced
<1>7. tx[c].kind = "follow" => Changed(tx[c]) = {}
  BY <1>1, <1>2 DEF CallOK, FollowsOK
<1>8. todo \subseteq {p}
  OBVIOUS
<1> HIDE DEF pc, todo
<1> QED BY <1>1, <1>3, <1>5, <1>6, <1>7, <1>8, ReadOnward DEF Statements

LEMMA FindFollowsOnward ==
  ASSUME SocialInv, NEW c \in Clients, FindFollows(c)
  PROVE  Onward(c)
<1> DEFINE p    == tx[c].pair
           todo == Severed(See(c), p)
<1>1. /\ tx[c].pc = "findFollows" /\ tx[c].kind = "block"
      /\ Read(c, [pc |-> "delete", todo |-> todo])
  BY DEF FindFollows, At
<1>2. CallOK(tx[c], db)
  BY <1>1, InHand
<1>3. /\ tx'[c].pc = "delete" /\ tx'[c].kind = "block"
      /\ tx'[c].pair = p /\ tx'[c].todo = todo /\ tx'[c].mine = tx[c].mine
  BY <1>1, <1>2, ReadEffect DEF SocialInv, CallOK, Fields
<1>4. todo \subseteq {p, Swap(p)}
  BY DEF Severed
<1>5. Unraced(tx'[c], db)
  <2>1. p \in Pairs /\ Swap(p) \in Pairs
    BY <1>2, PairTypes DEF CallOK, CallTyped
  <2>2. \A q \in {p, Swap(p)} : db[Follow(q)] => q \in Changed(tx'[c]) \/ q \in todo
    BY <1>1, <1>3, <2>1, InHand, RowTypes DEF Severed, Changed, Wrote
  <2> QED BY <1>3, <2>2 DEF Unraced
<1> HIDE DEF todo
<1> QED BY <1>1, <1>3, <1>4, <1>5, ReadOnward DEF Statements

\* What a statement that writes leaves in hand.
LEMMA Written ==
  ASSUME SocialInv, NEW c \in Clients, tx[c].pc # "idle", NEW r, NEW v, NEW next,
         DOMAIN next \subseteq {"pc", "row", "todo"}, Write(c, r, v, next)
  PROVE  /\ tx'[c].kind = tx[c].kind /\ tx'[c].pair = tx[c].pair
         /\ \A f \in {"pc", "row", "todo"} :
              tx'[c][f] = IF f \in DOMAIN next THEN next[f] ELSE tx[c][f]
         /\ OneRow(tx[c], tx'[c], r, v)
<1>1. CallsOK /\ CallTyped(tx[c]) /\ DOMAIN next \subseteq Fields \ {"mine"}
  BY InHand DEF SocialInv, CallOK, Fields
<1>2. /\ OneRow(tx[c], tx'[c], r, v)
      /\ \A f \in Fields \ {"mine"} :
           tx'[c][f] = IF f \in DOMAIN next THEN next[f] ELSE tx[c][f]
  BY <1>1, WriteEffect
<1> QED BY <1>2 DEF Fields

\* A statement that writes no follow, and one that writes no announcement and
\* no achievement.
LEMMA FollowsKept ==
  ASSUME NEW t, NEW s, NEW base, FollowsOK(t, base),
         s.kind = t.kind, s.pair = t.pair, s.row = t.row,
         \A q \in Pairs : /\ Wrote(s, Follow(q)) = Wrote(t, Follow(q))
                          /\ Wrote(t, Follow(q)) => s.mine[Follow(q)] = t.mine[Follow(q)],
         s.pc \notin {"findBlock", "findFollow", "create"},
         s.pc \in {"following", "followers", "announce", "evaluate"} => t.row \in Changed(t)
  PROVE  FollowsOK(s, base) /\ Changed(s) = Changed(t)
<1>1. Changed(s) = Changed(t)
  BY DEF Changed
<1>2. \A q \in Changed(t) : q \in Pairs /\ s.mine[Follow(q)] = t.mine[Follow(q)]
  BY DEF Changed
<1> QED BY <1>1, <1>2 DEF FollowsOK

LEMMA RewardsKept ==
  ASSUME NEW t, NEW s, RewardsOK(t), s.kind = t.kind, s.pair = t.pair,
         Changed(t) \subseteq Changed(s), s.pc \notin {"evaluate", "commit"},
         \A q \in Pairs : /\ Wrote(s, Activity(q)) = Wrote(t, Activity(q))
                          /\ Wrote(t, Activity(q)) => s.mine[Activity(q)] = t.mine[Activity(q)],
         \A u \in Users : /\ Wrote(s, UserAchievement(u)) = Wrote(t, UserAchievement(u))
                          /\ Wrote(t, UserAchievement(u)) =>
                               s.mine[UserAchievement(u)] = t.mine[UserAchievement(u)]
  PROVE  RewardsOK(s)
BY DEF RewardsOK

LEMMA CreateFollowOnward ==
  ASSUME SocialInv, NEW c \in Clients, CreateFollow(c)
  PROVE  Onward(c)
<1> DEFINE t == tx[c]
           s == tx'[c]
           p == tx[c].pair
           r == Follow(p)
<1>1. t.pc = "create" /\ t.kind = "follow"
  BY DEF CreateFollow, At
<1>2. CallOK(t, db) /\ (~raced => Unraced(t, db)) /\ p \in Pairs /\ t.row = p /\ t.todo \subseteq {p}
  BY <1>1, InHand DEF CallOK, CallTyped
<1>3. CASE See(c)[r]
  BY <1>3 DEF CreateFollow, Throw, Abort, SocialInv, CallsOK, Onward, Others
<1>4. CASE ~See(c)[r]
  <2> DEFINE v    == TRUE
             next == [pc |-> "following"]
  <2>1. Write(c, r, v, next) /\ DOMAIN next = {"pc"} /\ next.pc = "following"
    BY <1>4 DEF CreateFollow
  <2> HIDE DEF next, v
  <2>2. /\ s.pc = "following" /\ s.kind = "follow" /\ s.pair = p
        /\ s.row = p /\ s.todo = t.todo
    BY <1>1, <1>2, <2>1, Written
  <2>3. /\ Wrote(s, r) /\ s.mine[r] = TRUE
        /\ \A x : x # r => Wrote(s, x) = Wrote(t, x)
        /\ \A x : x # r /\ Wrote(t, x) => s.mine[x] = t.mine[x]
    <3>1. /\ Wrote(s, r) /\ s.mine[r] = v
          /\ \A x : x # r => Wrote(s, x) = Wrote(t, x)
          /\ \A x : x # r /\ Wrote(t, x) => s.mine[x] = t.mine[x]
      <4>1. OneRow(t, s, r, v)
        BY <1>1, <2>1, Written
      <4> QED BY <4>1 DEF OneRow
    <3> QED BY <3>1 DEF v
  <2>4. Changed(t) = {} /\ ~Wrote(t, r)
    BY <1>1, <1>2 DEF CallOK, FollowsOK, Changed
  <2>5. Changed(s) = {p}
    BY <1>2, <2>3, <2>4, RowIds DEF Changed
  <2>6. ~db[r]
    BY <1>1, <1>2, <1>4, <2>4, InHand, RowTypes
  <2>7. FollowsOK(s, db)
    <3>1. db[r] = FALSE
      BY <1>2, <2>6 DEF SocialInv, BaseOK
    <3> QED BY <2>2, <2>3, <2>5, <3>1 DEF FollowsOK
  <2>8. StatsOK(s, db)
    <3>1. \A u \in Users : /\ Wrote(s, UserStats(u)) = Wrote(t, UserStats(u))
                           /\ Wrote(t, UserStats(u)) =>
                                s.mine[UserStats(u)] = t.mine[UserStats(u)]
      BY <2>3, RowIds
    <3>2. /\ Changed(s) \ Uncounted(s).following = {} /\ Changed(s) \ Uncounted(s).followers = {}
          /\ Changed(t) \ Uncounted(t).following = {} /\ Changed(t) \ Uncounted(t).followers = {}
      BY <2>2, <2>4, <2>5 DEF Uncounted
    <3> HIDE DEF s, t
    <3> QED BY <1>1, <1>2, <2>2, <3>1, <3>2, SameCounts DEF CallOK
  <2>9. BlocksOK(s)
    BY <1>1, <1>2, <2>2, <2>3, RowIds DEF CallOK, BlocksOK
  <2>10. RewardsOK(s)
    BY <1>1, <1>2, <2>2, <2>3, <2>4, RowIds DEF CallOK, RewardsOK
  <2>11. ~raced => Unraced(s, db)
    BY <1>1, <1>2, <2>2 DEF Unraced
  <2> QED BY <1>1, <1>2, <2>1, <2>2, <2>7, <2>8, <2>9, <2>10, <2>11, RowTypes, WriteOnward
          DEF Statements
<1> QED BY <1>3, <1>4

LEMMA DeleteFollowOnward ==
  ASSUME SocialInv, NEW c \in Clients, DeleteFollow(c)
  PROVE  Onward(c)
<1> DEFINE t == tx[c]
           s == tx'[c]
           p == tx[c].pair
<1>1. t.pc = "delete" /\ t.kind \in {"unfollow", "block"}
  BY DEF DeleteFollow, At
<1>2. /\ CallOK(t, db) /\ (~raced => Unraced(t, db)) /\ p \in Pairs
      /\ t.todo \subseteq {p, Swap(p)} /\ (t.kind # "block" => t.todo \subseteq {p})
  BY <1>1, InHand DEF CallOK, CallTyped
<1>3. CASE t.todo = {}
  <2> DEFINE next == [pc |-> "commit"]
  <2>1. Read(c, next) /\ DOMAIN next = {"pc"} /\ next.pc = "commit"
    BY <1>3 DEF DeleteFollow
  <2> HIDE DEF next
  <2>2. /\ s.pc = "commit" /\ s.kind = t.kind /\ s.pair = p
        /\ s.todo = {} /\ s.mine = t.mine
    BY <1>2, <1>3, <2>1, ReadEffect DEF SocialInv, CallOK, Fields
  <2>3. ~raced => Unraced(s, db)
    BY <1>1, <1>2, <1>3, <2>2 DEF Unraced, Changed, Wrote
  <2> QED BY <1>1, <2>1, <2>2, <2>3, ReadOnward DEF Statements
<1>4. ASSUME NEW q \in t.todo, ~See(c)[Follow(q)], Throw(c)
      PROVE  Onward(c)
  BY <1>4 DEF Throw, Abort, SocialInv, CallsOK, Onward, Others
<1>5. ASSUME NEW q \in t.todo, See(c)[Follow(q)],
             Write(c, Follow(q), FALSE, [pc |-> "following", row |-> q, todo |-> t.todo \ {q}])
      PROVE  Onward(c)
  <2> DEFINE r    == Follow(q)
             v    == FALSE
             next == [pc |-> "following", row |-> q, todo |-> t.todo \ {q}]
  <2>1. /\ Write(c, r, v, next) /\ DOMAIN next = {"pc", "row", "todo"}
        /\ next.pc = "following" /\ next.row = q /\ next.todo = t.todo \ {q}
    BY <1>5
  <2> HIDE DEF next, v
  <2>2. /\ s.pc = "following" /\ s.kind = t.kind /\ s.pair = p
        /\ s.row = q /\ s.todo = t.todo \ {q}
    BY <1>1, <2>1, Written
  <2>3. /\ Wrote(s, r) /\ s.mine[r] = FALSE
        /\ \A x : x # r => Wrote(s, x) = Wrote(t, x)
        /\ \A x : x # r /\ Wrote(t, x) => s.mine[x] = t.mine[x]
    <3>1. /\ Wrote(s, r) /\ s.mine[r] = v
          /\ \A x : x # r => Wrote(s, x) = Wrote(t, x)
          /\ \A x : x # r /\ Wrote(t, x) => s.mine[x] = t.mine[x]
      <4>1. OneRow(t, s, r, v)
        BY <1>1, <2>1, Written
      <4> QED BY <4>1 DEF OneRow
    <3> QED BY <3>1 DEF v
  <2>4. q \in Pairs /\ q \in {p, Swap(p)} /\ r \in Rows
    BY <1>2, PairTypes, RowTypes
  <2>5. q \notin Changed(t) /\ db[r] = TRUE
    <3>1. See(c)[r] = IF Wrote(t, r) THEN t.mine[r] ELSE db[r]
      BY <1>1, <2>4, InHand
    <3>2. Wrote(t, r) => t.mine[r] = FALSE
      BY <1>1, <1>2, <2>4 DEF CallOK, FollowsOK, Changed
    <3>3. db[r] \in BOOLEAN
      BY <2>4 DEF SocialInv, BaseOK
    <3> QED BY <1>5, <3>1, <3>2, <3>3 DEF Changed
  <2>6. Changed(s) = Changed(t) \cup {q}
    BY <2>3, <2>4, RowIds DEF Changed
  <2>7. FollowsOK(s, db)
    <3>1. ASSUME NEW x \in Changed(t)
          PROVE  /\ x \in {p, Swap(p)} /\ (t.kind # "block" => x = p)
                 /\ s.mine[Follow(x)] = FALSE /\ db[Follow(x)] = TRUE
      BY <1>1, <1>2, <2>3, <2>5, RowIds DEF CallOK, FollowsOK, Changed
    <3>2. t.kind # "block" => q = p
      BY <1>2
    <3> QED BY <1>1, <2>2, <2>3, <2>4, <2>5, <2>6, <3>1, <3>2 DEF FollowsOK
  <2>8. StatsOK(s, db)
    <3>1. \A u \in Users : /\ Wrote(s, UserStats(u)) = Wrote(t, UserStats(u))
                           /\ Wrote(t, UserStats(u)) =>
                                s.mine[UserStats(u)] = t.mine[UserStats(u)]
      BY <2>3, RowIds
    <3>2. /\ Changed(s) \ Uncounted(s).following = Changed(t) \ Uncounted(t).following
          /\ Changed(s) \ Uncounted(s).followers = Changed(t) \ Uncounted(t).followers
      BY <1>1, <2>2, <2>5, <2>6 DEF Uncounted
    <3> HIDE DEF s, t
    <3> QED BY <1>1, <1>2, <2>2, <3>1, <3>2, SameCounts DEF CallOK
  <2>9. BlocksOK(s)
    BY <1>1, <1>2, <2>2, <2>3, RowIds DEF CallOK, BlocksOK
  <2>10. RewardsOK(s)
    <3>1. RewardsOK(t) /\ Changed(t) \subseteq Changed(s)
      BY <1>2, <2>6 DEF CallOK
    <3>2. \A x : r # Activity(x) /\ r # UserAchievement(x)
      BY RowIds
    <3>3. s.kind = t.kind /\ s.pair = t.pair /\ s.pc = "following"
      BY <2>2
    <3> HIDE DEF s, t, r
    <3> QED BY <2>3, <3>1, <3>2, <3>3, RewardsKept
  <2>11. ~raced => Unraced(s, db)
    BY <1>1, <1>2, <2>2, <2>6 DEF Unraced
  <2>12. /\ s.row \in {p, Swap(p)} /\ s.todo \subseteq {p, Swap(p)}
         /\ t.kind # "block" => s.row = p /\ s.todo \subseteq {p}
    BY <1>2, <2>2, <2>4
  <2> QED BY <1>1, <2>1, <2>2, <2>4, <2>7, <2>8, <2>9, <2>10, <2>11, <2>12, WriteOnward
          DEF Statements
<1> QED
  <2>1. t.todo = {} \/ \E q \in t.todo :
          \/ ~See(c)[Follow(q)] /\ Throw(c)
          \/ /\ See(c)[Follow(q)]
             /\ Write(c, Follow(q), FALSE, [pc |-> "following", row |-> q, todo |-> t.todo \ {q}])
    BY DEF DeleteFollow
  <2> QED BY <1>3, <1>4, <1>5, <2>1

\* Of a call's two pairs one leads away from each of the two users.
LEMMA OneEach ==
  ASSUME NEW t, CallTyped(t), NEW base, FollowsOK(t, base), t.row \in Changed(t)
  PROVE  /\ \A q \in Changed(t) \ {t.row} : q[1] # t.row[1] /\ q[2] # t.row[2]
         /\ t.row[1] \in Users /\ t.row[2] \in Users
BY PairTypes DEF CallTyped, FollowsOK

LEMMA UpdateFollowingOnward ==
  ASSUME SocialInv, NEW c \in Clients, UpdateFollowing(c)
  PROVE  Onward(c)
<1> DEFINE t    == tx[c]
           s    == tx'[c]
           w    == tx[c].row[1]
           r    == UserStats(w)
           v    == [See(c)[r] EXCEPT !.following = @ + Step(c)]
           next == [pc |-> "followers"]
<1>1. /\ t.pc = "following" /\ t.kind \in {"follow", "unfollow", "block"}
      /\ Write(c, r, v, next)
  BY DEF UpdateFollowing, At
<1>2. DOMAIN next = {"pc"} /\ next.pc = "followers"
  OBVIOUS
<1> HIDE DEF next
<1>3. CallOK(t, db) /\ (~raced => Unraced(t, db)) /\ t.row \in Changed(t)
  BY <1>1, InHand DEF CallOK, FollowsOK
<1>4. /\ w \in Users /\ r \in Rows
      /\ \A q \in Changed(t) \ {t.row} : q[1] # w
  BY <1>3, OneEach, RowTypes DEF CallOK
<1>5. See(c)[r] = [following |-> db[r].following + MovedFollowing(t, w),
                   followers |-> db[r].followers + MovedFollowers(t, w)]
  <2>1. See(c)[r] = IF Wrote(t, r) THEN t.mine[r] ELSE db[r]
    BY <1>1, <1>4, InHand
  <2>2. /\ db[r] = [following |-> db[r].following, followers |-> db[r].followers]
        /\ db[r].following \in Int /\ db[r].followers \in Int
    BY <1>4 DEF SocialInv, BaseOK
  <2>3. CASE Wrote(t, r)
    BY <1>3, <1>4, <2>1, <2>3 DEF CallOK, StatsOK
  <2>4. CASE ~Wrote(t, r)
    <3>1. MovedFollowing(t, w) = 0 /\ MovedFollowers(t, w) = 0
      BY <1>3, <1>4, <2>4 DEF CallOK, StatsOK
    <3> QED BY <2>1, <2>2, <2>4, <3>1
  <2> QED BY <2>3, <2>4
<1>6. v = [following |-> db[r].following + MovedFollowing(t, w) + Step(c),
           followers |-> db[r].followers + MovedFollowers(t, w)]
  BY <1>5
<1> HIDE DEF v
<1>7. /\ s.pc = "followers" /\ s.kind = t.kind /\ s.pair = t.pair
      /\ s.row = t.row /\ s.todo = t.todo
  BY <1>1, <1>2, Written
<1>8. /\ Wrote(s, r) /\ s.mine[r] = v
      /\ \A x : x # r => Wrote(s, x) = Wrote(t, x)
      /\ \A x : x # r /\ Wrote(t, x) => s.mine[x] = t.mine[x]
  <2>1. OneRow(t, s, r, v)
    BY <1>1, <1>2, Written
  <2> QED BY <2>1 DEF OneRow
<1>9. FollowsOK(s, db) /\ Changed(s) = Changed(t)
  <2> HIDE DEF s, t, r
  <2>1. \A q : r # Follow(q)
    BY RowIds DEF r
  <2>2. \A q \in Pairs : /\ Wrote(s, Follow(q)) = Wrote(t, Follow(q))
                         /\ Wrote(t, Follow(q)) => s.mine[Follow(q)] = t.mine[Follow(q)]
    BY <1>8, <2>1
  <2>3. FollowsOK(t, db)
    BY <1>3 DEF CallOK
  <2> QED BY <1>1, <1>3, <1>7, <2>2, <2>3, FollowsKept
<1>10. StatsOK(s, db)
  <2>1. \A u \in Users : MovedFollowers(s, u) = MovedFollowers(t, u)
    BY <1>1, <1>7, <1>9 DEF MovedFollowers, Uncounted, Sign
  <2>2. \A u \in Users \ {w} : MovedFollowing(s, u) = MovedFollowing(t, u)
    BY <1>1, <1>7, <1>9 DEF MovedFollowing, Uncounted, Sign
  <2>3. MovedFollowing(t, w) = 0 /\ MovedFollowing(s, w) = Step(c)
    BY <1>1, <1>3, <1>4, <1>7, <1>9 DEF MovedFollowing, Uncounted, Sign, Step
  <2>4. db[r].following \in Int /\ Step(c) \in Int
    <3>1. db[r].following \in Int
      BY <1>4 DEF SocialInv, BaseOK
    <3> QED BY <3>1 DEF Step
  <2>5. s.mine[r] = [following |-> db[r].following + MovedFollowing(s, w),
                     followers |-> db[r].followers + MovedFollowers(s, w)]
    BY <1>4, <1>6, <1>8, <2>1, <2>3, <2>4
  <2>6. ASSUME NEW u \in Users, u # w
        PROVE  /\ UserStats(u) # r
               /\ MovedFollowing(s, u) = MovedFollowing(t, u)
               /\ MovedFollowers(s, u) = MovedFollowers(t, u)
    BY <2>1, <2>2, <2>6, RowIds
  <2> QED BY <1>3, <1>8, <2>5, <2>6 DEF CallOK, StatsOK
<1>11. BlocksOK(s)
  BY <1>1, <1>3, <1>7, <1>8, RowIds DEF CallOK, BlocksOK
<1>12. RewardsOK(s)
  <2>1. RewardsOK(t) /\ Changed(t) \subseteq Changed(s)
    BY <1>3, <1>9 DEF CallOK
  <2> HIDE DEF s, t
  <2> QED BY <1>7, <1>8, <2>1, RowIds, RewardsKept
<1>13. ~raced => Unraced(s, db)
  BY <1>1, <1>3, <1>7, <1>9 DEF Unraced
<1>14. /\ s.row \in {t.pair, Swap(t.pair)} /\ s.todo \subseteq {t.pair, Swap(t.pair)}
       /\ t.kind # "block" => s.row = t.pair /\ s.todo \subseteq {t.pair}
  BY <1>3, <1>7 DEF CallOK, CallTyped
<1> QED BY <1>1, <1>2, <1>4, <1>7, <1>9, <1>10, <1>11, <1>12, <1>13, <1>14, WriteOnward
        DEF Statements

LEMMA UpdateFollowersOnward ==
  ASSUME SocialInv, NEW c \in Clients, UpdateFollowers(c)
  PROVE  Onward(c)
<1> DEFINE t    == tx[c]
           s    == tx'[c]
           w    == tx[c].row[2]
           r    == UserStats(w)
           v    == [See(c)[r] EXCEPT !.followers = @ + Step(c)]
           then == IF t.kind = "block" THEN "delete" ELSE "announce"
           next == [pc |-> then]
<1>1. /\ t.pc = "followers" /\ t.kind \in {"follow", "unfollow", "block"}
      /\ Write(c, r, v, next)
  BY DEF UpdateFollowers, At
<1>2. DOMAIN next = {"pc"} /\ next.pc = then
  OBVIOUS
<1> HIDE DEF next, then
<1>3. CallOK(t, db) /\ (~raced => Unraced(t, db)) /\ t.row \in Changed(t)
  BY <1>1, InHand DEF CallOK, FollowsOK
<1>4. /\ w \in Users /\ r \in Rows
      /\ \A q \in Changed(t) \ {t.row} : q[2] # w
  BY <1>3, OneEach, RowTypes DEF CallOK
<1>5. See(c)[r] = [following |-> db[r].following + MovedFollowing(t, w),
                   followers |-> db[r].followers + MovedFollowers(t, w)]
  <2>1. See(c)[r] = IF Wrote(t, r) THEN t.mine[r] ELSE db[r]
    BY <1>1, <1>4, InHand
  <2>2. /\ db[r] = [following |-> db[r].following, followers |-> db[r].followers]
        /\ db[r].following \in Int /\ db[r].followers \in Int
    BY <1>4 DEF SocialInv, BaseOK
  <2>3. CASE Wrote(t, r)
    BY <1>3, <1>4, <2>1, <2>3 DEF CallOK, StatsOK
  <2>4. CASE ~Wrote(t, r)
    <3>1. MovedFollowing(t, w) = 0 /\ MovedFollowers(t, w) = 0
      BY <1>3, <1>4, <2>4 DEF CallOK, StatsOK
    <3> QED BY <2>1, <2>2, <2>4, <3>1
  <2> QED BY <2>3, <2>4
<1>6. v = [following |-> db[r].following + MovedFollowing(t, w),
           followers |-> db[r].followers + MovedFollowers(t, w) + Step(c)]
  BY <1>5
<1> HIDE DEF v
<1>7. /\ s.pc = then /\ s.kind = t.kind /\ s.pair = t.pair
      /\ s.row = t.row /\ s.todo = t.todo
  BY <1>1, <1>2, Written
<1>8. /\ Wrote(s, r) /\ s.mine[r] = v
      /\ \A x : x # r => Wrote(s, x) = Wrote(t, x)
      /\ \A x : x # r /\ Wrote(t, x) => s.mine[x] = t.mine[x]
  <2>1. OneRow(t, s, r, v)
    BY <1>1, <1>2, Written
  <2> QED BY <2>1 DEF OneRow
<1>9. FollowsOK(s, db) /\ Changed(s) = Changed(t)
  <2>1. \A q : r # Follow(q)
    BY RowIds
  <2>2. s.pc \in {"delete", "announce"}
    BY <1>7 DEF then
  <2> HIDE DEF s, t, r
  <2>3. \A q \in Pairs : /\ Wrote(s, Follow(q)) = Wrote(t, Follow(q))
                         /\ Wrote(t, Follow(q)) => s.mine[Follow(q)] = t.mine[Follow(q)]
    BY <1>8, <2>1
  <2>4. FollowsOK(t, db)
    BY <1>3 DEF CallOK
  <2> QED BY <1>3, <1>7, <2>2, <2>3, <2>4, FollowsKept
<1>10. StatsOK(s, db)
  <2>1. \A u \in Users : MovedFollowing(s, u) = MovedFollowing(t, u)
    BY <1>1, <1>7, <1>9 DEF MovedFollowing, Uncounted, Sign, then
  <2>2. \A u \in Users \ {w} : MovedFollowers(s, u) = MovedFollowers(t, u)
    BY <1>1, <1>7, <1>9 DEF MovedFollowers, Uncounted, Sign, then
  <2>3. MovedFollowers(t, w) = 0 /\ MovedFollowers(s, w) = Step(c)
    BY <1>1, <1>3, <1>4, <1>7, <1>9 DEF MovedFollowers, Uncounted, Sign, Step, then
  <2>4. db[r].followers \in Int /\ Step(c) \in Int
    <3>1. db[r].followers \in Int
      BY <1>4 DEF SocialInv, BaseOK
    <3> QED BY <3>1 DEF Step
  <2>5. s.mine[r] = [following |-> db[r].following + MovedFollowing(s, w),
                     followers |-> db[r].followers + MovedFollowers(s, w)]
    BY <1>4, <1>6, <1>8, <2>1, <2>3, <2>4
  <2>6. ASSUME NEW u \in Users, u # w
        PROVE  /\ UserStats(u) # r
               /\ MovedFollowing(s, u) = MovedFollowing(t, u)
               /\ MovedFollowers(s, u) = MovedFollowers(t, u)
    BY <2>1, <2>2, <2>6, RowIds
  <2> QED BY <1>3, <1>8, <2>5, <2>6 DEF CallOK, StatsOK
<1>11. BlocksOK(s)
  <2>1. \A q : r # Block(q)
    BY RowIds
  <2>2. BlocksOK(t) /\ t.pc # "upsertBlock"
    BY <1>1, <1>3 DEF CallOK
  <2> HIDE DEF s, t, r
  <2> QED BY <1>7, <1>8, <2>1, <2>2 DEF BlocksOK
<1>12. RewardsOK(s)
  <2>1. RewardsOK(t) /\ Changed(t) \subseteq Changed(s) /\ s.pc \in {"delete", "announce"}
    BY <1>3, <1>7, <1>9 DEF CallOK, then
  <2> HIDE DEF s, t
  <2> QED BY <1>7, <1>8, <2>1, RowIds, RewardsKept
<1>13. ~raced => Unraced(s, db)
  BY <1>1, <1>3, <1>7, <1>9 DEF Unraced, then
<1>14. /\ s.row \in {t.pair, Swap(t.pair)} /\ s.todo \subseteq {t.pair, Swap(t.pair)}
       /\ t.kind # "block" => s.row = t.pair /\ s.todo \subseteq {t.pair}
       /\ s.pc \in Statements[t.kind]
  BY <1>1, <1>3, <1>7 DEF CallOK, CallTyped, Statements, then
<1> QED BY <1>1, <1>2, <1>4, <1>9, <1>10, <1>11, <1>12, <1>13, <1>14, WriteOnward

\* A statement that writes neither follow nor counter disturbs neither.
LEMMA CountersKept ==
  ASSUME NEW t, NEW s, NEW base, FollowsOK(t, base), StatsOK(t, base),
         s.kind = t.kind, s.pair = t.pair, s.row = t.row,
         t.pc \notin {"following", "followers"}, s.pc \in {"evaluate", "commit", "findFollows"},
         s.pc = "evaluate" => t.row \in Changed(t),
         \A q \in Pairs : /\ Wrote(s, Follow(q)) = Wrote(t, Follow(q))
                          /\ Wrote(t, Follow(q)) => s.mine[Follow(q)] = t.mine[Follow(q)],
         \A u \in Users : /\ Wrote(s, UserStats(u)) = Wrote(t, UserStats(u))
                          /\ Wrote(t, UserStats(u)) => s.mine[UserStats(u)] = t.mine[UserStats(u)]
  PROVE  FollowsOK(s, base) /\ StatsOK(s, base) /\ Changed(s) = Changed(t)
<1>1. FollowsOK(s, base) /\ Changed(s) = Changed(t)
  BY FollowsKept
<1>2. /\ Changed(s) \ Uncounted(s).following = Changed(t) \ Uncounted(t).following
      /\ Changed(s) \ Uncounted(s).followers = Changed(t) \ Uncounted(t).followers
  BY <1>1 DEF Uncounted
<1> QED BY <1>1, <1>2, SameCounts

LEMMA AnnounceOnward ==
  ASSUME SocialInv, NEW c \in Clients, Announce(c)
  PROVE  Onward(c)
<1> DEFINE t    == tx[c]
           s    == tx'[c]
           p    == tx[c].pair
           r    == Activity(p)
           v    == See(c)[r] + 1
           next == [pc |-> "evaluate"]
<1>1. /\ t.pc = "announce" /\ t.kind = "follow" /\ Write(c, r, v, next)
  BY DEF Announce, At
<1>2. DOMAIN next = {"pc"} /\ next.pc = "evaluate"
  OBVIOUS
<1> HIDE DEF next
<1>3. /\ CallOK(t, db) /\ (~raced => Unraced(t, db)) /\ t.row = p
      /\ p \in Pairs /\ r \in Rows /\ t.todo \subseteq {p}
  BY <1>1, InHand, RowTypes DEF CallOK, CallTyped
<1>4. Changed(t) = {p}
  BY <1>1, <1>3 DEF CallOK, FollowsOK
<1>5. v \in Nat \ {0}
  <2>1. See(c)[r] = IF Wrote(t, r) THEN t.mine[r] ELSE db[r]
    BY <1>1, <1>3, InHand
  <2>2. db[r] \in Nat
    BY <1>3 DEF SocialInv, BaseOK
  <2>3. Wrote(t, r) => t.mine[r] \in Nat
    BY <1>3 DEF CallOK, RewardsOK
  <2> QED BY <2>1, <2>2, <2>3
<1> HIDE DEF v
<1>6. /\ s.pc = "evaluate" /\ s.kind = t.kind /\ s.pair = t.pair
      /\ s.row = t.row /\ s.todo = t.todo
  BY <1>1, <1>2, Written
<1>7. /\ Wrote(s, r) /\ s.mine[r] = v
      /\ \A x : x # r => Wrote(s, x) = Wrote(t, x)
      /\ \A x : x # r /\ Wrote(t, x) => s.mine[x] = t.mine[x]
  <2>1. OneRow(t, s, r, v)
    BY <1>1, <1>2, Written
  <2> QED BY <2>1 DEF OneRow
<1>8. \A x : r # Follow(x) /\ r # Block(x) /\ r # UserStats(x) /\ r # UserAchievement(x)
  BY RowIds
<1>9. FollowsOK(s, db) /\ StatsOK(s, db) /\ Changed(s) = Changed(t)
  <2>1. FollowsOK(t, db) /\ StatsOK(t, db) /\ t.row \in Changed(t)
    BY <1>3, <1>4 DEF CallOK
  <2> HIDE DEF s, t, r
  <2> QED BY <1>1, <1>6, <1>7, <1>8, <2>1, CountersKept
<1>10. BlocksOK(s)
  BY <1>1, <1>3, <1>6, <1>7, <1>8 DEF CallOK, BlocksOK
<1>11. RewardsOK(s)
  <2>1. \A q \in Pairs : Wrote(s, Activity(q)) => q = p
    BY <1>3, <1>7, RowIds DEF CallOK, RewardsOK
  <2>2. \A u \in Users : Wrote(s, UserAchievement(u)) => s.mine[UserAchievement(u)] = TRUE
    BY <1>3, <1>7, <1>8 DEF CallOK, RewardsOK
  <2> QED BY <1>1, <1>4, <1>5, <1>6, <1>7, <1>9, <2>1, <2>2 DEF RewardsOK
<1>12. ~raced => Unraced(s, db)
  BY <1>1, <1>3, <1>6 DEF Unraced
<1> QED BY <1>1, <1>2, <1>3, <1>6, <1>9, <1>10, <1>11, <1>12, WriteOnward DEF Statements

LEMMA RetractOnward ==
  ASSUME SocialInv, NEW c \in Clients, Retract(c)
  PROVE  Onward(c)
<1> DEFINE t    == tx[c]
           s    == tx'[c]
           p    == tx[c].pair
           r    == Activity(p)
           next == [pc |-> "commit"]
<1>1. /\ t.pc = "announce" /\ t.kind = "unfollow" /\ Write(c, r, 0, next)
  BY DEF Retract, At
<1>2. DOMAIN next = {"pc"} /\ next.pc = "commit"
  OBVIOUS
<1> HIDE DEF next
<1>3. /\ CallOK(t, db) /\ t.row = p
      /\ p \in Pairs /\ r \in Rows /\ t.todo \subseteq {p}
  BY <1>1, InHand, RowTypes DEF CallOK, CallTyped
<1>4. Changed(t) = {p}
  BY <1>1, <1>3 DEF CallOK, FollowsOK
<1>5. /\ s.pc = "commit" /\ s.kind = t.kind /\ s.pair = t.pair
      /\ s.row = t.row /\ s.todo = t.todo
  BY <1>1, <1>2, Written
<1>6. /\ Wrote(s, r) /\ s.mine[r] = 0
      /\ \A x : x # r => Wrote(s, x) = Wrote(t, x)
      /\ \A x : x # r /\ Wrote(t, x) => s.mine[x] = t.mine[x]
  <2>1. OneRow(t, s, r, 0)
    BY <1>1, <1>2, Written
  <2> QED BY <2>1 DEF OneRow
<1>7. \A x : r # Follow(x) /\ r # Block(x) /\ r # UserStats(x) /\ r # UserAchievement(x)
  BY RowIds
<1>8. FollowsOK(s, db) /\ StatsOK(s, db) /\ Changed(s) = Changed(t)
  <2>1. FollowsOK(t, db) /\ StatsOK(t, db)
    BY <1>3 DEF CallOK
  <2> HIDE DEF s, t, r
  <2> QED BY <1>1, <1>5, <1>6, <1>7, <2>1, CountersKept
<1>9. BlocksOK(s)
  BY <1>1, <1>3, <1>5, <1>6, <1>7 DEF CallOK, BlocksOK
<1>10. RewardsOK(s)
  <2>1. \A q \in Pairs : Wrote(s, Activity(q)) => q = p
    BY <1>3, <1>6, RowIds DEF CallOK, RewardsOK
  <2>2. \A u \in Users : Wrote(s, UserAchievement(u)) => s.mine[UserAchievement(u)] = TRUE
    BY <1>3, <1>6, <1>7 DEF CallOK, RewardsOK
  <2> QED BY <1>1, <1>4, <1>5, <1>6, <1>8, <2>1, <2>2 DEF RewardsOK
<1>11. Unraced(s, db)
  BY <1>1, <1>5 DEF Unraced
<1> QED BY <1>1, <1>2, <1>3, <1>5, <1>8, <1>9, <1>10, <1>11, WriteOnward DEF Statements

LEMMA EvaluateOnward ==
  ASSUME SocialInv, NEW c \in Clients, Evaluate(c)
  PROVE  Onward(c)
<1> DEFINE t    == tx[c]
           s    == tx'[c]
           p    == tx[c].pair
           u    == p[2]
           r    == UserAchievement(u)
           next == [pc |-> "commit"]
<1>1. /\ t.pc = "evaluate" /\ t.kind = "follow"
      /\ \/ See(c)[UserStats(u)].followers >= Goal /\ Write(c, r, TRUE, next)
         \/ ~(See(c)[UserStats(u)].followers >= Goal) /\ Read(c, next)
  BY DEF Evaluate, At
<1>2. DOMAIN next = {"pc"} /\ next.pc = "commit"
  OBVIOUS
<1> HIDE DEF next
<1>3. /\ CallOK(t, db) /\ (~raced => Unraced(t, db)) /\ t.row = p
      /\ p \in Pairs /\ t.todo \subseteq {p} /\ DOMAIN t = Fields
  BY <1>1, InHand DEF CallOK, CallTyped
<1>4. Changed(t) = {p} /\ Wrote(t, Activity(p))
  BY <1>1, <1>3 DEF CallOK, FollowsOK, RewardsOK
<1>5. u \in Users /\ r \in Rows /\ UserStats(u) \in Rows
  BY <1>3, PairTypes, RowTypes
<1>6. Wrote(t, UserStats(u)) /\ See(c)[UserStats(u)] = t.mine[UserStats(u)]
  <2>1. MovedFollowers(t, u) # 0
    BY <1>1, <1>4 DEF MovedFollowers, Uncounted, Sign
  <2>2. Wrote(t, UserStats(u))
    BY <1>3, <1>5, <2>1 DEF CallOK, StatsOK
  <2> QED BY <1>1, <1>5, <2>2, InHand
<1>7. \A x : /\ r # Follow(x) /\ r # Block(x) /\ r # UserStats(x) /\ r # Activity(x)
             /\ UserAchievement(x) = r => x = u
  BY RowIds
<1>8. CASE Write(c, r, TRUE, next)
  <2> DEFINE v == TRUE
  <2>1. Write(c, r, v, next)
    BY <1>8
  <2> HIDE DEF v
  <2>2. /\ s.pc = "commit" /\ s.kind = t.kind /\ s.pair = t.pair
        /\ s.row = t.row /\ s.todo = t.todo
    BY <1>1, <1>2, <2>1, Written
  <2>3. /\ Wrote(s, r) /\ s.mine[r] = v
        /\ \A x : x # r => Wrote(s, x) = Wrote(t, x)
        /\ \A x : x # r /\ Wrote(t, x) => s.mine[x] = t.mine[x]
    <3>1. OneRow(t, s, r, v)
      BY <1>1, <1>2, <2>1, Written
    <3> QED BY <3>1 DEF OneRow
  <2>4. s.mine[r] = TRUE
    BY <2>3 DEF v
  <2>5. FollowsOK(s, db) /\ StatsOK(s, db) /\ Changed(s) = Changed(t)
    <3>1. FollowsOK(t, db) /\ StatsOK(t, db)
      BY <1>3 DEF CallOK
    <3> HIDE DEF s, t, r
    <3> QED BY <1>1, <1>7, <2>2, <2>3, <3>1, CountersKept
  <2>6. BlocksOK(s)
    BY <1>1, <1>3, <1>7, <2>2, <2>3 DEF CallOK, BlocksOK
  <2>7. RewardsOK(s)
    <3>1. \A q \in Pairs : /\ Wrote(s, Activity(q)) = Wrote(t, Activity(q))
                           /\ Wrote(t, Activity(q)) => s.mine[Activity(q)] = t.mine[Activity(q)]
      BY <1>7, <2>3
    <3>2. \A w \in Users : Wrote(s, UserAchievement(w)) => s.mine[UserAchievement(w)] = TRUE
      BY <1>3, <1>7, <2>3, <2>4 DEF CallOK, RewardsOK
    <3>3. \A q \in Changed(s) : Wrote(s, Activity(q)) /\ Wrote(s, UserAchievement(q[2]))
      BY <1>4, <2>3, <2>5, <3>1, <1>3
    <3> QED BY <1>1, <1>3, <2>2, <2>5, <3>1, <3>2, <3>3 DEF CallOK, RewardsOK
  <2>8. ~raced => Unraced(s, db)
    BY <1>1, <1>3, <2>2 DEF Unraced
  <2> QED BY <1>1, <1>2, <1>3, <1>5, <2>1, <2>2, <2>5, <2>6, <2>7, <2>8, WriteOnward
          DEF Statements
<1>9. CASE ~(See(c)[UserStats(u)].followers >= Goal) /\ Read(c, next)
  <2>1. /\ Others(c) /\ UNCHANGED <<db, raced>> /\ DOMAIN s = Fields
        /\ s.pc = "commit" /\ s.kind = t.kind /\ s.pair = t.pair
        /\ s.row = t.row /\ s.todo = t.todo /\ s.mine = t.mine
    BY <1>2, <1>3, <1>9, ReadEffect DEF SocialInv, CallOK, Fields
  <2>2. FollowsOK(s, db) /\ StatsOK(s, db) /\ Changed(s) = Changed(t)
    <3>1. FollowsOK(t, db) /\ StatsOK(t, db)
      BY <1>3 DEF CallOK
    <3> HIDE DEF s, t
    <3> QED BY <1>1, <2>1, <3>1, CountersKept DEF Wrote
  <2>3. BlocksOK(s)
    BY <1>1, <1>3, <2>1 DEF CallOK, BlocksOK, Wrote
  <2>4. RewardsOK(s)
    BY <1>1, <1>3, <1>4, <1>6, <1>9, <2>1, <2>2 DEF CallOK, RewardsOK, Wrote
  <2>5. ~raced => Unraced(s, db)
    BY <1>1, <1>3, <2>1 DEF Unraced
  <2>6. CallTyped(s)
    BY <1>1, <1>3, <2>1 DEF CallOK, CallTyped, Statements
  <2> QED BY <1>1, <2>1, <2>2, <2>3, <2>4, <2>5, <2>6, InHand DEF Onward, CallOK, Wrote
<1> QED BY <1>1, <1>8, <1>9

\* Blocks are written by the two calls that write nothing else at that point.
LEMMA BlockWritten ==
  ASSUME SocialInv, NEW c \in Clients, NEW v \in BOOLEAN, NEW next, NEW then,
         \/ tx[c].kind = "block" /\ tx[c].pc = "upsertBlock" /\ v = TRUE /\ then = "findFollows"
         \/ tx[c].kind = "unblock" /\ tx[c].pc = "deleteBlock" /\ v = FALSE /\ then = "commit",
         DOMAIN next = {"pc"}, next.pc = then,
         Write(c, Block(tx[c].pair), v, next)
  PROVE  Onward(c)
<1> DEFINE t == tx[c]
           s == tx'[c]
           p == tx[c].pair
           r == Block(p)
<1>1. /\ CallOK(t, db) /\ t.pc # "idle" /\ p \in Pairs /\ r \in Rows
  BY InHand, RowTypes DEF CallOK, CallTyped
<1>2. /\ s.pc = then /\ s.kind = t.kind /\ s.pair = t.pair
      /\ s.row = t.row /\ s.todo = t.todo
  BY <1>1, Written
<1>3. /\ Wrote(s, r) /\ s.mine[r] = v
      /\ \A x : x # r => Wrote(s, x) = Wrote(t, x)
      /\ \A x : x # r /\ Wrote(t, x) => s.mine[x] = t.mine[x]
  <2>1. OneRow(t, s, r, v)
    BY <1>1, Written
  <2> QED BY <2>1 DEF OneRow
<1>4. \A x : /\ r # Follow(x) /\ r # Activity(x) /\ r # UserStats(x) /\ r # UserAchievement(x)
             /\ Block(x) = r => x = p
  BY RowIds
<1>5. FollowsOK(s, db) /\ StatsOK(s, db) /\ Changed(s) = Changed(t)
  <2>1. FollowsOK(t, db) /\ StatsOK(t, db)
    BY <1>1 DEF CallOK
  <2> HIDE DEF s, t, r
  <2> QED BY <1>2, <1>3, <1>4, <2>1, CountersKept DEF t
<1>6. BlocksOK(s)
  <2>1. s.mine[r] = (s.kind = "block")
    BY <1>2, <1>3
  <2>2. \A q \in Pairs : Wrote(s, Block(q)) => q = p
    BY <1>1, <1>3, <1>4 DEF CallOK, BlocksOK
  <2> QED BY <1>2, <1>3, <2>1, <2>2 DEF BlocksOK
<1>7. RewardsOK(s)
  <2>1. \A q \in Pairs : /\ Wrote(s, Activity(q)) = Wrote(t, Activity(q))
                         /\ Wrote(t, Activity(q)) => s.mine[Activity(q)] = t.mine[Activity(q)]
    BY <1>3, <1>4
  <2>2. \A u \in Users : /\ Wrote(s, UserAchievement(u)) = Wrote(t, UserAchievement(u))
                         /\ Wrote(t, UserAchievement(u)) =>
                              s.mine[UserAchievement(u)] = t.mine[UserAchievement(u)]
    BY <1>3, <1>4
  <2> QED BY <1>1, <1>2, <1>5, <2>1, <2>2 DEF CallOK, RewardsOK
<1>8. Unraced(s, db)
  BY <1>2 DEF Unraced
<1> QED BY <1>1, <1>2, <1>5, <1>6, <1>7, <1>8, WriteOnward DEF Statements, CallOK, CallTyped

LEMMA UpsertBlockOnward ==
  ASSUME SocialInv, NEW c \in Clients, UpsertBlock(c)
  PROVE  Onward(c)
<1> DEFINE next == [pc |-> "findFollows"]
           then == "findFollows"
           v    == TRUE
<1>1. /\ tx[c].pc = "upsertBlock" /\ tx[c].kind = "block"
      /\ Write(c, Block(tx[c].pair), v, next)
  BY DEF UpsertBlock, At
<1>2. DOMAIN next = {"pc"} /\ next.pc = then /\ v \in BOOLEAN /\ v = TRUE
  OBVIOUS
<1> HIDE DEF next, v
<1> QED BY <1>1, <1>2, BlockWritten

LEMMA DeleteBlockOnward ==
  ASSUME SocialInv, NEW c \in Clients, DeleteBlock(c)
  PROVE  Onward(c)
<1> DEFINE next == [pc |-> "commit"]
<1>1. tx[c].pc = "deleteBlock" /\ tx[c].kind = "unblock"
  BY DEF DeleteBlock, At
<1>2. CASE Write(c, Block(tx[c].pair), FALSE, next)
  <2> DEFINE v == FALSE
             then == "commit"
  <2>1. /\ DOMAIN next = {"pc"} /\ next.pc = then /\ v \in BOOLEAN /\ v = FALSE
        /\ Write(c, Block(tx[c].pair), v, next)
    BY <1>2
  <2> HIDE DEF next, v
  <2> QED BY <1>1, <2>1, BlockWritten
<1>3. CASE Read(c, next)
  <2>1. DOMAIN next = {"pc"} /\ next.pc = "commit"
    OBVIOUS
  <2> HIDE DEF next
  <2>2. CallOK(tx[c], db)
    BY <1>1, InHand
  <2>3. /\ tx'[c].pc = "commit" /\ tx'[c].kind = "unblock" /\ tx'[c].todo = tx[c].todo
    BY <1>1, <1>3, <2>1, <2>2, ReadEffect DEF SocialInv, CallOK, Fields
  <2>4. Unraced(tx'[c], db)
    BY <2>3 DEF Unraced
  <2> QED BY <1>1, <1>3, <2>1, <2>2, <2>3, <2>4, ReadOnward DEF Statements, CallOK, CallTyped
<1> QED BY <1>2, <1>3 DEF DeleteBlock

Statement(c) ==
  \/ Rollback(c)
  \/ FindBlock(c) \/ FindFollow(c) \/ CreateFollow(c) \/ Announce(c) \/ Evaluate(c)
  \/ Retract(c)
  \/ UpsertBlock(c) \/ FindFollows(c) \/ DeleteBlock(c)
  \/ DeleteFollow(c) \/ UpdateFollowing(c) \/ UpdateFollowers(c)

LEMMA StatementOnward ==
  ASSUME SocialInv, NEW c \in Clients, Statement(c)
  PROVE  Onward(c)
BY RollbackOnward, FindBlockOnward, FindFollowOnward, CreateFollowOnward, AnnounceOnward,
   EvaluateOnward, RetractOnward, UpsertBlockOnward, FindFollowsOnward, DeleteBlockOnward,
   DeleteFollowOnward, UpdateFollowingOnward, UpdateFollowersOnward DEF Statement

----------------------------------------------------------------------------
(* A call begins with nothing in hand; the last step of one makes what it  *)
(* has in hand the committed rows.                                         *)

LEMMA BeginKeeps ==
  ASSUME SocialInv, NEW c \in Clients, Begin(c)
  PROVE  SocialInv'
<1> DEFINE s == tx'[c]
<1>1. PICK kind \in {"follow", "unfollow", "block", "unblock"}, p \in Pairs :
        /\ tx' = [tx EXCEPT ![c] =
                    [pc |-> CASE kind = "follow" -> "findBlock"
                              [] kind = "unfollow" -> "findFollow"
                              [] kind = "block" -> "upsertBlock"
                              [] OTHER -> "deleteBlock",
                     kind |-> kind, pair |-> p, row |-> p, todo |-> {}, mine |-> <<>>]]
        /\ raced' = (raced \/ \E d \in Clients : Opposed(kind, p, d))
  BY DEF Begin
<1>2. Others(c) /\ UNCHANGED db
  BY <1>1 DEF Begin, Others, SocialInv, CallsOK
<1>3. /\ s.pc = IF kind = "follow" THEN "findBlock" ELSE IF kind = "unfollow" THEN "findFollow"
                ELSE IF kind = "block" THEN "upsertBlock" ELSE "deleteBlock"
      /\ s.kind = kind /\ s.pair = p /\ s.row = p /\ s.todo = {}
      /\ DOMAIN s.mine = {} /\ DOMAIN s = Fields
  BY <1>1 DEF SocialInv, CallsOK, Fields
<1>4. CallOK(s, db)
  <2>1. CallTyped(s)
    BY <1>3 DEF CallTyped, Statements
  <2>2. Changed(s) = {} /\ \A r : ~Wrote(s, r)
    BY <1>3 DEF Changed, Wrote
  <2>3. s.pc \notin {"following", "followers", "announce", "evaluate"}
    BY <1>3
  <2>4. FollowsOK(s, db)
    BY <2>2, <2>3 DEF FollowsOK
  <2>5. StatsOK(s, db)
    BY <2>2 DEF StatsOK, MovedFollowing, MovedFollowers
  <2>6. BlocksOK(s)
    BY <1>3, <2>2 DEF BlocksOK
  <2>7. RewardsOK(s)
    BY <2>2 DEF RewardsOK
  <2> QED BY <2>1, <2>4, <2>5, <2>6, <2>7 DEF CallOK
<1>5. BaseOK(db)' /\ FollowAnnounced' /\ GoalRewarded'
  BY <1>2 DEF SocialInv, BaseOK, FollowAnnounced, GoalRewarded
<1>6. CallsOK'
  BY <1>2, <1>4 DEF SocialInv, CallsOK, Others
<1>7. Locked'
  BY <1>2, <1>3 DEF Others, SocialInv, Locked
<1>8. RaceInv'
  <2> SUFFICES ASSUME ~raced' PROVE RaceInv'
    BY DEF RaceInv
  <2>1. /\ ~raced /\ ~Crossed'
        /\ \A d \in Clients : ~Opposed(kind, p, d)
    BY <1>1, <1>2 DEF SocialInv, RaceInv, Crossed
  <2>2. Unraced(s, db)
    BY <1>3 DEF Unraced
  <2>3. \A d \in Clients \ {c} : tx'[d] = tx[d] /\ (tx[d] # Idle => Unraced(tx[d], db))
    BY <1>2, <2>1 DEF Others, SocialInv, RaceInv
  <2>4. \A d \in Clients \ {c} : tx[d] # Idle => ~Together(s, tx[d]) /\ ~Together(tx[d], s)
    <3>1. ASSUME NEW d \in Clients, tx[d] # Idle
          PROVE  tx[d].pc # "idle" /\ tx[d].pair \in Pairs
      BY <3>1 DEF SocialInv, CallsOK, CallOK, CallTyped, Statements
    <3> QED BY <1>3, <2>1, <3>1, PairTypes DEF Together, Opposed
  <2>5. ~Together(s, s)
    BY <1>3 DEF Together
  <2>6. \A d, e \in Clients \ {c} : tx[d] # Idle /\ tx[e] # Idle => ~Together(tx[d], tx[e])
    BY <2>1 DEF SocialInv, RaceInv
  <2> QED BY <1>2, <2>1, <2>2, <2>3, <2>4, <2>5, <2>6 DEF RaceInv
<1> QED BY <1>5, <1>6, <1>7, <1>8 DEF SocialInv

\* A call about to commit, and the rows as it leaves them.
Committing(c) ==
  /\ tx[c].pc = "commit" /\ tx[c] # Idle /\ CallOK(tx[c], db)
  /\ Others(c) /\ tx'[c] = Idle /\ UNCHANGED raced
  /\ DOMAIN db' = Rows
  /\ \A r \in Rows : db'[r] = IF Wrote(tx[c], r) THEN tx[c].mine[r] ELSE db[r]

LEMMA CommitEffect ==
  ASSUME SocialInv, NEW c \in Clients, Commit(c)
  PROVE  Committing(c)
<1>1. tx[c].pc = "commit" /\ Publish(c) /\ UNCHANGED raced
  BY DEF Commit, At
<1>2. tx[c] # Idle /\ CallOK(tx[c], db) /\ tx = [d \in Clients |-> tx[d]]
  BY <1>1, InHand DEF SocialInv, CallsOK
<1>3. DOMAIN db = Rows /\ DOMAIN tx[c].mine \subseteq DOMAIN db
  BY <1>2 DEF SocialInv, BaseOK, CallOK, CallTyped
<1> QED BY <1>1, <1>2, <1>3, PublishEffect DEF Committing

\* By how much a commit moves each counter, and which rows it changes how.
LEMMA CommitRows ==
  ASSUME SocialInv, NEW c \in Clients, Committing(c)
  PROVE  /\ \A q \in Pairs :
              /\ db'[Follow(q)] = IF q \in Changed(tx[c]) THEN tx[c].kind = "follow" ELSE db[Follow(q)]
              /\ db'[Block(q)] = IF Wrote(tx[c], Block(q)) THEN tx[c].kind = "block" ELSE db[Block(q)]
              /\ Wrote(tx[c], Block(q)) => q = tx[c].pair /\ tx[c].kind \in {"block", "unblock"}
         /\ \A u \in Users :
              /\ db'[UserStats(u)] =
                   [following |-> db[UserStats(u)].following + MovedFollowing(tx[c], u),
                    followers |-> db[UserStats(u)].followers + MovedFollowers(tx[c], u)]
              /\ MovedFollowing(tx[c], u) =
                   IF \E q \in Changed(tx[c]) : q[1] = u THEN Sign(tx[c]) ELSE 0
              /\ MovedFollowers(tx[c], u) =
                   IF \E q \in Changed(tx[c]) : q[2] = u THEN Sign(tx[c]) ELSE 0
<1> DEFINE t == tx[c]
<1>1. CallOK(t, db) /\ t.pc = "commit"
  BY DEF Committing
<1>2. ASSUME NEW q \in Pairs
      PROVE  /\ db'[Follow(q)] = IF q \in Changed(t) THEN t.kind = "follow" ELSE db[Follow(q)]
             /\ db'[Block(q)] = IF Wrote(t, Block(q)) THEN t.kind = "block" ELSE db[Block(q)]
             /\ Wrote(t, Block(q)) => q = t.pair /\ t.kind \in {"block", "unblock"}
  <2>1. Follow(q) \in Rows /\ Block(q) \in Rows
    BY RowTypes
  <2>2. db'[Follow(q)] = IF Wrote(t, Follow(q)) THEN t.mine[Follow(q)] ELSE db[Follow(q)]
    BY <2>1 DEF Committing
  <2>3. db'[Block(q)] = IF Wrote(t, Block(q)) THEN t.mine[Block(q)] ELSE db[Block(q)]
    BY <2>1 DEF Committing
  <2>4. (Wrote(t, Follow(q)) <=> q \in Changed(t)) /\ (q \in Changed(t) => t.mine[Follow(q)] = (t.kind = "follow"))
    BY <1>1 DEF CallOK, FollowsOK, Changed
  <2>5. Wrote(t, Block(q)) => /\ q = t.pair /\ t.kind \in {"block", "unblock"}
                              /\ t.mine[Block(q)] = (t.kind = "block")
    BY <1>1 DEF CallOK, BlocksOK
  <2> QED BY <2>2, <2>3, <2>4, <2>5
<1>3. ASSUME NEW u \in Users
      PROVE  db'[UserStats(u)] = [following |-> db[UserStats(u)].following + MovedFollowing(t, u),
                                  followers |-> db[UserStats(u)].followers + MovedFollowers(t, u)]
  <2>1. UserStats(u) \in Rows
    BY RowTypes
  <2>2. db'[UserStats(u)] = IF Wrote(t, UserStats(u)) THEN t.mine[UserStats(u)] ELSE db[UserStats(u)]
    BY <2>1 DEF Committing
  <2>3. CASE Wrote(t, UserStats(u))
    BY <1>1, <2>2, <2>3 DEF CallOK, StatsOK
  <2>4. CASE ~Wrote(t, UserStats(u))
    <3>1. MovedFollowing(t, u) = 0 /\ MovedFollowers(t, u) = 0
      BY <1>1, <2>4 DEF CallOK, StatsOK
    <3>2. /\ db[UserStats(u)] = [following |-> db[UserStats(u)].following,
                                 followers |-> db[UserStats(u)].followers]
          /\ db[UserStats(u)].following \in Int /\ db[UserStats(u)].followers \in Int
      BY DEF SocialInv, BaseOK
    <3> QED BY <2>2, <2>4, <3>1, <3>2
  <2> QED BY <2>3, <2>4
<1>4. ASSUME NEW u \in Users
      PROVE  /\ MovedFollowing(t, u) = IF \E q \in Changed(t) : q[1] = u THEN Sign(t) ELSE 0
             /\ MovedFollowers(t, u) = IF \E q \in Changed(t) : q[2] = u THEN Sign(t) ELSE 0
  BY <1>1 DEF MovedFollowing, MovedFollowers, Uncounted
<1> QED BY <1>2, <1>3, <1>4

\* Another open call keeps what it has: the rows it wrote are not in the commit.
LEMMA OthersKeep ==
  ASSUME SocialInv, NEW c \in Clients, Committing(c), NEW d \in Clients \ {c}, tx[d] # Idle
  PROVE  CallOK(tx[d], db')
<1> DEFINE t == tx[c]
           s == tx[d]
<1>1. CallOK(s, db)
  BY DEF SocialInv, CallsOK
<1>2. ASSUME NEW r \in Rows, Wrote(s, r)
      PROVE  db'[r] = db[r]
  BY <1>2 DEF Wrote, Committing, SocialInv, Locked
<1>3. FollowsOK(s, db')
  <2>1. \A q \in Changed(s) : q \in Pairs /\ Wrote(s, Follow(q)) /\ Follow(q) \in Rows
    BY RowTypes DEF Changed
  <2>2. \A q \in Changed(s) : db'[Follow(q)] = db[Follow(q)]
    BY <1>2, <2>1
  <2>3. FollowsOK(s, db)
    BY <1>1 DEF CallOK
  <2> HIDE DEF s
  <2> QED BY <2>2, <2>3 DEF FollowsOK
<1>4. StatsOK(s, db')
  <2>1. \A u \in Users : Wrote(s, UserStats(u)) => db'[UserStats(u)] = db[UserStats(u)]
    BY <1>2, RowTypes
  <2>2. StatsOK(s, db)
    BY <1>1 DEF CallOK
  <2> HIDE DEF s
  <2> QED BY <2>1, <2>2 DEF StatsOK
<1> QED BY <1>1, <1>3, <1>4 DEF CallOK

LEMMA CommitKeeps ==
  ASSUME SocialInv, NEW c \in Clients, Committing(c)
  PROVE  SocialInv'
<1> DEFINE t == tx[c]
<1>1. CallOK(t, db) /\ t.pc = "commit" /\ t.kind \in {"follow", "unfollow", "block", "unblock"}
  BY DEF Committing, CallOK, CallTyped
<1>2. ASSUME NEW q \in Pairs
      PROVE  /\ db'[Follow(q)] = IF q \in Changed(t) THEN t.kind = "follow" ELSE db[Follow(q)]
             /\ db'[Block(q)] = IF Wrote(t, Block(q)) THEN t.kind = "block" ELSE db[Block(q)]
             /\ Wrote(t, Block(q)) => q = t.pair /\ t.kind \in {"block", "unblock"}
  BY CommitRows
<1>3. ASSUME NEW u \in Users
      PROVE  /\ db'[UserStats(u)] = [following |-> db'[UserStats(u)].following,
                                     followers |-> db'[UserStats(u)].followers]
             /\ db'[UserStats(u)].following \in Int /\ db'[UserStats(u)].followers \in Int
             /\ MovedFollowers(t, u) \in Int /\ db[UserStats(u)].followers \in Int
             /\ db'[UserStats(u)].followers = db[UserStats(u)].followers + MovedFollowers(t, u)
             /\ MovedFollowers(t, u) > 0 =>
                  t.kind = "follow" /\ \E q \in Changed(t) : q[2] = u
  <2> DEFINE a == db[UserStats(u)].following + MovedFollowing(t, u)
             b == db[UserStats(u)].followers + MovedFollowers(t, u)
  <2>1. /\ db'[UserStats(u)] = [following |-> a, followers |-> b]
        /\ MovedFollowing(t, u) = IF \E q \in Changed(t) : q[1] = u THEN Sign(t) ELSE 0
        /\ MovedFollowers(t, u) = IF \E q \in Changed(t) : q[2] = u THEN Sign(t) ELSE 0
    BY CommitRows
  <2>2. db[UserStats(u)].following \in Int /\ db[UserStats(u)].followers \in Int
    BY DEF SocialInv, BaseOK
  <2>3. /\ MovedFollowing(t, u) \in Int /\ MovedFollowers(t, u) \in Int
        /\ MovedFollowers(t, u) > 0 =>
             t.kind = "follow" /\ \E q \in Changed(t) : q[2] = u
    BY <2>1 DEF Sign
  <2>4. a \in Int /\ b \in Int
    BY <2>2, <2>3
  <2>5. db'[UserStats(u)] = [following |-> db'[UserStats(u)].following,
                             followers |-> db'[UserStats(u)].followers]
        /\ db'[UserStats(u)].following = a /\ db'[UserStats(u)].followers = b
    <3> HIDE DEF a, b
    <3> QED BY <2>1
  <2> QED BY <2>2, <2>3, <2>4, <2>5
<1>4. ASSUME NEW q \in Pairs
      PROVE  db'[Activity(q)] = IF Wrote(t, Activity(q)) THEN t.mine[Activity(q)] ELSE db[Activity(q)]
  BY RowTypes DEF Committing
<1>5. ASSUME NEW u \in Users
      PROVE  /\ Wrote(t, UserAchievement(u)) => db'[UserAchievement(u)] = TRUE
             /\ ~Wrote(t, UserAchievement(u)) => db'[UserAchievement(u)] = db[UserAchievement(u)]
  <2>1. UserAchievement(u) \in Rows
    BY RowTypes
  <2>2. Wrote(t, UserAchievement(u)) => t.mine[UserAchievement(u)] = TRUE
    BY <1>1 DEF CallOK, RewardsOK
  <2> QED BY <2>1, <2>2 DEF Committing
<1>6. BaseOK(db)'
  <2>1. ASSUME NEW q \in Pairs
        PROVE  /\ db'[Follow(q)] \in BOOLEAN /\ db'[Block(q)] \in BOOLEAN
               /\ db'[Activity(q)] \in Nat
    <3>1. /\ db[Follow(q)] \in BOOLEAN /\ db[Block(q)] \in BOOLEAN /\ db[Activity(q)] \in Nat
      BY DEF SocialInv, BaseOK
    <3>2. Wrote(t, Activity(q)) => t.mine[Activity(q)] \in Nat
      BY <1>1 DEF CallOK, RewardsOK
    <3>3. db'[Activity(q)] \in Nat
      BY <1>4, <3>1, <3>2
    <3>4. db'[Follow(q)] \in BOOLEAN
      BY <1>2, <3>1
    <3>5. db'[Block(q)] \in BOOLEAN
      BY <1>2, <3>1
    <3> QED BY <3>3, <3>4, <3>5
  <2>2. ASSUME NEW u \in Users
        PROVE  /\ db'[UserStats(u)] = [following |-> db'[UserStats(u)].following,
                                       followers |-> db'[UserStats(u)].followers]
               /\ db'[UserStats(u)].following \in Int
               /\ db'[UserStats(u)].followers \in Int
    BY <1>3
  <2>3. ASSUME NEW u \in Users
        PROVE  db'[UserAchievement(u)] \in BOOLEAN
    <3>1. db[UserAchievement(u)] \in BOOLEAN
      BY DEF SocialInv, BaseOK
    <3> QED BY <1>5, <3>1
  <2> QED BY <2>1, <2>2, <2>3 DEF BaseOK, Committing
<1>7. FollowAnnounced'
  <2> SUFFICES ASSUME NEW p \in Pairs, db'[Follow(p)]
               PROVE  db'[Activity(p)] > 0
    BY DEF FollowAnnounced
  <2>1. CASE p \in Changed(t)
    <3>1. t.kind = "follow"
      BY <1>2, <2>1
    <3> QED BY <1>1, <1>4, <2>1, <3>1 DEF CallOK, RewardsOK
  <2>2. CASE p \notin Changed(t)
    <3>1. ~Wrote(t, Activity(p))
      BY <1>1, <2>2 DEF CallOK, RewardsOK
    <3>2. db[Follow(p)]
      BY <1>2, <2>2
    <3> QED BY <1>4, <3>1, <3>2 DEF SocialInv, FollowAnnounced
  <2> QED BY <2>1, <2>2
<1>8. GoalRewarded'
  <2> SUFFICES ASSUME NEW u \in Users, db'[UserStats(u)].followers >= Goal
               PROVE  db'[UserAchievement(u)]
    BY DEF GoalRewarded
  <2>1. CASE MovedFollowers(t, u) > 0
    <3>1. PICK q \in Changed(t) : q[2] = u
      BY <1>3, <2>1
    <3>2. Wrote(t, UserStats(u))
      <4>1. MovedFollowers(t, u) # 0
        BY <2>1
      <4> QED BY <1>1, <4>1 DEF CallOK, StatsOK
    <3>3. t.mine[UserStats(u)] = db'[UserStats(u)]
      BY <3>2, RowTypes DEF Committing
    <3>4. Wrote(t, UserAchievement(u))
      BY <1>1, <1>3, <2>1, <3>1, <3>3 DEF CallOK, RewardsOK
    <3> QED BY <1>5, <3>4
  <2>2. CASE ~(MovedFollowers(t, u) > 0)
    <3>1. db[UserStats(u)].followers >= Goal
      <4> DEFINE new   == db'[UserStats(u)].followers
                 old   == db[UserStats(u)].followers
                 moved == MovedFollowers(t, u)
      <4>1. new >= Goal /\ ~(moved > 0)
        BY <2>2
      <4>2. old \in Int /\ moved \in Int /\ new = old + moved
        BY <1>3
      <4>3. Goal \in Int
        BY SocialAssumption
      <4> HIDE DEF new, old, moved
      <4>4. old >= Goal
        BY <4>1, <4>2, <4>3
      <4> QED BY <4>4 DEF old
    <3>2. db[UserAchievement(u)]
      BY <3>1 DEF SocialInv, GoalRewarded
    <3> QED BY <1>5, <3>2
  <2> QED BY <2>1, <2>2
<1>9. CallsOK'
  BY OthersKeep DEF Committing, Others, SocialInv, CallsOK
<1>10. Locked'
  <2>1. DOMAIN Idle.mine = {}
    BY NothingWritten
  <2> QED BY <2>1 DEF Committing, Others, SocialInv, Locked
<1>11. RaceInv'
  <2> SUFFICES ASSUME ~raced' PROVE RaceInv'
    BY DEF RaceInv
  <2>1. /\ ~raced /\ ~Crossed /\ Unraced(t, db)
        /\ \A d \in Clients : tx[d] # Idle =>
             Unraced(tx[d], db) /\ ~Together(t, tx[d]) /\ ~Together(tx[d], t)
        /\ \A d, e \in Clients : tx[d] # Idle /\ tx[e] # Idle => ~Together(tx[d], tx[e])
    BY DEF Committing, SocialInv, RaceInv
  <2>2. \A q \in Changed(t) : /\ q \in {t.pair, Swap(t.pair)}
                              /\ t.kind # "block" => q = t.pair
    BY <1>1 DEF CallOK, FollowsOK
  <2>3. t.pair \in Pairs
    BY <1>1 DEF CallOK, CallTyped
  <2>4. ~Crossed'
    <3> SUFFICES ASSUME NEW p \in Pairs, db'[Follow(p)], NEW b \in {p, Swap(p)}, db'[Block(b)]
                 PROVE  FALSE
      BY PairTypes DEF Crossed
    <3>1. b \in Pairs
      BY PairTypes
    <3>2. CASE p \in Changed(t)
      <4>1. t.kind = "follow" /\ p = t.pair
        BY <1>2, <2>2, <3>2
      <4>2. ~db[Block(b)] /\ ~Wrote(t, Block(b))
        BY <1>1, <1>2, <2>1, <3>1, <4>1 DEF Unraced
      <4> QED BY <1>2, <3>1, <4>2
    <3>3. CASE p \notin Changed(t)
      <4>1. db[Follow(p)]
        BY <1>2, <3>3
      <4>2. CASE Wrote(t, Block(b))
        <5>1. t.kind = "block" /\ b = t.pair
          BY <1>2, <3>1, <4>2
        <5>2. p \in {t.pair, Swap(t.pair)}
          BY <5>1, PairTypes
        <5> QED BY <1>1, <2>1, <3>3, <4>1, <5>1, <5>2 DEF Unraced
      <4>3. CASE ~Wrote(t, Block(b))
        BY <1>2, <2>1, <3>1, <4>1, <4>3 DEF Crossed
      <4> QED BY <4>2, <4>3
    <3> QED BY <3>2, <3>3
  <2>5. ASSUME NEW d \in Clients \ {c}, tx[d] # Idle
        PROVE  Unraced(tx[d], db')
    <3> DEFINE s == tx[d]
    <3>1. s.pair \in Pairs /\ Swap(s.pair) \in Pairs
      BY <2>5, PairTypes DEF SocialInv, CallsOK, CallOK, CallTyped
    <3>2. Unraced(s, db) /\ ~Together(s, t) /\ ~Together(t, s)
      BY <2>1, <2>5
    <3>3. ASSUME s.kind = "follow", NEW b \in {s.pair, Swap(s.pair)}, db'[Block(b)]
          PROVE  db[Block(b)]
      <4>1. CASE Wrote(t, Block(b))
        BY <1>2, <3>1, <3>2, <3>3, <4>1 DEF Together
      <4>2. CASE ~Wrote(t, Block(b))
        BY <1>2, <3>1, <3>3, <4>2
      <4> QED BY <4>1, <4>2
    <3>4. ASSUME s.kind = "block", NEW q \in {s.pair, Swap(s.pair)}, db'[Follow(q)]
          PROVE  db[Follow(q)]
      <4>1. CASE q \in Changed(t)
        BY <1>2, <2>2, <3>1, <3>2, <3>4, <4>1 DEF Together
      <4>2. CASE q \notin Changed(t)
        BY <1>2, <3>1, <3>4, <4>2
      <4> QED BY <4>1, <4>2
    <3> QED BY <3>2, <3>3, <3>4 DEF Unraced
  <2> QED BY <2>1, <2>4, <2>5 DEF Committing, Others, RaceInv
<1> QED BY <1>6, <1>7, <1>8, <1>9, <1>10, <1>11 DEF SocialInv

\* In every reachable state, whatever follows and blocks are open and whichever
\* are rolled back: what each call remembers and has written fits the rows it
\* holds locked, and the counters, announcements and goals are what the
\* committed follows say.
THEOREM SocialInvariant == Spec => []SocialInv
<1>1. Init => SocialInv
  <2> SUFFICES ASSUME Init PROVE SocialInv
    OBVIOUS
  <2>1. /\ \A p \in Pairs : db[Follow(p)] = FALSE /\ db[Block(p)] = FALSE /\ db[Activity(p)] = 0
        /\ \A u \in Users : /\ db[UserStats(u)] = [following |-> 0, followers |-> 0]
                            /\ db[UserAchievement(u)] = FALSE
        /\ DOMAIN db = Rows
    <3>1. \A p, u : /\ Follow(p)[1] = "Follow" /\ Block(p)[1] = "Block"
                    /\ Activity(p)[1] = "Activity" /\ UserStats(u)[1] = "UserStats"
                    /\ UserAchievement(u)[1] = "UserAchievement"
      BY DEF Follow, Block, Activity, UserStats, UserAchievement
    <3> QED BY <3>1, RowTypes DEF Init
  <2>2. BaseOK(db)
    <3>1. ASSUME NEW u \in Users
          PROVE  /\ db[UserStats(u)] = [following |-> db[UserStats(u)].following,
                                        followers |-> db[UserStats(u)].followers]
                 /\ db[UserStats(u)].following \in Int /\ db[UserStats(u)].followers \in Int
                 /\ db[UserAchievement(u)] \in BOOLEAN
      <4>1. /\ db[UserStats(u)] = [following |-> 0, followers |-> 0]
            /\ db[UserAchievement(u)] = FALSE
        BY <2>1, Zenon
      <4>2. db[UserAchievement(u)] \in BOOLEAN
        BY <4>1, Zenon
      <4> QED BY <4>1, <4>2
    <3>2. ASSUME NEW p \in Pairs
          PROVE  /\ db[Follow(p)] \in BOOLEAN /\ db[Block(p)] \in BOOLEAN
                 /\ db[Activity(p)] \in Nat
      <4>1. db[Follow(p)] = FALSE /\ db[Block(p)] = FALSE /\ db[Activity(p)] = 0
        BY <2>1, Zenon
      <4>2. db[Follow(p)] \in BOOLEAN /\ db[Block(p)] \in BOOLEAN
        BY <4>1, Zenon
      <4> QED BY <4>1, <4>2
    <3> QED BY <2>1, <3>1, <3>2 DEF BaseOK
  <2>3. CallsOK /\ Locked /\ \A c \in Clients : tx[c] = Idle
    BY NothingWritten DEF Init, CallsOK, Locked
  <2>4. FollowAnnounced /\ ~Crossed
    BY <2>1 DEF FollowAnnounced, Crossed
  <2>5. GoalRewarded
    BY <2>1, SocialAssumption DEF GoalRewarded
  <2> QED BY <2>2, <2>3, <2>4, <2>5 DEF SocialInv, RaceInv
<1>2. SocialInv /\ [Next]_vars => SocialInv'
  <2> SUFFICES ASSUME SocialInv, [Next]_vars PROVE SocialInv'
    OBVIOUS
  <2>1. CASE UNCHANGED vars
    BY <2>1 DEF vars, SocialInv, CallsOK, Locked, FollowAnnounced, GoalRewarded, RaceInv, Crossed
  <2>2. ASSUME NEW c \in Clients, Begin(c) PROVE SocialInv'
    BY <2>2, BeginKeeps
  <2>3. ASSUME NEW c \in Clients, Commit(c) PROVE SocialInv'
    BY <2>3, CommitEffect, CommitKeeps
  <2>4. ASSUME NEW c \in Clients, Statement(c) PROVE SocialInv'
    BY <2>4, StatementOnward, OnwardKeeps
  <2> QED BY <2>1, <2>2, <2>3, <2>4 DEF Next, Statement
<1> QED BY <1>1, <1>2, PTL DEF Spec

\* A follow that stands has its announcement (Social).
THEOREM FollowsAreAnnounced == Spec => []FollowAnnounced
BY SocialInvariant, PTL DEF SocialInv

\* Whoever has reached the goal has the achievement (Social).
THEOREM GoalsAreRewarded == Spec => []GoalRewarded
BY SocialInvariant, PTL DEF SocialInv

----------------------------------------------------------------------------
(* Every commit is a step of the graph.                                    *)

\* The instance counts as this module does.
LEMMA GraphCounts == \A S : Graph!Cardinality(S) = Cardinality(S)
BY DEF Graph!Cardinality, Cardinality

LEMMA CountOfSome ==
  ASSUME NEW p \in Pairs, NEW S \in SUBSET {p, Swap(p)}, NEW u
  PROVE  /\ Cardinality(Graph!From(u, S)) = IF \E q \in S : q[1] = u THEN 1 ELSE 0
         /\ Cardinality(Graph!To(u, S)) = IF \E q \in S : q[2] = u THEN 1 ELSE 0
<1>1. p[1] # Swap(p)[1] /\ p[2] # Swap(p)[2]
  BY PairTypes
<1>2. ASSUME NEW T \in SUBSET {p, Swap(p)}, ~(p \in T /\ Swap(p) \in T)
      PROVE  Cardinality(T) = IF T = {} THEN 0 ELSE 1
  <2>1. T = {} \/ T = {p} \/ T = {Swap(p)}
    BY <1>2
  <2>2. CASE T = {}
    BY <2>2, FS_EmptySet
  <2>3. CASE T = {p}
    BY <2>3, FS_Singleton
  <2>4. CASE T = {Swap(p)}
    BY <2>4, FS_Singleton
  <2> QED BY <2>1, <2>2, <2>3, <2>4
<1>3. Cardinality(Graph!From(u, S)) = IF Graph!From(u, S) = {} THEN 0 ELSE 1
  BY <1>1, <1>2 DEF Graph!From
<1>4. Cardinality(Graph!To(u, S)) = IF Graph!To(u, S) = {} THEN 0 ELSE 1
  BY <1>1, <1>2 DEF Graph!To
<1> QED BY <1>3, <1>4 DEF Graph!From, Graph!To

LEMMA CommitImplements ==
  ASSUME SocialInv, NEW c \in Clients, Committing(c)
  PROVE  Graph!Next \/ UNCHANGED Graph!graph
<1> DEFINE t == tx[c]
           p == tx[c].pair
           F == {q \in Pairs : db[Follow(q)]}
           B == {q \in Pairs : db[Block(q)]}
           following == [u \in Users |-> db[UserStats(u)].following]
           followers == [u \in Users |-> db[UserStats(u)].followers]
           followingNext == [u \in Users |-> db'[UserStats(u)].following]
           followersNext == [u \in Users |-> db'[UserStats(u)].followers]
           FNext == {q \in Pairs : db'[Follow(q)]}
           BNext == {q \in Pairs : db'[Block(q)]}
           S == Changed(t)
<1>1. /\ CallOK(t, db) /\ t.pc = "commit" /\ p \in Pairs
      /\ t.kind \in {"follow", "unfollow", "block", "unblock"}
  BY DEF Committing, CallOK, CallTyped
<1>0. p \in Graph!Pairs
  BY <1>1 DEF Graph!Pairs, Pairs
<1>2. /\ S \in SUBSET {p, Swap(p)} /\ S \subseteq Pairs
      /\ t.kind # "block" => S \in SUBSET {p}
      /\ t.kind = "unblock" => S = {}
      /\ \A q \in S : db[Follow(q)] = (t.kind # "follow")
  BY <1>1 DEF CallOK, FollowsOK, Changed
<1>3. FNext = IF t.kind = "follow" THEN F \cup S ELSE F \ S
  BY <1>1, <1>2, CommitRows
<1>4. /\ t.kind = "follow" => S \cap F = {}
      /\ t.kind # "follow" => S \subseteq F
  BY <1>2
<1>5. /\ t.kind \in {"follow", "unfollow"} => BNext = B
      /\ t.kind = "block" => BNext = B \cup {p}
      /\ t.kind = "unblock" => BNext = B \/ BNext = B \ {p}
  <2>1. \A q \in Pairs : /\ db'[Block(q)] =
                              IF Wrote(t, Block(q)) THEN t.kind = "block" ELSE db[Block(q)]
                         /\ Wrote(t, Block(q)) => q = p /\ t.kind \in {"block", "unblock"}
    BY CommitRows
  <2>2. t.kind = "block" => Wrote(t, Block(p))
    BY <1>1 DEF CallOK, BlocksOK
  <2>3. CASE t.kind \in {"follow", "unfollow"}
    BY <2>1, <2>3
  <2>4. CASE t.kind = "block"
    BY <1>1, <2>1, <2>2, <2>4
  <2>5. CASE t.kind = "unblock" /\ Wrote(t, Block(p))
    BY <1>1, <2>1, <2>5
  <2>6. CASE t.kind = "unblock" /\ ~Wrote(t, Block(p))
    BY <2>1, <2>6
  <2> QED BY <1>1, <2>3, <2>4, <2>5, <2>6
<1>6. ASSUME NEW u \in Users
      PROVE  /\ following[u] \in Int /\ followers[u] \in Int
             /\ followingNext[u] = following[u] + Sign(t) * Cardinality(Graph!From(u, S))
             /\ followersNext[u] = followers[u] + Sign(t) * Cardinality(Graph!To(u, S))
  <2> DEFINE r == UserStats(u)
             a == db[r].following + MovedFollowing(t, u)
             b == db[r].followers + MovedFollowers(t, u)
  <2>1. /\ db'[r] = [following |-> a, followers |-> b]
        /\ MovedFollowing(t, u) = IF \E q \in S : q[1] = u THEN Sign(t) ELSE 0
        /\ MovedFollowers(t, u) = IF \E q \in S : q[2] = u THEN Sign(t) ELSE 0
    BY CommitRows
  <2>2. /\ Cardinality(Graph!From(u, S)) = IF \E q \in S : q[1] = u THEN 1 ELSE 0
        /\ Cardinality(Graph!To(u, S)) = IF \E q \in S : q[2] = u THEN 1 ELSE 0
    BY <1>1, <1>2, CountOfSome
  <2>3. db[r].following \in Int /\ db[r].followers \in Int
    BY DEF SocialInv, BaseOK
  <2>4. db'[r].following = a /\ db'[r].followers = b
    <3> HIDE DEF a, b
    <3> QED BY <2>1
  <2>5. /\ MovedFollowing(t, u) = Sign(t) * Cardinality(Graph!From(u, S))
        /\ MovedFollowers(t, u) = Sign(t) * Cardinality(Graph!To(u, S))
    BY <2>1, <2>2 DEF Sign
  <2> QED BY <2>3, <2>4, <2>5
<1>7. CASE S = {} /\ t.kind \in {"follow", "unfollow"}
  <2>1. \A u : Cardinality(Graph!From(u, {})) = 0 /\ Cardinality(Graph!To(u, {})) = 0
    BY <1>1, CountOfSome
  <2>2. \A u \in Users : followingNext[u] = following[u] /\ followersNext[u] = followers[u]
    BY <1>6, <1>7, <2>1 DEF Sign
  <2>3. followingNext = following /\ followersNext = followers
    BY <2>2
  <2>4. FNext = F /\ BNext = B
    BY <1>3, <1>5, <1>7
  <2> QED BY <2>3, <2>4 DEF Graph!graph

<1>8. CASE S = {p} /\ t.kind = "follow"
  <2>1. p[1] \in Users /\ p[2] \in Users
    BY <1>1, PairTypes
  <2>2. \A u : /\ Cardinality(Graph!From(u, {p})) = IF p[1] = u THEN 1 ELSE 0
               /\ Cardinality(Graph!To(u, {p})) = IF p[2] = u THEN 1 ELSE 0
    BY <1>1, CountOfSome
  <2>3. \A u \in Users : /\ followingNext[u] = following[u] + (IF p[1] = u THEN 1 ELSE 0)
                         /\ followersNext[u] = followers[u] + (IF p[2] = u THEN 1 ELSE 0)
                         /\ following[u] \in Int /\ followers[u] \in Int
    <3> SUFFICES ASSUME NEW u \in Users
                 PROVE  /\ followingNext[u] = following[u] + (IF p[1] = u THEN 1 ELSE 0)
                        /\ followersNext[u] = followers[u] + (IF p[2] = u THEN 1 ELSE 0)
                        /\ following[u] \in Int /\ followers[u] \in Int
      OBVIOUS
    <3>1. /\ following[u] \in Int /\ followers[u] \in Int
          /\ followingNext[u] = following[u] + Sign(t) * Cardinality(Graph!From(u, {p}))
          /\ followersNext[u] = followers[u] + Sign(t) * Cardinality(Graph!To(u, {p}))
      BY <1>6, <1>8
    <3>2. Sign(t) = 1
      BY <1>8 DEF Sign
    <3>3. /\ Cardinality(Graph!From(u, {p})) = IF p[1] = u THEN 1 ELSE 0
          /\ Cardinality(Graph!To(u, {p})) = IF p[2] = u THEN 1 ELSE 0
      BY <2>2
    <3> HIDE DEF following, followers, followingNext, followersNext, S, t, p
    <3> QED BY <3>1, <3>2, <3>3
  <2>4. followingNext = [following EXCEPT ![p[1]] = @ + 1]
    BY <2>1, <2>3
  <2>5. followersNext = [followers EXCEPT ![p[2]] = @ + 1]
    BY <2>1, <2>3
  <2>6. p \notin F /\ FNext = F \cup {p} /\ BNext = B
    BY <1>3, <1>4, <1>5, <1>8
  <2>7. Graph!Follow(p)
    BY <2>4, <2>5, <2>6 DEF Graph!Follow
  <2> QED BY <1>0, <2>7, Zenon DEF Graph!Next
<1>9. CASE t.kind \in {"unfollow", "block"}
  <2>1. ASSUME NEW u
        PROVE  Cardinality(Graph!From(u, S)) \in Int /\ Cardinality(Graph!To(u, S)) \in Int
    <3>1. /\ Cardinality(Graph!From(u, S)) = IF \E q \in S : q[1] = u THEN 1 ELSE 0
          /\ Cardinality(Graph!To(u, S)) = IF \E q \in S : q[2] = u THEN 1 ELSE 0
      BY <1>1, <1>2, CountOfSome
    <3> QED BY <3>1
  <2>2. \A u \in Users : /\ followingNext[u] = following[u] - Cardinality(Graph!From(u, S))
                         /\ followersNext[u] = followers[u] - Cardinality(Graph!To(u, S))
    BY <1>6, <1>9, <2>1 DEF Sign
  <2>3. /\ followingNext = [u \in Users |-> following[u] - Cardinality(Graph!From(u, S))]
        /\ followersNext = [u \in Users |-> followers[u] - Cardinality(Graph!To(u, S))]
    BY <2>2
  <2>4. S \subseteq F /\ FNext = F \ S
    BY <1>3, <1>4, <1>9
  <2>5. Graph!Sever(S)
    BY <2>3, <2>4, GraphCounts DEF Graph!Sever
  <2>6. CASE t.kind = "block"
    <3>1. S \in SUBSET (F \cap {p, Graph!Swap(p)})
      BY <1>2, <2>4 DEF Graph!Swap, Swap
    <3>2. BNext = B \cup {p}
      BY <1>5, <2>6
    <3>3. Graph!Block(p)
      BY <2>5, <3>1, <3>2 DEF Graph!Block
    <3> QED BY <1>0, <3>3, Zenon DEF Graph!Next
  <2>7. CASE t.kind = "unfollow" /\ S # {}
    <3>1. S = {p}
      BY <1>2, <2>7
    <3>2. p \in F /\ BNext = B /\ Graph!Sever({p})
      BY <1>5, <2>4, <2>5, <2>7, <3>1
    <3>3. Graph!Unfollow(p)
      BY <3>2 DEF Graph!Unfollow
    <3> QED BY <1>0, <3>3, Zenon DEF Graph!Next
  <2> QED BY <1>7, <1>9, <2>6, <2>7
<1>10. CASE t.kind = "unblock"
  <2>1. \A u : Cardinality(Graph!From(u, {})) = 0 /\ Cardinality(Graph!To(u, {})) = 0
    BY <1>1, CountOfSome
  <2>2. ASSUME NEW u \in Users
        PROVE  followingNext[u] = following[u] /\ followersNext[u] = followers[u]
    <3>1. /\ following[u] \in Int /\ followers[u] \in Int
          /\ followingNext[u] = following[u] + Sign(t) * Cardinality(Graph!From(u, {}))
          /\ followersNext[u] = followers[u] + Sign(t) * Cardinality(Graph!To(u, {}))
      BY <1>2, <1>6, <1>10
    <3>2. Sign(t) = -1
      BY <1>10 DEF Sign
    <3> HIDE DEF following, followers, followingNext, followersNext, S, t
    <3> QED BY <2>1, <3>1, <3>2
  <2>3. followingNext = following /\ followersNext = followers
    BY <2>2
  <2>4. FNext = F /\ (BNext = B \/ BNext = B \ {p})
    BY <1>2, <1>3, <1>5, <1>10
  <2>5. CASE BNext = B
    BY <2>3, <2>4, <2>5 DEF Graph!graph
  <2>6. CASE BNext = B \ {p}
    <3>1. Graph!Unblock(p)
      BY <2>3, <2>4, <2>6 DEF Graph!Unblock
    <3> QED BY <1>0, <3>1, Zenon DEF Graph!Next
  <2> QED BY <2>4, <2>5, <2>6
<1> QED
  <2>1. t.kind = "follow" => S = {} \/ S = {p}
    BY <1>2
  <2> QED BY <1>1, <1>7, <1>8, <1>9, <1>10, <2>1

\* Every call that commits is one change of the graph, whatever raced with it:
\* the transactions implement SocialGraph (ImplementsGraph).
THEOREM CallsImplementGraph == Spec => ImplementsGraph
<1>1. SocialInv /\ Init => Graph!Init
  <2> SUFFICES ASSUME SocialInv, Init PROVE Graph!Init
    OBVIOUS
  <2>1. /\ \A p \in Pairs : ~db[Follow(p)] /\ ~db[Block(p)]
        /\ \A u \in Users : db[UserStats(u)].following = 0 /\ db[UserStats(u)].followers = 0
    <3>1. \A p, u : /\ Follow(p)[1] = "Follow" /\ Block(p)[1] = "Block"
                    /\ UserStats(u)[1] = "UserStats"
      BY DEF Follow, Block, UserStats
    <3> QED BY <3>1, RowTypes DEF Init
  <2> QED BY <2>1 DEF Graph!Init
<1>2. SocialInv /\ [Next]_vars => [Graph!Next]_Graph!graph
  <2> SUFFICES ASSUME SocialInv, [Next]_vars PROVE Graph!Next \/ UNCHANGED Graph!graph
    OBVIOUS
  <2>1. UNCHANGED db => UNCHANGED Graph!graph
    BY DEF Graph!graph
  <2>2. CASE UNCHANGED vars
    BY <2>1, <2>2 DEF vars
  <2>3. ASSUME NEW c \in Clients, Begin(c) PROVE UNCHANGED db
    BY <2>3 DEF Begin
  <2>4. ASSUME NEW c \in Clients, Commit(c) PROVE Graph!Next \/ UNCHANGED Graph!graph
    BY <2>4, CommitEffect, CommitImplements
  <2>5. ASSUME NEW c \in Clients, Statement(c) PROVE UNCHANGED db
    BY <2>5, StatementOnward DEF Onward
  <2> QED BY <2>1, <2>2, <2>3, <2>4, <2>5 DEF Next, Statement
<1> QED BY <1>1, <1>2, SocialInvariant, PTL DEF Spec, ImplementsGraph, Graph!Spec

----------------------------------------------------------------------------
(* The graph's counters.  F is the follows, a and b the counters on either *)
(* side: exact when the graph begins, they are after each of its changes.  *)

Exact(F, a, b) ==
  /\ F \subseteq Pairs /\ IsFiniteSet(F)
  /\ a \in [Users -> Nat] /\ b \in [Users -> Nat]
  /\ \A u \in Users : /\ a[u] = Cardinality(Graph!From(u, F))
                      /\ b[u] = Cardinality(Graph!To(u, F))

FollowRows == {p \in Pairs : db[Follow(p)]}
Following  == [u \in Users |-> db[UserStats(u)].following]
Followers  == [u \in Users |-> db[UserStats(u)].followers]

LEMMA CountingSides ==
  ASSUME NEW S, IsFiniteSet(S), NEW u
  PROVE  /\ IsFiniteSet(Graph!From(u, S)) /\ Cardinality(Graph!From(u, S)) \in Nat
         /\ IsFiniteSet(Graph!To(u, S)) /\ Cardinality(Graph!To(u, S)) \in Nat
<1>1. Graph!From(u, S) \subseteq S /\ Graph!To(u, S) \subseteq S
  BY DEF Graph!From, Graph!To
<1> QED BY <1>1, FS_Subset, FS_CardinalityType

\* One more follow raises one count on each side.
LEMMA OneMore ==
  ASSUME NEW S, IsFiniteSet(S), NEW p, p \notin S, NEW u
  PROVE  /\ Cardinality(Graph!From(u, S \cup {p}))
              = Cardinality(Graph!From(u, S)) + (IF u = p[1] THEN 1 ELSE 0)
         /\ Cardinality(Graph!To(u, S \cup {p}))
              = Cardinality(Graph!To(u, S)) + (IF u = p[2] THEN 1 ELSE 0)
<1>1. /\ Graph!From(u, S \cup {p})
           = IF u = p[1] THEN Graph!From(u, S) \cup {p} ELSE Graph!From(u, S)
      /\ Graph!To(u, S \cup {p})
           = IF u = p[2] THEN Graph!To(u, S) \cup {p} ELSE Graph!To(u, S)
  BY DEF Graph!From, Graph!To
<1>2. p \notin Graph!From(u, S) /\ p \notin Graph!To(u, S)
  BY DEF Graph!From, Graph!To
<1>3. /\ Cardinality(Graph!From(u, S) \cup {p}) = Cardinality(Graph!From(u, S)) + 1
      /\ Cardinality(Graph!To(u, S) \cup {p}) = Cardinality(Graph!To(u, S)) + 1
  BY <1>2, CountingSides, FS_AddElement
<1> QED BY <1>1, <1>3, CountingSides

\* Counts of what is taken away are subtracted.
LEMMA Fewer ==
  ASSUME NEW F, IsFiniteSet(F), NEW S \in SUBSET F, NEW u
  PROVE  /\ Cardinality(Graph!From(u, F \ S))
              = Cardinality(Graph!From(u, F)) - Cardinality(Graph!From(u, S))
         /\ Cardinality(Graph!To(u, F \ S))
              = Cardinality(Graph!To(u, F)) - Cardinality(Graph!To(u, S))
<1> DEFINE A == Graph!From(u, F)
           B == Graph!From(u, S)
           C == Graph!To(u, F)
           D == Graph!To(u, S)
<1>1. /\ Graph!From(u, F \ S) = A \ B /\ A \cap B = B
      /\ Graph!To(u, F \ S) = C \ D /\ C \cap D = D
  BY DEF Graph!From, Graph!To
<1>2. IsFiniteSet(A) /\ IsFiniteSet(C)
  BY CountingSides
<1> HIDE DEF A, B, C, D
<1>3. Cardinality(A \ B) = Cardinality(A) - Cardinality(A \cap B)
  BY <1>2, FS_Difference
<1>4. Cardinality(C \ D) = Cardinality(C) - Cardinality(C \cap D)
  BY <1>2, FS_Difference
<1> QED BY <1>1, <1>3, <1>4 DEF A, B, C, D

LEMMA ExactFollow ==
  ASSUME NEW F, NEW a, NEW b, Exact(F, a, b), NEW p \in Pairs, p \notin F
  PROVE  Exact(F \cup {p}, [a EXCEPT ![p[1]] = @ + 1], [b EXCEPT ![p[2]] = @ + 1])
<1> DEFINE G == F \cup {p}
           x == [a EXCEPT ![p[1]] = @ + 1]
           y == [b EXCEPT ![p[2]] = @ + 1]
<1>1. G \subseteq Pairs /\ IsFiniteSet(G)
  BY FS_AddElement DEF Exact
<1>2. ASSUME NEW u \in Users
      PROVE  x[u] = Cardinality(Graph!From(u, G)) /\ y[u] = Cardinality(Graph!To(u, G))
  <2>1. /\ Cardinality(Graph!From(u, G))
             = Cardinality(Graph!From(u, F)) + (IF u = p[1] THEN 1 ELSE 0)
        /\ Cardinality(Graph!To(u, G))
             = Cardinality(Graph!To(u, F)) + (IF u = p[2] THEN 1 ELSE 0)
    BY OneMore DEF Exact
  <2>2. /\ x[u] = a[u] + (IF u = p[1] THEN 1 ELSE 0)
        /\ y[u] = b[u] + (IF u = p[2] THEN 1 ELSE 0)
    BY DEF Exact
  <2> QED BY <2>1, <2>2 DEF Exact
<1>3. p[1] \in Users /\ p[2] \in Users
  BY PairTypes
<1>4. x \in [Users -> Nat] /\ y \in [Users -> Nat]
  BY <1>3 DEF Exact
<1> HIDE DEF G, x, y
<1>5. Exact(G, x, y)
  BY <1>1, <1>2, <1>4 DEF Exact
<1> QED BY <1>5 DEF G, x, y

LEMMA ExactSever ==
  ASSUME NEW F, NEW a, NEW b, Exact(F, a, b), NEW S \in SUBSET F
  PROVE  Exact(F \ S, [u \in Users |-> a[u] - Cardinality(Graph!From(u, S))],
                      [u \in Users |-> b[u] - Cardinality(Graph!To(u, S))])
<1> DEFINE x == [u \in Users |-> a[u] - Cardinality(Graph!From(u, S))]
           y == [u \in Users |-> b[u] - Cardinality(Graph!To(u, S))]
<1>1. F \ S \subseteq Pairs /\ IsFiniteSet(F \ S)
  BY FS_Difference DEF Exact
<1>2. ASSUME NEW u \in Users
      PROVE  /\ x[u] = Cardinality(Graph!From(u, F \ S))
             /\ y[u] = Cardinality(Graph!To(u, F \ S))
  BY Fewer DEF Exact
<1>3. \A u \in Users : x[u] \in Nat /\ y[u] \in Nat
  <2> HIDE DEF x, y
  <2> QED BY <1>1, <1>2, CountingSides
<1>4. x \in [Users -> Nat] /\ y \in [Users -> Nat]
  BY <1>3
<1> HIDE DEF x, y
<1>5. Exact(F \ S, x, y)
  BY <1>1, <1>2, <1>4 DEF Exact
<1> QED BY <1>5 DEF x, y

LEMMA ExactStep ==
  ASSUME Exact(FollowRows, Following, Followers), [Graph!Next]_Graph!graph
  PROVE  Exact(FollowRows', Following', Followers')
<1>1. ASSUME NEW p \in Pairs, Graph!Follow(p) PROVE Exact(FollowRows', Following', Followers')
  <2>1. /\ p \notin FollowRows /\ FollowRows' = FollowRows \cup {p}
        /\ Following' = [Following EXCEPT ![p[1]] = @ + 1]
        /\ Followers' = [Followers EXCEPT ![p[2]] = @ + 1]
    BY <1>1 DEF Graph!Follow, FollowRows, Following, Followers
  <2> QED BY <2>1, ExactFollow
<1>2. ASSUME NEW S \in SUBSET FollowRows, Graph!Sever(S)
      PROVE  Exact(FollowRows', Following', Followers')
  <2>1. /\ FollowRows' = FollowRows \ S
        /\ Following' = [u \in Users |-> Following[u] - Graph!Cardinality(Graph!From(u, S))]
        /\ Followers' = [u \in Users |-> Followers[u] - Graph!Cardinality(Graph!To(u, S))]
    BY <1>2 DEF Graph!Sever, FollowRows, Following, Followers
  <2>2. /\ Following' = [u \in Users |-> Following[u] - Cardinality(Graph!From(u, S))]
        /\ Followers' = [u \in Users |-> Followers[u] - Cardinality(Graph!To(u, S))]
    BY <2>1, GraphCounts
  <2> QED BY <2>1, <2>2, ExactSever
<1>3. ASSUME NEW p \in Pairs, Graph!Unfollow(p) PROVE Exact(FollowRows', Following', Followers')
  <2>1. {p} \in SUBSET FollowRows /\ Graph!Sever({p})
    BY <1>3 DEF Graph!Unfollow, FollowRows
  <2> QED BY <2>1, <1>2
<1>4. ASSUME NEW p \in Pairs, Graph!Block(p) PROVE Exact(FollowRows', Following', Followers')
  <2>1. \E S \in SUBSET (FollowRows \cap {p, Graph!Swap(p)}) : Graph!Sever(S)
    BY <1>4 DEF Graph!Block, FollowRows
  <2> QED BY <2>1, <1>2
<1>5. ASSUME NEW p \in Pairs, Graph!Unblock(p) PROVE Exact(FollowRows', Following', Followers')
  <2>1. UNCHANGED <<FollowRows, Following, Followers>>
    BY <1>5 DEF Graph!Unblock, FollowRows, Following, Followers
  <2> QED BY <2>1
<1>6. CASE UNCHANGED Graph!graph
  <2>1. UNCHANGED <<FollowRows, Following, Followers>>
    BY <1>6 DEF Graph!graph, FollowRows, Following, Followers
  <2> QED BY <2>1
<1>7. Graph!Pairs = Pairs
  BY DEF Graph!Pairs, Pairs
<1>8. CASE Graph!Next
  <2>1. \E p \in Pairs : Graph!Follow(p) \/ Graph!Unfollow(p) \/ Graph!Block(p) \/ Graph!Unblock(p)
    BY <1>7, <1>8, Zenon DEF Graph!Next
  <2> QED BY <1>1, <1>3, <1>4, <1>5, <2>1
<1> QED BY <1>6, <1>8

\* UserStats.followingCount and followersCount always equal the number of
\* follows on either side, and so never go below zero: SocialGraph's TypeOK and
\* CountersExact of the graph the committed rows make.
THEOREM FollowCountsExact == Spec => [](Graph!TypeOK /\ Graph!CountersExact)
<1>1. Graph!Init => Exact(FollowRows, Following, Followers)
  <2> SUFFICES ASSUME Graph!Init PROVE Exact(FollowRows, Following, Followers)
    OBVIOUS
  <2>1. /\ FollowRows = {} /\ Following = [u \in Users |-> 0] /\ Followers = [u \in Users |-> 0]
    BY DEF Graph!Init, FollowRows, Following, Followers
  <2>2. \A u : Graph!From(u, {}) = {} /\ Graph!To(u, {}) = {}
    BY DEF Graph!From, Graph!To
  <2> QED BY <2>1, <2>2, FS_EmptySet DEF Exact
<1>2. Exact(FollowRows, Following, Followers) /\ [Graph!Next]_Graph!graph
        => Exact(FollowRows, Following, Followers)'
  BY ExactStep
<1>3. Exact(FollowRows, Following, Followers) => Graph!TypeOK /\ Graph!CountersExact
  <2> SUFFICES ASSUME Exact(FollowRows, Following, Followers)
               PROVE  Graph!TypeOK /\ Graph!CountersExact
    OBVIOUS
  <2>1. Graph!TypeOK
    BY DEF Exact, FollowRows, Following, Followers, Graph!TypeOK, Graph!Pairs, Pairs
  <2>2. Graph!CountersExact
    BY GraphCounts DEF Exact, FollowRows, Following, Followers, Graph!CountersExact
  <2> QED BY <2>1, <2>2
<1> QED BY <1>1, <1>2, <1>3, CallsImplementGraph, PTL DEF ImplementsGraph, Graph!Spec

----------------------------------------------------------------------------
(* What the pages show of it.                                              *)

\* No one sees anything of whoever blocks them or is blocked, unless a follow
\* overlapped with the block (BlockHides of SocialQueries).
THEOREM BlocksHide == Spec => []BlockHides
<1>1. SocialInv => BlockHides
  <2> SUFFICES ASSUME SocialInv, ~raced, NEW p \in Pairs, BlockedAway(p[1], p[2]),
                      NEW v \in Visibilities
               PROVE  /\ ~UserPage(p[2], p[1], v, v, v).profile.found
                      /\ UserPage(p[2], p[1], v, v, v).items = {}
                      /\ Connections(p[2], p[1], v, ListFollowers(p[2])).names = {}
                      /\ \A item \in GetFollowingFeed(p[1], v) : item[1] # p[2]
                      /\ p[2] \notin ListFollowers(p[1]) \cup ListFollowing(p[1])
    BY DEF BlockHides
  <2>1. /\ p = <<p[1], p[2]>> /\ Swap(p) = <<p[2], p[1]>> /\ p[1] # p[2]
        /\ Swap(p) \in Pairs /\ Swap(Swap(p)) = p
    BY PairTypes DEF Pairs, Swap
  <2>2. db[Block(p)] \/ db[Block(Swap(p))]
    BY <2>1 DEF BlockedAway
  <2>3. ~db[Follow(p)] /\ ~db[Follow(Swap(p))]
    BY <2>1, <2>2 DEF SocialInv, RaceInv, Crossed
  <2>4. ~Follows(p[1], p[2]) /\ ~Follows(p[2], p[1])
    BY <2>1, <2>3 DEF Follows
  <2>5. p[2] \notin ListFollowers(p[1]) \cup ListFollowing(p[1])
    BY <2>4 DEF ListFollowers, ListFollowing
  <2>6. \A item \in GetFollowingFeed(p[1], v) : item[1] # p[2]
    BY <2>1, <2>5 DEF GetFollowingFeed, Announced
  <2> QED BY <2>5, <2>6 DEF UserPage, Connections, GetProfile
<1> QED BY <1>1, SocialInvariant, PTL

\* The number of rows on one side is the number of users on the other.
LEMMA UsersAsRows ==
  ASSUME NEW u \in Users
  PROVE  /\ Cardinality(ListFollowers(u)) = Cardinality(Graph!To(u, FollowRows))
         /\ Cardinality(ListFollowing(u)) = Cardinality(Graph!From(u, FollowRows))
<1> DEFINE A == ListFollowers(u)
           B == Graph!To(u, FollowRows)
           C == ListFollowing(u)
           D == Graph!From(u, FollowRows)
           f == [v \in A |-> <<v, u>>]
           g == [v \in C |-> <<u, v>>]
<1>1. IsFiniteSet(A) /\ IsFiniteSet(C)
  BY FS_Subset, SocialAssumption DEF ListFollowers, ListFollowing
<1>2. f \in Bijection(A, B)
  <2>1. f \in [A -> B]
    BY DEF ListFollowers, Follows, Graph!To, FollowRows, Pairs
  <2>2. f \in Surjection(A, B)
    <3>1. ASSUME NEW p \in B
          PROVE  \E v \in A : f[v] = p
      <4>1. p[1] \in A /\ p = <<p[1], u>>
        BY DEF ListFollowers, Follows, Graph!To, FollowRows, Pairs
      <4> QED BY <4>1
    <3> QED BY <2>1, <3>1 DEF Surjection
  <2>3. f \in Injection(A, B)
    BY <2>1 DEF Injection, IsInjective
  <2> QED BY <2>2, <2>3 DEF Bijection
<1>3. g \in Bijection(C, D)
  <2>1. g \in [C -> D]
    BY DEF ListFollowing, Follows, Graph!From, FollowRows, Pairs
  <2>2. g \in Surjection(C, D)
    <3>1. ASSUME NEW p \in D
          PROVE  \E v \in C : g[v] = p
      <4>1. p[2] \in C /\ p = <<u, p[2]>>
        BY DEF ListFollowing, Follows, Graph!From, FollowRows, Pairs
      <4> QED BY <4>1
    <3> QED BY <2>1, <3>1 DEF Surjection
  <2>3. g \in Injection(C, D)
    BY <2>1 DEF Injection, IsInjective
  <2> QED BY <2>2, <2>3 DEF Bijection
<1> HIDE DEF A, B, C, D, f, g
<1> QED BY <1>1, <1>2, <1>3, FS_Bijection DEF A, B, C, D, ExistsBijection

\* What a profile counts is what its pages list, at every moment of every race
\* (NumbersMatchLists of SocialQueries).
THEOREM NumbersAreLists == Spec => []NumbersMatchLists
<1>1. Graph!CountersExact => NumbersMatchLists
  <2> SUFFICES ASSUME Graph!CountersExact, NEW owner \in Users, NEW viewer \in Viewers,
                      GetProfile(owner, viewer, "PUBLIC", "PUBLIC").found
               PROVE  LET profile == GetProfile(owner, viewer, "PUBLIC", "PUBLIC")
                      IN  /\ Cardinality(Connections(owner, viewer, "PUBLIC",
                                                     ListFollowers(owner)).names)
                               = profile.followers
                          /\ Cardinality(Connections(owner, viewer, "PUBLIC",
                                                     ListFollowing(owner)).names)
                               = profile.following
                          /\ viewer \in Users \ {owner} =>
                               profile.isFollowing = (owner \notin SuggestedUsers(viewer))
    BY DEF NumbersMatchLists
  <2>1. \A list : Connections(owner, viewer, "PUBLIC", list).names = list
    BY DEF Connections, GetProfile, CanView
  <2>2. /\ Cardinality(ListFollowers(owner)) = db[UserStats(owner)].followers
        /\ Cardinality(ListFollowing(owner)) = db[UserStats(owner)].following
    BY GraphCounts, UsersAsRows DEF Graph!CountersExact, FollowRows
  <2>3. viewer \in Users \ {owner} =>
          Follows(viewer, owner) = (owner \notin SuggestedUsers(viewer))
    BY DEF SuggestedUsers, ListFollowing, Follows
  <2> QED BY <2>1, <2>2, <2>3 DEF GetProfile
<1> QED BY <1>1, FollowCountsExact, PTL
=============================================================================
