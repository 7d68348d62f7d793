-------------------------------- MODULE Social --------------------------------
(***************************************************************************)
(* Follows and blocks: the transactions of social.service.ts statement by  *)
(* statement, several users' requests at a time.                           *)
(*                                                                         *)
(* UserStats.followingCount and followersCount are caches over the follows *)
(* table.  A USER_FOLLOWED activity announces a follow.  Left out: the     *)
(* rate limiter in front of follow and banned and unknown accounts, which  *)
(* no code here changes.  Of the achievements evaluated after a follow the *)
(* one on followers is modelled; the XP it pays goes to a UserStats row    *)
(* the transaction holds locked already.                                   *)
(***************************************************************************)
EXTENDS ReadCommitted, Integers, FiniteSets

CONSTANTS
  Users,
  Goal,      \* the threshold of the achievement on followers
  MaxCalls   \* bound: calls made in a behaviour

ASSUME SocialAssumption == 
  /\ IsFiniteSet(Users)
  /\ Goal \in Nat \ {0}
  /\ MaxCalls \in Nat

VARIABLES
  calls,   \* calls begun
  raced    \* history: a follow and a block of the same two users overlapped

vars == <<db, tx, calls, raced>>

Pairs == {p \in Users \X Users : p[1] # p[2]}
Swap(p) == <<p[2], p[1]>>

\* Row ids; p is <<follower, followed>>, <<blocker, blocked>>.
Follow(p)    == <<"Follow", p>>
Block(p)     == <<"Block", p>>
Activity(p)  == <<"Activity", p>>   \* the number of announcements of p
UserStats(u) == <<"UserStats", u>>
UserAchievement(u) == <<"UserAchievement", u>>

Rows == (UNION {{Follow(p), Block(p), Activity(p)} : p \in Pairs})
          \cup (UNION {{UserStats(u), UserAchievement(u)} : u \in Users})

Init ==
  /\ db = [r \in Rows |-> CASE r[1] = "UserStats" -> [following |-> 0, followers |-> 0]
                            [] r[1] = "Activity" -> 0
                            [] OTHER -> FALSE]
  /\ tx = [c \in Clients |-> Idle]
  /\ calls = 0
  /\ raced = FALSE

At(c, kinds, statement) == tx[c].pc = statement /\ tx[c].kind \in kinds

Read(c, next)            == Advance(c, next) /\ UNCHANGED <<calls, raced>>
Write(c, r, value, next) == Put(c, r, value, next) /\ UNCHANGED <<calls, raced>>
Throw(c)                 == Abort(c) /\ UNCHANGED <<calls, raced>>

\* A follow and a block of the same two users, whichever way round.
Opposed(kind, p, d) ==
  /\ tx[d].pc # "idle"
  /\ {kind, tx[d].kind} = {"follow", "block"}
  /\ tx[d].pair \in {p, Swap(p)}

\* A call; one about the caller itself is refused before its transaction.
Begin(c) ==
  /\ tx[c].pc = "idle"
  /\ calls < MaxCalls
  /\ calls' = calls + 1
  /\ \E kind \in {"follow", "unfollow", "block", "unblock"}, p \in Pairs :
       /\ tx' = [tx EXCEPT ![c] =
                   [pc |-> CASE kind = "follow" -> "findBlock"
                             [] kind = "unfollow" -> "findFollow"
                             [] kind = "block" -> "upsertBlock"
                             [] OTHER -> "deleteBlock",
                    kind |-> kind, pair |-> p, row |-> p, todo |-> {}, mine |-> <<>>]]
       /\ raced' = (raced \/ \E d \in Clients : Opposed(kind, p, d))
  /\ UNCHANGED db

Commit(c) ==
  /\ At(c, {"follow", "unfollow", "block", "unblock"}, "commit")
  /\ Publish(c)
  /\ UNCHANGED <<calls, raced>>

\* The transaction timeout, a deadlock the database breaks, a lost process.
Rollback(c) == tx[c].pc # "idle" /\ Throw(c)

----------------------------------------------------------------------------
(* follow and unfollow.                                                    *)

FindBlock(c) ==
  LET p == tx[c].pair
  IN  /\ At(c, {"follow"}, "findBlock")
      /\ IF See(c)[Block(p)] \/ See(c)[Block(Swap(p))] THEN Throw(c)
         ELSE Read(c, [pc |-> "findFollow"])

FindFollow(c) ==
  LET exists == See(c)[Follow(tx[c].pair)]
  IN  /\ At(c, {"follow", "unfollow"}, "findFollow")
      /\ Read(c, [pc |-> IF exists = (tx[c].kind = "follow") THEN "commit"
                         ELSE IF exists THEN "delete" ELSE "create",
                  todo |-> IF exists THEN {tx[c].pair} ELSE {}])

\* The primary key refuses a second row for the same two.
CreateFollow(c) ==
  LET r == Follow(tx[c].pair)
  IN  /\ At(c, {"follow"}, "create")
      /\ Free(c, r)
      /\ IF See(c)[r] THEN Throw(c) ELSE Write(c, r, TRUE, [pc |-> "following"])

\* Announcing follows the counters, as taking the announcement back does.
Announce(c) ==
  LET r == Activity(tx[c].pair)
  IN  /\ At(c, {"follow"}, "announce")
      /\ Write(c, r, See(c)[r] + 1, [pc |-> "evaluate"])

\* Faulty variant: the follower's achievements are evaluated.
EvaluateFollower(c) ==
  LET u == tx[c].pair[1]
  IN  /\ At(c, {"follow"}, "evaluate")
      /\ IF See(c)[UserStats(u)].followers >= Goal
         THEN Write(c, UserAchievement(u), TRUE, [pc |-> "commit"])
         ELSE Read(c, [pc |-> "commit"])

\* evaluate for the user followed; claiming twice changes nothing.
Evaluate(c) ==
  LET u == tx[c].pair[2]
  IN  /\ At(c, {"follow"}, "evaluate")
      /\ IF See(c)[UserStats(u)].followers >= Goal
         THEN Write(c, UserAchievement(u), TRUE, [pc |-> "commit"])
         ELSE Read(c, [pc |-> "commit"])

\* Faulty variant: the two users of the activity are confused.
RetractSwapped(c) ==
  /\ At(c, {"unfollow"}, "announce")
  /\ Write(c, Activity(Swap(tx[c].pair)), 0, [pc |-> "commit"])

\* deleteMany: every announcement of the follow goes.
Retract(c) ==
  /\ At(c, {"unfollow"}, "announce")
  /\ Write(c, Activity(tx[c].pair), 0, [pc |-> "commit"])

----------------------------------------------------------------------------
(* block and unblock.                                                      *)

UpsertBlock(c) ==
  /\ At(c, {"block"}, "upsertBlock")
  /\ Write(c, Block(tx[c].pair), TRUE, [pc |-> "findFollows"])

\* Faulty variant: only the blocker's own follow is looked for.
SeveredOneWay(view, p) == {q \in {p} : view[Follow(q)]}

Severed(view, p) == {q \in {p, Swap(p)} : view[Follow(q)]}

FindFollows(c) ==
  /\ At(c, {"block"}, "findFollows")
  /\ Read(c, [pc |-> "delete", todo |-> Severed(See(c), tx[c].pair)])

\* One statement of its own; that there is nothing to delete is caught.
DeleteBlock(c) ==
  LET r == Block(tx[c].pair)
  IN  /\ At(c, {"unblock"}, "deleteBlock")
      /\ Free(c, r)
      /\ IF See(c)[r] THEN Write(c, r, FALSE, [pc |-> "commit"])
         ELSE Read(c, [pc |-> "commit"])

----------------------------------------------------------------------------
(* Shared by unfollow and block: delete a follow, correct both counters.   *)

\* Faulty variant: deleteMany, which does not mind finding nothing.
DeleteFollowAnyway(c) ==
  /\ At(c, {"unfollow", "block"}, "delete")
  /\ IF tx[c].todo = {} THEN Read(c, [pc |-> "commit"])
     ELSE \E p \in tx[c].todo :
            Write(c, Follow(p), FALSE,
                  [pc |-> "following", row |-> p, todo |-> tx[c].todo \ {p}])

\* delete throws when the row is gone, and takes the whole call with it.
DeleteFollow(c) ==
  /\ At(c, {"unfollow", "block"}, "delete")
  /\ IF tx[c].todo = {} THEN Read(c, [pc |-> "commit"])
     ELSE \E p \in tx[c].todo :
            /\ Free(c, Follow(p))
            /\ IF ~See(c)[Follow(p)] THEN Throw(c)
               ELSE Write(c, Follow(p), FALSE,
                          [pc |-> "following", row |-> p, todo |-> tx[c].todo \ {p}])

Step(c) == IF tx[c].kind = "follow" THEN 1 ELSE -1

UpdateFollowing(c) ==
  LET r == UserStats(tx[c].row[1])
  IN  /\ At(c, {"follow", "unfollow", "block"}, "following")
      /\ Write(c, r, [See(c)[r] EXCEPT !.following = @ + Step(c)], [pc |-> "followers"])

UpdateFollowers(c) ==
  LET r == UserStats(tx[c].row[2])
  IN  /\ At(c, {"follow", "unfollow", "block"}, "followers")
      /\ Write(c, r, [See(c)[r] EXCEPT !.followers = @ + Step(c)],
               [pc |-> IF tx[c].kind = "block" THEN "delete" ELSE "announce"])

----------------------------------------------------------------------------
Next ==
  \E c \in Clients :
    \/ Begin(c) \/ Commit(c) \/ Rollback(c)
    \/ FindBlock(c) \/ FindFollow(c) \/ CreateFollow(c) \/ Announce(c) \/ Evaluate(c)
    \/ Retract(c)
    \/ UpsertBlock(c) \/ FindFollows(c) \/ DeleteBlock(c)
    \/ DeleteFollow(c) \/ UpdateFollowing(c) \/ UpdateFollowers(c)

Spec == Init /\ [][Next]_vars

----------------------------------------------------------------------------
(* Properties.                                                             *)

\* Every call that commits is one change of the graph, whatever follows,
\* unfollows and blocks raced over the same rows: each transaction decides from
\* a row it read earlier, yet creates and deletes only what is still as it was,
\* and both counters of both users move with the rows.
Graph == INSTANCE SocialGraph WITH
  follows   <- {p \in Pairs : db[Follow(p)]},
  blocks    <- {p \in Pairs : db[Block(p)]},
  following <- [u \in Users |-> db[UserStats(u)].following],
  followers <- [u \in Users |-> db[UserStats(u)].followers]

ImplementsGraph == Graph!Spec

\* A follow that stands has its announcement: an unfollow that takes the
\* announcements away never overtakes the next follow of the same two.
FollowAnnounced == \A p \in Pairs : db[Follow(p)] => db[Activity(p)] > 0

\* Whoever has reached the goal has the achievement, although of two follows
\* that reach it together each may be the one that does not see the other.
GoalRewarded ==
  \A u \in Users : db[UserStats(u)].followers >= Goal => db[UserAchievement(u)]

Crossed == \E p \in Pairs : db[Follow(p)] /\ (db[Block(p)] \/ db[Block(Swap(p))])

\* As the service's header promises it: no follow is left behind between two
\* users one of whom blocks the other.
NoFollowAcrossBlock == ~Crossed
=============================================================================
