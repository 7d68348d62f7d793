----------------------------- MODULE SocialGraph -----------------------------
(***************************************************************************)
(* What social.service.ts promises of the follows, the blocks and the two  *)
(* counters of every user: each call that succeeds is one change of the    *)
(* graph, and the counters of both sides move with the rows.  How a call   *)
(* gets there is the subject of Social, which implements this.             *)
(***************************************************************************)
EXTENDS Integers, FiniteSets

CONSTANT Users

VARIABLES
  follows,    \* <<follower, followed>>
  blocks,     \* <<blocker, blocked>>
  following,  \* UserStats.followingCount
  followers   \* UserStats.followersCount

graph == <<follows, blocks, following, followers>>

Pairs   == {p \in Users \X Users : p[1] # p[2]}
Swap(p) == <<p[2], p[1]>>

From(u, S) == {p \in S : p[1] = u}
To(u, S)   == {p \in S : p[2] = u}

Init ==
  /\ follows = {} /\ blocks = {}
  /\ following = [u \in Users |-> 0]
  /\ followers = [u \in Users |-> 0]

Follow(p) ==
  /\ p \notin follows
  /\ follows' = follows \cup {p}
  /\ following' = [following EXCEPT ![p[1]] = @ + 1]
  /\ followers' = [followers EXCEPT ![p[2]] = @ + 1]
  /\ UNCHANGED blocks

\* Follows cease, and every counter goes down by the follows it counted.
Sever(S) ==
  /\ follows' = follows \ S
  /\ following' = [u \in Users |-> following[u] - Cardinality(From(u, S))]
  /\ followers' = [u \in Users |-> followers[u] - Cardinality(To(u, S))]

Unfollow(p) == p \in follows /\ Sever({p}) /\ UNCHANGED blocks

\* The block severs the follows it finds; one that is being made at the same
\* time may escape it.
Block(p) ==
  \E S \in SUBSET (follows \cap {p, Swap(p)}) :
    Sever(S) /\ blocks' = blocks \cup {p}

Unblock(p) ==
  /\ blocks' = blocks \ {p}
  /\ UNCHANGED <<follows, following, followers>>

Next == \E p \in Pairs : Follow(p) \/ Unfollow(p) \/ Block(p) \/ Unblock(p)

Spec == Init /\ [][Next]_graph

----------------------------------------------------------------------------
\* Rows join two users, and counters are numbers.
TypeOK ==
  /\ follows \subseteq Pairs /\ blocks \subseteq Pairs
  /\ following \in [Users -> Nat] /\ followers \in [Users -> Nat]

\* UserStats.followingCount and followersCount are caches over the follows.
CountersExact ==
  \A u \in Users : /\ following[u] = Cardinality(From(u, follows))
                   /\ followers[u] = Cardinality(To(u, follows))
=============================================================================
