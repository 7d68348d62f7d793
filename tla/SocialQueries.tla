----------------------------- MODULE SocialQueries -----------------------------
(***************************************************************************)
(* What the profile, connections, feed and people pages show of the graph  *)
(* Social keeps: the reads of queries/social.ts over committed rows, each  *)
(* page one snapshot.  A profile's two visibilities, and the one stamped   *)
(* on an activity, are parameters, so that a property can say "whatever    *)
(* they are set to".  The limits of the lists exceed the users here.       *)
(***************************************************************************)
EXTENDS Social

Visibilities == {"PUBLIC", "FOLLOWERS", "PRIVATE"}
Nobody       == "nobody"        \* a viewer who is not signed in
Viewers      == Users \cup {Nobody}

Follows(v, u)   == <<v, u>> \in Pairs /\ db[Follow(<<v, u>>)]
BlockedAway(v, u) ==
  <<v, u>> \in Pairs /\ (db[Block(<<v, u>>)] \/ db[Block(<<u, v>>)])

CanView(visibility, owner, viewer) ==
  \/ viewer = owner
  \/ visibility = "PUBLIC"
  \/ visibility = "FOLLOWERS" /\ Follows(viewer, owner)

\* getProfile; a block either way reads as no such profile.
GetProfile(owner, viewer, visibility, activityVisibility) ==
  LET visible == CanView(visibility, owner, viewer)
  IN  [found       |-> ~BlockedAway(viewer, owner),
       visible     |-> visible,
       activity    |-> visible /\ CanView(activityVisibility, owner, viewer),
       isFollowing |-> Follows(viewer, owner),
       followers   |-> db[UserStats(owner)].followers,
       following   |-> db[UserStats(owner)].following]

ListFollowers(u) == {v \in Users : Follows(v, u)}
ListFollowing(u) == {v \in Users : Follows(u, v)}

\* The followers and following pages share the profile's gate.
Connections(owner, viewer, visibility, list) ==
  LET profile == GetProfile(owner, viewer, visibility, "PUBLIC")
  IN  [found |-> profile.found, locked |-> ~profile.visible,
       names |-> IF profile.found /\ profile.visible THEN list ELSE {}]

\* Announcements by the given authors; the visibility they were stamped with
\* when the follow was made is not rewritten when the profile's is.
Announced(authors) == {p \in Pairs : p[1] \in authors /\ db[Activity(p)] > 0}

GetFollowingFeed(viewer, stamp) ==
  IF stamp = "PRIVATE" THEN {} ELSE Announced(ListFollowing(viewer) \cup {viewer})

GetUserActivity(owner, stamp) == IF stamp = "PUBLIC" THEN Announced({owner}) ELSE {}

\* The profile page fetches the activity once visibility has passed.
UserPage(owner, viewer, visibility, activityVisibility, stamp) ==
  LET profile == GetProfile(owner, viewer, visibility, activityVisibility)
  IN  [profile |-> profile,
       items   |-> IF profile.found /\ profile.activity
                   THEN GetUserActivity(owner, stamp) ELSE {}]

\* suggestedUsers leaves out those followed, not those blocked.
SuggestedUsers(viewer) == Users \ (ListFollowing(viewer) \cup {viewer})

----------------------------------------------------------------------------
\* Whoever blocks is gone, whatever visibilities are set and whoever blocked
\* whom: no profile, no activity, no connections, nothing of theirs in the
\* feed, not one of the followers or the followed.  The feed and the lists
\* never look at the blocks: they rely on the block having severed the
\* follows, which it does unless a follow overlapped with it.
BlockHides ==
  ~raced =>
    \A p \in Pairs : BlockedAway(p[1], p[2]) =>
      \A v \in Visibilities :
        /\ ~UserPage(p[2], p[1], v, v, v).profile.found
        /\ UserPage(p[2], p[1], v, v, v).items = {}
        /\ Connections(p[2], p[1], v, ListFollowers(p[2])).names = {}
        /\ \A item \in GetFollowingFeed(p[1], v) : item[1] # p[2]
        /\ p[2] \notin ListFollowers(p[1]) \cup ListFollowing(p[1])

\* The numbers on a profile are counters, the pages behind them rows: on a
\* public profile they agree for every viewer, at every moment of every race,
\* and a person is suggested exactly when their profile offers Follow.
NumbersMatchLists ==
  \A owner \in Users, viewer \in Viewers :
    LET profile == GetProfile(owner, viewer, "PUBLIC", "PUBLIC")
    IN  profile.found =>
          /\ Cardinality(Connections(owner, viewer, "PUBLIC", ListFollowers(owner)).names)
               = profile.followers
          /\ Cardinality(Connections(owner, viewer, "PUBLIC", ListFollowing(owner)).names)
               = profile.following
          /\ viewer \in Users \ {owner} =>
               profile.isFollowing = (owner \notin SuggestedUsers(viewer))
=============================================================================
