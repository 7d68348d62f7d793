SPECIFICATION Spec
CONSTANTS
  c1 = c1
  c2 = c2
  u1 = u1
  u2 = u2
  u3 = u3
  Clients <- McClients
  Users <- McThree
  Goal = 2
  MaxCalls = 4
SYMMETRY McThreeSymmetry
INVARIANTS
  FollowAnnounced
  GoalRewarded
  BlockHides
  NumbersMatchLists
PROPERTY
  ImplementsGraph
CHECK_DEADLOCK FALSE
