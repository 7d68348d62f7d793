SPECIFICATION Spec
CONSTANTS
  c1 = c1
  c2 = c2
  u1 = u1
  u2 = u2
  u3 = u3
  Clients <- McClients
  Users <- McTwo
  Goal = 2
  MaxCalls = 2
SYMMETRY McTwoSymmetry
INVARIANT
  NoFollowAcrossBlock
CHECK_DEADLOCK FALSE
