SPECIFICATION Spec
CONSTANTS
  c1 = c1
  c2 = c2
  u1 = u1
  u2 = u2
  Clients <- McClients
  Users <- McUsers
  Authors <- McAuthors
  Ratings = {1, 2}
  Cap = 1
  Goal = 1
  MaxCalls = 3
INVARIANTS
  CountersMatchRows
  PostedOnce
  AverageExact

  
CHECK_DEADLOCK FALSE
