SPECIFICATION LimiterSpec
CONSTANTS
  i1 = i1
  i2 = i2
  k1 = k1
  k2 = k2
  Instances <- McInstances
  Calls <- McCalls
  Limit = 2
  Window = 3
  SweepEvery = 1
  MaxLate = 1
  MaxFailures = 1
INVARIANTS
  TwoBudgetsPerWindow
PROPERTIES
  ImplementsThrottle
  RefusalsEnd
