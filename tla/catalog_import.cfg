SPECIFICATION Spec
CONSTANTS
  Clients = {"page", "script"}
  Script = "script"
  Works <- McWorks
  About <- McAbout
  Tree <- McTree
  Seeded = {"two"}
  Posterless = {"one"}
  Scopes <- McScopes
  PageSize = 2
  MaxPages = 2
  MaxEpisodes = 2
  MaxSuffix = 2
  Concurrency = 2
  MaxCopies = 2
INVARIANTS
  TotalsMatchRows
  AloneNeverFails
PROPERTIES
  NothingTakenAway
  RunEnds
CHECK_DEADLOCK FALSE
