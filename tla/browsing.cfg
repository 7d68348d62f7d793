SPECIFICATION Spec
CONSTANTS
  Shows = {1, 2, 3, 4, 5, 6}
  Fact <- MCFact
  Neighbours <- MCNeighbours
  ShelfSize = 2
  CandidatePool = 2
  Ln <- MCLn
  Ln1001 = 6909
  Sqrt <- MCSqrt
  Stocked = {1, 2, 3, 6}
  Joined <- MCJoined
  Titled <- MCTitled
  Resembles <- MCResembles
  Listed <- MCListed
  PageSize = 2
  FuzzyLimit = 3
  Enough = 2
  MaxPage = 2
  MaxMembers = 4
  MaxMoves = 1
  LastEpisode = 2
  Stars = {1, 2}
  Loaded <- MCLoaded
  MaxClicks = 2
  MaxElsewhere = 1
  Scopes = {"shelf", "discover", "page"}
  Libraries <- MCLibraries
INVARIANTS
  CardsAreHonest
  NoRowTwice
  PagesCover
  PageSettles
PROPERTY Settles
