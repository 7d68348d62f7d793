SPECIFICATION Spec
CONSTANTS
  c1 = c1
  c2 = c2
  e1 = e1
  e2 = e2
  Clients <- TxClients
  Episodes <- TxEpisodes
  AddStatuses <- TxStatuses
  MaxCalls = 4
SYMMETRY TxSymmetry
INVARIANTS
  XpPaidOnce
  VolumeExact
  RowsPaid
  MembersCounted
CHECK_DEADLOCK FALSE
