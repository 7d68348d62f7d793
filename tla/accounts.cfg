SPECIFICATION Spec
CONSTANTS
  d1 = d1
  d2 = d2
  s1 = s1
  s2 = s2
  l1 = l1
  l2 = l2
  Devices <- McDevices
  SessionIds <- McSessions
  LinkIds <- McLinks
  Scopes <- McScopes
  Ttl = 3
  Threshold = 1
  MaxDelay = 1
SYMMETRY McSymmetry
INVARIANTS
  ChangeEndsSessions
  LinkWorksOnce
  OneLiveLink
  ActiveStaysSignedIn
