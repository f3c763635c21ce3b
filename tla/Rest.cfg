SPECIFICATION FairSpec
CONSTANTS
  NumSessions = 2
  Fds = {f1, f2, f3}
  Clients = {c1, c2, c3}
  Apps = {bst}
  QLen = 2
  NumSlices = 1
  None = none
  MaxFaults = 1
INVARIANTS TypeOK CookieValid NoSliceLost NoSessionLost
PROPERTIES AnsweredOnce SessionReleased ImplementsApi
