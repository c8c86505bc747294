CONSTANTS
  r1 = r1
  r2 = r2
  r3 = r3
  s1 = s1
  s2 = s2
  c1 = c1
  c2 = c2
  NoRequest = NoRequest
  NoCall = NoCall
  Requests <- TwoRequests
  Sessions <- TwoSessions
  Calls <- OneCall
  Stored <- AnyStored
  MayDisconnect = TRUE

SPECIFICATION Spec
INVARIANT TypeOK
INVARIANT Announced
PROPERTY DecisionsStand
PROPERTY ImplementsMailboxes
INVARIANT MetricsAgree
CHECK_DEADLOCK FALSE
SYMMETRY Symmetric
