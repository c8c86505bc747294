CONSTANTS
  k1 = k1
  k2 = k2
  q1 = q1
  q2 = q2
  s1 = s1
  NoSocket = NoSocket
  Sockets <- TwoSockets
  Sessions <- OneSession
  Checks <- TwoChecks
  Lifetime = 1
  FetchTime = 2
  MaxKeys = 2
  MaxTime = 3
  MaxTurns = 2
  MaxInFlight = 2

SPECIFICATION Spec
INVARIANT TypeOK
INVARIANT KeysFresh
INVARIANT RegisteredServed
INVARIANT TurnsAnswered
CONSTRAINT OnePart
CHECK_DEADLOCK FALSE
SYMMETRY Symmetric
