CONSTANTS
  r1 = r1
  r2 = r2
  u1 = u1
  c1 = c1
  c2 = c2
  t1 = t1
  t2 = t2
  t3 = t3
  NoToken = NoToken
  NoRow = NoRow
  Requests <- TwoRequests
  Users <- OneUser
  Clients <- TwoClients
  Tokens <- ThreeTokens
  MayFail = TRUE

SPECIFICATION Spec
SYMMETRY Symmetric
INVARIANT TypeOK
INVARIANT SpentOnce
INVARIANT ReuseEndsFamily
INVARIANT HeldStored
PROPERTY ImplementsLedger
