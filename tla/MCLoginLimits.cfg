CONSTANTS
  r1 = r1
  r2 = r2
  u1 = u1
  a1 = a1
  Requests <- TwoRequests
  Users <- OneUser
  Addresses <- OneAddress
  RateLimit = 2
  Threshold = 1
  MaxCount = 3
  MayFail = TRUE

SPECIFICATION FairSpec
INVARIANT TypeOK
INVARIANT AttemptsBounded
INVARIANT CountersExpire
PROPERTY LockoutEnds
