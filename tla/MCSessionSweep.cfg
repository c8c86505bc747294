CONSTANTS
  r1 = r1
  r2 = r2
  r3 = r3
  s1 = s1
  s2 = s2
  Sweeper = Sweeper
  NoRequest = NoRequest
  NoRow = NoRow
  NoJob = NoJob
  Requests <- OneRequest
  Sessions <- OneSession
  MaxAge = 0
  MaxMessages = 1
  BatchSize = 1
  PageSize = 1
  RateLimit = 1
  Window = 1
  MaxTime = 1
  MayCrash = FALSE

SPECIFICATION Spec
PROPERTY SweptAreGone
CHECK_DEADLOCK FALSE
