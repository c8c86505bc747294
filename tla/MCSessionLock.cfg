CONSTANTS
  r1 = r1
  r2 = r2
  r3 = r3
  s1 = s1
  s2 = s2
  NoRequest = NoRequest
  Requests <- MCRequests
  Sessions <- MCSessions
  MaxLockObjects = 2

SPECIFICATION FairSpec
INVARIANT MutualExclusion
INVARIANT NoLostWakeup
INVARIANT LockedIffHeld
PROPERTY EveryWaiterServed
PROPERTY ImplementsMutex
