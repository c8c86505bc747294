CONSTANTS
  r1 = r1
  r2 = r2
  r3 = r3
  Callers <- ThreeCallers
  Threshold = 2
  MaxRetries = 1

SPECIFICATION FairSpec
INVARIANT TypeOK
INVARIANT CountAgrees
PROPERTY OutageEnds
PROPERTY CallsEnd
