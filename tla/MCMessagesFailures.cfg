CONSTANTS
  r1 = r1
  r2 = r2
  r3 = r3
  s1 = s1
  s2 = s2
  c1 = c1
  c2 = c2
  orchestrator = orchestrator
  debug = debug
  universal = universal
  NoRequest = NoRequest
  NoAgent = NoAgent
  NoCall = NoCall
  NoJob = NoJob
  NoImage = NoImage
  NoContext = NoContext
  Orchestrator = orchestrator
  Universal = universal
  Requests <- TwoRequests
  Sessions <- TwoSessions
  Calls <- TwoCalls
  Guarded <- FirstCallGuarded
  Agents <- OneSpecialist
  Registered <- MultiAgentMode
  Switchers <- DebugSwitches
  MaxMessages = 4
  MaxSwitches = 2
  HitlModels = TRUE
  Failures <- AllFailures

SPECIFICATION FairSpec
INVARIANT PendingIsShown
INVARIANT ResultsFollowCalls
PROPERTY ImplementsLog
PROPERTY RequestsEnd
CHECK_DEADLOCK FALSE
