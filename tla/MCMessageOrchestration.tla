----------------------- MODULE MCMessageOrchestration -----------------------
(***************************************************************************)
(* Small instances of the request handling of agent-runtime.  debug stands *)
(* for the specialists, which may switch; universal is known to AgentType  *)
(* but not registered (multi-agent mode).                                  *)
(***************************************************************************)
EXTENDS MessageOrchestration

CONSTANTS r1, r2, r3, s1, s2, c1, c2, orchestrator, debug, universal

OneSession == {s1}
TwoSessions == {s1, s2}
TwoRequests == {r1, r2}
ThreeRequests == {r1, r2, r3}
NoFailures == {}
AllFailures == FailureKinds
Disconnects == {"disconnect"}
TwoCalls == {c1, c2}
FirstCallGuarded == {c1}
OneSpecialist == {orchestrator, debug, universal}
MultiAgentMode == {orchestrator, debug}
DebugSwitches == {debug}

RequestSymmetry == Permutations(Requests)
=============================================================================
