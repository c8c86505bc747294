----------------------------- MODULE MCLLMClient -----------------------------
(***************************************************************************)
(* The model client on a small instance: three callers share the breaker.  *)
(***************************************************************************)
EXTENDS LLMClient

CONSTANTS r1, r2, r3

ThreeCallers == {r1, r2, r3}
=============================================================================
