---------------------------- MODULE MCSessionLock ----------------------------
(***************************************************************************)
(* The session lock on a small instance: three requests, two sessions.     *)
(***************************************************************************)
EXTENDS SessionLock

CONSTANTS r1, r2, r3, s1, s2

MCRequests == {r1, r2, r3}
MCSessions == {s1, s2}
=============================================================================
