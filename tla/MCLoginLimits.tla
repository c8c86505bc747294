---------------------------- MODULE MCLoginLimits ----------------------------
(***************************************************************************)
(* The counters of the token endpoint on a small instance.                 *)
(***************************************************************************)
EXTENDS LoginLimits

CONSTANTS r1, r2, u1, a1

TwoRequests == {r1, r2}
OneUser == {u1}
OneAddress == {a1}
=============================================================================
