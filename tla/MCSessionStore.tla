---------------------------- MODULE MCSessionStore ----------------------------
(***************************************************************************)
(* The sessions table on a small instance.                                 *)
(***************************************************************************)
EXTENDS SessionStore

CONSTANTS r1, r2, r3, s1, s2

OneSession == {s1}
TwoSessions == {s1, s2}
OneRequest == {r1}
TwoRequests == {r1, r2}
ThreeRequests == {r1, r2, r3}
=============================================================================
