------------------------------ MODULE MCApprovals ------------------------------
(***************************************************************************)
(* Approvals and events on a small instance.                               *)
(***************************************************************************)
EXTENDS Approvals

CONSTANTS r1, r2, r3, s1, s2, c1, c2

OneRequest == {r1}
TwoRequests == {r1, r2}
ThreeRequests == {r1, r2, r3}
TwoSessions == {s1, s2}
OneSession == {s1}
OneCall == {c1}
AnyStored == {"none", "pending", "approved"}
Symmetric == Permutations(TwoRequests) \cup Permutations(TwoSessions)
=============================================================================
