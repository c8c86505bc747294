--------------------------- MODULE MCTokenRotation ---------------------------
(***************************************************************************)
(* The refresh tokens on small instances.                                  *)
(***************************************************************************)
EXTENDS TokenRotation, TLC

CONSTANTS r1, r2, u1, c1, c2, t1, t2, t3

TwoRequests == {r1, r2}
OneUser == {u1}
TwoClients == {c1, c2}
ThreeTokens == {t1, t2, t3}

\* Nothing tells the members of these sets apart.
Symmetric ==
  Permutations(Requests) \cup Permutations(Users) \cup Permutations(Clients)
    \cup Permutations(Tokens)
=============================================================================
