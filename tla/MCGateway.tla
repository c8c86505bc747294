------------------------------- MODULE MCGateway -------------------------------
(***************************************************************************)
(* The gateway on small instances: its sockets, and its checks of tokens.  *)
(***************************************************************************)
EXTENDS Gateway, TLC

CONSTANTS k1, k2, q1, q2, s1

TwoSockets == {k1, k2}
OneSession == {s1}
TwoChecks == {q1, q2}
\* The checks of tokens and the sockets share nothing: one part moves at a time.
ChecksRest == now = 0 /\ current = 1 /\ \A c \in Checks : check[c] = "new"
SocketsRest == \A k \in Sockets : sock[k] = "new"
OnePart == ChecksRest \/ SocketsRest

Symmetric == Permutations(Sockets) \cup Permutations(Checks)
=============================================================================
