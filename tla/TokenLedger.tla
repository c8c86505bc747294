----------------------------- MODULE TokenLedger -----------------------------
(***************************************************************************)
(* What the table of refresh tokens promises, whatever happens to the      *)
(* requests that write it: a token is issued at a login or in exchange for *)
(* a revoked one of the same user and client, its row is never rewritten   *)
(* except to revoke it, and nothing revoked comes back.                    *)
(***************************************************************************)
CONSTANTS Tokens, Users, Clients, NoToken, NoRow

VARIABLE rows  \* rows[t]: the row of token t, or NoRow

Row == [user : Users, client : Clients, parent : Tokens \cup {NoToken}, revoked : BOOLEAN]

Stored(t) == rows[t] # NoRow
SameFamily(s, t) == rows[s].user = rows[t].user /\ rows[s].client = rows[t].client

LedgerInit == rows = [t \in Tokens |-> NoRow]

\* A new token: the first of a login, or the successor of a revoked one.
Issue(t) ==
  /\ ~Stored(t)
  /\ \E u \in Users, c \in Clients, p \in Tokens \cup {NoToken} :
        /\ p # NoToken => /\ Stored(p)
                          /\ rows[p].revoked
                          /\ rows[p].user = u /\ rows[p].client = c
        /\ rows' = [rows EXCEPT ![t] =
                      [user |-> u, client |-> c, parent |-> p, revoked |-> FALSE]]

\* Tokens of one user and client are revoked together.
Revoke(S) ==
  /\ \A t \in S : Stored(t)
  /\ \A s, t \in S : SameFamily(s, t)
  /\ rows' = [t \in Tokens |-> IF t \in S THEN [rows[t] EXCEPT !.revoked = TRUE] ELSE rows[t]]

LedgerNext == (\E t \in Tokens : Issue(t)) \/ (\E S \in SUBSET Tokens : Revoke(S))

LedgerSpec == LedgerInit /\ [][LedgerNext]_rows
=============================================================================
