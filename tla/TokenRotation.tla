---------------------------- MODULE TokenRotation ----------------------------
(***************************************************************************)
(* auth-service: the grants of POST /oauth/token and the table of refresh  *)
(* tokens, which they read and write in one short transaction after        *)
(* another.  Requests interleave between the transactions; an error or the *)
(* end of the process keeps what was committed.                            *)
(*                                                                         *)
(* Passwords, scopes and clients are reduced to whether the service        *)
(* accepts them, a refused attempt (LoginLimits) to an error answer.  The  *)
(* database is PostgreSQL, READ COMMITTED.                                 *)
(***************************************************************************)
CONSTANTS
  Requests,  \* the requests that may be served at the same time
  Users, Clients,
  Tokens,    \* the refresh tokens that may be created, by their jti
  NoToken, NoRow,
  MayFail    \* the database and the process may fail

VARIABLES
  rows,    \* table refresh_tokens: rows[t], or NoRow
  held,    \* the tokens that were sent to clients
  pc, job  \* per request: the next call, and its local variables

tableVars == <<rows, held>>
vars == <<tableVars, pc, job>>

Ledger == INSTANCE TokenLedger

ASSUME TokenRotationAssumption ==
  /\ NoToken \notin Tokens
  /\ NoRow \notin Ledger!Row
  /\ MayFail \in BOOLEAN

Jobs == [user : Users, client : Clients,
         token : Tokens \cup {NoToken},  \* the token presented, if any
         fresh : Tokens \cup {NoToken},  \* the token created by this request
         chain : SUBSET Tokens,          \* tokens_to_revoke
         late : BOOLEAN,                 \* history: token was revoked on arrival
         siblings : SUBSET Tokens]       \* history: held tokens of its family on arrival

Working == {"password", "validate", "readChain", "revokeChain", "exchange", "revoke",
            "save", "answer"}
Answers == {"granted", "refused", "reused", "error"}

TypeOK ==
  /\ rows \in [Tokens -> Ledger!Row \cup {NoRow}]
  /\ held \in SUBSET Tokens
  /\ pc \in [Requests -> Working \cup Answers]
  /\ job \in [Requests -> Jobs]

NewJob(u, c, t, late, siblings) ==
  [user |-> u, client |-> c, token |-> t, fresh |-> NoToken, chain |-> {},
   late |-> late, siblings |-> siblings]

\* No request yet is a request that was refused.
Init ==
  /\ rows = [t \in Tokens |-> NoRow]
  /\ held = {}
  /\ pc = [r \in Requests |-> "refused"]
  /\ \E u \in Users, c \in Clients :
        job = [r \in Requests |-> NewJob(u, c, NoToken, FALSE, {})]

-----------------------------------------------------------------------------
Stored(t) == rows[t] # NoRow
Revoked(t) == Stored(t) /\ rows[t].revoked
Family(t) == {s \in Tokens : Stored(s) /\ Ledger!SameFamily(s, t)}
Unused == {t \in Tokens : ~Stored(t) /\ \A r \in Requests : job[r].fresh # t}

Goto(r, phase) == pc' = [pc EXCEPT ![r] = phase]

\* A login of some user.
Login(r) ==
  /\ pc[r] \in Answers
  /\ \E u \in Users, c \in Clients : job' = [job EXCEPT ![r] = NewJob(u, c, NoToken, FALSE, {})]
  /\ Goto(r, "password")
  /\ UNCHANGED tableVars

\* A token that was sent to a client comes back, with any client_id; the user is
\* the sub of the token.
Present(r) ==
  /\ pc[r] \in Answers
  /\ \E t \in held, c \in Clients :
        job' = [job EXCEPT ![r] = NewJob(rows[t].user, c, t, Revoked(t), Family(t) \cap held)]
  /\ Goto(r, "validate")
  /\ UNCHANGED tableVars

\* The client, its secret, grant types or scopes, or the user are not accepted.
Refused(r) == Goto(r, "refused") /\ UNCHANGED job

\* authenticate_password_grant: the new pair is not stored yet.
Password_noPair(r) ==  \* mutant: the response is made without a pair
  /\ pc[r] = "password"
  /\ Goto(r, "refused") \/ Goto(r, "save")
  /\ UNCHANGED <<tableVars, job>>
Password(r) ==
  /\ pc[r] = "password"
  /\ \/ Refused(r)
     \/ /\ \E t \in Unused : job' = [job EXCEPT ![r].fresh = t]
        /\ Goto(r, "save")
  /\ UNCHANGED tableVars

\* validate_refresh_token, of the JWT (which may have expired) and of the row.
Validate_trusting(r) ==  \* mutant: the revoked flag is not looked at
  /\ pc[r] = "validate"
  /\ Goto(r, "refused") \/ Goto(r, "exchange")
  /\ UNCHANGED <<tableVars, job>>
Validate(r) ==
  /\ pc[r] = "validate"
  /\ \/ Goto(r, "refused")
     \/ Stored(job[r].token) /\ Goto(r, IF Revoked(job[r].token) THEN "readChain" ELSE "exchange")
  /\ UNCHANGED <<tableVars, job>>

\* revoke_token_chain: select and commit are two steps.
ReadChain_children(r) ==  \* mutant: follows parent_jti_hash for one generation
  /\ pc[r] = "readChain"
  /\ job' = [job EXCEPT ![r].chain =
               {t \in Family(job[r].token) : ~Revoked(t) /\ rows[t].parent = job[r].token}]
  /\ Goto(r, "revokeChain")
  /\ UNCHANGED tableVars
ReadChain(r) ==
  /\ pc[r] = "readChain"
  /\ job' = [job EXCEPT ![r].chain = {t \in Family(job[r].token) : ~Revoked(t)}]
  /\ Goto(r, "revokeChain")
  /\ UNCHANGED tableVars

RowsRevoked(S) ==
  [t \in Tokens |-> IF t \in S THEN [rows[t] EXCEPT !.revoked = TRUE] ELSE rows[t]]

RevokeChain(r) ==
  /\ pc[r] = "revokeChain"
  /\ rows' = RowsRevoked(job[r].chain)
  /\ Goto(r, "reused")
  /\ UNCHANGED <<held, job>>

\* authenticate_refresh_grant: the JWT once more, its client, the user, any of
\* which may be refused.
Exchange_anyClient(r) ==  \* mutant: the client_id of the token is not compared
  /\ pc[r] = "exchange"
  /\ \/ Refused(r)
     \/ /\ \E t \in Unused : job' = [job EXCEPT ![r].fresh = t]
        /\ Goto(r, "revoke")
  /\ UNCHANGED tableVars
Exchange(r) ==
  /\ pc[r] = "exchange"
  /\ \/ Refused(r)
     \/ /\ rows[job[r].token].client = job[r].client
        /\ \E t \in Unused : job' = [job EXCEPT ![r].fresh = t]
        /\ Goto(r, "revoke")
  /\ UNCHANGED tableVars

\* revoke_token writes the row that validate_refresh_token has read, whatever
\* another request has committed since: only the columns it changes.
RevokeOld(r) ==
  /\ pc[r] = "revoke"
  /\ rows' = RowsRevoked({job[r].token})
  /\ Goto(r, "save")
  /\ UNCHANGED <<held, job>>

\* save_refresh_token: the insert has a transaction of its own.
Save_flushed(r) ==  \* mutant: the row is added and not committed
  /\ pc[r] = "save"
  /\ Goto(r, "answer")
  /\ UNCHANGED <<tableVars, job>>
Save(r) ==
  /\ pc[r] = "save"
  /\ rows' = [rows EXCEPT ![job[r].fresh] =
                [user |-> job[r].user, client |-> job[r].client,
                 parent |-> job[r].token, revoked |-> FALSE]]
  /\ Goto(r, "answer")
  /\ UNCHANGED <<held, job>>

\* The audit record is written (after the save for a refresh) and the pair sent.
Answer(r) ==
  /\ pc[r] = "answer"
  /\ held' = held \cup {job[r].fresh}
  /\ Goto(r, "granted")
  /\ UNCHANGED <<rows, job>>

\* An error of the database or the end of the process, in a call of r.
Fail(r) ==
  /\ MayFail
  /\ pc[r] \in Working
  /\ Goto(r, "error")
  /\ UNCHANGED <<tableVars, job>>

-----------------------------------------------------------------------------
Serve(r) ==
  \/ Password(r) \/ Validate(r) \/ ReadChain(r) \/ RevokeChain(r) \/ Exchange(r)
  \/ RevokeOld(r) \/ Save(r) \/ Answer(r)

Next ==
  \E r \in Requests : Login(r) \/ Present(r) \/ Serve(r) \/ Fail(r)

Spec == Init /\ [][Next]_vars

-----------------------------------------------------------------------------
(***************************************************************************)
(* Properties                                                              *)
(***************************************************************************)
\* The table keeps the ledger's promises, with every interleaving of the
\* requests' short transactions, stale rows and failures between them: a
\* successor belongs to the user and client of a revoked predecessor, and no
\* late write brings a revoked token back.
ImplementsLedger == Ledger!LedgerSpec

\* A token that had been exchanged or revoked when the request arrived gets no
\* successor: a refresh token serves once, except for requests that overlap.
SpentOnce == \A r \in Requests : pc[r] = "granted" => ~job[r].late

\* When a reuse is reported, every token of that user and client that a client
\* held when the request arrived is revoked, not only the direct successors.
ReuseEndsFamily ==
  \A r \in Requests : pc[r] = "reused" => \A t \in job[r].siblings : Revoked(t)

\* A token that was sent is in the table: it will be recognised when it comes
\* back, whatever failed before or after.
HeldStored == \A t \in held : Stored(t)
=============================================================================
