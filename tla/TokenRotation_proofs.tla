------------------------- MODULE TokenRotation_proofs -------------------------
(***************************************************************************)
(* What holds of the refresh tokens for any number of requests, users,     *)
(* clients and tokens, under failures as well.                             *)
(***************************************************************************)
EXTENDS TokenRotation, TLAPS

\* The token presented is a stored one of the user the request acts for.
Presented(r) ==
  /\ job[r].token \in Tokens
  /\ Stored(job[r].token)
  /\ rows[job[r].token].user = job[r].user

\* The token created is not stored yet.
Created(r) == job[r].fresh \in Tokens /\ ~Stored(job[r].fresh)

SiblingsOf(r) == job[r].siblings \subseteq Family(job[r].token)

\* What request r has established at each of its calls.
Fits(r) ==
  /\ pc[r] \in {"validate", "readChain", "revokeChain", "exchange", "revoke"} => Presented(r)
  /\ pc[r] \in {"validate", "readChain"} => SiblingsOf(r)
  /\ pc[r] = "validate" => (job[r].late => Revoked(job[r].token))
  /\ pc[r] = "revokeChain" =>
        /\ job[r].chain \subseteq Family(job[r].token)
        /\ \A t \in job[r].siblings : t \in job[r].chain \/ Revoked(t)
  /\ pc[r] = "reused" => \A t \in job[r].siblings : Revoked(t)
  /\ pc[r] \in {"revoke", "save"} => Created(r)
  /\ pc[r] = "revoke" => rows[job[r].token].client = job[r].client
  /\ pc[r] = "save" =>
        (job[r].token # NoToken => /\ Presented(r) /\ Revoked(job[r].token)
                                   /\ rows[job[r].token].client = job[r].client)
  /\ pc[r] = "answer" => job[r].fresh \in Tokens /\ Stored(job[r].fresh)
  /\ pc[r] = "password" => job[r].token = NoToken /\ ~job[r].late
  /\ pc[r] \in {"exchange", "revoke", "save", "answer", "granted"} => ~job[r].late

OwnFresh ==
  \A q, r \in Requests : job[q].fresh = job[r].fresh /\ job[q].fresh # NoToken => q = r

RotationInv == TypeOK /\ HeldStored /\ OwnFresh /\ \A r \in Requests : Fits(r)

\* Rows are kept: only their revoked flag changes, and only to true.
Kept ==
  \A t \in Tokens : Stored(t) =>
     /\ Stored(t)'
     /\ rows'[t].user = rows[t].user /\ rows'[t].client = rows[t].client
     /\ Revoked(t) => Revoked(t)'

LEMMA RevokeKeeps ==
  ASSUME TypeOK, NEW S \in SUBSET Tokens, \A t \in S : Stored(t), rows' = RowsRevoked(S)
  PROVE  /\ rows' \in [Tokens -> Ledger!Row \cup {NoRow}]
         /\ Kept
         /\ \A t \in Tokens : Stored(t)' <=> Stored(t)
         /\ \A t \in S : Revoked(t)'
<1> USE TokenRotationAssumption
<1>1. \A t \in Tokens : Stored(t) => rows[t] \in Ledger!Row
  BY DEF TypeOK, Stored
<1>2. \A t \in S : rows'[t] \in Ledger!Row /\ rows'[t] = [rows[t] EXCEPT !.revoked = TRUE]
  BY <1>1 DEF RowsRevoked, Ledger!Row
<1>3. \A t \in Tokens \ S : rows'[t] = rows[t]
  BY DEF RowsRevoked
<1>4. \A t \in S : /\ Stored(t)' /\ Revoked(t)'
                   /\ rows'[t].user = rows[t].user /\ rows'[t].client = rows[t].client
  <2> SUFFICES ASSUME NEW t \in S
               PROVE  /\ rows'[t] # NoRow /\ rows'[t].revoked
                      /\ rows'[t].user = rows[t].user /\ rows'[t].client = rows[t].client
    BY DEF Stored, Revoked
  <2>1. rows[t] \in Ledger!Row
    BY <1>1
  <2>2. rows'[t] # NoRow
    BY <1>2
  <2>3. [rows[t] EXCEPT !.revoked = TRUE].revoked
    BY <2>1 DEF Ledger!Row
  <2>4. /\ [rows[t] EXCEPT !.revoked = TRUE].user = rows[t].user
        /\ [rows[t] EXCEPT !.revoked = TRUE].client = rows[t].client
    BY <2>1 DEF Ledger!Row
  <2>. QED BY <1>2, <2>2, <2>3, <2>4
<1>5. rows' \in [Tokens -> Ledger!Row \cup {NoRow}]
  <2>1. \A t \in Tokens : rows'[t] \in Ledger!Row \cup {NoRow}
    BY <1>2, <1>3 DEF TypeOK
  <2>. QED BY <2>1 DEF RowsRevoked
<1>6. Kept
  BY <1>3, <1>4 DEF Kept, Stored, Revoked
<1>7. \A t \in Tokens : Stored(t)' <=> Stored(t)
  BY <1>3, <1>4 DEF Stored
<1>. QED BY <1>4, <1>5, <1>6, <1>7

LEMMA SaveKeeps ==
  ASSUME TypeOK, NEW t \in Tokens, ~Stored(t), NEW row \in Ledger!Row,
         rows' = [rows EXCEPT ![t] = row]
  PROVE  /\ rows' \in [Tokens -> Ledger!Row \cup {NoRow}]
         /\ Kept
         /\ Stored(t)'
         /\ \A s \in Tokens \ {t} : Stored(s)' <=> Stored(s)
<1> USE TokenRotationAssumption
<1>1. /\ rows'[t] = row
      /\ \A s \in Tokens \ {t} : rows'[s] = rows[s]
  BY DEF TypeOK
<1>2. rows' \in [Tokens -> Ledger!Row \cup {NoRow}]
  BY DEF TypeOK
<1>. QED BY <1>1, <1>2 DEF Kept, Stored, Revoked

\* Another request keeps what it has established, as long as no token appears
\* under the jti it is about to use.
LEMMA OthersFit ==
  ASSUME TypeOK, Kept, NEW q \in Requests, Fits(q),
         pc'[q] = pc[q], job'[q] = job[q],
         Created(q) => ~Stored(job[q].fresh)'
  PROVE  Fits(q)'
<1> DEFINE t == job[q].token
<1>1. job[q] \in Jobs
  BY DEF TypeOK
<1>2. \A x \in Tokens : Revoked(x) => Revoked(x)'
  BY DEF Kept, Revoked, Stored
<1>3. Presented(q) => /\ Presented(q)'
                      /\ rows'[t].client = rows[t].client
                      /\ Family(t) \subseteq Family(t)'
                      /\ Revoked(t) => Revoked(t)'
  BY DEF Presented, Kept, Family, Ledger!SameFamily, Stored, Revoked
<1>4. Created(q) => Created(q)'
  BY DEF Created, Stored
<1>5. job[q].siblings \subseteq Tokens /\ job[q].chain \subseteq Tokens
  BY <1>1 DEF Jobs
<1>6. CASE pc[q] \in {"validate", "readChain", "revokeChain"}
  BY <1>2, <1>3, <1>5, <1>6 DEF Fits, SiblingsOf, Family, Revoked, Stored
<1>7. CASE pc[q] \in {"exchange", "revoke", "save"}
  BY <1>3, <1>4, <1>7 DEF Fits
<1>8. CASE pc[q] = "answer"
  BY <1>8 DEF Fits, Kept, Stored
<1>9. CASE pc[q] = "reused"
  BY <1>2, <1>5, <1>9 DEF Fits
<1>10. CASE pc[q] \in {"password", "granted", "refused", "error"}
  BY <1>10 DEF Fits
<1>. QED BY <1>6, <1>7, <1>8, <1>9, <1>10 DEF TypeOK, Working, Answers

\* A step of request r keeps the invariant when it does so for r itself.
LEMMA StepOf ==
  ASSUME RotationInv, NEW r \in Requests, Kept, TypeOK', HeldStored', OwnFresh', Fits(r)',
         \A q \in Requests \ {r} : pc'[q] = pc[q] /\ job'[q] = job[q],
         \A t \in Tokens : Stored(t)' => Stored(t) \/ t = job[r].fresh
  PROVE  RotationInv'
<1>1. ASSUME NEW q \in Requests PROVE Fits(q)'
  <2>1. CASE q = r
    BY <2>1
  <2>2. CASE q # r
    <3>1. Created(q) => ~Stored(job[q].fresh)'
      BY <2>2, TokenRotationAssumption DEF RotationInv, OwnFresh, Created
    <3>. QED BY <2>2, <3>1, OthersFit DEF RotationInv
  <2>. QED BY <2>1, <2>2
<1>. QED BY <1>1 DEF RotationInv

\* Steps that only change pc and job of one request keep the rows.
LEMMA SameRows ==
  ASSUME UNCHANGED rows
  PROVE  Kept /\ \A t \in Tokens : Stored(t)' <=> Stored(t)
BY DEF Kept, Stored, Revoked

\* A token is created for one request only.
LEMMA FreshStaysOwn ==
  ASSUME TypeOK, OwnFresh, NEW r \in Requests, NEW j \in Jobs, job' = [job EXCEPT ![r] = j],
         j.fresh \in {job[r].fresh, NoToken} \/ \A q \in Requests : job[q].fresh # j.fresh
  PROVE  OwnFresh'
<1>1. \A q \in Requests : job'[q] = IF q = r THEN j ELSE job[q]
  BY DEF TypeOK
<1>. QED BY <1>1 DEF OwnFresh

LEMMA Initially == Init => RotationInv
<1> SUFFICES ASSUME Init PROVE RotationInv
  OBVIOUS
<1>1. PICK u \in Users, c \in Clients :
          job = [r \in Requests |-> NewJob(u, c, NoToken, FALSE, {})]
  BY DEF Init
<1>2. \A r \in Requests : job[r] \in Jobs /\ job[r].fresh = NoToken
  BY <1>1 DEF NewJob, Jobs
<1>3. job \in [Requests -> Jobs]
  BY <1>1, <1>2
<1>4. TypeOK
  BY <1>3 DEF Init, TypeOK, Answers
<1>5. HeldStored
  BY DEF Init, HeldStored
<1>6. OwnFresh
  BY <1>2 DEF OwnFresh
<1>7. \A r \in Requests : Fits(r)
  BY DEF Init, Fits
<1>. QED BY <1>4, <1>5, <1>6, <1>7 DEF RotationInv

LEMMA Goes ==
  ASSUME TypeOK, NEW r \in Requests, NEW phase \in Working \cup Answers, Goto(r, phase)
  PROVE  /\ pc' \in [Requests -> Working \cup Answers]
         /\ pc'[r] = phase
         /\ \A q \in Requests \ {r} : pc'[q] = pc[q]
BY DEF TypeOK, Goto

LEMMA Sets ==
  ASSUME TypeOK, NEW r \in Requests, NEW j \in Jobs, job' = [job EXCEPT ![r] = j]
  PROVE  /\ job' \in [Requests -> Jobs]
         /\ job'[r] = j
         /\ \A q \in Requests \ {r} : job'[q] = job[q]
BY DEF TypeOK

\* A step of r that leaves the table and what clients hold alone.
LEMMA QuietStep ==
  ASSUME RotationInv, NEW r \in Requests, NEW phase \in Working \cup Answers, NEW j \in Jobs,
         Goto(r, phase), job' = [job EXCEPT ![r] = j], UNCHANGED tableVars,
         j.fresh \in {job[r].fresh, NoToken} \/ \A q \in Requests : job[q].fresh # j.fresh,
         pc'[r] = phase /\ job'[r] = j => Fits(r)'
  PROVE  RotationInv'
<1>1. rows' = rows /\ held' = held
  BY DEF tableVars
<1>2. TypeOK'
  BY <1>1, Goes, Sets DEF RotationInv, TypeOK
<1>3. HeldStored'
  BY <1>1 DEF RotationInv, HeldStored, Stored
<1>4. OwnFresh'
  BY FreshStaysOwn DEF RotationInv
<1>5. Fits(r)'
  BY Goes, Sets DEF RotationInv
<1>6. \A q \in Requests \ {r} : pc'[q] = pc[q] /\ job'[q] = job[q]
  BY Goes, Sets DEF RotationInv
<1>. QED BY <1>1, <1>2, <1>3, <1>4, <1>5, <1>6, SameRows, StepOf

LEMMA LoginStep == ASSUME RotationInv, NEW r \in Requests, Login(r) PROVE RotationInv'
<1>1. PICK u \in Users, c \in Clients :
        job' = [job EXCEPT ![r] = NewJob(u, c, NoToken, FALSE, {})]
  BY DEF Login
<1> DEFINE j == NewJob(u, c, NoToken, FALSE, {})
<1>2. j \in Jobs /\ j.fresh = NoToken /\ j.token = NoToken /\ j.late = FALSE
  BY DEF NewJob, Jobs
<1>3. pc'[r] = "password" /\ job'[r] = j => Fits(r)'
  BY <1>2 DEF Fits
<1>4. "password" \in Working \cup Answers
  BY DEF Working
<1> HIDE DEF j
<1>. QED BY <1>1, <1>2, <1>3, <1>4, QuietStep DEF Login, j

LEMMA PresentStep == ASSUME RotationInv, NEW r \in Requests, Present(r) PROVE RotationInv'
<1>1. PICK t \in held, c \in Clients :
        job' = [job EXCEPT ![r] = NewJob(rows[t].user, c, t, Revoked(t), Family(t) \cap held)]
  BY DEF Present
<1> DEFINE j == NewJob(rows[t].user, c, t, Revoked(t), Family(t) \cap held)
<1>2. t \in Tokens /\ Stored(t) /\ rows[t] \in Ledger!Row
  BY DEF RotationInv, TypeOK, HeldStored, Stored
<1>3. rows[t].user \in Users /\ rows[t].revoked \in BOOLEAN
  BY <1>2 DEF Ledger!Row
<1>4. Revoked(t) \in BOOLEAN
  BY <1>3 DEF Revoked, Stored
<1>5. Family(t) \cap held \in SUBSET Tokens
  BY DEF Family
<1>6. j \in Jobs
  BY <1>2, <1>3, <1>4, <1>5 DEF NewJob, Jobs
<1>7. /\ j.fresh = NoToken /\ j.token = t /\ j.user = rows[t].user
      /\ j.siblings = Family(t) \cap held
  BY DEF NewJob
<1>8. j.late => Revoked(t)
  BY DEF NewJob
<1>9. rows' = rows
  BY DEF Present, tableVars
<1>10. ASSUME pc'[r] = "validate", job'[r] = j PROVE Fits(r)'
  <2>1. Presented(r)'
    BY <1>2, <1>7, <1>9, <1>10 DEF Presented, Stored
  <2>2. SiblingsOf(r)'
    BY <1>7, <1>9, <1>10 DEF SiblingsOf, Family, Stored, Ledger!SameFamily
  <2>3. job'[r].late => Revoked(job[r].token)'
    BY <1>7, <1>8, <1>9, <1>10 DEF Revoked, Stored
  <2>. QED BY <1>10, <2>1, <2>2, <2>3 DEF Fits
<1>11. "validate" \in Working \cup Answers
  BY DEF Working
<1> HIDE DEF j
<1>. QED BY <1>1, <1>6, <1>7, <1>10, <1>11, QuietStep DEF Present, j

\* A step of r that only moves on.
LEMMA MoveStep ==
  ASSUME RotationInv, NEW r \in Requests, NEW phase \in Working \cup Answers,
         Goto(r, phase), UNCHANGED job, UNCHANGED tableVars,
         pc'[r] = phase => Fits(r)'
  PROVE  RotationInv'
<1>1. job[r] \in Jobs /\ job' = [job EXCEPT ![r] = job[r]]
  BY DEF RotationInv, TypeOK
<1>. QED BY <1>1, QuietStep

LEMMA PasswordStep == ASSUME RotationInv, NEW r \in Requests, Password(r) PROVE RotationInv'
<1>1. CASE Goto(r, "refused") /\ UNCHANGED job
  <2>1. "refused" \in Working \cup Answers
    BY DEF Answers
  <2>2. pc'[r] = "refused" => Fits(r)'
    BY DEF Fits
  <2>. QED BY <1>1, <2>1, <2>2, MoveStep DEF Password, Refused
<1>2. CASE (\E t \in Unused : job' = [job EXCEPT ![r].fresh = t]) /\ Goto(r, "save")
  <2>1. PICK t \in Unused : job' = [job EXCEPT ![r].fresh = t]
    BY <1>2
  <2> DEFINE j == [job[r] EXCEPT !.fresh = t]
  <2>2. job[r] \in Jobs /\ t \in Tokens /\ ~Stored(t) /\ \A q \in Requests : job[q].fresh # t
    BY DEF Unused, RotationInv, TypeOK
  <2>3. j \in Jobs /\ j.fresh = t /\ j.token = job[r].token /\ j.late = job[r].late
    BY <2>2 DEF Jobs
  <2>4. job' = [job EXCEPT ![r] = j]
    BY <2>1, <2>2 DEF RotationInv, TypeOK
  <2>5. job[r].token = NoToken /\ ~job[r].late
    BY DEF RotationInv, Fits, Password, Refused
  <2>6. rows' = rows
    BY DEF Password, tableVars
  <2> HIDE DEF j
  <2>7. pc'[r] = "save" /\ job'[r] = j => Fits(r)'
    BY <2>2, <2>3, <2>5, <2>6 DEF Fits, Created, Stored
  <2>8. "save" \in Working \cup Answers
    BY DEF Working
  <2>. QED BY <1>2, <2>2, <2>3, <2>4, <2>7, <2>8, QuietStep DEF Password
<1>. QED BY <1>1, <1>2 DEF Password, Refused

LEMMA ValidateStep == ASSUME RotationInv, NEW r \in Requests, Validate(r) PROVE RotationInv'
<1> USE DEF Validate
<1>1. UNCHANGED <<tableVars, job>> /\ pc[r] = "validate" /\ rows' = rows
  BY DEF tableVars
<1>2. /\ Presented(r) /\ SiblingsOf(r)
      /\ job[r].late => Revoked(job[r].token)
  BY <1>1 DEF RotationInv, Fits
<1>3. /\ Presented(r)' /\ SiblingsOf(r)'
      /\ job'[r] = job[r]
  BY <1>1, <1>2 DEF Presented, SiblingsOf, Family, Ledger!SameFamily, Stored
<1>4. {"refused", "readChain", "exchange"} \subseteq Working \cup Answers
  BY DEF Working, Answers
<1>5. CASE Goto(r, "refused")
  <2>1. pc'[r] = "refused" => Fits(r)'
    BY DEF Fits
  <2>. QED BY <1>1, <1>4, <1>5, <2>1, MoveStep
<1>6. CASE Revoked(job[r].token) /\ Goto(r, "readChain")
  <2>1. pc'[r] = "readChain" => Fits(r)'
    BY <1>3 DEF Fits
  <2>. QED BY <1>1, <1>4, <1>6, <2>1, MoveStep
<1>7. CASE ~Revoked(job[r].token) /\ Goto(r, "exchange")
  <2>1. pc'[r] = "exchange" => Fits(r)'
    BY <1>2, <1>3, <1>7 DEF Fits
  <2>. QED BY <1>1, <1>4, <1>7, <2>1, MoveStep
<1>. QED BY <1>5, <1>6, <1>7

LEMMA ReadChainStep == ASSUME RotationInv, NEW r \in Requests, ReadChain(r) PROVE RotationInv'
<1> DEFINE S == {t \in Family(job[r].token) : ~Revoked(t)}
           j == [job[r] EXCEPT !.chain = S]
<1>1. /\ pc[r] = "readChain" /\ rows' = rows /\ UNCHANGED tableVars
      /\ job' = [job EXCEPT ![r].chain = S] /\ Goto(r, "revokeChain")
  BY DEF ReadChain, tableVars
<1>2. job[r] \in Jobs /\ S \in SUBSET Tokens
  BY DEF RotationInv, TypeOK, Family
<1>3. /\ j \in Jobs /\ j.chain = S /\ j.fresh = job[r].fresh /\ j.token = job[r].token
      /\ j.user = job[r].user /\ j.siblings = job[r].siblings
  BY <1>2 DEF Jobs
<1>4. job' = [job EXCEPT ![r] = j]
  BY <1>1, <1>2 DEF RotationInv, TypeOK
<1>5. Presented(r) /\ job[r].siblings \subseteq Family(job[r].token)
  BY <1>1 DEF RotationInv, Fits, SiblingsOf
<1>6. ASSUME pc'[r] = "revokeChain", job'[r] = j PROVE Fits(r)'
  <2>1. Presented(r)'
    BY <1>1, <1>3, <1>5, <1>6 DEF Presented, Stored
  <2>2. job'[r].chain \subseteq Family(job[r].token)'
    <3>1. Family(job[r].token)' = Family(job[r].token)
      BY <1>1, <1>3, <1>6 DEF Family, Stored, Ledger!SameFamily
    <3>2. S \subseteq Family(job[r].token)
      OBVIOUS
    <3>3. job'[r].chain = S
      BY <1>3, <1>6
    <3>. QED BY <3>1, <3>2, <3>3
  <2>3. \A t \in job'[r].siblings : t \in job'[r].chain \/ Revoked(t)'
    BY <1>1, <1>3, <1>5, <1>6 DEF Revoked, Stored
  <2>. QED BY <1>6, <2>1, <2>2, <2>3 DEF Fits
<1>7. "revokeChain" \in Working \cup Answers
  BY DEF Working
<1> HIDE DEF j, S
<1>. QED BY <1>1, <1>3, <1>4, <1>6, <1>7, QuietStep

LEMMA ExchangeStep == ASSUME RotationInv, NEW r \in Requests, Exchange(r) PROVE RotationInv'
<1>1. CASE Goto(r, "refused") /\ UNCHANGED job
  <2>1. "refused" \in Working \cup Answers
    BY DEF Answers
  <2>2. pc'[r] = "refused" => Fits(r)'
    BY DEF Fits
  <2>. QED BY <1>1, <2>1, <2>2, MoveStep DEF Exchange, Refused
<1>2. CASE /\ rows[job[r].token].client = job[r].client
           /\ \E t \in Unused : job' = [job EXCEPT ![r].fresh = t]
           /\ Goto(r, "revoke")
  <2>1. PICK t \in Unused : job' = [job EXCEPT ![r].fresh = t]
    BY <1>2
  <2> DEFINE j == [job[r] EXCEPT !.fresh = t]
  <2>2. job[r] \in Jobs /\ t \in Tokens /\ ~Stored(t) /\ \A q \in Requests : job[q].fresh # t
    BY DEF Unused, RotationInv, TypeOK
  <2>3. /\ j \in Jobs /\ j.fresh = t /\ j.token = job[r].token /\ j.late = job[r].late
        /\ j.user = job[r].user /\ j.client = job[r].client
    BY <2>2 DEF Jobs
  <2>4. job' = [job EXCEPT ![r] = j]
    BY <2>1, <2>2 DEF RotationInv, TypeOK
  <2>5. Presented(r) /\ ~job[r].late
    BY DEF RotationInv, Fits, Exchange, Refused
  <2>6. rows' = rows
    BY DEF Exchange, tableVars
  <2> HIDE DEF j
  <2>7. pc'[r] = "revoke" /\ job'[r] = j => Fits(r)'
    BY <1>2, <2>2, <2>3, <2>5, <2>6 DEF Fits, Created, Presented, Stored
  <2>8. "revoke" \in Working \cup Answers
    BY DEF Working
  <2>. QED BY <1>2, <2>2, <2>3, <2>4, <2>7, <2>8, QuietStep DEF Exchange
<1>. QED BY <1>1, <1>2 DEF Exchange, Refused

\* RevokeChain and RevokeOld revoke stored tokens.
LEMMA RevokingStep ==
  ASSUME RotationInv, NEW r \in Requests, NEW phase \in Working \cup Answers,
         NEW S \in SUBSET Tokens, \A t \in S : Stored(t),
         rows' = RowsRevoked(S), Goto(r, phase), UNCHANGED <<held, job>>,
         Kept /\ (\A t \in Tokens : Stored(t)' <=> Stored(t)) /\ (\A t \in S : Revoked(t)')
           /\ pc'[r] = phase => Fits(r)'
  PROVE  RotationInv'
<1>1. /\ rows' \in [Tokens -> Ledger!Row \cup {NoRow}]
      /\ Kept
      /\ \A t \in Tokens : Stored(t)' <=> Stored(t)
      /\ \A t \in S : Revoked(t)'
  BY RevokeKeeps DEF RotationInv
<1>2. TypeOK'
  BY <1>1, Goes DEF RotationInv, TypeOK
<1>3. HeldStored'
  BY <1>1 DEF RotationInv, HeldStored, TypeOK
<1>4. OwnFresh'
  BY DEF RotationInv, OwnFresh
<1>5. Fits(r)'
  BY <1>1, Goes DEF RotationInv
<1>6. \A q \in Requests \ {r} : pc'[q] = pc[q] /\ job'[q] = job[q]
  BY Goes DEF RotationInv
<1>. QED BY <1>1, <1>2, <1>3, <1>4, <1>5, <1>6, StepOf

LEMMA RevokeChainStep ==
  ASSUME RotationInv, NEW r \in Requests, RevokeChain(r) PROVE RotationInv'
<1> DEFINE S == job[r].chain
<1>1. /\ pc[r] = "revokeChain" /\ rows' = RowsRevoked(S) /\ Goto(r, "reused")
      /\ UNCHANGED <<held, job>>
  BY DEF RevokeChain
<1>2. /\ S \subseteq Family(job[r].token)
      /\ \A t \in job[r].siblings : t \in S \/ Revoked(t)
  BY <1>1 DEF RotationInv, Fits
<1>3. S \in SUBSET Tokens /\ job[r].siblings \subseteq Tokens
  BY DEF RotationInv, TypeOK, Jobs
<1>4. \A t \in S : Stored(t)
  BY <1>2 DEF Family
<1>5. ASSUME Kept, \A t \in S : Revoked(t)', pc'[r] = "reused" PROVE Fits(r)'
  <2>1. \A t \in Tokens : Revoked(t) => Revoked(t)'
    BY <1>5 DEF Kept, Revoked
  <2>2. \A t \in job'[r].siblings : Revoked(t)'
    BY <1>1, <1>2, <1>3, <1>5, <2>1
  <2>. QED BY <1>5, <2>2 DEF Fits
<1>6. "reused" \in Working \cup Answers
  BY DEF Answers
<1> HIDE DEF S
<1>. QED BY <1>1, <1>3, <1>4, <1>5, <1>6, RevokingStep

LEMMA RevokeOldStep == ASSUME RotationInv, NEW r \in Requests, RevokeOld(r) PROVE RotationInv'
<1> DEFINE t == job[r].token
           S == {t}
<1>1. /\ pc[r] = "revoke" /\ rows' = RowsRevoked(S) /\ Goto(r, "save")
      /\ UNCHANGED <<held, job>>
  BY DEF RevokeOld
<1>2. /\ Presented(r) /\ Created(r) /\ rows[t].client = job[r].client /\ ~job[r].late
  BY <1>1 DEF RotationInv, Fits
<1>3. ASSUME Kept, \A x \in Tokens : Stored(x)' <=> Stored(x),
             \A x \in S : Revoked(x)', pc'[r] = "save"
      PROVE  Fits(r)'
  <2>1. Presented(r)' /\ rows'[t].client = rows[t].client
    BY <1>1, <1>2, <1>3 DEF Presented, Kept
  <2>2. Created(r)'
    BY <1>1, <1>2, <1>3 DEF Created
  <2>3. Revoked(job[r].token)'
    BY <1>1, <1>3 DEF Revoked, Stored
  <2>. QED BY <1>1, <1>2, <1>3, <2>1, <2>2, <2>3 DEF Fits
<1>4. "save" \in Working \cup Answers
  BY DEF Working
<1>5. S \in SUBSET Tokens /\ \A x \in S : Stored(x)
  BY <1>2 DEF Presented
<1> HIDE DEF S
<1>. QED BY <1>1, <1>3, <1>4, <1>5, RevokingStep

LEMMA SaveStep == ASSUME RotationInv, NEW r \in Requests, Save(r) PROVE RotationInv'
<1> DEFINE t == job[r].fresh
           row == [user |-> job[r].user, client |-> job[r].client,
                   parent |-> job[r].token, revoked |-> FALSE]
<1>1. /\ pc[r] = "save" /\ rows' = [rows EXCEPT ![t] = row] /\ Goto(r, "answer")
      /\ UNCHANGED <<held, job>>
  BY DEF Save
<1>2. t \in Tokens /\ ~Stored(t) /\ ~job[r].late
  BY <1>1 DEF RotationInv, Fits, Created
<1>3. row \in Ledger!Row
  BY DEF RotationInv, TypeOK, Jobs, Ledger!Row
<1> HIDE DEF row
<1>4. /\ rows' \in [Tokens -> Ledger!Row \cup {NoRow}]
      /\ Kept
      /\ Stored(t)'
      /\ \A s \in Tokens \ {t} : Stored(s)' <=> Stored(s)
  BY <1>1, <1>2, <1>3, SaveKeeps DEF RotationInv
<1>5. "answer" \in Working \cup Answers
  BY DEF Working
<1>6. TypeOK'
  BY <1>1, <1>4, <1>5, Goes DEF RotationInv, TypeOK
<1>7. HeldStored'
  BY <1>1, <1>4 DEF RotationInv, HeldStored, Kept, TypeOK
<1>8. OwnFresh'
  BY <1>1 DEF RotationInv, OwnFresh
<1>9. pc'[r] = "answer"
  BY <1>1, <1>5, Goes DEF RotationInv
<1>10. Fits(r)'
  BY <1>1, <1>2, <1>4, <1>9 DEF Fits
<1>11. \A q \in Requests \ {r} : pc'[q] = pc[q] /\ job'[q] = job[q]
  BY <1>1, <1>5, Goes DEF RotationInv
<1>. QED BY <1>4, <1>6, <1>7, <1>8, <1>10, <1>11, StepOf

LEMMA AnswerStep == ASSUME RotationInv, NEW r \in Requests, Answer(r) PROVE RotationInv'
<1>1. /\ pc[r] = "answer" /\ held' = held \cup {job[r].fresh} /\ Goto(r, "granted")
      /\ rows' = rows /\ job' = job
  BY DEF Answer
<1>2. job[r].fresh \in Tokens /\ Stored(job[r].fresh) /\ ~job[r].late
  BY <1>1 DEF RotationInv, Fits
<1>3. "granted" \in Working \cup Answers
  BY DEF Answers
<1>4. TypeOK'
  BY <1>1, <1>2, <1>3, Goes DEF RotationInv, TypeOK
<1>5. HeldStored'
  BY <1>1, <1>2 DEF RotationInv, HeldStored, Stored
<1>6. OwnFresh'
  BY <1>1 DEF RotationInv, OwnFresh
<1>7. pc'[r] = "granted" /\ \A q \in Requests \ {r} : pc'[q] = pc[q] /\ job'[q] = job[q]
  BY <1>1, <1>3, Goes DEF RotationInv
<1>8. Fits(r)'
  BY <1>1, <1>2, <1>7 DEF Fits
<1>. QED BY <1>1, <1>4, <1>5, <1>6, <1>7, <1>8, SameRows, StepOf

LEMMA FailStep == ASSUME RotationInv, NEW r \in Requests, Fail(r) PROVE RotationInv'
<1>1. "error" \in Working \cup Answers
  BY DEF Answers
<1>2. pc'[r] = "error" => Fits(r)'
  BY DEF Fits
<1>. QED BY <1>1, <1>2, MoveStep DEF Fail

LEMMA RotationStep == RotationInv /\ [Next]_vars => RotationInv'
<1> SUFFICES ASSUME RotationInv, [Next]_vars PROVE RotationInv'
  OBVIOUS
<1>1. ASSUME NEW r \in Requests, Login(r) \/ Present(r) \/ Serve(r) \/ Fail(r)
      PROVE  RotationInv'
  BY <1>1, LoginStep, PresentStep, PasswordStep, ValidateStep, ReadChainStep, ExchangeStep,
     RevokeChainStep, RevokeOldStep, SaveStep, AnswerStep, FailStep DEF Serve
<1>2. CASE UNCHANGED vars
  <2>1. UNCHANGED <<rows, held, pc, job>>
    BY <1>2 DEF vars, tableVars
  <2>2. \A r \in Requests : Fits(r)'
    BY <2>1 DEF RotationInv, Fits, Presented, Created, SiblingsOf, Family, Stored, Revoked,
                Ledger!SameFamily
  <2>. QED BY <2>1, <2>2 DEF RotationInv, TypeOK, HeldStored, OwnFresh, Stored
<1>. QED BY <1>1, <1>2 DEF Next

THEOREM RotationInvariant == Spec => []RotationInv
BY Initially, RotationStep, PTL DEF Spec

\* The variables keep their types.
THEOREM TypeCorrect == Spec => []TypeOK
<1>1. RotationInv => TypeOK
  BY DEF RotationInv
<1>. QED BY <1>1, RotationInvariant, PTL

\* Whatever a client was sent is in the table, for any interleaving of any
\* number of requests and any failure.
THEOREM SentIsStored == Spec => []HeldStored
<1>1. RotationInv => HeldStored
  BY DEF RotationInv
<1>. QED BY <1>1, RotationInvariant, PTL

\* A token that was exchanged or revoked before a request brought it is not
\* exchanged by that request.
THEOREM ServesOnce == Spec => []SpentOnce
<1>1. RotationInv => SpentOnce
  BY DEF RotationInv, Fits, SpentOnce
<1>. QED BY <1>1, RotationInvariant, PTL

\* A reported reuse has revoked every token of the user and client that was in
\* a client's hands when the request arrived.
THEOREM ReuseRevokes == Spec => []ReuseEndsFamily
<1>1. RotationInv => ReuseEndsFamily
  BY DEF RotationInv, Fits, ReuseEndsFamily
<1>. QED BY <1>1, RotationInvariant, PTL

\* Every step of the requests is a step of the ledger, or leaves it alone.
LEMMA LedgerStep == RotationInv /\ [Next]_vars => [Ledger!LedgerNext]_rows
<1> SUFFICES ASSUME RotationInv, [Next]_vars, rows' # rows PROVE Ledger!LedgerNext
  OBVIOUS
<1>1. PICK r \in Requests : RevokeChain(r) \/ RevokeOld(r) \/ Save(r)
  BY DEF Next, Serve, vars, tableVars, Login, Present, Password, Refused, Validate, ReadChain, Exchange,
         Answer, Fail
<1>2. CASE RevokeChain(r) \/ RevokeOld(r)
  <2>1. PICK S \in SUBSET Tokens :
          /\ rows' = RowsRevoked(S)
          /\ \A t \in S : Stored(t)
          /\ \A s, t \in S : Ledger!SameFamily(s, t)
    <3>1. CASE RevokeChain(r)
      <4>1. job[r].chain \subseteq Family(job[r].token)
        BY <3>1 DEF RevokeChain, RotationInv, Fits
      <4>2. job[r].chain \in SUBSET Tokens
        BY DEF RotationInv, TypeOK, Jobs
      <4>3. \A s, t \in job[r].chain : Ledger!SameFamily(s, t)
        BY <4>1 DEF Family, Ledger!SameFamily
      <4>4. \A t \in job[r].chain : Stored(t)
        BY <4>1 DEF Family
      <4>5. rows' = RowsRevoked(job[r].chain)
        BY <3>1 DEF RevokeChain
      <4>. QED BY <4>2, <4>3, <4>4, <4>5
    <3>2. CASE RevokeOld(r)
      <4>1. job[r].token \in Tokens /\ Stored(job[r].token)
        BY <3>2 DEF RevokeOld, RotationInv, Fits, Presented
      <4>2. rows' = RowsRevoked({job[r].token})
        BY <3>2 DEF RevokeOld
      <4>. QED BY <4>1, <4>2 DEF Ledger!SameFamily
    <3>. QED BY <1>2, <3>1, <3>2
  <2>2. Ledger!Revoke(S)
    BY <2>1 DEF Ledger!Revoke, Ledger!Stored, Stored, RowsRevoked
  <2>. QED BY <2>2 DEF Ledger!LedgerNext
<1>3. CASE Save(r)
  <2>1. /\ job[r].fresh \in Tokens /\ ~Stored(job[r].fresh)
        /\ job[r].token # NoToken => /\ Presented(r) /\ Revoked(job[r].token)
                                     /\ rows[job[r].token].client = job[r].client
    BY <1>3 DEF Save, RotationInv, Fits, Created
  <2>2. job[r].user \in Users /\ job[r].client \in Clients /\ job[r].token \in Tokens \cup {NoToken}
    BY DEF RotationInv, TypeOK, Jobs
  <2>3. rows' = [rows EXCEPT ![job[r].fresh] =
                   [user |-> job[r].user, client |-> job[r].client,
                    parent |-> job[r].token, revoked |-> FALSE]]
    BY <1>3 DEF Save
  <2>4. Ledger!Issue(job[r].fresh)
    BY <2>1, <2>2, <2>3 DEF Ledger!Issue, Ledger!Stored, Stored, Presented, Revoked
  <2>. QED BY <2>1, <2>4 DEF Ledger!LedgerNext
<1>. QED BY <1>1, <1>2, <1>3

\* The requests implement the ledger: rows are issued once, succeed revoked rows
\* of the same user and client, and are never written back.
THEOREM KeepsLedger == Spec => ImplementsLedger
<1>1. Init => Ledger!LedgerInit
  BY DEF Init, Ledger!LedgerInit
<1>2. ImplementsLedger <=> Ledger!LedgerInit /\ [][Ledger!LedgerNext]_rows
  BY DEF ImplementsLedger, Ledger!LedgerSpec
<1>. QED BY <1>1, <1>2, LedgerStep, RotationInvariant, PTL DEF Spec
=============================================================================
