--------------------------- MODULE LLMClient_proofs ---------------------------
(***************************************************************************)
(* What holds of the shared circuit breaker for any number of callers, any *)
(* threshold and any number of retries.                                    *)
(***************************************************************************)
EXTENDS LLMClient, TLAPS

\* The attempts a call has made agree with where it is; without this the type
\* of attempts is not inductive.
Places == {"idle", "flight", "stalled", "backoff"}
AttemptsOf(p) ==
  IF p = "idle" THEN {0} ELSE IF p = "backoff" THEN 1..MaxRetries ELSE 1..(MaxRetries + 1)
AttemptsFit == \A r \in Callers : attempts[r] \in AttemptsOf(pc[r])

BreakerInv == TypeOK /\ AttemptsFit /\ CountAgrees

\* The types and the attempts after a step that changes one caller.
CallsFit ==
  /\ pc \in [Callers -> Places]
  /\ attempts \in [Callers -> 0..(MaxRetries + 1)]
  /\ error \in [Callers -> Errors \cup {"none"}]
  /\ AttemptsFit

LEMMA CallChanges ==
  ASSUME TypeOK, AttemptsFit, NEW r \in Callers,
         NEW p \in Places, NEW n \in AttemptsOf(p), NEW e \in Errors \cup {"none"},
         pc' = [pc EXCEPT ![r] = p],
         attempts' = [attempts EXCEPT ![r] = n],
         error' = [error EXCEPT ![r] = e]
  PROVE  CallsFit'
<1> USE LLMClientAssumption
<1>1. n \in 0..(MaxRetries + 1)
  BY DEF AttemptsOf
<1>2. \A q \in Callers : attempts'[q] \in AttemptsOf(pc'[q])
  BY DEF TypeOK, AttemptsFit
<1>. QED BY <1>1, <1>2 DEF CallsFit, TypeOK, AttemptsFit, AttemptsOf, Places

\* A failed attempt leaves a call that fits.
LEMMA RepeatFits ==
  ASSUME TypeOK, AttemptsFit, NEW r \in Callers, NEW n \in 1..(MaxRetries + 1),
         NEW e \in Errors, Repeat(r, n, e)
  PROVE  CallsFit'
<1> USE LLMClientAssumption
<1>1. CASE Exhausted(n)
  <2>1. /\ pc' = [pc EXCEPT ![r] = "idle"]
        /\ attempts' = [attempts EXCEPT ![r] = 0]
        /\ error' = [error EXCEPT ![r] = "none"]
    BY <1>1 DEF Repeat
  <2>2. 0 \in AttemptsOf("idle") /\ "idle" \in Places
    BY DEF AttemptsOf, Places
  <2>. QED BY <2>1, <2>2, CallChanges
<1>2. CASE ~Exhausted(n)
  <2>1. /\ pc' = [pc EXCEPT ![r] = "backoff"]
        /\ attempts' = [attempts EXCEPT ![r] = n]
        /\ error' = [error EXCEPT ![r] = e]
    BY <1>2 DEF Repeat
  <2>2. n \in AttemptsOf("backoff") /\ "backoff" \in Places
    BY <1>2 DEF AttemptsOf, Places, Exhausted
  <2>. QED BY <2>1, <2>2, CallChanges
<1>. QED BY <1>1, <1>2

LEMMA BreakerInitially == Init => BreakerInv
<1> SUFFICES ASSUME Init PROVE BreakerInv
  OBVIOUS
<1> USE LLMClientAssumption
<1>1. TypeOK
  <2>1. ripe \in BOOLEAN /\ up \in BOOLEAN
    BY DEF Init
  <2>2. 0 \in 0..Threshold /\ 0 \in 0..(MaxRetries + 1)
    OBVIOUS
  <2>. QED BY <2>1, <2>2 DEF Init, TypeOK
<1>2. AttemptsFit
  BY DEF Init, AttemptsFit, AttemptsOf
<1>3. CountAgrees
  BY DEF Init, CountAgrees
<1>. QED BY <1>1, <1>2, <1>3 DEF BreakerInv

LEMMA BreakerStep == BreakerInv /\ [Next]_vars => BreakerInv'
<1> USE LLMClientAssumption
<1> SUFFICES ASSUME BreakerInv, [Next]_vars PROVE BreakerInv'
  OBVIOUS
<1>t. TypeOK /\ AttemptsFit /\ CountAgrees
  BY DEF BreakerInv
<1> DEFINE BreakerFits == /\ state \in {"closed", "open", "half_open"}
                          /\ failures \in 0..Threshold
                          /\ ripe \in BOOLEAN
                          /\ up \in BOOLEAN
<1>f. CallsFit' /\ BreakerFits' /\ CountAgrees' => BreakerInv'
  BY DEF CallsFit, BreakerInv, TypeOK, Places
<1>b. BreakerFits
  BY <1>t DEF TypeOK
<1>c. CallsFit
  BY <1>t DEF TypeOK, CallsFit, Places
<1>1. ASSUME NEW r \in Callers, Admit(r) PROVE BreakerInv'
  <2>1. PICK p \in {"flight", "stalled"} : pc' = [pc EXCEPT ![r] = p]
    BY <1>1 DEF Admit
  <2>2. attempts[r] + 1 \in AttemptsOf(p) /\ p \in Places
    BY <1>t, <1>1, <2>1 DEF Admit, Calling, AttemptsFit, AttemptsOf, Places
  <2>3. error' = [error EXCEPT ![r] = error[r]] /\ error[r] \in Errors \cup {"none"}
    BY <1>t, <1>1 DEF Admit, TypeOK
  <2>4. attempts' = [attempts EXCEPT ![r] = attempts[r] + 1]
    BY <1>1, <1>t DEF Admit, TypeOK
  <2>5. CallsFit'
    BY <1>t, <2>1, <2>2, <2>3, <2>4, CallChanges
  <2>6. BreakerFits' /\ CountAgrees'
    BY <1>t, <1>b, <1>1 DEF Admit, CountAgrees
  <2>. QED BY <1>f, <2>5, <2>6
<1>2. ASSUME NEW r \in Callers, Refuse(r) PROVE BreakerInv'
  <2>1. attempts[r] + 1 \in 1..(MaxRetries + 1)
    BY <1>t, <1>2 DEF Refuse, Calling, AttemptsFit, AttemptsOf
  <2>2. CallsFit'
    BY <1>t, <1>2, <2>1, RepeatFits DEF Refuse, Errors
  <2>3. BreakerFits' /\ CountAgrees'
    BY <1>t, <1>b, <1>2 DEF Refuse, breakerVars, CountAgrees
  <2>. QED BY <1>f, <2>2, <2>3
<1>3. ASSUME NEW r \in Callers, Succeed(r) PROVE BreakerInv'
  <2>1. attempts[r] \in 1..(MaxRetries + 1)
    BY <1>t, <1>3 DEF Succeed, InFlight, AttemptsFit, AttemptsOf
  <2>2. ASSUME Repeat(r, attempts[r], "garbled") PROVE CallsFit'
    BY <1>t, <2>1, <2>2, RepeatFits DEF Errors
  <2>3. ASSUME pc' = [pc EXCEPT ![r] = "idle"],
               attempts' = [attempts EXCEPT ![r] = 0],
               error' = [error EXCEPT ![r] = "none"]
        PROVE  CallsFit'
    BY <1>t, <2>3, CallChanges DEF AttemptsOf, Places
  <2>4. CallsFit'
    BY <1>3, <2>2, <2>3 DEF Succeed
  <2>5. BreakerFits' /\ CountAgrees'
    BY <1>t, <1>b, <1>3 DEF Succeed, CountAgrees
  <2>. QED BY <1>f, <2>4, <2>5
<1>4. ASSUME NEW r \in Callers, Fail(r) PROVE BreakerInv'
  <2>1. attempts[r] \in 1..(MaxRetries + 1)
    BY <1>t, <1>4 DEF Fail, InFlight, AttemptsFit, AttemptsOf
  <2>2. CallsFit'
    BY <1>t, <1>4, <2>1, RepeatFits DEF Fail, Errors
  <2>3. ripe' \in BOOLEAN /\ up' \in BOOLEAN
    BY <1>b, <1>4 DEF Fail
  <2>4. failures' \in 0..Threshold
    BY <1>b, <1>4 DEF Fail
  <2>5. state' \in {"closed", "open", "half_open"} /\ CountAgrees'
    BY <1>t, <1>b, <1>4, <2>4 DEF Fail, CountAgrees
  <2>. QED BY <1>f, <2>2, <2>3, <2>4, <2>5
<1>5. ASSUME NEW r \in Callers, Cancel(r) PROVE BreakerInv'
  <2>1. CallsFit'
    BY <1>t, <1>5, CallChanges DEF Cancel, AttemptsOf, Places
  <2>2. BreakerFits' /\ CountAgrees'
    BY <1>t, <1>b, <1>5 DEF Cancel, breakerVars, CountAgrees
  <2>. QED BY <1>f, <2>1, <2>2
<1>6. CASE UNCHANGED callVars /\ (Ripen \/ Outage \/ UNCHANGED vars)
  <2>1. CallsFit'
    BY <1>c, <1>6 DEF callVars, CallsFit, AttemptsFit
  <2>2. BreakerFits' /\ CountAgrees'
    BY <1>t, <1>b, <1>6 DEF Ripen, Outage, vars, breakerVars, CountAgrees
  <2>. QED BY <1>f, <2>1, <2>2
<1>. QED BY <1>1, <1>2, <1>3, <1>4, <1>5, <1>6 DEF Next, Ripen, Outage, vars

LEMMA BreakerAlways == Spec => []BreakerInv
BY BreakerInitially, BreakerStep, PTL DEF Spec

\* The variables keep their types; in particular no call makes more than
\* MaxRetries + 1 attempts, however refusals and failures mix.
THEOREM TypeCorrect == Spec => []TypeOK
BY BreakerAlways, PTL DEF BreakerInv

\* The breaker is closed exactly while its count is below the threshold,
\* whatever attempts overlap and are cancelled.
THEOREM BreakerCounts == Spec => []CountAgrees
BY BreakerAlways, PTL DEF BreakerInv
=============================================================================
