------------------------------- MODULE LLMClient -------------------------------
(***************************************************************************)
(* agent-runtime/app/infrastructure/llm/client.py: chat_completion, by     *)
(* which the orchestrator agents of all requests classify their tasks.     *)
(* Every attempt passes the one circuit breaker of the process; a failed   *)
(* attempt is repeated after a pause, a refused one as well.               *)
(*                                                                         *)
(* Time is reduced to whether the recovery time has passed since the last  *)
(* failure (ripe); pauses and answers take any time.                       *)
(***************************************************************************)
EXTENDS Naturals

CONSTANTS Callers,    \* the requests that may call the model
          Threshold,  \* failure_threshold (5)
          MaxRetries  \* max_retries (3)

ASSUME LLMClientAssumption == Threshold \in Nat \ {0} /\ MaxRetries \in Nat

VARIABLES
  state,     \* the breaker's state
  failures,  \* its failure_count, which matters up to the threshold only
  ripe,      \* recovery_timeout has passed since last_failure_time
  pc,        \* pc[r]: "stalled" is an attempt that met the provider down
  attempts,  \* attempts[r]: attempts made by the current call of r
  error,     \* error[r]: why its last attempt failed
  up         \* environment: the provider answers

breakerVars == <<state, failures, ripe>>
callVars == <<pc, attempts, error>>
vars == <<breakerVars, callVars, up>>

\* transient: is_retryable_http_error; rejected: any other HTTP error; garbled: the
\* answer does not parse; refused: by the open breaker.
Errors == {"transient", "rejected", "garbled", "refused"}

TypeOK ==
  /\ state \in {"closed", "open", "half_open"}
  /\ failures \in 0..Threshold
  /\ ripe \in BOOLEAN
  /\ pc \in [Callers -> {"idle", "flight", "stalled", "backoff"}]
  /\ attempts \in [Callers -> 0..(MaxRetries + 1)]
  /\ error \in [Callers -> Errors \cup {"none"}]
  /\ up \in BOOLEAN

Init ==
  /\ state = "closed"
  /\ failures = 0
  /\ ripe = FALSE
  /\ pc = [r \in Callers |-> "idle"]
  /\ attempts = [r \in Callers |-> 0]
  /\ error = [r \in Callers |-> "none"]
  /\ up = TRUE

-----------------------------------------------------------------------------
\* Where r makes an attempt: its call begins, or its pause is over.
Calling(r) == pc[r] \in {"idle", "backoff"}
InFlight(r) == pc[r] \in {"flight", "stalled"}

\* _should_attempt_reset.
MayProbe_never == FALSE  \* mutant: the comparison of the times is reversed
MayProbe == ripe

\* The breaker admits the attempt: nothing in it keeps two probes apart.
Admit_reset(r) ==  \* mutant: the half-open state starts with a fresh count
  /\ Calling(r)
  /\ state = "open" => MayProbe
  /\ state' = IF state = "open" THEN "half_open" ELSE state
  /\ failures' = IF state = "open" THEN 0 ELSE failures
  /\ pc' = [pc EXCEPT ![r] = IF up THEN "flight" ELSE "stalled"]
  /\ attempts' = [attempts EXCEPT ![r] = @ + 1]
  /\ UNCHANGED <<ripe, error, up>>
Admit(r) ==
  /\ Calling(r)
  /\ state = "open" => MayProbe
  /\ state' = IF state = "open" THEN "half_open" ELSE state
  /\ pc' = [pc EXCEPT ![r] = IF up THEN "flight" ELSE "stalled"]
  /\ attempts' = [attempts EXCEPT ![r] = @ + 1]
  /\ UNCHANGED <<failures, ripe, error, up>>

\* The n-th attempt of r failed with e: after the last one the call raises,
\* after any other the retry handler waits, whatever e is.
Exhausted_late(n) == n > MaxRetries + 1  \* mutant: one retry too many
Exhausted(n) == n > MaxRetries
Repeat(r, n, e) ==
  IF Exhausted(n)
    THEN /\ pc' = [pc EXCEPT ![r] = "idle"]
         /\ attempts' = [attempts EXCEPT ![r] = 0]
         /\ error' = [error EXCEPT ![r] = "none"]
    ELSE /\ pc' = [pc EXCEPT ![r] = "backoff"]
         /\ attempts' = [attempts EXCEPT ![r] = n]
         /\ error' = [error EXCEPT ![r] = e]

\* The open breaker raises without calling the provider.
Refuse_uncounted(r) ==  \* mutant: a refusal does not use up an attempt
  /\ Calling(r)
  /\ state = "open" /\ ~MayProbe
  /\ Repeat(r, attempts[r], "refused")
  /\ UNCHANGED <<breakerVars, up>>
Refuse(r) ==
  /\ Calling(r)
  /\ state = "open" /\ ~MayProbe
  /\ Repeat(r, attempts[r] + 1, "refused")
  /\ UNCHANGED <<breakerVars, up>>

\* The provider answers: _on_success, in whatever state the breaker is by now.
\* The body may still fail to parse, which is outside the breaker.
Succeed(r) ==
  /\ InFlight(r)
  /\ up
  /\ state' = "closed"
  /\ failures' = 0
  /\ \/ /\ pc' = [pc EXCEPT ![r] = "idle"]
        /\ attempts' = [attempts EXCEPT ![r] = 0]
        /\ error' = [error EXCEPT ![r] = "none"]
     \/ Repeat(r, attempts[r], "garbled")
  /\ UNCHANGED <<ripe, up>>

\* The attempt fails (an error status, a time-out, no connection): _on_failure.
Fail(r) ==
  /\ InFlight(r)
  /\ pc[r] = "stalled" \/ ~up
  /\ failures' = IF failures < Threshold THEN failures + 1 ELSE failures
  /\ state' = IF failures' >= Threshold THEN "open" ELSE state
  /\ ripe' = FALSE
  /\ \E e \in {"transient", "rejected"} : Repeat(r, attempts[r], e)
  /\ UNCHANGED up

\* The request is cancelled.  CancelledError is no Exception: the breaker hears
\* of neither success nor failure, even from the attempt that made it half-open.
Cancel(r) ==
  /\ pc[r] # "idle"
  /\ pc' = [pc EXCEPT ![r] = "idle"]
  /\ attempts' = [attempts EXCEPT ![r] = 0]
  /\ error' = [error EXCEPT ![r] = "none"]
  /\ UNCHANGED <<breakerVars, up>>

\* The recovery time passes; only the open breaker looks.
Ripen ==
  /\ state = "open" /\ ~ripe
  /\ ripe' = TRUE
  /\ UNCHANGED <<state, failures, callVars, up>>

\* The provider breaks down or comes back.
Outage ==
  /\ up' = ~up
  /\ UNCHANGED <<breakerVars, callVars>>

-----------------------------------------------------------------------------
Next ==
  \/ \E r \in Callers : Admit(r) \/ Refuse(r) \/ Succeed(r) \/ Fail(r) \/ Cancel(r)
  \/ Ripen
  \/ Outage

Spec == Init /\ [][Next]_vars

\* Pauses end, attempts are answered or time out, and time passes.  Nobody has
\* to call, to be cancelled or to break down.
Fairness ==
  /\ \A r \in Callers :
        /\ WF_vars(pc[r] = "backoff" /\ (Admit(r) \/ Refuse(r)))
        /\ WF_vars(Succeed(r) \/ Fail(r))
  /\ WF_vars(Ripen)
FairSpec == Spec /\ Fairness
-----------------------------------------------------------------------------
(***************************************************************************)
(* Properties                                                              *)
(***************************************************************************)
\* The breaker is closed exactly while fewer failures than the threshold are
\* counted: late answers and failures of attempts made in other states, and
\* probes that overlap, leave no closed breaker over a full count (the next
\* failure would be forgotten) and no half-open one over a small count (a
\* failed probe would not reopen it).
CountAgrees == state = "closed" <=> failures < Threshold

\* When the provider stays up, the breaker sooner or later stops refusing,
\* although probes may be cancelled and old attempts still fail late.
OutageEnds == <>[]up => <>[][\A r \in Callers : ~Refuse(r)]_vars

\* A call of chat_completion ends, with an answer or an error, in any state of
\* the breaker.
CallsEnd == \A r \in Callers : pc[r] # "idle" ~> pc[r] = "idle"
=============================================================================
