----------------------------- MODULE LoginLimits -----------------------------
(***************************************************************************)
(* auth-service: what POST /oauth/token counts in Redis.  The middleware   *)
(* limits the requests of an address, the password grant locks a user and  *)
(* a peer address out after too many failed attempts.  Requests interleave *)
(* at every Redis command, and every command may fail: the error is        *)
(* swallowed, and the request passes.                                      *)
(*                                                                         *)
(* What the grants do with the database is in TokenRotation; here it is    *)
(* the outcome of the password check.  Time is reduced to that a key with  *)
(* a time to live lapses at some moment.                                   *)
(***************************************************************************)
EXTENDS Integers, FiniteSets

CONSTANTS
  Requests,   \* the requests that may be served at the same time
  Users,      \* the names they log in with
  Addresses,
  RateLimit,  \* rate_limit_per_ip (5)
  Threshold,  \* brute_force_threshold (5)
  MaxCount,   \* bound: counters are not told apart beyond it
  MayFail     \* Redis and the process may fail

ASSUME LoginLimitsAssumption ==
  /\ IsFiniteSet(Requests)
  /\ RateLimit \in Nat \ {0} /\ Threshold \in Nat \ {0} /\ MaxCount \in Nat
  /\ RateLimit < MaxCount /\ 2 * Threshold <= MaxCount
  /\ Threshold + Cardinality(Requests) <= MaxCount
  /\ MayFail \in BOOLEAN

VARIABLES
  count,       \* count[k]: the counter's value, 0 when the key does not exist
  timed,       \* the keys that have a time to live
  pc, job,     \* per request: the next command, and its local variables
  redisFailed  \* history: some command was not carried out

redisVars == <<count, timed, redisFailed>>
vars == <<redisVars, pc, job>>

Keys == ({"rate", "peer"} \X Addresses) \cup ({"user"} \X Users)

\* addr is the forwarded address the middleware counts, peer the one the handler
\* sees; first holds the keys whose counter this request made 1.
Jobs == [kind : {"password", "refresh"}, user : Users, addr : Addresses, peer : Addresses,
         first : SUBSET Keys]

Working == {"limit", "window", "checkUser", "checkPeer", "authenticate",
            "countUser", "countPeer", "expireUser", "expirePeer", "reset"}

TypeOK ==
  /\ count \in [Keys -> 0..MaxCount]
  /\ timed \in SUBSET Keys
  /\ pc \in [Requests -> Working \cup {"idle"}]
  /\ job \in [Requests -> Jobs]
  /\ redisFailed \in BOOLEAN

NewJobs == {j \in Jobs : j.first = {}}

Init ==
  /\ count = [k \in Keys |-> 0]
  /\ timed = {}
  /\ pc = [r \in Requests |-> "idle"]
  /\ job \in [Requests -> NewJobs]
  /\ redisFailed = FALSE

-----------------------------------------------------------------------------
Goto(r, phase) == pc' = [pc EXCEPT ![r] = phase]
RateKey(r) == <<"rate", job[r].addr>>
UserKey(r) == <<"user", job[r].user>>
PeerKey(r) == <<"peer", job[r].peer>>

\* A request for a token arrives.
Arrive(r) ==
  /\ pc[r] = "idle"
  /\ \E j \in NewJobs : job' = [job EXCEPT ![r] = j]
  /\ Goto(r, "limit")
  /\ UNCHANGED redisVars

Incremented(k) == IF count[k] < MaxCount THEN count[k] + 1 ELSE MaxCount
Incr(k) == count' = [count EXCEPT ![k] = Incremented(k)]

\* expire does nothing to a key that does not exist.
Expire(k) == timed' = IF count[k] > 0 THEN timed \cup {k} ELSE timed

\* The handler: the refresh grant does not count anything.
Handler(r) == IF job[r].kind = "password" THEN "checkUser" ELSE "idle"

Limit(r) ==
  /\ pc[r] = "limit"
  /\ Incr(RateKey(r))
  /\ Goto(r, IF Incremented(RateKey(r)) = 1 THEN "window"
             ELSE IF Incremented(RateKey(r)) <= RateLimit THEN Handler(r) ELSE "idle")
  /\ UNCHANGED <<timed, redisFailed, job>>

Window(r) ==
  /\ pc[r] = "window"
  /\ Expire(RateKey(r))
  /\ Goto(r, Handler(r))
  /\ UNCHANGED <<count, redisFailed, job>>

\* is_locked_out: the user's counter, then the address's.
LockedOut_above(k, limit) == count[k] > limit  \* mutant: one attempt too many
LockedOut(k, limit) == count[k] >= limit

CheckUser(r) ==
  /\ pc[r] = "checkUser"
  /\ Goto(r, IF LockedOut(UserKey(r), Threshold) THEN "idle" ELSE "checkPeer")
  /\ UNCHANGED <<redisVars, job>>

CheckPeer(r) ==
  /\ pc[r] = "checkPeer"
  /\ Goto(r, IF LockedOut(PeerKey(r), 2 * Threshold) THEN "idle" ELSE "authenticate")
  /\ UNCHANGED <<redisVars, job>>

\* authenticate_password_grant refuses or accepts; a refusal for any reason
\* counts as a failed attempt, an error of the database as neither.
Authenticate(r) ==
  /\ pc[r] = "authenticate"
  /\ \/ Goto(r, "countUser")
     \/ Goto(r, "reset")
     \/ MayFail /\ Goto(r, "idle")
  /\ UNCHANGED <<redisVars, job>>

\* record_failed_attempt: both counters are incremented, then those that
\* became 1 get their time to live.
CountUser(r) ==
  /\ pc[r] = "countUser"
  /\ Incr(UserKey(r))
  /\ job' = [job EXCEPT ![r].first =
               IF Incremented(UserKey(r)) = 1 THEN {UserKey(r)} ELSE {}]
  /\ Goto(r, "countPeer")
  /\ UNCHANGED <<timed, redisFailed>>

CountPeer(r) ==
  /\ pc[r] = "countPeer"
  /\ Incr(PeerKey(r))
  /\ LET newPeer == Incremented(PeerKey(r)) = 1 IN
        /\ job' = [job EXCEPT ![r].first = IF newPeer THEN @ \cup {PeerKey(r)} ELSE @]
        /\ Goto(r, IF UserKey(r) \in job[r].first THEN "expireUser"
                   ELSE IF newPeer THEN "expirePeer" ELSE "idle")
  /\ UNCHANGED <<timed, redisFailed>>

ExpireUser_last(r) ==  \* mutant: elif instead of the second if
  /\ pc[r] = "expireUser"
  /\ Expire(UserKey(r))
  /\ Goto(r, "idle")
  /\ UNCHANGED <<count, redisFailed, job>>
ExpireUser(r) ==
  /\ pc[r] = "expireUser"
  /\ Expire(UserKey(r))
  /\ Goto(r, IF PeerKey(r) \in job[r].first THEN "expirePeer" ELSE "idle")
  /\ UNCHANGED <<count, redisFailed, job>>

ExpirePeer(r) ==
  /\ pc[r] = "expirePeer"
  /\ Expire(PeerKey(r))
  /\ Goto(r, "idle")
  /\ UNCHANGED <<count, redisFailed, job>>

\* reset_failed_attempts, after a right password.
Reset_decrement(r) ==  \* mutant: the counters are decremented
  /\ pc[r] = "reset"
  /\ count' = [k \in Keys |-> IF k \in {UserKey(r), PeerKey(r)} THEN count[k] - 1 ELSE count[k]]
  /\ Goto(r, "idle")
  /\ UNCHANGED <<timed, redisFailed, job>>
Reset(r) ==
  /\ pc[r] = "reset"
  /\ count' = [k \in Keys |-> IF k \in {UserKey(r), PeerKey(r)} THEN 0 ELSE count[k]]
  /\ timed' = timed \ {UserKey(r), PeerKey(r)}
  /\ Goto(r, "idle")
  /\ UNCHANGED <<redisFailed, job>>

\* The except clauses: the limits let the request pass, the rest of a
\* record_failed_attempt is skipped.  (The process may also end here.)
AfterRedisError(r) ==
  IF pc[r] \in {"limit", "window"} THEN Handler(r)
  ELSE IF pc[r] \in {"checkUser", "checkPeer"} THEN "authenticate" ELSE "idle"
RedisError(r) ==
  /\ MayFail
  /\ pc[r] \in Working \ {"authenticate"}
  /\ Goto(r, AfterRedisError(r))
  /\ redisFailed' = TRUE
  /\ UNCHANGED <<count, timed, job>>

\* The time to live of a key is over.
Lapse(k) ==
  /\ k \in timed
  /\ count' = [count EXCEPT ![k] = 0]
  /\ timed' = timed \ {k}
  /\ UNCHANGED <<redisFailed, pc, job>>

-----------------------------------------------------------------------------
Serve(r) ==
  \/ Limit(r) \/ Window(r) \/ CheckUser(r) \/ CheckPeer(r) \/ Authenticate(r)
  \/ CountUser(r) \/ CountPeer(r) \/ ExpireUser(r) \/ ExpirePeer(r) \/ Reset(r)

Next ==
  \/ \E r \in Requests : Arrive(r) \/ Serve(r) \/ RedisError(r)
  \/ \E k \in Keys : Lapse(k)

Spec == Init /\ [][Next]_vars

\* The event loop runs every request on, and time passes in Redis.
FairSpec ==
  /\ Spec
  /\ \A r \in Requests : WF_vars(Serve(r))
  /\ \A k \in Keys : WF_vars(Lapse(k))

-----------------------------------------------------------------------------
(***************************************************************************)
(* Properties                                                              *)
(***************************************************************************)
\* As long as Redis works, the counter of a user passes the threshold only by
\* the attempts that were under way together when it was reached, whatever
\* lapses and resets come between their checks and their increments.
AttemptsBounded ==
  ~redisFailed => \A u \in Users : count[<<"user", u>>] < Threshold + Cardinality(Requests)

\* r is about to give k a time to live.
Pending(r, k) ==
  \/ pc[r] = "window" /\ k = RateKey(r)
  \/ pc[r] \in {"countPeer", "expireUser"} /\ k = UserKey(r) /\ k \in job[r].first
  \/ pc[r] \in {"expireUser", "expirePeer"} /\ k = PeerKey(r) /\ k \in job[r].first

\* As long as Redis works, a counter without a time to live is about to get it:
\* increments, lapse and reset by different requests leave none behind that
\* counts for ever.
CountersExpire ==
  ~redisFailed => \A k \in Keys : count[k] > 0 /\ k \notin timed => \E r \in Requests : Pending(r, k)

\* "Set expiration (reset after lockout duration)": every counter returns to
\* zero, and with it the lock-out ends, unless Redis fails.
LockoutEnds == \A k \in Keys : count[k] > 0 ~> (count[k] = 0 \/ redisFailed)
=============================================================================
