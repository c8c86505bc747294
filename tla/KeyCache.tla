-------------------------------- MODULE KeyCache --------------------------------
(***************************************************************************)
(* The signing keys of auth-service and the copy that the gateway's JWT    *)
(* middleware keeps (gateway/app/middleware/jwt_auth.py).                  *)
(*                                                                         *)
(* A key set is the number of the key pair it publishes.  auth-service     *)
(* loads its pair when it starts, and makes a new one if there is no file, *)
(* so that the keys change with a restart.  Checks of two requests may     *)
(* fetch the set at the same time, and each awaits the end of its HTTP     *)
(* client between storing the set and using what is stored.                *)
(***************************************************************************)
EXTENDS Naturals, FiniteSets

CONSTANTS
  Checks,    \* requests with a bearer token
  Lifetime,  \* cache_ttl
  FetchTime, \* the longest that a fetch takes: its steps time out after 5 s each
  MaxKeys,   \* bound: key pairs
  MaxTime    \* bound: the clock

ASSUME KeyCacheAssumption ==
  /\ Lifetime \in Nat /\ FetchTime \in Nat
  /\ MaxKeys \in Nat \ {0}
  /\ MaxTime \in Nat

NoKeys == 0

VARIABLES
  now,
  current,    \* the key pair auth-service has loaded
  retired,    \* history: when a pair was replaced
  cache,      \* jwks_cache
  cacheTime,  \* jwks_cache_time
  check,      \* where the check of a request is
  started,    \* its current_time
  reply,      \* the set auth-service has answered with
  used        \* the set its token was checked against

keyVars == <<current, retired>>
cacheVars == <<cache, cacheTime>>
checkVars == <<check, started, reply, used>>
authVars == <<now, keyVars, cacheVars, checkVars>>

InForce == MaxTime + 1
Keys == 1..MaxKeys

KeyCacheTypeOK ==
  /\ now \in 0..MaxTime
  /\ current \in Keys
  /\ retired \in [Keys -> 0..InForce]
  /\ cache \in Keys \cup {NoKeys}
  /\ cacheTime \in 0..now
  /\ check \in [Checks -> {"new", "fetching", "answered", "closing", "fetched", "stale",
                         "refused", "done"}]
  /\ started \in [Checks -> 0..now]
  /\ reply \in [Checks -> Keys \cup {NoKeys}]
  /\ used \in [Checks -> Keys \cup {NoKeys}]
  /\ \A c \in Checks : check[c] \in {"fetched", "stale"} => used[c] # NoKeys

InitKeyCache ==
  /\ now = 0
  /\ current = 1
  /\ retired = [k \in Keys |-> InForce]
  /\ cache = NoKeys
  /\ cacheTime = 0
  /\ check = [c \in Checks |-> "new"]
  /\ started = [c \in Checks |-> 0]
  /\ reply = [c \in Checks |-> NoKeys]
  /\ used = [c \in Checks |-> NoKeys]

-----------------------------------------------------------------------------
Fetching(c) == check[c] \in {"fetching", "answered"}

Expired == cache = NoKeys \/ now - cacheTime > Lifetime

\* get_jwks up to its await: the copy at hand, or a request to auth-service.
GetJwks(c) ==
  /\ check[c] = "new"
  /\ IF Expired
     THEN /\ check' = [check EXCEPT ![c] = "fetching"]
          /\ UNCHANGED used
     ELSE /\ check' = [check EXCEPT ![c] = "fetched"]
          /\ used' = [used EXCEPT ![c] = cache]
  /\ started' = [started EXCEPT ![c] = now]
  /\ UNCHANGED <<now, keyVars, cacheVars, reply>>

\* auth-service: GET /.well-known/jwks.json.
ServeJwks(c) ==
  /\ check[c] = "fetching"
  /\ reply' = [reply EXCEPT ![c] = current]
  /\ check' = [check EXCEPT ![c] = "answered"]
  /\ UNCHANGED <<now, keyVars, cacheVars, started, used>>

\* The answer replaces the copy, whose age counts from before the request.
StoreJwks_late(c) ==  \* mutant: its age counts from the answer
  /\ check[c] = "answered"
  /\ cache' = reply[c]
  /\ cacheTime' = now
  /\ reply' = [reply EXCEPT ![c] = NoKeys]
  /\ check' = [check EXCEPT ![c] = "closing"]
  /\ UNCHANGED <<now, keyVars, started, used>>
StoreJwks(c) ==
  /\ check[c] = "answered"
  /\ cache' = reply[c]
  /\ cacheTime' = started[c]
  /\ reply' = [reply EXCEPT ![c] = NoKeys]
  /\ check' = [check EXCEPT ![c] = "closing"]
  /\ UNCHANGED <<now, keyVars, started, used>>

\* The HTTP client is closed, or fails to: the check uses the copy, which another
\* one may have replaced since.
UseJwks(c) ==
  /\ check[c] = "closing"
  /\ used' = [used EXCEPT ![c] = cache]
  /\ check' = [check EXCEPT ![c] = "fetched"]
  /\ UNCHANGED <<now, keyVars, cacheVars, started, reply>>

\* Five seconds without an answer, or no auth-service: what there is, is used,
\* however old; without it the request fails (500).
FetchFails_used(c) ==  \* mutant: the copy is used although there is none
  /\ Fetching(c)
  /\ check' = [check EXCEPT ![c] = "stale"]
  /\ used' = [used EXCEPT ![c] = cache]
  /\ reply' = [reply EXCEPT ![c] = NoKeys]
  /\ UNCHANGED <<now, keyVars, cacheVars, started>>
FetchFails(c) ==
  /\ Fetching(c)
  /\ check' = [check EXCEPT ![c] = IF cache = NoKeys THEN "refused" ELSE "stale"]
  /\ used' = [used EXCEPT ![c] = cache]
  /\ reply' = [reply EXCEPT ![c] = NoKeys]
  /\ UNCHANGED <<now, keyVars, cacheVars, started>>

\* The middleware is through with the request.
Finish(c) ==
  /\ check' = [check EXCEPT ![c] = "done"]
  /\ started' = [started EXCEPT ![c] = 0]
  /\ used' = [used EXCEPT ![c] = NoKeys]
  /\ UNCHANGED <<now, keyVars, cacheVars, reply>>

\* auth-service starts again without its key files.
NewKeys ==
  /\ current < MaxKeys
  /\ current' = current + 1
  /\ retired' = [retired EXCEPT ![current] = now]
  /\ UNCHANGED <<now, cacheVars, checkVars>>

Tick ==
  /\ now < MaxTime
  /\ \A c \in Checks : Fetching(c) => now < started[c] + FetchTime
  /\ now' = now + 1
  /\ UNCHANGED <<keyVars, cacheVars, checkVars>>

Authenticate(c) ==
  GetJwks(c) \/ ServeJwks(c) \/ StoreJwks(c) \/ UseJwks(c) \/ FetchFails(c)

-----------------------------------------------------------------------------
Larger(a, b) == IF a >= b THEN a ELSE b

\* A token is checked against keys that were in force less than a lifetime before
\* the check began, or less than the time of a fetch if that is longer: checks
\* overlap, and while one closes its client an older answer of another may replace
\* the copy it is about to use.  Only a check whose own fetch failed may use older
\* keys, as old as the copy is ("use it even if expired").
KeysFresh ==
  \A c \in Checks :
     check[c] = "fetched" => retired[used[c]] + Larger(Lifetime, FetchTime) >= started[c]
=============================================================================
