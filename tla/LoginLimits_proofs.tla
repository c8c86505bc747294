-------------------------- MODULE LoginLimits_proofs --------------------------
(***************************************************************************)
(* What holds of the counters for any number of requests, users and        *)
(* addresses and for any limits, lapses and resets at any moment included. *)
(***************************************************************************)
EXTENDS LoginLimits, FiniteSetTheorems, TLAPS

\* The requests that were let through for u and have not counted their attempt.
Admitted(u) ==
  {r \in Requests : pc[r] \in {"checkPeer", "authenticate", "countUser"} /\ job[r].user = u}

\* Every admitted request saw the counter below the threshold, or the counter
\* has grown since by one that is no longer admitted.
RoomLeft ==
  ~redisFailed => \A u \in Users :
     count[<<"user", u>>] + Cardinality(Admitted(u)) < Threshold + Cardinality(Requests)

LimitsInv == TypeOK /\ RoomLeft /\ CountersExpire

-----------------------------------------------------------------------------
(***************************************************************************)
(* Types                                                                   *)
(***************************************************************************)
Phases == Working \cup {"idle"}

LEMMA KeysTyped ==
  ASSUME TypeOK, NEW r \in Requests
  PROVE  RateKey(r) \in Keys /\ UserKey(r) \in Keys /\ PeerKey(r) \in Keys
BY DEF TypeOK, Jobs, RateKey, UserKey, PeerKey, Keys

LEMMA IncrementTyped ==
  ASSUME TypeOK, NEW k \in Keys
  PROVE  /\ Incremented(k) \in 1..MaxCount
         /\ Incremented(k) = 1 <=> count[k] = 0
         /\ Incremented(k) <= count[k] + 1
         /\ Incr(k) => count' \in [Keys -> 0..MaxCount]
<1> USE LoginLimitsAssumption
<1>1. count[k] \in 0..MaxCount /\ MaxCount >= 2
  BY DEF TypeOK
<1>2. Incremented(k) \in 1..MaxCount /\ Incremented(k) \in 0..MaxCount
  BY <1>1 DEF Incremented
<1>3. Incr(k) => count' \in [Keys -> 0..MaxCount]
  BY <1>2 DEF Incr, TypeOK
<1>. QED BY <1>1, <1>2, <1>3 DEF Incremented

LEMMA GotoTyped ==
  ASSUME TypeOK, NEW r \in Requests, NEW p \in Phases, Goto(r, p)
  PROVE  pc' \in [Requests -> Phases] /\ pc'[r] = p
         /\ \A q \in Requests \ {r} : pc'[q] = pc[q]
BY DEF TypeOK, Goto, Phases

LEMMA ExpireTyped ==
  ASSUME TypeOK, NEW k \in Keys, Expire(k)
  PROVE  timed' \in SUBSET Keys
BY DEF TypeOK, Expire

LEMMA FirstTyped ==
  ASSUME TypeOK, NEW r \in Requests, NEW S \in SUBSET Keys,
         job' = [job EXCEPT ![r].first = S]
  PROVE  /\ job' \in [Requests -> Jobs]
         /\ job'[r].first = S
         /\ \A q \in Requests : /\ job'[q].user = job[q].user
                                /\ job'[q].peer = job[q].peer
                                /\ job'[q].addr = job[q].addr
         /\ \A q \in Requests \ {r} : job'[q] = job[q]
BY DEF TypeOK, Jobs

LEMMA HandlerTyped ==
  ASSUME NEW r \in Requests
  PROVE  Handler(r) \in {"checkUser", "idle"} /\ Handler(r) \in Phases
         /\ AfterRedisError(r) \in {"checkUser", "authenticate", "idle"}
         /\ AfterRedisError(r) \in Phases
BY DEF Handler, AfterRedisError, Phases, Working

LEMMA TypeStep == TypeOK /\ [Next]_vars => TypeOK'
<1> SUFFICES ASSUME TypeOK, [Next]_vars PROVE TypeOK'
  OBVIOUS
<1> USE LoginLimitsAssumption
<1>. DEFINE Typed == /\ count' \in [Keys -> 0..MaxCount]
                     /\ timed' \in SUBSET Keys
                     /\ pc' \in [Requests -> Phases]
                     /\ job' \in [Requests -> Jobs]
                     /\ redisFailed' \in BOOLEAN
<1>1. /\ count \in [Keys -> 0..MaxCount]
      /\ timed \in SUBSET Keys
      /\ pc \in [Requests -> Phases]
      /\ job \in [Requests -> Jobs]
      /\ redisFailed \in BOOLEAN
  BY DEF TypeOK, Phases
<1>2. ASSUME NEW r \in Requests, Arrive(r) PROVE Typed
  <2>1. PICK j \in NewJobs : job' = [job EXCEPT ![r] = j]
    BY <1>2 DEF Arrive
  <2>2. job' \in [Requests -> Jobs]
    BY <1>1, <2>1 DEF NewJobs
  <2>3. pc' \in [Requests -> Phases]
    BY <1>1, <1>2 DEF Arrive, Goto, Phases, Working
  <2>. QED BY <1>1, <1>2, <2>2, <2>3 DEF Arrive, redisVars
<1>3. ASSUME NEW r \in Requests, Serve(r) PROVE Typed
  <2>1. CASE Limit(r)
    <3>1. pc' \in [Requests -> Phases]
      BY <1>1, <2>1, HandlerTyped DEF Limit, Goto, Phases, Working
    <3>. QED BY <1>1, <2>1, <3>1, KeysTyped, IncrementTyped DEF Limit
  <2>2. CASE Window(r)
    <3>1. pc' \in [Requests -> Phases]
      BY <1>1, <2>2, HandlerTyped DEF Window, Goto
    <3>. QED BY <1>1, <2>2, <3>1, KeysTyped, ExpireTyped DEF Window
  <2>3. CASE CheckUser(r) \/ CheckPeer(r) \/ Authenticate(r)
    BY <1>1, <2>3 DEF CheckUser, CheckPeer, Authenticate, redisVars, Goto, Phases, Working
  <2>4. CASE CountUser(r)
    <3>. DEFINE S == IF Incremented(UserKey(r)) = 1 THEN {UserKey(r)} ELSE {}
    <3>1. S \in SUBSET Keys
      BY KeysTyped
    <3>2. job' \in [Requests -> Jobs]
      BY <2>4, <3>1, FirstTyped DEF CountUser
    <3>3. pc' \in [Requests -> Phases]
      BY <1>1, <2>4 DEF CountUser, Goto, Phases, Working
    <3>. QED BY <1>1, <2>4, <3>2, <3>3, KeysTyped, IncrementTyped DEF CountUser
  <2>5. CASE CountPeer(r)
    <3>. DEFINE S == IF Incremented(PeerKey(r)) = 1
                     THEN job[r].first \cup {PeerKey(r)} ELSE job[r].first
    <3>1. S \in SUBSET Keys
      BY <1>1, KeysTyped DEF Jobs
    <3>2. job' = [job EXCEPT ![r].first = S]
      BY <2>5 DEF CountPeer
    <3>3. job' \in [Requests -> Jobs]
      BY <3>1, <3>2, FirstTyped
    <3>4. pc' \in [Requests -> Phases]
      BY <1>1, <2>5 DEF CountPeer, Goto, Phases, Working
    <3>. QED BY <1>1, <2>5, <3>3, <3>4, KeysTyped, IncrementTyped DEF CountPeer
  <2>6. CASE ExpireUser(r)
    <3>1. pc' \in [Requests -> Phases]
      BY <1>1, <2>6 DEF ExpireUser, Goto, Phases, Working
    <3>. QED BY <1>1, <2>6, <3>1, KeysTyped, ExpireTyped DEF ExpireUser
  <2>7. CASE ExpirePeer(r)
    <3>1. pc' \in [Requests -> Phases]
      BY <1>1, <2>7 DEF ExpirePeer, Goto, Phases, Working
    <3>. QED BY <1>1, <2>7, <3>1, KeysTyped, ExpireTyped DEF ExpirePeer
  <2>8. CASE Reset(r)
    <3>1. pc' \in [Requests -> Phases]
      BY <1>1, <2>8 DEF Reset, Goto, Phases, Working
    <3>2. count' \in [Keys -> 0..MaxCount]
      BY <1>1, <2>8 DEF Reset
    <3>. QED BY <1>1, <2>8, <3>1, <3>2 DEF Reset
  <2>. QED BY <1>3, <2>1, <2>2, <2>3, <2>4, <2>5, <2>6, <2>7, <2>8 DEF Serve
<1>4. ASSUME NEW r \in Requests, RedisError(r) PROVE Typed
  BY <1>1, <1>4, HandlerTyped DEF RedisError, Goto
<1>5. ASSUME NEW k \in Keys, Lapse(k) PROVE Typed
  <2>1. count' \in [Keys -> 0..MaxCount]
    BY <1>1, <1>5 DEF Lapse
  <2>. QED BY <1>1, <1>5, <2>1 DEF Lapse
<1>6. ASSUME UNCHANGED vars PROVE Typed
  BY <1>1, <1>6 DEF vars, redisVars
<1>7. Typed
  BY <1>2, <1>3, <1>4, <1>5, <1>6 DEF Next
<1>. QED BY <1>7 DEF TypeOK, Phases

-----------------------------------------------------------------------------
(***************************************************************************)
(* AttemptsBounded                                                         *)
(***************************************************************************)
\* An admitted request's counting uses up the room it had.
LEMMA RoomKept ==
  ASSUME TypeOK, NEW u \in Users,
         count[<<"user", u>>] + Cardinality(Admitted(u)) < Threshold + Cardinality(Requests),
         count'[<<"user", u>>] <= count[<<"user", u>>],
         count'[<<"user", u>>] \in Nat,
         Admitted(u)' \in SUBSET Admitted(u)
  PROVE  count'[<<"user", u>>] + Cardinality(Admitted(u)') < Threshold + Cardinality(Requests)
<1>. DEFINE A == Admitted(u)
            B == Admitted(u)'
<1>1. A \in SUBSET Requests /\ IsFiniteSet(Requests)
  BY LoginLimitsAssumption DEF Admitted
<1>2. IsFiniteSet(A)
  BY <1>1, FS_Subset
<1>3. Cardinality(B) <= Cardinality(A) /\ IsFiniteSet(B)
  BY <1>2, FS_Subset
<1>4. Cardinality(A) \in Nat /\ Cardinality(B) \in Nat /\ Cardinality(Requests) \in Nat
  BY <1>1, <1>2, <1>3, FS_CardinalityType
<1>5. count[<<"user", u>>] \in Nat
  BY DEF TypeOK, Keys
<1>. QED BY <1>3, <1>4, <1>5, LoginLimitsAssumption

LEMMA RoomUsed ==
  ASSUME TypeOK, NEW u \in Users, NEW r \in Admitted(u),
         count[<<"user", u>>] + Cardinality(Admitted(u)) < Threshold + Cardinality(Requests),
         count'[<<"user", u>>] <= count[<<"user", u>>] + 1,
         count'[<<"user", u>>] \in Nat,
         Admitted(u)' = Admitted(u) \ {r}
  PROVE  count'[<<"user", u>>] + Cardinality(Admitted(u)') < Threshold + Cardinality(Requests)
<1>. DEFINE A == Admitted(u)
<1>1. A \in SUBSET Requests /\ IsFiniteSet(Requests)
  BY LoginLimitsAssumption DEF Admitted
<1>2. IsFiniteSet(A)
  BY <1>1, FS_Subset
<1>3. Cardinality(A \ {r}) = Cardinality(A) - 1
  BY <1>2, FS_RemoveElement
<1>4. Cardinality(A) \in Nat /\ Cardinality(Requests) \in Nat
  BY <1>1, <1>2, FS_CardinalityType
<1>5. count[<<"user", u>>] \in Nat
  BY DEF TypeOK, Keys
<1>. QED BY <1>3, <1>4, <1>5, LoginLimitsAssumption

\* A request that is let through saw a counter below the threshold.
LEMMA RoomTaken ==
  ASSUME NEW u \in Users, count'[<<"user", u>>] \in Nat, count'[<<"user", u>>] < Threshold
  PROVE  count'[<<"user", u>>] + Cardinality(Admitted(u)') < Threshold + Cardinality(Requests)
<1>. DEFINE B == Admitted(u)'
<1>1. B \in SUBSET Requests /\ IsFiniteSet(Requests)
  BY LoginLimitsAssumption DEF Admitted
<1>2. Cardinality(B) <= Cardinality(Requests) /\ IsFiniteSet(B)
  BY <1>1, FS_Subset
<1>3. Cardinality(B) \in Nat /\ Cardinality(Requests) \in Nat
  BY <1>1, <1>2, FS_CardinalityType
<1>. QED BY <1>2, <1>3, LoginLimitsAssumption

\* A request that moves on without being let through leaves room as it was.
LEMMA NobodyAdmitted ==
  ASSUME NEW r \in Requests, NEW u \in Users,
         \A q \in Requests \ {r} : pc'[q] = pc[q] /\ job'[q].user = job[q].user,
         \/ pc'[r] \notin {"checkPeer", "authenticate", "countUser"}
         \/ /\ pc[r] \in {"checkPeer", "authenticate", "countUser"}
            /\ job'[r].user = job[r].user
         \/ job[r].user # u /\ job'[r].user # u
  PROVE  Admitted(u)' \in SUBSET Admitted(u)
BY DEF Admitted

LEMMA RoomStep == TypeOK /\ TypeOK' /\ RoomLeft /\ [Next]_vars => RoomLeft'
<1> SUFFICES ASSUME TypeOK, TypeOK', RoomLeft, [Next]_vars, ~redisFailed', NEW u \in Users
             PROVE  count'[<<"user", u>>] + Cardinality(Admitted(u)')
                      < Threshold + Cardinality(Requests)
  BY DEF RoomLeft
<1>. DEFINE K == <<"user", u>>
            Room == count'[K] + Cardinality(Admitted(u)') < Threshold + Cardinality(Requests)
<1>1. /\ K \in Keys
      /\ count[K] \in Nat /\ count'[K] \in Nat
      /\ \A r \in Requests : RateKey(r) # K /\ PeerKey(r) # K /\ (UserKey(r) = K <=> job[r].user = u)
  BY LoginLimitsAssumption DEF TypeOK, Keys, RateKey, PeerKey, UserKey
<1>2. ~redisFailed => count[K] + Cardinality(Admitted(u)) < Threshold + Cardinality(Requests)
  BY DEF RoomLeft
<1>3. ASSUME NEW r \in Requests, Arrive(r) PROVE Room
  <2>1. Admitted(u)' \in SUBSET Admitted(u)
    BY <1>3, NobodyAdmitted DEF Arrive, Goto, TypeOK
  <2>. QED BY <1>1, <1>2, <1>3, <2>1, RoomKept DEF Arrive, redisVars
<1>4. ASSUME NEW r \in Requests, Serve(r) PROVE Room
  <2>1. CASE Limit(r) \/ Window(r)
    <3>1. /\ pc' \in [Requests -> Phases] /\ pc'[r] \in {"window", "checkUser", "idle"}
          /\ \A q \in Requests \ {r} : pc'[q] = pc[q]
      BY <2>1, HandlerTyped DEF Limit, Window, Goto, TypeOK, Phases
    <3>2. job' = job /\ redisFailed' = redisFailed /\ count'[K] = count[K]
      BY <1>1, <2>1 DEF Limit, Window, Incr, TypeOK
    <3>3. Admitted(u)' \in SUBSET Admitted(u)
      BY <3>1, <3>2, NobodyAdmitted
    <3>. QED BY <1>1, <1>2, <3>2, <3>3, RoomKept
  <2>2. CASE CheckUser(r)
    <3>1. count' = count /\ redisFailed' = redisFailed /\ job' = job
      BY <2>2 DEF CheckUser, redisVars
    <3>2. CASE job[r].user = u /\ count[K] < Threshold
      BY <1>1, <3>1, <3>2, RoomTaken
    <3>3. CASE ~(job[r].user = u /\ count[K] < Threshold)
      <4>1. job[r].user = u => LockedOut(UserKey(r), Threshold)
        BY <1>1, <3>3, LoginLimitsAssumption DEF LockedOut
      <4>2. job[r].user = u => pc'[r] = "idle"
        BY <2>2, <4>1 DEF CheckUser, Goto, TypeOK
      <4>3. \A q \in Requests \ {r} : pc'[q] = pc[q]
        BY <2>2 DEF CheckUser, Goto, TypeOK
      <4>4. Admitted(u)' \in SUBSET Admitted(u)
        BY <3>1, <4>2, <4>3, NobodyAdmitted
      <4>. QED BY <1>1, <1>2, <3>1, <4>4, RoomKept
    <3>. QED BY <3>2, <3>3
  <2>3. CASE CheckPeer(r) \/ Authenticate(r)
    <3>1. count' = count /\ redisFailed' = redisFailed /\ job' = job
      BY <2>3 DEF CheckPeer, Authenticate, redisVars
    <3>2. /\ pc[r] \in {"checkPeer", "authenticate"}
          /\ \A q \in Requests \ {r} : pc'[q] = pc[q]
      BY <2>3 DEF CheckPeer, Authenticate, Goto, TypeOK
    <3>3. Admitted(u)' \in SUBSET Admitted(u)
      BY <3>1, <3>2, NobodyAdmitted
    <3>. QED BY <1>1, <1>2, <3>1, <3>3, RoomKept
  <2>4. CASE CountUser(r)
    <3>1. /\ redisFailed' = redisFailed
          /\ pc[r] = "countUser" /\ pc'[r] = "countPeer"
          /\ \A q \in Requests \ {r} : pc'[q] = pc[q]
      BY <2>4 DEF CountUser, Goto, TypeOK
    <3>2. \A q \in Requests : job'[q].user = job[q].user
      <4>. DEFINE S == IF Incremented(UserKey(r)) = 1 THEN {UserKey(r)} ELSE {}
      <4>1. S \in SUBSET Keys /\ job' = [job EXCEPT ![r].first = S]
        BY <2>4, KeysTyped DEF CountUser
      <4>. QED BY <4>1, FirstTyped
    <3>3. count' = [count EXCEPT ![UserKey(r)] = Incremented(UserKey(r))] /\ UserKey(r) \in Keys
      BY <2>4, KeysTyped DEF CountUser, Incr
    <3>4. CASE job[r].user = u
      <4>1. count'[K] = Incremented(K)
        BY <1>1, <3>3, <3>4 DEF TypeOK
      <4>2. count'[K] <= count[K] + 1
        BY <1>1, <4>1, IncrementTyped
      <4>3. r \in Admitted(u) /\ Admitted(u)' = Admitted(u) \ {r}
        BY <3>1, <3>2, <3>4 DEF Admitted
      <4>. QED BY <1>1, <1>2, <3>1, <4>2, <4>3, RoomUsed
    <3>5. CASE job[r].user # u
      <4>1. count'[K] = count[K]
        BY <1>1, <3>3, <3>5 DEF TypeOK
      <4>2. Admitted(u)' \in SUBSET Admitted(u)
        BY <3>1, <3>2, NobodyAdmitted
      <4>. QED BY <1>1, <1>2, <3>1, <4>1, <4>2, RoomKept
    <3>. QED BY <3>4, <3>5
  <2>5. CASE CountPeer(r)
    <3>1. /\ redisFailed' = redisFailed
          /\ pc'[r] \in {"expireUser", "expirePeer", "idle"}
          /\ \A q \in Requests \ {r} : pc'[q] = pc[q]
      BY <2>5 DEF CountPeer, Goto, TypeOK
    <3>2. \A q \in Requests \ {r} : job'[q] = job[q]
      BY <2>5 DEF CountPeer, TypeOK
    <3>3. count'[K] = count[K]
      BY <1>1, <2>5 DEF CountPeer, Incr, TypeOK
    <3>4. Admitted(u)' \in SUBSET Admitted(u)
      BY <3>1, <3>2, NobodyAdmitted
    <3>. QED BY <1>1, <1>2, <3>1, <3>3, <3>4, RoomKept
  <2>6. CASE ExpireUser(r) \/ ExpirePeer(r)
    <3>1. /\ redisFailed' = redisFailed /\ job' = job /\ count' = count
          /\ pc'[r] \in {"expirePeer", "idle"}
          /\ \A q \in Requests \ {r} : pc'[q] = pc[q]
      BY <2>6 DEF ExpireUser, ExpirePeer, Goto, TypeOK
    <3>2. Admitted(u)' \in SUBSET Admitted(u)
      BY <3>1, NobodyAdmitted
    <3>. QED BY <1>1, <1>2, <3>1, <3>2, RoomKept
  <2>7. CASE Reset(r)
    <3>1. /\ redisFailed' = redisFailed /\ job' = job /\ pc'[r] = "idle"
          /\ \A q \in Requests \ {r} : pc'[q] = pc[q]
      BY <2>7 DEF Reset, Goto, TypeOK
    <3>2. count'[K] = 0 \/ count'[K] = count[K]
      BY <1>1, <2>7 DEF Reset
    <3>3. Admitted(u)' \in SUBSET Admitted(u)
      BY <3>1, NobodyAdmitted
    <3>4. count'[K] <= count[K]
      BY <1>1, <3>2
    <3>. QED BY <1>1, <1>2, <3>1, <3>3, <3>4, RoomKept
  <2>. QED BY <1>4, <2>1, <2>2, <2>3, <2>4, <2>5, <2>6, <2>7 DEF Serve
<1>5. ASSUME NEW r \in Requests, RedisError(r) PROVE Room
  BY <1>5 DEF RedisError
<1>6. ASSUME NEW k \in Keys, Lapse(k) PROVE Room
  <2>1. (count'[K] = 0 \/ count'[K] = count[K]) /\ pc' = pc /\ job' = job /\ redisFailed' = redisFailed
    BY <1>1, <1>6 DEF Lapse, TypeOK
  <2>2. count'[K] <= count[K] /\ Admitted(u)' \in SUBSET Admitted(u)
    BY <1>1, <2>1 DEF Admitted
  <2>. QED BY <1>1, <1>2, <2>1, <2>2, RoomKept
<1>7. ASSUME UNCHANGED vars PROVE Room
  <2>1. count' = count /\ pc' = pc /\ job' = job /\ redisFailed' = redisFailed
    BY <1>7 DEF vars, redisVars
  <2>2. count'[K] <= count[K] /\ Admitted(u)' \in SUBSET Admitted(u)
    BY <1>1, <2>1 DEF Admitted
  <2>. QED BY <1>1, <1>2, <2>1, <2>2, RoomKept
<1>. QED BY <1>3, <1>4, <1>5, <1>6, <1>7 DEF Next

-----------------------------------------------------------------------------
(***************************************************************************)
(* CountersExpire                                                          *)
(***************************************************************************)
\* k counts without a time to live, and may: somebody is about to set it.
Bare(k) == count[k] > 0 /\ k \notin timed
Covered(k) == Bare(k) => \E r \in Requests : Pending(r, k)

\* A step of r leaves k covered if it makes nothing bare, and r does not drop
\* what it was about to do for k, or was not the one.
LEMMA CoverKept ==
  ASSUME NEW r \in Requests, NEW k \in Keys, Covered(k),
         \A q \in Requests \ {r} : pc'[q] = pc[q] /\ job'[q] = job[q],
         Bare(k)' => Bare(k),
         Bare(k)' /\ Pending(r, k) => Pending(r, k)'
  PROVE  Covered(k)'
<1>1. \A q \in Requests \ {r} : Pending(q, k)' <=> Pending(q, k)
  BY DEF Pending, RateKey, UserKey, PeerKey
<1>. QED BY <1>1 DEF Covered

LEMMA CoverStep == TypeOK /\ TypeOK' /\ CountersExpire /\ [Next]_vars => CountersExpire'
<1> SUFFICES ASSUME TypeOK, TypeOK', CountersExpire, [Next]_vars, ~redisFailed', NEW k \in Keys
             PROVE  Covered(k)'
  BY DEF CountersExpire, Covered, Bare
<1>1. ~redisFailed => Covered(k)
  BY DEF CountersExpire, Covered, Bare
<1>2. count[k] \in 0..MaxCount /\ count'[k] \in 0..MaxCount /\ MaxCount \in Nat
  BY LoginLimitsAssumption DEF TypeOK
<1>3. ASSUME NEW r \in Requests, Arrive(r) PROVE Covered(k)'
  <2>1. /\ count' = count /\ timed' = timed /\ redisFailed' = redisFailed
        /\ pc[r] = "idle"
        /\ \A q \in Requests \ {r} : pc'[q] = pc[q] /\ job'[q] = job[q]
    BY <1>3 DEF Arrive, redisVars, Goto, TypeOK
  <2>2. Bare(k)' => Bare(k)
    BY <2>1 DEF Bare
  <2>3. ~Pending(r, k)
    BY <2>1 DEF Pending
  <2>. QED BY <1>1, <2>1, <2>2, <2>3, CoverKept
<1>4. ASSUME NEW r \in Requests, Serve(r) PROVE Covered(k)'
  <2>. DEFINE Others == \A q \in Requests \ {r} : pc'[q] = pc[q] /\ job'[q] = job[q]
  <2>1. CASE Limit(r)
    <3>1. /\ count' = [count EXCEPT ![RateKey(r)] = Incremented(RateKey(r))]
          /\ timed' = timed /\ redisFailed' = redisFailed /\ job' = job
          /\ pc[r] = "limit" /\ Others
      BY <2>1 DEF Limit, Incr, Goto, TypeOK
    <3>2. CASE k = RateKey(r) /\ count[k] = 0
      <4>1. pc'[r] = "window"
        BY <2>1, <3>2, IncrementTyped DEF Limit, Goto, TypeOK
      <4>2. RateKey(r)' = k
        BY <3>1, <3>2 DEF RateKey
      <4>. QED BY <4>1, <4>2 DEF Covered, Pending
    <3>3. CASE ~(k = RateKey(r) /\ count[k] = 0)
      <4>1. Bare(k)' => Bare(k)
        BY <1>2, <3>1, <3>3 DEF Bare, TypeOK
      <4>2. ~Pending(r, k)
        BY <3>1 DEF Pending
      <4>. QED BY <1>1, <3>1, <4>1, <4>2, CoverKept
    <3>. QED BY <3>2, <3>3
  <2>2. CASE Window(r)
    <3>1. /\ count' = count /\ redisFailed' = redisFailed /\ job' = job
          /\ timed' = IF count[RateKey(r)] > 0 THEN timed \cup {RateKey(r)} ELSE timed
          /\ pc[r] = "window" /\ Others
      BY <2>2 DEF Window, Expire, Goto, TypeOK
    <3>2. Bare(k)' => Bare(k) /\ k # RateKey(r)
      BY <3>1 DEF Bare
    <3>3. Pending(r, k) => k = RateKey(r)
      BY <3>1 DEF Pending
    <3>. QED BY <1>1, <3>1, <3>2, <3>3, CoverKept
  <2>3. CASE CheckUser(r) \/ CheckPeer(r) \/ Authenticate(r)
    <3>1. /\ count' = count /\ timed' = timed /\ redisFailed' = redisFailed /\ job' = job
          /\ pc[r] \in {"checkUser", "checkPeer", "authenticate"} /\ Others
      BY <2>3 DEF CheckUser, CheckPeer, Authenticate, redisVars, Goto, TypeOK
    <3>2. (Bare(k)' => Bare(k)) /\ ~Pending(r, k)
      BY <3>1 DEF Bare, Pending
    <3>. QED BY <1>1, <3>1, <3>2, CoverKept
  <2>4. CASE CountUser(r)
    <3>. DEFINE S == IF Incremented(UserKey(r)) = 1 THEN {UserKey(r)} ELSE {}
    <3>1. /\ count' = [count EXCEPT ![UserKey(r)] = Incremented(UserKey(r))]
          /\ timed' = timed /\ redisFailed' = redisFailed
          /\ pc[r] = "countUser" /\ pc'[r] = "countPeer"
          /\ S \in SUBSET Keys /\ job' = [job EXCEPT ![r].first = S]
      BY <2>4, KeysTyped DEF CountUser, Incr, Goto, TypeOK
    <3>2. /\ job'[r].first = S /\ job'[r].user = job[r].user
          /\ \A q \in Requests \ {r} : job'[q] = job[q]
      <4>. HIDE DEF S
      <4>. QED BY <3>1, FirstTyped
    <3>3. Others
      BY <2>4, <3>2 DEF CountUser, Goto, TypeOK
    <3>4. CASE k = UserKey(r) /\ count[k] = 0
      <4>1. k \in job'[r].first
        BY <3>2, <3>4, IncrementTyped
      <4>2. UserKey(r)' = k
        BY <3>2, <3>4 DEF UserKey
      <4>. QED BY <3>1, <4>1, <4>2 DEF Covered, Pending
    <3>5. CASE ~(k = UserKey(r) /\ count[k] = 0)
      <4>1. Bare(k)' => Bare(k)
        BY <1>2, <3>1, <3>5 DEF Bare, TypeOK
      <4>2. ~Pending(r, k)
        BY <3>1 DEF Pending
      <4>. QED BY <1>1, <3>1, <3>3, <4>1, <4>2, CoverKept
    <3>. QED BY <3>4, <3>5
  <2>5. CASE CountPeer(r)
    <3>. DEFINE new == Incremented(PeerKey(r)) = 1
                S == IF new THEN job[r].first \cup {PeerKey(r)} ELSE job[r].first
    <3>1. /\ count' = [count EXCEPT ![PeerKey(r)] = Incremented(PeerKey(r))]
          /\ timed' = timed /\ redisFailed' = redisFailed
          /\ pc[r] = "countPeer"
          /\ job' = [job EXCEPT ![r].first = S]
      BY <2>5 DEF CountPeer, Incr
    <3>2. S \in SUBSET Keys
      BY KeysTyped DEF TypeOK, Jobs
    <3>3. /\ job'[r].first = S /\ job'[r].user = job[r].user /\ job'[r].peer = job[r].peer
          /\ \A q \in Requests \ {r} : job'[q] = job[q]
      <4>. HIDE DEF S
      <4>. QED BY <3>1, <3>2, FirstTyped
    <3>4. Others
      BY <2>5, <3>3 DEF CountPeer, Goto, TypeOK
    <3>5. /\ UserKey(r)' = UserKey(r) /\ PeerKey(r)' = PeerKey(r)
          /\ pc'[r] = IF UserKey(r) \in job[r].first THEN "expireUser"
                      ELSE IF new THEN "expirePeer" ELSE "idle"
      BY <2>5, <3>3 DEF CountPeer, Goto, TypeOK, UserKey, PeerKey
    <3>6. CASE k = PeerKey(r) /\ count[k] = 0
      <4>1. new
        BY <3>6, IncrementTyped
      <4>2. k \in job'[r].first /\ pc'[r] \in {"expireUser", "expirePeer"}
        BY <3>3, <3>5, <3>6, <4>1
      <4>. QED BY <3>5, <3>6, <4>2 DEF Covered, Pending
    <3>7. CASE ~(k = PeerKey(r) /\ count[k] = 0)
      <4>1. Bare(k)' => Bare(k)
        BY <1>2, <3>1, <3>7 DEF Bare, TypeOK
      <4>2. Pending(r, k) => k = UserKey(r) /\ k \in job[r].first
        BY <3>1 DEF Pending
      <4>3. Pending(r, k) => Pending(r, k)'
        BY <3>3, <3>5, <4>2 DEF Pending
      <4>. QED BY <1>1, <3>1, <3>4, <4>1, <4>3, CoverKept
    <3>. QED BY <3>6, <3>7
  <2>6. CASE ExpireUser(r)
    <3>1. /\ count' = count /\ redisFailed' = redisFailed /\ job' = job
          /\ timed' = IF count[UserKey(r)] > 0 THEN timed \cup {UserKey(r)} ELSE timed
          /\ pc[r] = "expireUser" /\ Others
          /\ pc'[r] = IF PeerKey(r) \in job[r].first THEN "expirePeer" ELSE "idle"
      BY <2>6 DEF ExpireUser, Expire, Goto, TypeOK
    <3>2. Bare(k)' => Bare(k) /\ k # UserKey(r)
      BY <3>1 DEF Bare
    <3>3. Pending(r, k) /\ k # UserKey(r) => Pending(r, k)'
      BY <3>1 DEF Pending, PeerKey
    <3>. QED BY <1>1, <3>1, <3>2, <3>3, CoverKept
  <2>7. CASE ExpirePeer(r)
    <3>1. /\ count' = count /\ redisFailed' = redisFailed /\ job' = job
          /\ timed' = IF count[PeerKey(r)] > 0 THEN timed \cup {PeerKey(r)} ELSE timed
          /\ pc[r] = "expirePeer" /\ Others
      BY <2>7 DEF ExpirePeer, Expire, Goto, TypeOK
    <3>2. Bare(k)' => Bare(k) /\ k # PeerKey(r)
      BY <3>1 DEF Bare
    <3>3. Pending(r, k) => k = PeerKey(r)
      BY <3>1 DEF Pending
    <3>. QED BY <1>1, <3>1, <3>2, <3>3, CoverKept
  <2>8. CASE Reset(r)
    <3>1. /\ redisFailed' = redisFailed /\ job' = job /\ pc[r] = "reset" /\ Others
          /\ count'[k] = IF k \in {UserKey(r), PeerKey(r)} THEN 0 ELSE count[k]
          /\ timed' = timed \ {UserKey(r), PeerKey(r)}
      BY <2>8 DEF Reset, Goto, TypeOK
    <3>2. (Bare(k)' => Bare(k)) /\ ~Pending(r, k)
      BY <3>1 DEF Bare, Pending
    <3>. QED BY <1>1, <3>1, <3>2, CoverKept
  <2>. QED BY <1>4, <2>1, <2>2, <2>3, <2>4, <2>5, <2>6, <2>7, <2>8 DEF Serve
<1>5. ASSUME NEW r \in Requests, RedisError(r) PROVE Covered(k)'
  BY <1>5 DEF RedisError
<1>6. ASSUME NEW l \in Keys, Lapse(l) PROVE Covered(k)'
  <2>1. /\ pc' = pc /\ job' = job /\ redisFailed' = redisFailed
        /\ count'[k] = IF k = l THEN 0 ELSE count[k]
        /\ timed' = timed \ {l}
    BY <1>6 DEF Lapse, TypeOK
  <2>2. (Bare(k)' => Bare(k)) /\ \A q \in Requests : Pending(q, k)' <=> Pending(q, k)
    BY <2>1 DEF Bare, Pending, RateKey, UserKey, PeerKey
  <2>. QED BY <1>1, <2>1, <2>2 DEF Covered
<1>7. ASSUME UNCHANGED vars PROVE Covered(k)'
  <2>1. count' = count /\ timed' = timed /\ pc' = pc /\ job' = job /\ redisFailed' = redisFailed
    BY <1>7 DEF vars, redisVars
  <2>2. (Bare(k)' => Bare(k)) /\ \A q \in Requests : Pending(q, k)' <=> Pending(q, k)
    BY <2>1 DEF Bare, Pending, RateKey, UserKey, PeerKey
  <2>. QED BY <1>1, <2>1, <2>2 DEF Covered
<1>. QED BY <1>3, <1>4, <1>5, <1>6, <1>7 DEF Next

-----------------------------------------------------------------------------
(***************************************************************************)
(* The theorems                                                            *)
(***************************************************************************)
LEMMA LimitsInit == Init => LimitsInv
<1> SUFFICES ASSUME Init PROVE LimitsInv
  OBVIOUS
<1> USE LoginLimitsAssumption
<1>1. TypeOK
  <2>1. job \in [Requests -> Jobs]
    BY DEF Init, NewJobs
  <2>2. pc \in [Requests -> Working \cup {"idle"}]
    BY DEF Init
  <2>3. count \in [Keys -> 0..MaxCount] /\ timed \in SUBSET Keys
    BY DEF Init
  <2>4. redisFailed \in BOOLEAN
    BY DEF Init
  <2>. QED BY <2>1, <2>2, <2>3, <2>4 DEF TypeOK
<1>2. CountersExpire
  BY DEF Init, CountersExpire
<1>3. ASSUME NEW u \in Users
      PROVE  count[<<"user", u>>] + Cardinality(Admitted(u)) < Threshold + Cardinality(Requests)
  <2>1. Admitted(u) = {} /\ count[<<"user", u>>] = 0
    BY DEF Init, Admitted, Keys
  <2>2. Cardinality(Admitted(u)) = 0 /\ Cardinality(Requests) \in Nat
    BY <2>1, FS_EmptySet, FS_CardinalityType
  <2>. QED BY <2>1, <2>2
<1>. QED BY <1>1, <1>2, <1>3 DEF LimitsInv, RoomLeft

\* The inductive invariant of the counters.
THEOREM LimitsInvariant == Spec => []LimitsInv
<1>1. LimitsInv /\ [Next]_vars => LimitsInv'
  BY TypeStep, RoomStep, CoverStep DEF LimitsInv
<1>. QED BY LimitsInit, <1>1, PTL DEF Spec

\* Counters, commands and jobs keep their types, whatever saturates or lapses.
THEOREM TypeCorrect == Spec => []TypeOK
<1>1. LimitsInv => TypeOK
  BY DEF LimitsInv
<1>. QED BY <1>1, LimitsInvariant, PTL

\* With any number of requests under way, a user's counter stays below the
\* threshold plus their number, as long as Redis works: checking and counting
\* in separate commands costs at most one attempt per overlapping request.
THEOREM OvershootBounded == Spec => []AttemptsBounded
<1>1. ASSUME LimitsInv PROVE AttemptsBounded
  <2> SUFFICES ASSUME ~redisFailed, NEW u \in Users
               PROVE  count[<<"user", u>>] < Threshold + Cardinality(Requests)
    BY DEF AttemptsBounded
  <2>1. count[<<"user", u>>] + Cardinality(Admitted(u)) < Threshold + Cardinality(Requests)
    BY <1>1 DEF LimitsInv, RoomLeft
  <2>2. Admitted(u) \in SUBSET Requests /\ IsFiniteSet(Requests)
    BY LoginLimitsAssumption DEF Admitted
  <2>3. IsFiniteSet(Admitted(u))
    BY <2>2, FS_Subset
  <2>4. Cardinality(Admitted(u)) \in Nat /\ Cardinality(Requests) \in Nat
    BY <2>2, <2>3, FS_CardinalityType
  <2>5. count[<<"user", u>>] \in Nat
    BY <1>1 DEF LimitsInv, TypeOK, Keys
  <2>. QED BY <2>1, <2>4, <2>5, LoginLimitsAssumption
<1>. QED BY <1>1, LimitsInvariant, PTL

\* As long as Redis works, no counter is left without a time to live.
THEOREM NothingCountsForEver == Spec => []CountersExpire
<1>1. LimitsInv => CountersExpire
  BY DEF LimitsInv
<1>. QED BY <1>1, LimitsInvariant, PTL
=============================================================================
