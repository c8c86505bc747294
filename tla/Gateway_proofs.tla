---------------------------- MODULE Gateway_proofs ----------------------------
(***************************************************************************)
(* Proofs about the gateway: that the keys tokens are checked with are     *)
(* fresh, that the registry names sockets that are served, and that the    *)
(* turns of a client are answered, for any number of checks, sockets,      *)
(* sessions and turns.                                                     *)
(***************************************************************************)
EXTENDS Gateway, TLAPS

(***************************************************************************)
(* The keys.                                                               *)
(***************************************************************************)
\* A pair that has not been replaced is in force, later ones too.
Retirements == \A k \in Keys : k >= current => retired[k] = InForce

\* The copy and the answers on their way were in force when the time they will
\* carry was taken.
CopiesFresh ==
  /\ cache # NoKeys => retired[cache] >= cacheTime
  /\ \A c \in Checks : check[c] = "answered" =>
        reply[c] # NoKeys /\ retired[reply[c]] >= started[c]

\* What another check stores while one closes its client was asked for no longer
\* ago than a fetch takes.
StoredLately ==
  \A c \in Checks :
     /\ Fetching(c) => now <= started[c] + FetchTime
     /\ check[c] = "closing" => cache # NoKeys /\ cacheTime + FetchTime >= started[c]

KeyInv == KeyCacheTypeOK /\ Retirements /\ CopiesFresh /\ StoredLately /\ KeysFresh

LEMMA InitKeys == InitKeyCache => KeyInv
  BY KeyCacheAssumption
  DEF InitKeyCache, KeyInv, KeyCacheTypeOK, Retirements, CopiesFresh, StoredLately, Fetching,
      KeysFresh, Keys, InForce, NoKeys

LEMMA LargerAtLeast ==
  ASSUME NEW a \in Nat, NEW b \in Nat
  PROVE  Larger(a, b) \in Nat /\ Larger(a, b) >= a /\ Larger(a, b) >= b
  BY DEF Larger

LEMMA GetJwksStep == ASSUME KeyInv, NEW c \in Checks, GetJwks(c) PROVE KeyInv'
<1> USE KeyCacheAssumption
    DEF KeyInv, KeyCacheTypeOK, NoKeys, Keys, InForce, keyVars, cacheVars
<1>1. CASE Expired
  <2>1. /\ check' = [check EXCEPT ![c] = "fetching"]
        /\ started' = [started EXCEPT ![c] = now]
        /\ UNCHANGED <<now, current, retired, cache, cacheTime, reply, used>>
    BY <1>1 DEF GetJwks
  <2>2. KeysFresh'
    BY <2>1 DEF KeysFresh
  <2>3. StoredLately'
    BY <2>1 DEF StoredLately, Fetching
  <2> QED
    BY <2>1, <2>2, <2>3 DEF Retirements, CopiesFresh
<1>2. CASE ~Expired
  <2>1. cache \in Keys /\ now - cacheTime <= Lifetime /\ retired[cache] >= cacheTime
    BY <1>2 DEF Expired, CopiesFresh
  <2> DEFINE L == Larger(Lifetime, FetchTime)
  <2>2. L \in Nat /\ L >= Lifetime
    BY LargerAtLeast
  <2> HIDE DEF L
  <2>3. retired[cache] \in Nat /\ retired[cache] + L >= now
    BY <2>1, <2>2
  <2>4. /\ check' = [check EXCEPT ![c] = "fetched"]
        /\ used' = [used EXCEPT ![c] = cache]
        /\ started' = [started EXCEPT ![c] = now]
        /\ UNCHANGED <<now, current, retired, cache, cacheTime, reply>>
    BY <1>2 DEF GetJwks
  <2>5. \A d \in Checks : check'[d] = "fetched" => retired'[used'[d]] + L >= started'[d]
    BY <2>1, <2>3, <2>4 DEF KeysFresh, L
  <2>6. KeysFresh'
    BY <2>5 DEF KeysFresh, L
  <2> QED
    BY <2>1, <2>4, <2>6 DEF Retirements, CopiesFresh, StoredLately, Fetching
<1> QED
  BY <1>1, <1>2

LEMMA ServeJwksStep == ASSUME KeyInv, NEW c \in Checks, ServeJwks(c) PROVE KeyInv'
  BY KeyCacheAssumption
  DEF ServeJwks, KeyInv, KeyCacheTypeOK, Retirements, CopiesFresh, StoredLately, Fetching,
      KeysFresh, NoKeys, Keys, InForce, keyVars, cacheVars

LEMMA StoreJwksStep == ASSUME KeyInv, NEW c \in Checks, StoreJwks(c) PROVE KeyInv'
<1> USE KeyCacheAssumption DEF KeyInv, KeyCacheTypeOK, NoKeys, Keys, InForce, keyVars
<1>1. /\ reply[c] \in Keys /\ retired[reply[c]] \in Nat /\ retired[reply[c]] >= started[c]
      /\ now <= started[c] + FetchTime
  BY DEF StoreJwks, CopiesFresh, StoredLately, Fetching
<1>2. KeysFresh'
  BY DEF StoreJwks, KeysFresh
<1>3. CopiesFresh'
  BY <1>1 DEF StoreJwks, CopiesFresh
<1>4. StoredLately'
  BY <1>1 DEF StoreJwks, StoredLately, Fetching
<1> QED
  BY <1>1, <1>2, <1>3, <1>4 DEF StoreJwks, Retirements

\* Whoever stored the copy, it is fresh enough for the check.
LEMMA UseJwksStep == ASSUME KeyInv, NEW c \in Checks, UseJwks(c) PROVE KeyInv'
<1> USE KeyCacheAssumption DEF KeyInv, KeyCacheTypeOK, NoKeys, Keys, InForce, keyVars, cacheVars
<1>1. /\ cache \in Keys /\ retired[cache] \in Nat /\ retired[cache] >= cacheTime
      /\ cacheTime + FetchTime >= started[c]
  BY DEF UseJwks, CopiesFresh, StoredLately
<1> DEFINE L == Larger(Lifetime, FetchTime)
<1>2. L \in Nat /\ L >= FetchTime
  BY LargerAtLeast
<1> HIDE DEF L
<1>3. retired[cache] + L >= started[c]
  BY <1>1, <1>2
<1>4. \A d \in Checks : check'[d] = "fetched" => retired'[used'[d]] + L >= started'[d]
  BY <1>1, <1>3 DEF UseJwks, KeysFresh, L
<1>5. KeysFresh'
  BY <1>4 DEF KeysFresh, L
<1> QED
  BY <1>1, <1>5 DEF UseJwks, Retirements, CopiesFresh, StoredLately, Fetching

LEMMA FetchFailsStep == ASSUME KeyInv, NEW c \in Checks, FetchFails(c) PROVE KeyInv'
  BY KeyCacheAssumption
  DEF FetchFails, KeyInv, KeyCacheTypeOK, Retirements, CopiesFresh, StoredLately, Fetching,
      KeysFresh, NoKeys, Keys, InForce, keyVars, cacheVars

LEMMA FinishStep == ASSUME KeyInv, NEW c \in Checks, Finish(c) PROVE KeyInv'
  BY KeyCacheAssumption
  DEF Finish, KeyInv, KeyCacheTypeOK, Retirements, CopiesFresh, StoredLately, Fetching,
      KeysFresh, NoKeys, Keys, InForce, keyVars, cacheVars

\* A pair is replaced no earlier than any check has begun.
LEMMA NewKeysStep == ASSUME KeyInv, NewKeys PROVE KeyInv'
<1> USE KeyCacheAssumption DEF KeyInv, KeyCacheTypeOK, NoKeys, Keys, InForce, cacheVars, checkVars
<1>1. /\ current' \in Keys /\ retired' \in [Keys -> 0..InForce]
      /\ retired'[current] = now
      /\ \A k \in Keys : k # current => retired'[k] = retired[k]
  BY DEF NewKeys
<1>2. Retirements'
  BY <1>1 DEF NewKeys, Retirements
<1>3. CopiesFresh' /\ StoredLately'
  BY <1>1 DEF NewKeys, CopiesFresh, StoredLately, Fetching
<1> DEFINE L == Larger(Lifetime, FetchTime)
<1>4. L \in Nat
  BY LargerAtLeast
<1> HIDE DEF L
<1>5. \A c \in Checks : check'[c] = "fetched" => retired'[used'[c]] + L >= started'[c]
  BY <1>1, <1>4 DEF NewKeys, KeysFresh, L
<1>6. KeysFresh'
  BY <1>5 DEF KeysFresh, L
<1> QED
  BY <1>1, <1>2, <1>3, <1>6 DEF NewKeys

LEMMA TickStep == ASSUME KeyInv, Tick PROVE KeyInv'
  BY KeyCacheAssumption
  DEF Tick, KeyInv, KeyCacheTypeOK, Retirements, CopiesFresh, StoredLately, Fetching,
      KeysFresh, NoKeys, Keys, InForce, keyVars, cacheVars, checkVars

LEMMA QuietKeys == ASSUME KeyInv, UNCHANGED authVars PROVE KeyInv'
  BY DEF KeyInv, KeyCacheTypeOK, Retirements, CopiesFresh, StoredLately, Fetching,
         KeysFresh, authVars, keyVars,
         cacheVars, checkVars, Keys, InForce, NoKeys

LEMMA NextKeys == ASSUME KeyInv, [Next]_vars PROVE KeyInv'
<1>1. ASSUME NEW k \in Sockets, RunSocket(k) PROVE UNCHANGED authVars
  BY <1>1 DEF RunSocket, Connect, ClientLeaves, ReadNothing, ReadMessage, AskAgent, AskInVain,
              Forward, SkipLine, EndOfStream, GiveUp
<1>2. ASSUME NEW t \in Turns, RunAgent(t) PROVE UNCHANGED authVars
  BY <1>2 DEF RunAgent, AgentSends, AgentEnds, AgentDies
<1> QED
  BY <1>1, <1>2, QuietKeys, GetJwksStep, ServeJwksStep, StoreJwksStep, UseJwksStep, FetchFailsStep,
     FinishStep, NewKeysStep, TickStep
  DEF Next, vars, RunAuth, CheckToken, Authenticate, Serve, ServeWithoutKeys

(***************************************************************************)
(* The sockets.                                                            *)
(***************************************************************************)
SocketTypes ==
  /\ registry \in [Sessions -> Sockets \cup {NoSocket}]
  /\ sock \in [Sockets -> {"new", "open", "asking", "streaming", "closed"}]
  /\ sess \in [Sockets -> Sessions]
  /\ here \in [Sockets -> BOOLEAN]
  /\ turns \in 0..MaxTurns
  /\ turn \in [Sockets -> 0..turns]
  /\ \A k \in Sockets : sock[k] \in {"asking", "streaming"} => turn[k] # 0
  /\ agent \in [Turns -> {"none", "running", "closing", "finished", "gone"}]
  /\ stream \in [Turns -> Seq(Chunks)]
  /\ told \in [Turns -> SUBSET {"final", "error"}]
  /\ unread \subseteq Turns

\* A turn belongs to one socket, which has connected.
Numbered ==
  /\ \A k \in Sockets : sock[k] = "new" => turn[k] = 0
  /\ \A j, k \in Sockets : turn[j] = turn[k] /\ turn[j] # 0 => j = k

\* When agent-runtime has sent its last chunk, it was passed on, could not be read
\* or is in flight.
Ending ==
  \A k \in Sockets :
     sock[k] = "streaming" /\ agent[turn[k]] \in {"closing", "finished"} =>
       \/ "final" \in told[turn[k]] \/ turn[k] \in unread
       \/ \E i \in DOMAIN stream[turn[k]] : stream[turn[k]][i] = "final"

SocketInv == SocketTypes /\ RegisteredServed /\ Numbered /\ Ending /\ TurnsAnswered

LEMMA InitSockets == Init => SocketInv
  BY GatewayAssumption
  DEF Init, SocketInv, SocketTypes, RegisteredServed, Numbered, Ending, TurnsAnswered, Turns, Chunks

\* A handler that ends takes its session's entry away, and no other.
LEMMA CloseRegistered ==
  ASSUME SocketTypes, RegisteredServed, NEW k \in Sockets, Close(k), UNCHANGED sess
  PROVE  RegisteredServed'
  BY GatewayAssumption DEF SocketTypes, RegisteredServed, Close, Goto

\* A handler that goes on is still the one the registry names.
LEMMA GotoRegistered ==
  ASSUME SocketTypes, RegisteredServed, NEW k \in Sockets,
         NEW p \in {"open", "asking", "streaming"}, Goto(k, p), UNCHANGED <<registry, sess>>
  PROVE  RegisteredServed'
  BY GatewayAssumption DEF SocketTypes, RegisteredServed, Goto

LEMMA SendRegistered ==
  ASSUME SocketTypes, RegisteredServed, NEW k \in Sockets, NEW t, NEW what,
         NEW p \in {"open", "asking", "streaming"}, Send(k, t, what, p), UNCHANGED sess
  PROVE  RegisteredServed'
  BY CloseRegistered, GotoRegistered DEF Send

\* What Send does to the handler and to what clients were told.
LEMMA SendEffect ==
  ASSUME SocketTypes, NEW k \in Sockets, NEW t \in Turns, NEW what \in {"part", "final", "error"},
         NEW p \in {"open", "asking", "streaming"}, Send(k, t, what, p)
  PROVE  /\ registry' \in [Sessions -> Sockets \cup {NoSocket}]
         /\ sock' = [sock EXCEPT ![k] = IF here[k] THEN p ELSE "closed"]
         /\ told' \in [Turns -> SUBSET {"final", "error"}]
         /\ \A u \in Turns : told[u] \subseteq told'[u]
         /\ here[k] /\ what # "part" => what \in told'[t]
<1>1. CASE here[k]
  <2>1. told' = [told EXCEPT ![t] = @ \cup ({what} \ {"part"})]
    BY <1>1 DEF Send
  <2>2. told' \in [Turns -> SUBSET {"final", "error"}]
    BY <2>1 DEF SocketTypes
  <2> QED
    BY <1>1, <2>1, <2>2 DEF Send, Goto, SocketTypes
<1>2. CASE ~here[k]
  BY <1>2 DEF Send, Close, Goto, SocketTypes
<1> QED
  BY <1>1, <1>2

LEMMA ConnectStep == ASSUME SocketInv, NEW k \in Sockets, Connect(k) PROVE SocketInv'
<1> USE GatewayAssumption DEF SocketInv, SocketTypes, Connect, Goto, agentVars
<1>1. RegisteredServed'
  BY DEF RegisteredServed
<1>2. Numbered' /\ TurnsAnswered'
  BY DEF Numbered, TurnsAnswered, Answered
<1>3. Ending'
  BY DEF Ending
<1> QED
  BY <1>1, <1>2, <1>3

LEMMA ClientLeavesStep == ASSUME SocketInv, NEW k \in Sockets, ClientLeaves(k) PROVE SocketInv'
<1>1. /\ here' = [here EXCEPT ![k] = FALSE]
      /\ UNCHANGED <<registry, sock, sess, turns, turn, agent, stream, told, unread>>
  BY DEF ClientLeaves, agentVars
<1>2. SocketTypes'
  BY <1>1 DEF SocketInv, SocketTypes
<1>3. RegisteredServed' /\ Numbered' /\ Ending'
  BY <1>1 DEF SocketInv, RegisteredServed, Numbered, Ending
<1>4. TurnsAnswered'
  BY <1>1 DEF SocketInv, SocketTypes, TurnsAnswered, Answered
<1> QED
  BY <1>2, <1>3, <1>4 DEF SocketInv

LEMMA ReadNothingStep == ASSUME SocketInv, NEW k \in Sockets, ReadNothing(k) PROVE SocketInv'
<1>1. RegisteredServed'
  BY CloseRegistered DEF SocketInv, ReadNothing
<1> QED
  BY <1>1 DEF SocketInv, SocketTypes, Numbered, Ending, TurnsAnswered, Answered, ReadNothing,
              Close, Goto, agentVars

LEMMA ReadMessageStep == ASSUME SocketInv, NEW k \in Sockets, ReadMessage(k) PROVE SocketInv'
<1> USE GatewayAssumption
<1>1. /\ sock[k] = "open" /\ turns' = turns + 1 /\ turns + 1 \in Turns
      /\ turn' = [turn EXCEPT ![k] = turns + 1]
      /\ UNCHANGED <<sess, here, agent, stream, unread>>
  BY DEF ReadMessage, SocketInv, SocketTypes, Turns, agentVars
<1>2. /\ turn' \in [Sockets -> 0..turns']
      /\ \A j \in Sockets : turn[j] # turns + 1
  BY <1>1 DEF SocketInv, SocketTypes
<1>3. Send(k, turns + 1, "error", "open") \/ (Goto(k, "asking") /\ UNCHANGED <<registry, told>>)
  BY DEF ReadMessage
<1>4. RegisteredServed'
  BY <1>1, <1>3, SendRegistered, GotoRegistered DEF SocketInv
<1>5. PICK p \in {"open", "asking", "closed"} :
        /\ sock' = [sock EXCEPT ![k] = p]
        /\ registry' \in [Sessions -> Sockets \cup {NoSocket}]
        /\ told' \in [Turns -> SUBSET {"final", "error"}]
        /\ \A u \in Turns : told[u] \subseteq told'[u]
        /\ p = "open" /\ here[k] => "error" \in told'[turns + 1]
  <2>1. CASE Send(k, turns + 1, "error", "open")
    BY <1>1, <2>1, SendEffect DEF SocketInv
  <2>2. CASE Goto(k, "asking") /\ UNCHANGED <<registry, told>>
    BY <2>2 DEF SocketInv, SocketTypes, Goto
  <2> QED
    BY <1>3, <2>1, <2>2
<1>6. SocketTypes'
  BY <1>1, <1>2, <1>5 DEF SocketInv, SocketTypes, Turns
<1>7. Numbered'
  BY <1>1, <1>2, <1>5 DEF SocketInv, SocketTypes, Numbered
<1>8. Ending'
  BY <1>1, <1>5 DEF SocketInv, SocketTypes, Ending, Turns
<1>9. TurnsAnswered'
  <2> SUFFICES ASSUME NEW j \in Sockets, sock'[j] = "open", here'[j], turn'[j] # 0
               PROVE  told'[turn'[j]] # {} \/ turn'[j] \in unread'
    BY DEF TurnsAnswered, Answered
  <2>1. CASE j = k
    <3>1. turn'[j] = turns + 1 /\ p = "open" /\ here[k]
      BY <1>1, <1>5, <2>1 DEF SocketInv, SocketTypes
    <3> QED
      BY <1>5, <3>1
  <2>2. CASE j # k
    <3>1. sock[j] = "open" /\ here[j] /\ turn[j] # 0 /\ turn'[j] = turn[j] /\ turn[j] \in Turns
      BY <1>1, <1>5, <2>2 DEF SocketInv, SocketTypes, Turns
    <3>2. told[turn[j]] # {} \/ turn[j] \in unread
      BY <3>1 DEF SocketInv, TurnsAnswered, Answered
    <3>3. told[turn[j]] \subseteq told'[turn[j]]
      BY <1>5, <3>1
    <3> QED
      BY <1>1, <3>1, <3>2, <3>3
  <2> QED
    BY <2>1, <2>2
<1> QED
  BY <1>4, <1>6, <1>7, <1>8, <1>9 DEF SocketInv

LEMMA AskAgentStep == ASSUME SocketInv, NEW k \in Sockets, AskAgent(k) PROVE SocketInv'
<1> USE GatewayAssumption
<1>1. /\ turn[k] \in Turns
      /\ sock[k] = "asking" /\ sock' = [sock EXCEPT ![k] = "streaming"]
      /\ agent' = [agent EXCEPT ![turn[k]] = "running"]
      /\ UNCHANGED <<registry, sess, here, turns, turn, stream, told, unread>>
  BY DEF AskAgent, SocketInv, SocketTypes, Goto, Turns
<1>2. RegisteredServed'
  BY <1>1, GotoRegistered DEF SocketInv, AskAgent
<1>3. SocketTypes'
  BY <1>1 DEF SocketInv, SocketTypes
<1>4. Ending'
  BY <1>1 DEF SocketInv, SocketTypes, Ending, Turns
<1>5. Numbered'
  BY <1>1 DEF SocketInv, SocketTypes, Numbered
<1>6. TurnsAnswered'
  <2> SUFFICES ASSUME NEW j \in Sockets, sock'[j] = "open", here'[j], turn'[j] # 0
               PROVE  told'[turn'[j]] # {} \/ turn'[j] \in unread'
    BY DEF TurnsAnswered, Answered
  <2>1. sock[j] = "open" /\ here[j] /\ turn[j] # 0
    BY <1>1 DEF SocketInv, SocketTypes
  <2>2. told[turn[j]] # {} \/ turn[j] \in unread
    BY <2>1 DEF SocketInv, TurnsAnswered, Answered
  <2> QED
    BY <1>1, <2>2
<1> QED
  BY <1>2, <1>3, <1>4, <1>5, <1>6 DEF SocketInv

\* The steps of a turn that has been read, which send something or nothing.
LEMMA TurnStep ==
  ASSUME SocketInv, NEW k \in Sockets, sock[k] \in {"asking", "streaming"},
         NEW p \in {"open", "streaming", "closed"}, sock' = [sock EXCEPT ![k] = p],
         UNCHANGED <<sess, here, turns, turn, agent>>,
         unread \subseteq unread', unread' \subseteq Turns,
         registry' \in [Sessions -> Sockets \cup {NoSocket}],
         stream' \in [Turns -> Seq(Chunks)],
         \A u \in Turns \ {turn[k]} : stream'[u] = stream[u],
         told' \in [Turns -> SUBSET {"final", "error"}],
         \A u \in Turns : told[u] \subseteq told'[u],
         RegisteredServed',
         p = "open" /\ here[k] => told'[turn[k]] # {} \/ turn[k] \in unread',
         p = "streaming" => Ending'
  PROVE  SocketInv'
<1> USE GatewayAssumption
<1>1. /\ turn[k] \in Turns
      /\ \A j \in Sockets : turn[j] = turn[k] => j = k
  BY DEF SocketInv, SocketTypes, Numbered, Turns
<1>2. SocketTypes'
  BY <1>1 DEF SocketInv, SocketTypes
<1>3. Numbered'
  BY DEF SocketInv, SocketTypes, Numbered
<1>4. Ending'
  <2>1. CASE p = "streaming"
    BY <2>1
  <2>2. CASE p # "streaming"
    <3> SUFFICES ASSUME NEW j \in Sockets, sock'[j] = "streaming",
                        agent'[turn'[j]] \in {"closing", "finished"}
                 PROVE  \/ "final" \in told'[turn'[j]] \/ turn'[j] \in unread'
                        \/ \E i \in DOMAIN stream'[turn'[j]] : stream'[turn'[j]][i] = "final"
      BY DEF Ending
    <3>1. sock[j] = "streaming" /\ j # k /\ turn'[j] = turn[j]
      BY <2>2 DEF SocketInv, SocketTypes
    <3>2. turn[j] \in Turns \ {turn[k]}
      BY <1>1, <3>1 DEF SocketInv, SocketTypes, Turns
    <3>3. /\ agent[turn[j]] \in {"closing", "finished"}
          /\ stream'[turn[j]] = stream[turn[j]] /\ told[turn[j]] \subseteq told'[turn[j]]
      BY <3>1, <3>2
    <3> QED
      BY <3>1, <3>3 DEF SocketInv, Ending
  <2> QED
    BY <2>1, <2>2
<1>5. TurnsAnswered'
  BY <1>1 DEF SocketInv, SocketTypes, TurnsAnswered, Answered, Turns
<1> QED
  BY <1>2, <1>3, <1>4, <1>5 DEF SocketInv

LEMMA AskInVainStep == ASSUME SocketInv, NEW k \in Sockets, AskInVain(k) PROVE SocketInv'
<1> USE GatewayAssumption
<1>1. /\ turn[k] \in Turns /\ sock[k] = "asking"
      /\ Send(k, turn[k], "error", "open")
      /\ UNCHANGED <<sess, here, turns, turn, agent, stream, unread>>
  BY DEF AskInVain, SocketInv, SocketTypes, Turns, agentVars
<1>2. RegisteredServed'
  BY <1>1, SendRegistered DEF SocketInv
<1> DEFINE p == IF here[k] THEN "open" ELSE "closed"
<1>3. /\ sock' = [sock EXCEPT ![k] = p]
      /\ registry' \in [Sessions -> Sockets \cup {NoSocket}]
      /\ told' \in [Turns -> SUBSET {"final", "error"}]
      /\ \A u \in Turns : told[u] \subseteq told'[u]
      /\ here[k] => "error" \in told'[turn[k]]
  BY <1>1, SendEffect DEF SocketInv
<1>4. stream' \in [Turns -> Seq(Chunks)] /\ unread' = unread /\ unread \subseteq Turns
  BY <1>1 DEF SocketInv, SocketTypes
<1>5. p \in {"open", "closed"}
  OBVIOUS
<1> HIDE DEF p
<1> QED
  BY <1>1, <1>2, <1>3, <1>4, <1>5, TurnStep

\* What is left of a stream: its last chunk has been passed on, or is left.
LEMMA TailKeepsFinal ==
  ASSUME NEW q \in Seq(Chunks), q # <<>>, Head(q) # "final",
         \E i \in DOMAIN q : q[i] = "final"
  PROVE  \E i \in DOMAIN Tail(q) : Tail(q)[i] = "final"
<1>1. PICK i \in 1..Len(q) : q[i] = "final"
  OBVIOUS
<1>2. i # 1 /\ Len(q) \in Nat \ {0}
  BY <1>1
<1>3. i - 1 \in DOMAIN Tail(q) /\ Tail(q)[i - 1] = "final"
  BY <1>1, <1>2
<1> DEFINE m == i - 1
<1>4. m \in DOMAIN Tail(q) /\ Tail(q)[m] = "final"
  BY <1>3
<1> HIDE DEF m
<1> QED
  BY <1>4

LEMMA ForwardStep == ASSUME SocketInv, NEW k \in Sockets, Forward(k) PROVE SocketInv'
<1> USE GatewayAssumption
<1> DEFINE t == turn[k]
           p == IF here[k] THEN "streaming" ELSE "closed"
<1>1. /\ t \in Turns /\ sock[k] = "streaming" /\ stream[t] # <<>> /\ stream[t] \in Seq(Chunks)
      /\ Send(k, t, Head(stream[t]), "streaming")
      /\ stream' = [stream EXCEPT ![t] = IF here[k] THEN Tail(@) ELSE <<>>]
      /\ UNCHANGED <<sess, here, turns, turn, agent, unread>>
  BY DEF Forward, SocketInv, SocketTypes, Turns
<1>2. Head(stream[t]) \in {"part", "final"}
  BY <1>1 DEF Chunks
<1>3. RegisteredServed'
  BY <1>1, SendRegistered DEF SocketInv
<1>4. /\ sock' = [sock EXCEPT ![k] = p]
      /\ registry' \in [Sessions -> Sockets \cup {NoSocket}]
      /\ told' \in [Turns -> SUBSET {"final", "error"}]
      /\ \A u \in Turns : told[u] \subseteq told'[u]
      /\ here[k] /\ Head(stream[t]) # "part" => Head(stream[t]) \in told'[t]
  BY <1>1, <1>2, SendEffect DEF SocketInv
<1>5. /\ stream' \in [Turns -> Seq(Chunks)]
      /\ \A u \in Turns \ {t} : stream'[u] = stream[u]
      /\ here[k] => stream'[t] = Tail(stream[t])
      /\ unread' = unread /\ unread \subseteq Turns
  BY <1>1 DEF SocketInv, SocketTypes
<1>6. p \in {"streaming", "closed"} /\ (p = "streaming" => here[k])
  OBVIOUS
<1>7. ASSUME p = "streaming" PROVE Ending'
  <2> SUFFICES ASSUME NEW j \in Sockets, sock'[j] = "streaming",
                      agent'[turn'[j]] \in {"closing", "finished"}
               PROVE  \/ "final" \in told'[turn'[j]] \/ turn'[j] \in unread'
                      \/ \E i \in DOMAIN stream'[turn'[j]] : stream'[turn'[j]][i] = "final"
    BY DEF Ending
  <2>1. /\ sock[j] = "streaming" /\ turn'[j] = turn[j] /\ turn[j] \in Turns
        /\ agent[turn[j]] \in {"closing", "finished"}
    BY <1>1, <1>4, <1>6, <1>7 DEF SocketInv, SocketTypes, Turns
  <2>2. \/ "final" \in told[turn[j]] \/ turn[j] \in unread
        \/ \E i \in DOMAIN stream[turn[j]] : stream[turn[j]][i] = "final"
    BY <2>1 DEF SocketInv, Ending
  <2>3. told[turn[j]] \subseteq told'[turn[j]]
    BY <1>4, <2>1
  <2> HIDE DEF t
  <2>4. CASE turn[j] = t
    <3>1. CASE Head(stream[t]) = "final"
      BY <1>4, <1>6, <1>7, <2>1, <2>4, <3>1
    <3>2. CASE Head(stream[t]) # "final"
      BY <1>1, <1>5, <1>6, <1>7, <2>1, <2>2, <2>3, <2>4, <3>2, TailKeepsFinal
    <3> QED
      BY <3>1, <3>2
  <2>5. CASE turn[j] # t
    BY <1>5, <2>1, <2>2, <2>3, <2>5
  <2> QED
    BY <2>4, <2>5
<1> HIDE DEF p
<1> QED
  BY <1>1, <1>3, <1>4, <1>5, <1>6, <1>7, TurnStep

LEMMA SkipLineStep == ASSUME SocketInv, NEW k \in Sockets, SkipLine(k) PROVE SocketInv'
<1> USE GatewayAssumption
<1> DEFINE t == turn[k]
<1>1. /\ t \in Turns /\ sock[k] = "streaming" /\ stream[t] # <<>> /\ stream[t] \in Seq(Chunks)
      /\ stream' = [stream EXCEPT ![t] = Tail(@)]
      /\ unread' = IF Head(stream[t]) = "final" THEN unread \cup {t} ELSE unread
      /\ UNCHANGED <<registry, sock, sess, here, turns, turn, agent, told>>
  BY DEF SkipLine, SocketInv, SocketTypes, Turns, socketVars
<1>2. RegisteredServed'
  BY <1>1 DEF SocketInv, RegisteredServed
<1>3. /\ stream' \in [Turns -> Seq(Chunks)]
      /\ \A u \in Turns \ {t} : stream'[u] = stream[u]
      /\ stream'[t] = Tail(stream[t])
      /\ unread \subseteq unread' /\ unread' \subseteq Turns
      /\ Head(stream[t]) = "final" => t \in unread'
  BY <1>1 DEF SocketInv, SocketTypes
<1>4. Ending'
  <2> SUFFICES ASSUME NEW j \in Sockets, sock[j] = "streaming",
                      agent[turn[j]] \in {"closing", "finished"}
               PROVE  \/ "final" \in told[turn[j]] \/ turn[j] \in unread'
                      \/ \E i \in DOMAIN stream'[turn[j]] : stream'[turn[j]][i] = "final"
    BY <1>1 DEF Ending
  <2>1. turn[j] \in Turns
    BY DEF SocketInv, SocketTypes, Turns
  <2>2. \/ "final" \in told[turn[j]] \/ turn[j] \in unread
        \/ \E i \in DOMAIN stream[turn[j]] : stream[turn[j]][i] = "final"
    BY DEF SocketInv, Ending
  <2> HIDE DEF t
  <2>3. CASE turn[j] # t
    BY <1>3, <2>1, <2>2, <2>3
  <2>4. CASE turn[j] = t /\ Head(stream[t]) = "final"
    BY <1>3, <2>4
  <2>5. CASE turn[j] = t /\ Head(stream[t]) # "final"
    BY <1>1, <1>3, <2>2, <2>5, TailKeepsFinal
  <2> QED
    BY <2>3, <2>4, <2>5
<1>5. SocketTypes' /\ Numbered'
  BY <1>1, <1>3 DEF SocketInv, SocketTypes, Numbered
<1>6. TurnsAnswered'
  BY <1>1, <1>3 DEF SocketInv, TurnsAnswered, Answered
<1> QED
  BY <1>2, <1>4, <1>5, <1>6 DEF SocketInv

LEMMA EndOfStreamStep == ASSUME SocketInv, NEW k \in Sockets, EndOfStream(k) PROVE SocketInv'
<1> USE GatewayAssumption
<1>1. /\ turn[k] \in Turns /\ sock[k] = "streaming"
      /\ stream[turn[k]] = <<>> /\ agent[turn[k]] = "finished"
      /\ Goto(k, "open")
      /\ UNCHANGED <<registry, sess, here, turns, turn, agent, stream, told, unread>>
  BY DEF EndOfStream, SocketInv, SocketTypes, Turns, agentVars
<1>2. RegisteredServed'
  BY <1>1, GotoRegistered DEF SocketInv
<1>3. told[turn[k]] # {} \/ turn[k] \in unread
  BY <1>1 DEF SocketInv, Ending
<1>4. /\ sock' = [sock EXCEPT ![k] = "open"]
      /\ registry' \in [Sessions -> Sockets \cup {NoSocket}]
      /\ stream' \in [Turns -> Seq(Chunks)] /\ told' \in [Turns -> SUBSET {"final", "error"}]
      /\ unread' \subseteq Turns
  BY <1>1 DEF SocketInv, SocketTypes, Goto
<1> QED
  BY <1>1, <1>2, <1>3, <1>4, TurnStep

LEMMA GiveUpStep == ASSUME SocketInv, NEW k \in Sockets, GiveUp(k) PROVE SocketInv'
<1> USE GatewayAssumption
<1> DEFINE p == IF here[k] THEN "open" ELSE "closed"
<1>1. /\ turn[k] \in Turns /\ sock[k] = "streaming"
      /\ Send(k, turn[k], "error", "open")
      /\ stream' = [stream EXCEPT ![turn[k]] = <<>>]
      /\ UNCHANGED <<sess, here, turns, turn, agent, unread>>
  <2>1. sock[k] = "streaming"
    BY DEF GiveUp
  <2>2. turn[k] \in Turns
    BY <2>1 DEF SocketInv, SocketTypes, Turns
  <2> QED
    BY <2>1, <2>2 DEF GiveUp, Drop
<1>2. RegisteredServed'
  BY <1>1, SendRegistered DEF SocketInv
<1>3. /\ sock' = [sock EXCEPT ![k] = p]
      /\ registry' \in [Sessions -> Sockets \cup {NoSocket}]
      /\ told' \in [Turns -> SUBSET {"final", "error"}]
      /\ \A u \in Turns : told[u] \subseteq told'[u]
      /\ here[k] => "error" \in told'[turn[k]]
  BY <1>1, SendEffect DEF SocketInv
<1>4. /\ stream' \in [Turns -> Seq(Chunks)]
      /\ \A u \in Turns \ {turn[k]} : stream'[u] = stream[u]
      /\ unread' = unread /\ unread \subseteq Turns
  BY <1>1 DEF SocketInv, SocketTypes
<1>5. p \in {"open", "closed"}
  OBVIOUS
<1> HIDE DEF p
<1> QED
  BY <1>1, <1>2, <1>3, <1>4, <1>5, TurnStep

\* agent-runtime adds to the stream of a turn, or ends, or dies.
LEMMA RunAgentStep == ASSUME SocketInv, NEW t \in Turns, RunAgent(t) PROVE SocketInv'
<1>1. /\ UNCHANGED <<registry, sock, sess, here, turns, turn, told, unread>>
      /\ agent' \in [Turns -> {"none", "running", "closing", "finished", "gone"}]
      /\ stream' \in [Turns -> Seq(Chunks)]
  <2>1. CASE AgentSends(t)
    <3>1. \A chunk \in Chunks : Append(stream[t], chunk) \in Seq(Chunks)
      BY DEF SocketInv, SocketTypes
    <3> QED
      BY <2>1, <3>1 DEF AgentSends, SocketInv, SocketTypes, socketVars
  <2>2. CASE AgentEnds(t)
    BY <2>2 DEF AgentEnds, SocketInv, SocketTypes, socketVars
  <2>3. CASE AgentDies(t)
    BY <2>3 DEF AgentDies, SocketInv, SocketTypes, socketVars
  <2> QED
    BY <2>1, <2>2, <2>3 DEF RunAgent
<1>2. SocketTypes' /\ RegisteredServed' /\ Numbered' /\ TurnsAnswered'
  BY <1>1 DEF SocketInv, SocketTypes, RegisteredServed, Numbered, TurnsAnswered, Answered
<1>3. Ending'
  <2> SUFFICES ASSUME NEW j \in Sockets, sock[j] = "streaming",
                      agent'[turn[j]] \in {"closing", "finished"}
               PROVE  \/ "final" \in told[turn[j]] \/ turn[j] \in unread
                      \/ \E i \in DOMAIN stream'[turn[j]] : stream'[turn[j]][i] = "final"
    BY <1>1 DEF Ending
  <2> DEFINE q == stream[turn[j]]
             Sent(s) == \E i \in DOMAIN s : s[i] = "final"
  <2>1. turn[j] \in Turns /\ q \in Seq(Chunks)
    BY GatewayAssumption DEF SocketInv, SocketTypes, Turns
  <2>2. agent[turn[j]] \in {"closing", "finished"} =>
          "final" \in told[turn[j]] \/ turn[j] \in unread \/ Sent(q)
    BY DEF SocketInv, Ending
  <2>3. CASE turn[j] # t
    BY <2>1, <2>2, <2>3
    DEF RunAgent, AgentSends, AgentEnds, AgentDies, SocketInv, SocketTypes
  <2>4. CASE turn[j] = t /\ AgentSends(t)
    <3>1. PICK chunk \in Chunks :
            /\ stream' = [stream EXCEPT ![t] = Append(@, chunk)]
            /\ agent' = [agent EXCEPT ![t] = IF chunk = "final" THEN "closing" ELSE @]
            /\ agent[t] = "running"
      BY <2>4 DEF AgentSends
    <3>2. chunk = "final" /\ stream'[turn[j]] = Append(q, "final")
      BY <2>1, <2>4, <3>1 DEF SocketInv, SocketTypes
    <3>3. Append(q, "final")[Len(q) + 1] = "final" /\ Len(q) + 1 \in DOMAIN Append(q, "final")
      BY <2>1, <3>1, <3>2
    <3> QED
      BY <3>2, <3>3
  <2>5. CASE turn[j] = t /\ (AgentEnds(t) \/ AgentDies(t))
    <3>1. stream' = stream /\ agent[t] = "closing"
      BY <2>1, <2>5 DEF AgentEnds, AgentDies, SocketInv, SocketTypes
    <3> QED
      BY <2>2, <2>5, <3>1
  <2> QED
    BY <2>3, <2>4, <2>5 DEF RunAgent
<1> QED
  BY <1>2, <1>3 DEF SocketInv

LEMMA QuietSockets == ASSUME SocketInv, UNCHANGED gatewayVars PROVE SocketInv'
  BY DEF SocketInv, SocketTypes, RegisteredServed, Numbered, Ending, TurnsAnswered, Answered,
         gatewayVars, socketVars, agentVars

LEMMA NextSockets == ASSUME SocketInv, [Next]_vars PROVE SocketInv'
<1>1. ASSUME NEW k \in Sockets, RunSocket(k) PROVE SocketInv'
  BY <1>1, ConnectStep, ClientLeavesStep, ReadNothingStep, ReadMessageStep, AskAgentStep,
     AskInVainStep, ForwardStep, SkipLineStep, EndOfStreamStep, GiveUpStep DEF RunSocket
<1>2. ASSUME NEW c \in Checks, CheckToken(c) \/ Serve(c) \/ ServeWithoutKeys(c)
      PROVE  UNCHANGED gatewayVars
  BY <1>2 DEF CheckToken, Serve, ServeWithoutKeys
<1> QED
  BY <1>1, <1>2, RunAgentStep, QuietSockets DEF Next, vars, RunAuth

-----------------------------------------------------------------------------
(***************************************************************************)
(* The theorems.                                                           *)
(***************************************************************************)
GatewayInv == KeyInv /\ SocketInv

LEMMA GatewayInvariant == Spec => []GatewayInv
<1>1. Init => GatewayInv
  BY InitKeys, InitSockets DEF Init, GatewayInv
<1>2. GatewayInv /\ [Next]_vars => GatewayInv'
  BY NextKeys, NextSockets DEF GatewayInv
<1> QED
  BY <1>1, <1>2, PTL DEF Spec

\* Every variable keeps its type: no counter of turns or time runs out of its
\* bound, and a check that goes on always has a key set.
THEOREM TypeCorrect == Spec => []TypeOK
<1>1. GatewayInv => TypeOK
  BY DEF GatewayInv, KeyInv, SocketInv, SocketTypes, TypeOK
<1> QED
  BY <1>1, GatewayInvariant, PTL

\* Tokens are checked against keys that were in force less than a lifetime, or the
\* time of a fetch, before the check began, for any number of overlapping fetches and
\* any order in which they store, close and use (JWTAuthMiddleware.get_jwks), unless
\* the check's own fetch failed.
THEOREM KeysAreFresh == Spec => []KeysFresh
<1>1. GatewayInv => KeysFresh
  BY DEF GatewayInv, KeyInv
<1> QED
  BY <1>1, GatewayInvariant, PTL

\* The session manager names only sockets of the session whose handler runs, for
\* any number of sockets of a session that overlap.
THEOREM RegisteredAreServed == Spec => []RegisteredServed
<1>1. GatewayInv => RegisteredServed
  BY DEF GatewayInv, SocketInv
<1> QED
  BY <1>1, GatewayInvariant, PTL

\* Before the WebSocket handler reads the next message, the client was told how
\* the last one ended, whatever agent-runtime and its stream did, unless the agent's
\* last chunk came in a line that the gateway could not read.
THEOREM TurnsAreAnswered == Spec => []TurnsAnswered
<1>1. GatewayInv => TurnsAnswered
  BY DEF GatewayInv, SocketInv
<1> QED
  BY <1>1, GatewayInvariant, PTL
=============================================================================
