-------------------------------- MODULE Gateway --------------------------------
(***************************************************************************)
(* The gateway: REST calls, authenticated and passed on to agent-runtime,  *)
(* and WebSockets, each with a handler that reads a message, streams the   *)
(* agent's answer to the client and reads the next one.                    *)
(*                                                                         *)
(* A turn is a message a socket has read.  What agent-runtime does for it  *)
(* is module MessageOrchestration; here it sends parts, then its last      *)
(* chunk, then ends the stream, or it dies.  What it has sent and the      *)
(* gateway not read is in flight.                                          *)
(***************************************************************************)
EXTENDS KeyCache, Sequences

CONSTANTS
  Sockets, Sessions, NoSocket,
  MaxTurns,       \* bound: messages of all sockets
  MaxInFlight     \* bound: chunks of a turn

ASSUME GatewayAssumption ==
  /\ NoSocket \notin Sockets
  /\ MaxTurns \in Nat /\ MaxInFlight \in Nat \ {0}

VARIABLES
  registry,  \* _active_websockets
  sock,      \* where a socket's handler is
  sess,      \* the session in its path
  here,      \* its client is connected
  turns,     \* how many messages were read
  turn,      \* the message a handler has read last
  agent,     \* agent-runtime's work for a turn
  stream,    \* its chunks in flight
  told,      \* how the client was told that a turn has ended
  unread     \* history: the turns whose last chunk the gateway could not read

socketVars == <<registry, sock, sess, here, turns, turn>>
agentVars == <<agent, stream>>
gatewayVars == <<socketVars, agentVars, told, unread>>
vars == <<authVars, gatewayVars>>

Turns == 1..MaxTurns
Chunks == {"part", "final"}

TypeOK ==
  /\ KeyCacheTypeOK
  /\ registry \in [Sessions -> Sockets \cup {NoSocket}]
  /\ sock \in [Sockets -> {"new", "open", "asking", "streaming", "closed"}]
  /\ sess \in [Sockets -> Sessions]
  /\ here \in [Sockets -> BOOLEAN]
  /\ turns \in 0..MaxTurns
  /\ turn \in [Sockets -> 0..turns]
  /\ \A k \in Sockets : sock[k] \in {"asking", "streaming"} => turn[k] # 0
  /\ agent \in [Turns -> {"none", "running", "closing", "finished", "gone"}]
  /\ stream \in [Turns -> Seq(Chunks)]
  /\ told \in [Turns -> SUBSET {"final", "error"}]
  /\ unread \subseteq Turns

Init ==
  /\ InitKeyCache
  /\ registry = [s \in Sessions |-> NoSocket]
  /\ sock = [k \in Sockets |-> "new"]
  /\ sess \in [Sockets -> Sessions]
  /\ here = [k \in Sockets |-> FALSE]
  /\ turns = 0
  /\ turn = [k \in Sockets |-> 0]
  /\ agent = [t \in Turns |-> "none"]
  /\ stream = [t \in Turns |-> <<>>]
  /\ told = [t \in Turns |-> {}]
  /\ unread = {}

-----------------------------------------------------------------------------
(***************************************************************************)
(* REST                                                                    *)
(***************************************************************************)
CheckToken(c) ==
  /\ Authenticate(c)
  /\ UNCHANGED gatewayVars

\* HybridAuthMiddleware (no bearer token, but perhaps the internal key) and
\* JWTAuthMiddleware.dispatch, once it has the keys: the call goes on, and what
\* agent-runtime answers is the answer, or it is refused (401).
Serve(c) ==
  /\ check[c] \in {"new", "fetched", "stale"}
  /\ Finish(c)
  /\ UNCHANGED gatewayVars

\* No keys: 500.
ServeWithoutKeys(c) ==
  /\ check[c] = "refused"
  /\ Finish(c)
  /\ UNCHANGED gatewayVars

-----------------------------------------------------------------------------
(***************************************************************************)
(* WebSockets                                                              *)
(***************************************************************************)
Goto(k, p) == sock' = [sock EXCEPT ![k] = p]

\* The handler ends: the session's entry goes, whichever socket it names.
Close(k) ==
  /\ registry' = [registry EXCEPT ![sess[k]] = NoSocket]
  /\ Goto(k, "closed")

\* send_json; it raises when the client has left, which ends the handler.
Send_quiet(k, t, what, p) ==  \* mutant: the handler ends without its clean-up
  IF here[k]
  THEN /\ told' = [told EXCEPT ![t] = @ \cup ({what} \ {"part"})]
       /\ Goto(k, p)
       /\ UNCHANGED registry
  ELSE Goto(k, "closed") /\ UNCHANGED <<told, registry>>
Send(k, t, what, p) ==
  IF here[k]
  THEN /\ told' = [told EXCEPT ![t] = @ \cup ({what} \ {"part"})]
       /\ Goto(k, p)
       /\ UNCHANGED registry
  ELSE Close(k) /\ UNCHANGED told

\* The gateway's end of a turn's stream is closed.
Drop(t) == stream' = [stream EXCEPT ![t] = <<>>]

Connect(k) ==
  /\ sock[k] = "new"
  /\ Goto(k, "open")
  /\ here' = [here EXCEPT ![k] = TRUE]
  /\ registry' = [registry EXCEPT ![sess[k]] = k]
  /\ UNCHANGED <<authVars, sess, turns, turn, agentVars, told, unread>>

\* Environment.
ClientLeaves(k) ==
  /\ here[k]
  /\ here' = [here EXCEPT ![k] = FALSE]
  /\ UNCHANGED <<authVars, registry, sock, sess, turns, turn, agentVars, told, unread>>

\* receive_text raises: WebSocketDisconnect, or an error on a binary frame.
ReadNothing(k) ==
  /\ sock[k] = "open"
  /\ Close(k)
  /\ UNCHANGED <<authVars, sess, here, turns, turn, agentVars, told, unread>>

\* receive_text returns a message (of a client that may have left since), which
\* is refused with an error or goes to the agent.
ReadMessage(k) ==
  /\ sock[k] = "open"
  /\ turns < MaxTurns
  /\ turns' = turns + 1
  /\ turn' = [turn EXCEPT ![k] = turns + 1]
  /\ \/ Send(k, turns + 1, "error", "open")
     \/ Goto(k, "asking") /\ UNCHANGED <<registry, told>>
  /\ UNCHANGED <<authVars, sess, here, agentVars, unread>>

\* POST /agent/message/stream: agent-runtime starts to stream...
AskAgent(k) ==
  /\ sock[k] = "asking"
  /\ agent' = [agent EXCEPT ![turn[k]] = "running"]
  /\ Goto(k, "streaming")
  /\ UNCHANGED <<authVars, registry, sess, here, turns, turn, stream, told, unread>>

\* ...or refuses (an unknown type, its rate limit), or does not answer in time.
AskInVain(k) ==
  /\ sock[k] = "asking"
  /\ Send(k, turn[k], "error", "open")
  /\ UNCHANGED <<authVars, sess, here, turns, turn, agentVars, unread>>

\* The next line; when it cannot be sent on, nor the error that says so, the
\* handler ends.
Forward(k) ==
  LET t == turn[k]
  IN  /\ sock[k] = "streaming"
      /\ stream[t] # <<>>
      /\ Send(k, t, Head(stream[t]), "streaming")
      /\ stream' = [stream EXCEPT ![t] = IF here[k] THEN Tail(@) ELSE <<>>]
      /\ UNCHANGED <<authVars, sess, here, turns, turn, agent, unread>>

\* A data line that does not parse is left out: the client of httpx also splits a
\* line at a U+2028, U+2029 or U+0085 of its text.
SkipLine(k) ==
  LET t == turn[k]
  IN  /\ sock[k] = "streaming"
      /\ stream[t] # <<>>
      /\ stream' = [stream EXCEPT ![t] = Tail(@)]
      /\ unread' = IF Head(stream[t]) = "final" THEN unread \cup {t} ELSE unread
      /\ UNCHANGED <<authVars, socketVars, agent, told>>

EndOfStream_any(k) ==  \* mutant: a connection that breaks ends the stream as well
  /\ sock[k] = "streaming"
  /\ stream[turn[k]] = <<>> /\ agent[turn[k]] \in {"finished", "gone"}
  /\ Goto(k, "open")
  /\ UNCHANGED <<authVars, registry, sess, here, turns, turn, agentVars, told, unread>>
EndOfStream(k) ==
  /\ sock[k] = "streaming"
  /\ stream[turn[k]] = <<>> /\ agent[turn[k]] = "finished"
  /\ Goto(k, "open")
  /\ UNCHANGED <<authVars, registry, sess, here, turns, turn, agentVars, told, unread>>

\* No line within AGENT_STREAM_TIMEOUT, or the connection broke.  agent-runtime may
\* still be at work.
GiveUp(k) ==
  LET t == turn[k]
  IN  /\ sock[k] = "streaming"
      /\ \/ agent[t] \in {"running", "closing"} /\ stream[t] = <<>>
         \/ agent[t] = "gone"
      /\ Send(k, t, "error", "open")
      /\ Drop(t)
      /\ UNCHANGED <<authVars, sess, here, turns, turn, agent, unread>>

-----------------------------------------------------------------------------
(***************************************************************************)
(* agent-runtime                                                           *)
(***************************************************************************)
\* (What it does for a turn that was given up shows nowhere here.)
Listening(t) == \E k \in Sockets : sock[k] = "streaming" /\ turn[k] = t

AgentSends(t) ==
  /\ agent[t] = "running" /\ Listening(t)
  /\ Len(stream[t]) < MaxInFlight
  /\ \E chunk \in Chunks :
        /\ stream' = [stream EXCEPT ![t] = Append(@, chunk)]
        /\ agent' = [agent EXCEPT ![t] = IF chunk = "final" THEN "closing" ELSE @]
  /\ UNCHANGED <<authVars, socketVars, told, unread>>

\* The generator returns; a database transaction is committed before the stream
\* ends, if at all.
AgentEnds(t) ==
  /\ agent[t] = "closing" /\ Listening(t)
  /\ agent' = [agent EXCEPT ![t] = "finished"]
  /\ UNCHANGED <<authVars, socketVars, stream, told, unread>>

\* agent-runtime crashes.
AgentDies(t) ==
  /\ agent[t] \in {"running", "closing"} /\ Listening(t)
  /\ agent' = [agent EXCEPT ![t] = "gone"]
  /\ UNCHANGED <<authVars, socketVars, stream, told, unread>>

-----------------------------------------------------------------------------
RunAuth == (NewKeys \/ Tick) /\ UNCHANGED gatewayVars
RunSocket(k) ==
  \/ Connect(k) \/ ClientLeaves(k) \/ ReadNothing(k) \/ ReadMessage(k)
  \/ AskAgent(k) \/ AskInVain(k) \/ Forward(k) \/ SkipLine(k) \/ EndOfStream(k) \/ GiveUp(k)
RunAgent(t) == AgentSends(t) \/ AgentEnds(t) \/ AgentDies(t)

Next ==
  \/ RunAuth
  \/ \E c \in Checks : CheckToken(c) \/ Serve(c) \/ ServeWithoutKeys(c)
  \/ \E k \in Sockets : RunSocket(k)
  \/ \E t \in Turns : RunAgent(t)

Spec == Init /\ [][Next]_vars
-----------------------------------------------------------------------------
\* An entry of the session manager names a socket of that session whose handler is
\* running, although sockets of a session overlap, a newer one takes the entry over
\* and any one's end takes it away: nothing is ever handed a dead socket.
RegisteredServed ==
  \A s \in Sessions :
     registry[s] # NoSocket =>
       sess[registry[s]] = s /\ sock[registry[s]] \notin {"new", "closed"}

\* A client is told how each of its messages ended, by the agent's last chunk or by
\* an error, before the handler reads the next one, whatever happens to the stream:
\* time-outs, refusals, a crash of agent-runtime in the middle.  Only a last chunk
\* that the gateway could not read is passed over in silence.
Answered(t) == told[t] # {}
TurnsAnswered ==
  \A k \in Sockets :
     sock[k] = "open" /\ here[k] /\ turn[k] # 0 => Answered(turn[k]) \/ turn[k] \in unread
=============================================================================
