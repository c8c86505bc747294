------------------------- MODULE MessageOrchestration -------------------------
(***************************************************************************)
(* How agent-runtime handles the requests of its clients: the message      *)
(* stream endpoint (a user message, a tool result, a human decision or an  *)
(* agent switch, each under the lock of its session) and the REST agent    *)
(* switch, which takes no lock.  Each request has one database             *)
(* transaction, committed by get_db after the lock has been released.      *)
(*                                                                         *)
(* The database is SQLite, the default: a SELECT outside a write           *)
(* transaction sees the last commit; the first write of a request takes    *)
(* the only write lock, held until its commit or rollback.  An operation   *)
(* therefore reads first (Load) and writes later (seen), unless its        *)
(* request is already the writer, when both happen on its own image        *)
(* (work).  The steps between two awaits are atomic.                       *)
(***************************************************************************)
EXTENDS Naturals, Sequences, FiniteSets, SequencesExt, SessionMutex

CONSTANTS
  Calls,          \* ids of tool calls the model provider may issue
  Guarded,        \* the calls whose tool needs a human approval
  Agents,         \* the values of AgentType
  Orchestrator, Universal,
  Registered,     \* the agents initialize_agents registers
  Switchers,      \* the agents that offer the switch_mode tool
  MaxMessages,    \* Session.max_messages (1000)
  MaxSwitches,    \* AgentContext.max_switches (50)
  HitlModels,     \* TRUE iff app.models.hitl_models can be imported
  Failures,       \* the failures considered: a subset of FailureKinds
  NoAgent, NoCall, NoJob, NoImage, NoContext

FailureKinds == {"crash", "disconnect", "timeout"}

ASSUME MessageOrchestrationAssumption ==
  /\ Guarded \subseteq Calls
  /\ {Orchestrator, Universal} \subseteq Agents
  /\ Registered \subseteq Agents /\ Orchestrator \in Registered
  /\ Switchers \subseteq Agents
  /\ MaxMessages \in Nat /\ MaxSwitches \in Nat
  /\ HitlModels \in BOOLEAN
  /\ Failures \subseteq FailureKinds
  /\ NoAgent \notin Agents /\ NoCall \notin Calls

VARIABLES
  db,         \* the committed image of the database
  writer,     \* the request that holds the database's write lock
  work,       \* its uncommitted image
  seen,       \* seen[r]: what r's next operation has read
  phase,      \* where request r is
  job,        \* what r was asked to do
  hop,        \* which agent run of r this is: "route", "first", "second"
  actor,      \* the current agent in r's copy of the context
  told,       \* the last answer of the language model to r
  outcome,    \* how r ended
  issued,     \* <<s, c>>: the provider has used call id c in session s
  delivered,  \* <<s, c>>: call c was sent to the client of session s
  overtaken,  \* history: the sessions in which a turn began before the one it
              \* follows was committed
  forgotten   \* history: the delivered calls that the database had not when the
              \* process died

dbVars == <<db, writer, work, seen>>
localVars == <<job, hop, actor, told>>
historyVars == <<overtaken, forgotten>>
clientVars == <<issued, delivered, historyVars>>
vars == <<mutexVars, dbVars, phase, outcome, localVars, clientVars>>

-----------------------------------------------------------------------------
(***************************************************************************)
(* Data                                                                    *)
(***************************************************************************)
\* A message: a user's text, an assistant's text, an assistant's tool call, its
\* call of switch_mode, or a tool result.  ref is the request or the call id.
Entries ==
  [kind : {"user", "text"}, ref : Requests] \cup
  [kind : {"call", "switch", "result"}, ref : Calls]

Entry(k, x) == [kind |-> k, ref |-> x]

Switches == [from : Agents, to : Agents]
Contexts == [agent : Agents, count : Nat, hist : Seq(Switches)]
Statuses == {"none", "pending", "approved", "rejected"}

Images ==
  [msgs : [Sessions -> Seq(Entries)],
   ctx  : [Sessions -> Contexts \cup {NoContext}],
   appr : [Calls -> Statuses]]

Kinds == {"user", "tool", "hitl", "switch", "rest"}

\* agent: the agent_type of a user message (or NoAgent), the target of a
\* switch; call and verdict: those of a tool result or a decision.
Jobs ==
  [kind : Kinds, sess : Sessions, call : Calls \cup {NoCall},
   agent : Agents \cup {NoAgent}, verdict : {"approved", "rejected"}]

Answers ==
  [kind : {"none", "text", "call", "forbidden", "switch"}, call : Calls \cup {NoCall},
   agent : Agents \cup {NoAgent}]

Silence == [kind |-> "none", call |-> NoCall, agent |-> NoAgent]

\* Phases in which r is about to use the database.
DbPhases == {"add", "decide", "result", "context", "explicit", "answer", "handover",
             "pend", "record"}
Active == DbPhases \cup {"agent", "leave"}
Phases == {"new", "queued", "commit", "done", "lost"} \cup Active

TypeOK ==
  /\ MutexTypeOK
  /\ db \in Images
  /\ writer \in Requests \cup {NoRequest}
  /\ writer # NoRequest => work \in Images
  /\ seen \in [Requests -> Images \cup {NoImage}]
  /\ phase \in [Requests -> Phases]
  /\ job \in [Requests -> Jobs \cup {NoJob}]
  /\ \A r \in Requests : phase[r] # "new" => job[r] \in Jobs
  /\ hop \in [Requests -> {"route", "first", "second"}]
  /\ actor \in [Requests -> Agents]
  /\ told \in [Requests -> Answers]
  /\ outcome \in [Requests -> {"none", "ok", "error", "aborted"}]
  /\ issued \subseteq Sessions \X Calls
  /\ delivered \subseteq Sessions \X Calls
  /\ overtaken \subseteq Sessions
  /\ forgotten \subseteq Sessions \X Calls

Init ==
  /\ MutexInit
  /\ db = [msgs |-> [s \in Sessions |-> <<>>],
           ctx  |-> [s \in Sessions |-> NoContext],
           appr |-> [c \in Calls |-> "none"]]
  /\ writer = NoRequest
  /\ work = NoImage
  /\ seen = [r \in Requests |-> NoImage]
  /\ phase = [r \in Requests |-> "new"]
  /\ job = [r \in Requests |-> NoJob]
  /\ hop = [r \in Requests |-> "first"]
  /\ actor = [r \in Requests |-> Orchestrator]
  /\ told = [r \in Requests |-> Silence]
  /\ outcome = [r \in Requests |-> "none"]
  /\ issued = {}
  /\ delivered = {}
  /\ overtaken = {}
  /\ forgotten = {}

-----------------------------------------------------------------------------
(***************************************************************************)
(* Entities                                                                *)
(***************************************************************************)
\* Message e is stored in session s.
Stored(img, s, e) == \E i \in DOMAIN img.msgs[s] : img.msgs[s][i] = e

\* Session.add_message refuses a message once the limit is reached.
Full(img, s) == Len(img.msgs[s]) >= MaxMessages

NewContext(a) == [agent |-> a, count |-> 0, hist |-> <<>>]

\* AgentContext.switch_to, when it does not raise.
CanSwitch(c, a) == c.agent # a /\ c.count < MaxSwitches
SwitchTo(c, a) ==
  [agent |-> a, count |-> c.count + 1, hist |-> Append(c.hist, [from |-> c.agent, to |-> a])]

\* find_switch_mode_call_id: the last switch_mode call in the history, whether
\* or not it already has a result.
SwitchCallsIn(q) == {i \in DOMAIN q : q[i].kind = "switch"}
LastSwitchCall_position(q) ==  \* mutant: the position is taken for the id
  CHOOSE i \in SwitchCallsIn(q) : \A j \in SwitchCallsIn(q) : j <= i
LastSwitchCall(q) ==
  LET I == SwitchCallsIn(q) IN q[CHOOSE i \in I : \A j \in I : j <= i].ref

-----------------------------------------------------------------------------
(***************************************************************************)
(* Database operations of request r on session S(r)                        *)
(***************************************************************************)
S(r) == job[r].sess

\* The image r's operation works from, and the one its write goes to: a later
\* commit of another request may separate the two.
Source(r) == IF writer = r THEN work ELSE seen[r]
Target(r) == IF writer = r THEN work ELSE db

HasRead(r) == writer = r \/ seen[r] # NoImage
MayWrite(r) == writer = r \/ writer = NoRequest

\* The SELECTs of an operation of a request that has not written yet.
Load(r) ==
  /\ phase[r] \in DbPhases
  /\ ~HasRead(r)
  /\ seen' = [seen EXCEPT ![r] = db]
  /\ UNCHANGED <<mutexVars, db, writer, work, phase, outcome, localVars, clientVars>>

\* r's operation writes img and goes on.
Write(r, img) ==
  /\ MayWrite(r)
  /\ writer' = r
  /\ work' = img
  /\ seen' = [seen EXCEPT ![r] = NoImage]
  /\ UNCHANGED db

\* r's operation wrote nothing.
ReadOnly(r) ==
  /\ seen' = [seen EXCEPT ![r] = NoImage]
  /\ UNCHANGED <<db, writer, work>>

\* r's transaction is lost: get_db rolls it back.
RollBack(r) ==
  /\ writer' = IF writer = r THEN NoRequest ELSE writer
  /\ work' = IF writer = r THEN NoImage ELSE work
  /\ seen' = [seen EXCEPT ![r] = NoImage]
  /\ UNCHANGED db

\* SessionMapper.to_model deletes the session's messages and inserts those of
\* the entity, which is what r read, with entry e added.
WithMessage_unloaded(r, e) ==  \* mutant: the entity was read without messages
  [Target(r) EXCEPT !.msgs[S(r)] = <<e>>]
WithMessage(r, e) ==
  [Target(r) EXCEPT !.msgs[S(r)] = Append(Source(r).msgs[S(r)], e)]

\* AgentContextMapper.to_model replaces the context and its switch history.
WithContext_history(r, c) ==  \* mutant: the history rows are added to, not replaced
  LET old == Target(r).ctx[S(r)]
      h   == IF old = NoContext THEN <<>> ELSE old.hist
  IN  [Target(r) EXCEPT !.ctx[S(r)] =
         [c EXCEPT !.hist = IF c.hist = <<>> THEN h ELSE Append(h, c.hist[Len(c.hist)])]]
WithContext(r, c) == [Target(r) EXCEPT !.ctx[S(r)] = c]

WithApproval_undecided(r, c, status) ==  \* mutant: update_status assigns nothing
  IF status = "pending" THEN [Target(r) EXCEPT !.appr[c] = status] ELSE Target(r)
WithApproval(r, c, status) == [Target(r) EXCEPT !.appr[c] = status]

Goto(r, p) == phase' = [phase EXCEPT ![r] = p] /\ UNCHANGED outcome

\* The handler ends; the exceptions and error chunks of the service reach the
\* router, which swallows them, so that what was written is still committed.
Finish(r, o) ==
  /\ phase' = [phase EXCEPT ![r] = "leave"]
  /\ outcome' = [outcome EXCEPT ![r] = o]

\* What the operations of r find.
HasRoom(r) == ~Full(Source(r), S(r))
KnownContext(r) == Source(r).ctx[S(r)] # NoContext
Undecided(r) == Source(r).appr[job[r].call] = "pending"
CanChange(r, a) == KnownContext(r) => CanSwitch(Source(r).ctx[S(r)], a)
OpenSwitchCall(r) == SwitchCallsIn(Source(r).msgs[S(r)]) # {}

-----------------------------------------------------------------------------
(***************************************************************************)
(* Requests                                                                *)
(***************************************************************************)
FirstPhase(k) ==
  CASE k = "user" -> "add"
    [] k \in {"tool", "hitl"} -> "decide"
    [] k = "switch" -> "context"
    [] k = "rest" -> "explicit"

\* What a client can ask: results and decisions are for calls it was sent.
Requested(j) ==
  /\ j.kind \in {"tool", "hitl"} => <<j.sess, j.call>> \in delivered /\ j.agent = NoAgent
  /\ j.kind = "hitl" => j.call \in Guarded
  /\ j.kind \notin {"tool", "hitl"} => j.call = NoCall /\ j.verdict = "approved"
  /\ j.kind \in {"switch", "rest"} => j.agent # NoAgent

Unfinished(q) == phase[q] \notin {"new", "done", "lost"}

\* The REST endpoint takes no lock.
BeginRest(r) == Goto(r, "explicit") /\ UNCHANGED <<mutexVars, overtaken>>

\* A turn of session s begins, perhaps while the last one's writes are not committed.
NotesTurn(s) ==
  LET open == writer # NoRequest /\ job[writer].kind # "rest" /\ S(writer) = s
  IN  overtaken' = IF open THEN overtaken \cup {s} ELSE overtaken

\* The stream endpoint enters the session's lock, or waits for it.
BeginStream(r, j) ==
  \/ EnterNow(r, j.sess) /\ Goto(r, FirstPhase(j.kind)) /\ NotesTurn(j.sess)
  \/ EnterQueue(r, j.sess) /\ Goto(r, "queued") /\ UNCHANGED overtaken

\* A request arrives.
Submit(r, j) ==
  /\ phase[r] = "new"
  /\ Requested(j)
  /\ job' = [job EXCEPT ![r] = j]
  /\ IF j.kind = "rest" THEN BeginRest(r) ELSE BeginStream(r, j)
  /\ UNCHANGED <<dbVars, hop, actor, told, issued, delivered, forgotten>>

\* The first waiter of a released session lock goes on.
Enter(s) ==
  /\ Grant(s)
  /\ LET r == Head(queue[s]) IN Goto(r, FirstPhase(job[r].kind))
  /\ NotesTurn(s)
  /\ UNCHANGED <<dbVars, localVars, issued, delivered, forgotten>>

\* MessageProcessor.process: add the user's message.  Over the limit the
\* exception ends the request.
AddUserMessage(r) ==
  /\ phase[r] = "add"
  /\ HasRead(r)
  /\ \/ /\ HasRoom(r)
        /\ Write(r, WithMessage(r, Entry("user", r)))
        /\ Goto(r, "context")
     \/ /\ ~HasRoom(r)
        /\ ReadOnly(r)
        /\ Finish(r, "error")
  /\ UNCHANGED <<mutexVars, localVars, clientVars>>

\* ToolResultHandler.handle decides the approval of an answered call, if it is
\* still pending; HITLDecisionHandler.handle ends when it is not (or when its
\* import fails).  update_status looks the row up again, whatever its status.
Decide(r) ==
  /\ phase[r] = "decide"
  /\ HasRead(r)
  /\ LET importable == job[r].kind = "hitl" => HitlModels
     IN  \/ /\ importable /\ Undecided(r)
            /\ Write(r, WithApproval(r, job[r].call, job[r].verdict))
            /\ Goto(r, IF job[r].kind = "hitl" THEN "result" ELSE "context")
         \/ /\ job[r].kind = "tool" /\ ~Undecided(r)
            /\ ReadOnly(r)
            /\ Goto(r, "context")
         \/ /\ job[r].kind = "hitl" /\ ~(importable /\ Undecided(r))
            /\ ReadOnly(r)
            /\ Finish(r, "error")
  /\ UNCHANGED <<mutexVars, localVars, clientVars>>

\* The answer to the call is added to the conversation.
AddResult(r) ==
  /\ phase[r] = "result"
  /\ HasRead(r)
  /\ \/ /\ HasRoom(r)
        /\ Write(r, WithMessage(r, Entry("result", job[r].call)))
        /\ IF job[r].kind = "hitl"
             THEN Goto(r, "context") /\ UNCHANGED hop
             ELSE Goto(r, "agent") /\ hop' = [hop EXCEPT ![r] = "first"]
     \/ /\ ~HasRoom(r)
        /\ ReadOnly(r)
        /\ Finish(r, "error")
        /\ UNCHANGED hop
  /\ UNCHANGED <<mutexVars, job, actor, told, clientVars>>

\* The agent run starts; only a user's message goes through the orchestrator.
StartAgent(r, a) ==
  /\ Goto(r, "agent")
  /\ hop' = [hop EXCEPT ![r] =
               IF job[r].kind = "user" /\ a = Orchestrator THEN "route" ELSE "first"]

\* What follows get_or_create_context, which returned a context with agent a.
AfterContext(r, a) ==
  /\ actor' = [actor EXCEPT ![r] = a]
  /\ CASE job[r].kind = "tool" -> Goto(r, "result") /\ UNCHANGED hop
       [] job[r].kind = "hitl" -> StartAgent(r, a)
       [] job[r].kind = "user" ->
            IF job[r].agent \in {NoAgent, a}
              THEN StartAgent(r, a)
              ELSE Goto(r, "explicit") /\ UNCHANGED hop
       [] job[r].kind = "switch" ->
            /\ IF job[r].agent = a THEN Finish(r, "ok") ELSE Goto(r, "explicit")
            /\ UNCHANGED hop

InitialAgent(r) ==
  IF job[r].kind = "user" /\ job[r].agent # NoAgent THEN job[r].agent ELSE Orchestrator

\* AgentOrchestrationService.get_or_create_context.  A context committed by
\* another request since r looked is replaced, or (when it appears between the
\* mapper's own look and the insert) r's insert breaks a unique constraint.
GetContext(r) ==
  /\ phase[r] = "context"
  /\ HasRead(r)
  /\ \/ /\ KnownContext(r)
        /\ ReadOnly(r)
        /\ AfterContext(r, Source(r).ctx[S(r)].agent)
     \/ /\ ~KnownContext(r)
        /\ Write(r, WithContext(r, NewContext(InitialAgent(r))))
        /\ AfterContext(r, InitialAgent(r))
  /\ UNCHANGED <<mutexVars, job, told, clientVars>>

InsertConflict(r) ==
  /\ phase[r] \in {"context", "explicit"}
  /\ HasRead(r) /\ MayWrite(r)
  /\ ~KnownContext(r) /\ Target(r).ctx[S(r)] # NoContext
  /\ RollBack(r)
  /\ Finish(r, "aborted")
  /\ UNCHANGED <<mutexVars, localVars, clientVars>>

\* AgentOrchestrationService.switch_agent.
SavesSwitch(r, a) ==
  Write(r, WithContext(r, IF KnownContext(r) THEN SwitchTo(Source(r).ctx[S(r)], a)
                                             ELSE NewContext(a)))

\* The agent_type of a user message, or an explicit switch request.
ExplicitSwitch(r) ==
  /\ phase[r] = "explicit"
  /\ HasRead(r)
  /\ \/ /\ CanChange(r, job[r].agent)
        /\ SavesSwitch(r, job[r].agent)
        /\ actor' = [actor EXCEPT ![r] = job[r].agent]
        /\ IF job[r].kind = "user"
             THEN StartAgent(r, job[r].agent)
             ELSE Finish(r, "ok") /\ UNCHANGED hop
     \/ /\ ~CanChange(r, job[r].agent)
        /\ ReadOnly(r)
        /\ Finish(r, "error")
        /\ UNCHANGED <<actor, hop>>
  /\ UNCHANGED <<mutexVars, job, told, clientVars>>

-----------------------------------------------------------------------------
(***************************************************************************)
(* Agents                                                                  *)
(***************************************************************************)
\* The agent classify_task_with_llm may choose; in single-agent mode the
\* orchestrator does not ask.
RouteTargets ==
  IF Registered = {Orchestrator, Universal} THEN {Universal} ELSE Agents \ {Orchestrator}

\* AgentRouter.get_agent raises for an agent that is not registered.
MissingAgent(r) ==
  /\ phase[r] = "agent"
  /\ actor[r] \notin Registered
  /\ Finish(r, "error")
  /\ UNCHANGED <<mutexVars, dbVars, localVars, clientVars>>

\* After the first run a switch is carried out; the second run's is not.
AfterSwitchChunk(r) ==
  IF hop[r] = "second" THEN Finish(r, "ok") ELSE Goto(r, "answer")

\* OrchestratorAgent.process stores nothing and asks for a switch.
Classify(r) ==
  /\ phase[r] = "agent"
  /\ actor[r] = Orchestrator
  /\ \E a \in RouteTargets :
        told' = [told EXCEPT ![r] = [kind |-> "switch", call |-> NoCall, agent |-> a]]
  /\ AfterSwitchChunk(r)
  /\ UNCHANGED <<mutexVars, dbVars, job, hop, actor, clientVars>>

\* The call ids in use.
Issued == {p[2] : p \in issued}

\* Another agent waits for the language model.  The call fails...
ModelFails(r) == Finish(r, "error") /\ UNCHANGED <<told, issued>>

\* ...or answers with a text...
AnswerText(r) ==
  /\ told' = [told EXCEPT ![r] = [Silence EXCEPT !.kind = "text"]]
  /\ Goto(r, "record")
  /\ UNCHANGED issued

\* ...or with one call: of the agent's own tool or one it must not use...
CallTool(r, c) ==
  /\ \E k \in {"call", "forbidden"} :
        told' = [told EXCEPT ![r] = [kind |-> k, call |-> c, agent |-> NoAgent]]
  /\ Goto(r, IF c \in Guarded THEN "pend" ELSE "record")

\* ...or of switch_mode, perhaps without a valid target.
CallSwitchMode(r, c) ==
  /\ actor[r] \in Switchers
  /\ c \notin Guarded
  /\ \E a \in Agents \cup {NoAgent} :
        told' = [told EXCEPT ![r] = [kind |-> "switch", call |-> c, agent |-> a]]
  /\ Goto(r, "record")

Consult(r) ==
  /\ phase[r] = "agent"
  /\ actor[r] \in Registered \ {Orchestrator}
  /\ \/ ModelFails(r)
     \/ AnswerText(r)
     \/ \E c \in Calls \ Issued :
        /\ issued' = issued \cup {<<S(r), c>>}
        /\ CallTool(r, c) \/ CallSwitchMode(r, c)
  /\ UNCHANGED <<mutexVars, dbVars, job, hop, actor, delivered, historyVars>>

\* StreamLLMResponseHandler._handle_tool_call: the approval is asked for first.
AddPending_committed(r) ==  \* mutant: a repository that commits by itself
  /\ phase[r] = "pend"
  /\ HasRead(r) /\ MayWrite(r)
  /\ db' = [db EXCEPT !.appr[told[r].call] = "pending"]
  /\ work' = IF writer = r THEN [work EXCEPT !.appr[told[r].call] = "pending"] ELSE work
  /\ seen' = [seen EXCEPT ![r] = NoImage]
  /\ Goto(r, "record")
  /\ UNCHANGED <<mutexVars, writer, localVars, clientVars>>
AddPending(r) ==
  /\ phase[r] = "pend"
  /\ HasRead(r)
  /\ Write(r, WithApproval(r, told[r].call, "pending"))
  /\ Goto(r, "record")
  /\ UNCHANGED <<mutexVars, localVars, clientVars>>

AnswerEntry_text(r) == Entry("text", r)  \* mutant: stored without its tool call
AnswerEntry(r) ==
  CASE told[r].kind = "text" -> Entry("text", r)
    [] told[r].kind \in {"call", "forbidden"} -> Entry("call", told[r].call)
    [] told[r].kind = "switch" -> Entry("switch", told[r].call)

\* The assistant's message is stored, then sent.  That the agent may not use
\* the tool is found only now; that the session is full becomes an error chunk.
Record(r) ==
  /\ phase[r] = "record"
  /\ HasRead(r)
  /\ \/ /\ HasRoom(r)
        /\ Write(r, WithMessage(r, AnswerEntry(r)))
        /\ CASE told[r].kind = "switch" -> AfterSwitchChunk(r)
             [] told[r].kind = "forbidden" -> Finish(r, "error")
             [] OTHER -> Finish(r, "ok")
        /\ delivered' = IF told[r].kind = "call" THEN delivered \cup {<<S(r), told[r].call>>}
                                                 ELSE delivered
     \/ /\ ~HasRoom(r)
        /\ ReadOnly(r)
        /\ Finish(r, "error")
        /\ UNCHANGED delivered
  /\ UNCHANGED <<mutexVars, localVars, issued, historyVars>>

\* AgentSwitchHelper.handle_agent_switch_request, first half: the last
\* switch_mode call of the history gets a tool result.
AnswerSwitch(r) ==
  /\ phase[r] = "answer"
  /\ HasRead(r)
  /\ \/ /\ told[r].agent # NoAgent /\ OpenSwitchCall(r) /\ HasRoom(r)
        /\ Write(r, WithMessage(r, Entry("result", LastSwitchCall(Source(r).msgs[S(r)]))))
        /\ Goto(r, "handover")
     \/ /\ told[r].agent # NoAgent /\ ~OpenSwitchCall(r)
        /\ ReadOnly(r)
        /\ Goto(r, "handover")
     \/ /\ told[r].agent = NoAgent \/ (OpenSwitchCall(r) /\ ~HasRoom(r))
        /\ ReadOnly(r)
        /\ Finish(r, "error")
  /\ UNCHANGED <<mutexVars, localVars, clientVars>>

\* Second half: the context is switched and the new agent runs.
Handover(r) ==
  /\ phase[r] = "handover"
  /\ HasRead(r)
  /\ \/ /\ CanChange(r, told[r].agent)
        /\ SavesSwitch(r, told[r].agent)
        /\ actor' = [actor EXCEPT ![r] = told[r].agent]
        /\ hop' = [hop EXCEPT ![r] = IF @ = "route" THEN "first" ELSE "second"]
        /\ Goto(r, "agent")
     \/ /\ ~CanChange(r, told[r].agent)
        /\ ReadOnly(r)
        /\ Finish(r, "error")
        /\ UNCHANGED <<actor, hop>>
  /\ UNCHANGED <<mutexVars, job, told, clientVars>>

-----------------------------------------------------------------------------
(***************************************************************************)
(* The end of a request, and failures                                      *)
(***************************************************************************)
\* The generator and its locals end and the session lock is released...
Release_success(r) ==  \* mutant: the lock is given back on success only
  /\ phase[r] = "leave"
  /\ IF job[r].kind = "rest" \/ outcome[r] # "ok" THEN UNCHANGED mutexVars ELSE Exit(S(r))
  /\ Goto(r, "commit")
  /\ UNCHANGED <<dbVars, localVars, clientVars>>
Release(r) ==
  /\ phase[r] = "leave"
  /\ IF job[r].kind = "rest" THEN UNCHANGED mutexVars ELSE Exit(S(r))
  /\ Goto(r, "commit")
  /\ hop' = [hop EXCEPT ![r] = "first"]
  /\ actor' = [actor EXCEPT ![r] = Orchestrator]
  /\ told' = [told EXCEPT ![r] = Silence]
  /\ UNCHANGED <<dbVars, job, clientVars>>

\* ...and only then get_db's exit commits.
Commit(r) ==
  /\ phase[r] = "commit"
  /\ IF writer = r THEN db' = work /\ writer' = NoRequest /\ work' = NoImage
                   ELSE UNCHANGED <<db, writer, work>>
  /\ phase' = [phase EXCEPT ![r] = "done"]
  /\ UNCHANGED <<mutexVars, seen, outcome, localVars, clientVars>>

WouldWrite(r) ==
  CASE phase[r] \in {"add", "result", "record"} -> HasRoom(r)
    [] phase[r] = "decide" -> Undecided(r) /\ (job[r].kind = "hitl" => HitlModels)
    [] phase[r] = "context" -> ~KnownContext(r)
    [] phase[r] = "explicit" -> CanChange(r, job[r].agent)
    [] phase[r] = "handover" -> CanChange(r, told[r].agent)
    [] phase[r] = "answer" -> told[r].agent # NoAgent /\ OpenSwitchCall(r) /\ HasRoom(r)
    [] phase[r] = "pend" -> TRUE

\* The write lock is not obtained within the busy timeout; the session of the
\* ORM is unusable afterwards.
BusyTimeout(r) ==
  /\ "timeout" \in Failures
  /\ phase[r] \in DbPhases
  /\ HasRead(r) /\ ~MayWrite(r) /\ WouldWrite(r)
  /\ RollBack(r)
  /\ Finish(r, "aborted")
  /\ UNCHANGED <<mutexVars, localVars, clientVars>>

\* The client closes its stream: the task is cancelled where it waits.  A
\* cancelled database call loses its connection and the transaction with it;
\* cancelled in front of the model, the request commits what it has written.
Disconnect(r) ==
  /\ "disconnect" \in Failures
  /\ \/ /\ phase[r] = "queued"
        /\ Leave(r, S(r))
        /\ phase' = [phase EXCEPT ![r] = "commit"]
        /\ outcome' = [outcome EXCEPT ![r] = "aborted"]
        /\ UNCHANGED dbVars
     \/ /\ phase[r] \in DbPhases /\ job[r].kind # "rest"
        /\ RollBack(r)
        /\ Finish(r, "aborted")
        /\ UNCHANGED mutexVars
     \/ /\ phase[r] = "agent"
        /\ Finish(r, "error")
        /\ UNCHANGED <<mutexVars, dbVars>>
  /\ UNCHANGED <<localVars, clientVars>>

\* The process dies and is started again: locks and requests are forgotten.
Crash ==
  /\ "crash" \in Failures
  /\ \E r \in Requests : Unfinished(r)
  /\ holder' = [s \in Sessions |-> NoRequest]
  /\ queue' = [s \in Sessions |-> <<>>]
  /\ writer' = NoRequest
  /\ work' = NoImage
  /\ seen' = [r \in Requests |-> NoImage]
  /\ phase' = [r \in Requests |-> IF Unfinished(r) THEN "lost" ELSE phase[r]]
  /\ hop' = [r \in Requests |-> "first"]
  /\ actor' = [r \in Requests |-> Orchestrator]
  /\ told' = [r \in Requests |-> Silence]
  /\ forgotten' = forgotten \cup {d \in delivered : ~Stored(db, d[1], Entry("call", d[2]))}
  /\ UNCHANGED <<db, outcome, job, issued, delivered, overtaken>>

-----------------------------------------------------------------------------
Step(r) ==
  \/ Load(r) \/ AddUserMessage(r) \/ Decide(r) \/ AddResult(r)
  \/ GetContext(r) \/ InsertConflict(r) \/ ExplicitSwitch(r)
  \/ MissingAgent(r) \/ Classify(r) \/ Consult(r) \/ AddPending(r) \/ Record(r)
  \/ AnswerSwitch(r) \/ Handover(r) \/ Release(r) \/ Commit(r)

Next ==
  \/ \E r \in Requests :
        \/ \E j \in Jobs : Submit(r, j)
        \/ Step(r)
        \/ BusyTimeout(r)
        \/ Disconnect(r)
  \/ \E s \in Sessions : Enter(s)
  \/ Crash

Spec == Init /\ [][Next]_vars

\* The event loop runs every ready task, the model client and the database
\* answer or time out, and the lock wakes its first waiter.
Fairness ==
  /\ \A r \in Requests : WF_vars(Step(r))
  /\ \A s \in Sessions : WF_vars(Enter(s))
FairSpec == Spec /\ Fairness
-----------------------------------------------------------------------------
(***************************************************************************)
(* Properties                                                              *)
(***************************************************************************)
Consistent(c) ==
  /\ c.count = Len(c.hist) /\ c.count <= MaxSwitches
  /\ \A i \in 1..Len(c.hist) : c.hist[i].from # c.hist[i].to
  /\ \A i \in 1..Len(c.hist) : i > 1 => c.hist[i].from = c.hist[i - 1].to
  /\ Len(c.hist) > 0 => c.hist[Len(c.hist)].to = c.agent

ContextsOf(img) == \A s \in Sessions : img.ctx[s] # NoContext => Consistent(img.ctx[s])

\* The switch count, the switch history and the current agent of a context
\* agree, in the committed image and in every image a request works from,
\* although two requests may switch the same session from stale reads and the
\* row and its history are written separately.
ContextConsistent ==
  /\ ContextsOf(db)
  /\ writer # NoRequest => ContextsOf(work)
  /\ \A r \in Requests : seen[r] # NoImage => ContextsOf(seen[r])

\* Requests of the stream endpoint work on a session one at a time, whatever
\* queues, is cancelled or is still uncommitted meanwhile (the REST switch takes
\* no lock).
Works(r) == phase[r] \in Active /\ job[r].kind # "rest"
OneAtATime ==
  \A q, r \in Requests : Works(q) /\ Works(r) /\ S(q) = S(r) => q = r

\* No commit removes or changes a message committed before.
NoLostMessage ==
  [][\A s \in Sessions : IsPrefix(db.msgs[s], db'.msgs[s])]_db

\* The next three hold of the sessions that no turn has overtaken: requests may
\* arrive, queue, be cancelled and compete for the write lock as they like.

\* A call of session s waits for an approval only if the conversation shows it (so
\* that the user can be asked again), unless the message limit kept it out.
PendingIsShown ==
  \A p \in issued :
     LET s == p[1]
         c == p[2]
     IN  s \notin overtaken /\ db.appr[c] = "pending" =>
           Full(db, s) \/ Stored(db, s, Entry("call", c))

\* Every stored result follows the assistant message with its call, unless a crash
\* took the call that the client had already been sent.
ResultsFollowCalls ==
  \A s \in Sessions \ overtaken : \A i \in DOMAIN db.msgs[s] :
     LET m == db.msgs[s][i]
     IN  m.kind = "result" /\ <<s, m.ref>> \notin forgotten =>
           \E j \in 1..(i - 1) :
              db.msgs[s][j].kind \in {"call", "switch"} /\ db.msgs[s][j].ref = m.ref

\* A call whose result is stored no longer waits for an approval.
AnsweredNotPending ==
  \A s \in Sessions \ overtaken : \A i \in DOMAIN db.msgs[s] :
     db.msgs[s][i].kind = "result" => db.appr[db.msgs[s][i].ref] # "pending"

\* The database implements the conversation log, which promises nothing of the
\* sessions that are overtaken and of the calls they have issued.
IsResultOf(m, c) == m = Entry("result", c)
CallsOvertaken == {p[2] : p \in {q \in issued : q[1] \in overtaken}}
Log == INSTANCE ConversationLog WITH
  log <- db.msgs, approval <- db.appr, adrift <- overtaken, loose <- CallsOvertaken,
  Messages <- Entries, IsResult <- IsResultOf
ImplementsLog == Log!LogSpec

\* Every request ends: no combination of session lock and write lock leaves
\* requests waiting for each other.
RequestsEnd == \A r \in Requests : phase[r] # "new" ~> phase[r] \in {"done", "lost"}
=============================================================================
