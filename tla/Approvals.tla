-------------------------------- MODULE Approvals --------------------------------
(***************************************************************************)
(* Approvals of tool calls and the events of a turn: what the policy asks  *)
(* for, the table pending_approvals, the events that requests publish      *)
(* while their transaction is open, and the collectors that hear them.     *)
(*                                                                         *)
(* A request is a user message or a tool result, which settles the call's  *)
(* approval (an error rejects it), followed by one call of the model.  (A  *)
(* human decision ends before it settles anything: hitl_decision_handler   *)
(* imports a module that is missing.)  The session lock is used through    *)
(* its promise.  Messages are left out: what they lock in SQLite only      *)
(* rules interleavings out.  Rows are locked one by one, as in PostgreSQL  *)
(* (READ COMMITTED): a statement sees the last commit and its own          *)
(* transaction, and a write waits for the other writers of its row.        *)
(***************************************************************************)
EXTENDS EventBus

CONSTANTS
  Requests,
  Sessions,
  Calls,         \* ids of tool calls; the provider may use one again
  NoRequest, NoCall,
  Stored,        \* what an approval of an earlier turn may be
  MayDisconnect  \* TRUE iff clients may close their streams

ASSUME ApprovalsAssumption ==
  /\ IsFiniteSet(Requests) /\ NoRequest \notin Requests
  /\ NoCall \notin Calls
  /\ Stored \subseteq {"none", "pending", "approved", "rejected"}
  /\ MayDisconnect \in BOOLEAN

VARIABLES
  rows,       \* the committed rows: a status per call, or "none"
  drafts,     \* drafts[r]: what r's open transaction has written ("none": nothing)
  phase,      \* where request r is
  job,        \* what r was asked to do
  asked,      \* the call of r's model, NoCall before it answered
  seen,       \* the status update_status has found
  outcome,    \* how r's turn ended
  toolCount,  \* MetricsCollector: "requested" and "requires_approval", over all tools
  starter,    \* SessionMetricsCollector._pending_requests: the start last heard
  counted,    \* its list of requests: the turn's entry and the start it was given
  late,       \* history: r's call was decided when r arrived
  announced,  \* history: the approval events published so far
  published   \* history: the requests that have published a tool event of each type

tableVars == <<rows, drafts>>
requestVars == <<phase, job, asked, seen, outcome>>
metricVars == <<toolCount, starter, counted>>
historyVars == <<late, announced, published>>
vars == <<ready, tableVars, requestVars, metricVars, historyVars>>

-----------------------------------------------------------------------------
(***************************************************************************)
(* The policy                                                              *)
(***************************************************************************)
\* The tools of the registry, one of each kind the policy tells apart.
Tools == {"write_file", "read_file"}

\* HITLPolicyService's default rules; the first match decides.
Rules ==
  << [tools |-> {"write_file"}, approval |-> TRUE],
     [tools |-> {"delete_file"}, approval |-> TRUE],
     [tools |-> {"execute_command"}, approval |-> TRUE],
     [tools |-> {"create_directory"}, approval |-> TRUE],
     [tools |-> {"move_file"}, approval |-> TRUE],
     [tools |-> {"read_file"}, approval |-> FALSE],
     [tools |-> {"list_files"}, approval |-> FALSE],
     [tools |-> {"search_files"}, approval |-> FALSE] >>
DefaultApproval == FALSE

RequiresApproval(tool) ==
  LET matching == SelectSeq(Rules, LAMBDA rule : tool \in rule.tools)
  IN  IF matching = <<>> THEN DefaultApproval ELSE Head(matching).approval

-----------------------------------------------------------------------------
(***************************************************************************)
(* Types                                                                   *)
(***************************************************************************)
Statuses == {"none", "pending", "approved", "rejected"}
Decided == {"approved", "rejected"}
Jobs == [kind : {"message"}, sess : Sessions] \cup
        [kind : {"answer"}, sess : Sessions, call : Calls, verdict : Decided]
NoJob == [kind |-> "none"]
Phases == {"new", "settle", "look", "decide", "start", "model", "pend", "insert",
           "record", "commit", "done"}
ToolEvents == {"tool.execution.requested", "tool.approval.required"}
Approval(type, c) == [type |-> type, call |-> c]
ApprovalEvents == [type : {"approval.requested", "approval.approved", "approval.rejected"},
                   call : Calls]
Events == [type : EventTypes, req : Requests, sess : Sessions]
Tasks == [task : {"fan-out"}, event : Events] \cup
         [task : {"run"}, handler : Handlers, event : Events]

TypeOK ==
  /\ ready \in Seq(Tasks)
  /\ rows \in [Calls -> Statuses]
  /\ drafts \in [Requests -> [Calls -> Statuses]]
  /\ phase \in [Requests -> Phases]
  /\ job \in [Requests -> Jobs \cup {NoJob}]
  /\ asked \in [Requests -> Calls \cup {NoCall}]
  /\ \A r \in Requests : phase[r] \in {"pend", "insert"} => asked[r] \in Calls
  /\ seen \in [Requests -> Statuses]
  /\ outcome \in [Requests -> {"none", "told", "failed", "cancelled"}]
  /\ toolCount \in [ToolEvents -> 0..Cardinality(Requests)]
  /\ starter \in [Sessions -> Requests \cup {NoRequest}]
  /\ counted \in [Requests -> {"no", "completed", "failed"} \X (Requests \cup {NoRequest})]
  /\ late \in [Requests -> BOOLEAN]
  /\ announced \subseteq ApprovalEvents
  /\ published \in [ToolEvents -> SUBSET Requests]

DecisionEvent(status) ==
  CASE status = "approved" -> "approval.approved"
    [] status = "rejected" -> "approval.rejected"
    [] OTHER -> "approval.requested"

\* The table may hold approvals of earlier turns, which were announced then.
Init ==
  /\ InitBus
  /\ rows \in [Calls -> Stored]
  /\ drafts = [r \in Requests |-> [c \in Calls |-> "none"]]
  /\ phase = [r \in Requests |-> "new"]
  /\ job = [r \in Requests |-> NoJob]
  /\ asked = [r \in Requests |-> NoCall]
  /\ seen = [r \in Requests |-> "none"]
  /\ outcome = [r \in Requests |-> "none"]
  /\ toolCount = [t \in ToolEvents |-> 0]
  /\ starter = [s \in Sessions |-> NoRequest]
  /\ counted = [r \in Requests |-> <<"no", NoRequest>>]
  /\ late = [r \in Requests |-> FALSE]
  /\ announced = {a \in ApprovalEvents :
       rows[a.call] # "none" /\ a.type \in {"approval.requested", DecisionEvent(rows[a.call])}}
  /\ published = [t \in ToolEvents |-> {}]

-----------------------------------------------------------------------------
(***************************************************************************)
(* The table and the requests                                              *)
(***************************************************************************)
S(r) == job[r].sess
Status(r, c) == IF drafts[r][c] = "none" THEN rows[c] ELSE drafts[r][c]
MayWrite(r, c) == \A q \in Requests \ {r} : drafts[q][c] = "none"
Write(r, c, status) == drafts' = [drafts EXCEPT ![r][c] = status] /\ UNCHANGED rows
RollBack(r) == drafts' = [drafts EXCEPT ![r] = [c \in Calls |-> "none"]] /\ UNCHANGED rows

\* Every step below follows an await of I/O, and the event loop queues the task that
\* resumes behind what is ready: the tasks that publish started have run by then.
Resumed(r) == \A i \in DOMAIN ready : ready[i].task = "fan-out" => ready[i].event.req # r

Goto(r, p) == phase' = [phase EXCEPT ![r] = p]
Event(type, r) == [type |-> type, req |-> r, sess |-> S(r)]

\* A tool event of request r.
PublishTool(type, r) ==
  /\ Publish(<<Event(type, r)>>)
  /\ published' = [published EXCEPT ![type] = @ \cup {r}]

\* Inside the session lock.
Working(r) == phase[r] \notin {"new", "commit", "done"}

Enter(r, j) ==
  /\ phase[r] = "new"
  /\ \A q \in Requests : Working(q) => S(q) # j.sess
  /\ job' = [job EXCEPT ![r] = j]
  /\ Goto(r, IF j.kind = "message" THEN "start" ELSE "settle")
  /\ late' = [late EXCEPT ![r] = j.kind = "answer" /\ rows[j.call] \in Decided]
  /\ UNCHANGED <<ready, tableVars, asked, seen, outcome, metricVars, announced, published>>

\* GET /sessions/{id}/pending-approvals.
Shown == {c \in Calls : rows[c] = "pending"}

-----------------------------------------------------------------------------
(***************************************************************************)
(* An answer settles its approval                                          *)
(***************************************************************************)
\* get_pending, by the handler and once more by approve or reject: an answer to
\* a call that is not pending settles nothing and goes on.
FindPending_any(r) ==  \* mutant: get_pending finds decided approvals as well
  /\ phase[r] = "settle"
  /\ Goto(r, IF Status(r, job[r].call) # "none" THEN "look" ELSE "start")
  /\ UNCHANGED <<ready, tableVars, job, asked, seen, outcome, metricVars, historyVars>>
FindPending(r) ==
  /\ phase[r] = "settle"
  /\ Goto(r, IF Status(r, job[r].call) = "pending" THEN "look" ELSE "start")
  /\ UNCHANGED <<ready, tableVars, job, asked, seen, outcome, metricVars, historyVars>>

\* update_status reads the row again, whatever its status...
LookUp(r) ==
  /\ phase[r] = "look"
  /\ seen' = [seen EXCEPT ![r] = Status(r, job[r].call)]
  /\ Goto(r, "decide")
  /\ UNCHANGED <<ready, tableVars, job, asked, outcome, metricVars, historyVars>>

\* ...and writes the status when it differs; the event follows the flush.
Decide_quiet(r) ==  \* mutant: a status that is the same already is not announced, nor a new one
  LET c == job[r].call
      v == job[r].verdict
  IN  /\ phase[r] = "decide"
      /\ MayWrite(r, c)
      /\ Write(r, c, IF seen[r] = v THEN Status(r, c) ELSE v)
      /\ seen' = [seen EXCEPT ![r] = "none"]
      /\ Goto(r, "start")
      /\ UNCHANGED <<ready, job, asked, outcome, metricVars, historyVars>>
Decide(r) ==
  LET c == job[r].call
      v == job[r].verdict
  IN  /\ phase[r] = "decide"
      /\ MayWrite(r, c)
      /\ Write(r, c, IF seen[r] = v THEN Status(r, c) ELSE v)
      /\ announced' = announced \cup {Approval(DecisionEvent(v), c)}
      /\ seen' = [seen EXCEPT ![r] = "none"]
      /\ Goto(r, "start")
      /\ UNCHANGED <<ready, job, asked, outcome, metricVars, late, published>>

-----------------------------------------------------------------------------
(***************************************************************************)
(* The turn                                                                *)
(***************************************************************************)
StartTurn(r) ==
  /\ phase[r] = "start"
  /\ Publish(<<Event("llm.request.started", r)>>)
  /\ Goto(r, "model")
  /\ UNCHANGED <<tableVars, job, asked, seen, outcome, metricVars, historyVars>>

\* The turn's last model event; the lock is released.
EndTurn(r, type) ==
  /\ Publish(<<Event(type, r)>>)
  /\ outcome' = [outcome EXCEPT ![r] = IF type = "llm.request.completed" THEN "told" ELSE "failed"]
  /\ Goto(r, "commit")

\* LLMClient.chat_completion: no answer in time, an error, or nothing that can be read.
ModelFails(r) ==
  /\ phase[r] = "model"
  /\ EndTurn(r, "llm.request.failed")
  /\ UNCHANGED <<tableVars, job, asked, seen, metricVars, historyVars>>

\* The model answers in words, which the session takes or refuses.
AnswerText(r) ==
  /\ phase[r] = "model"
  /\ \E type \in {"llm.request.completed", "llm.request.failed"} : EndTurn(r, type)
  /\ UNCHANGED <<tableVars, job, asked, seen, metricVars, historyVars>>

\* The model calls a tool (of several the first counts): an approval is stored first,
\* if the policy asks for it.
CallTool(r) ==
  /\ phase[r] = "model"
  /\ \E c \in Calls, t \in Tools :
        /\ asked' = [asked EXCEPT ![r] = c]
        /\ Goto(r, IF RequiresApproval(t) THEN "pend" ELSE "record")
  /\ PublishTool("tool.execution.requested", r)
  /\ UNCHANGED <<tableVars, job, seen, outcome, metricVars, late, announced>>

\* add_pending announces the approval whether or not save_pending stored it.
Announce(r) ==
  /\ announced' = announced \cup {Approval("approval.requested", asked[r])}
  /\ PublishTool("tool.approval.required", r)
  /\ Goto(r, "record")

\* save_pending: an id that is known, with whatever status, is left alone...
AddPending_again(r) ==  \* mutant: the known row becomes pending again
  /\ phase[r] = "pend"
  /\ MayWrite(r, asked[r])
  /\ Write(r, asked[r], "pending")
  /\ Announce(r)
  /\ UNCHANGED <<job, asked, seen, outcome, metricVars, late>>
AddPending(r) ==
  /\ phase[r] = "pend"
  /\ IF Status(r, asked[r]) = "none"
     THEN Goto(r, "insert") /\ UNCHANGED <<ready, announced, published>>
     ELSE Announce(r)
  /\ UNCHANGED <<tableVars, job, asked, seen, outcome, metricVars, late>>

\* ...a new one is inserted, unless another request has done so by then: the
\* flush fails, and nothing of the request is committed.
InsertPending(r) ==
  /\ phase[r] = "insert"
  /\ MayWrite(r, asked[r])
  /\ \/ /\ rows[asked[r]] = "none"
        /\ Write(r, asked[r], "pending")
        /\ Announce(r)
        /\ UNCHANGED outcome
     \/ /\ rows[asked[r]] # "none"
        /\ RollBack(r)
        /\ EndTurn(r, "llm.request.failed")
        /\ UNCHANGED <<announced, published>>
  /\ UNCHANGED <<job, asked, seen, metricVars, late>>

\* The message with the call is added to the session, which may refuse it.
RecordCall(r) ==
  /\ phase[r] = "record"
  /\ \E type \in {"llm.request.completed", "llm.request.failed"} : EndTurn(r, type)
  /\ UNCHANGED <<tableVars, job, asked, seen, metricVars, historyVars>>

\* get_db commits after the answer, when the lock is free again.
Commit(r) ==
  /\ phase[r] = "commit"
  /\ rows' = [c \in Calls |-> Status(r, c)]
  /\ drafts' = [drafts EXCEPT ![r] = [c \in Calls |-> "none"]]
  /\ Goto(r, "done")
  /\ job' = [job EXCEPT ![r] = NoJob]
  /\ asked' = [asked EXCEPT ![r] = NoCall]
  /\ seen' = [seen EXCEPT ![r] = "none"]
  /\ late' = [late EXCEPT ![r] = FALSE]
  /\ UNCHANGED <<ready, outcome, metricVars, announced, published>>

\* The client closes its stream: no model event tells the end of the turn.  A
\* cancelled database call takes the transaction with it.
Disconnect(r) ==
  /\ MayDisconnect
  /\ phase[r] \in {"settle", "look", "decide", "start", "model", "pend", "insert", "record"}
  /\ IF phase[r] = "model" THEN UNCHANGED tableVars ELSE RollBack(r)
  /\ outcome' = [outcome EXCEPT ![r] = "cancelled"]
  /\ Goto(r, "commit")
  /\ UNCHANGED <<ready, job, asked, seen, metricVars, historyVars>>

-----------------------------------------------------------------------------
(***************************************************************************)
(* The collectors                                                          *)
(***************************************************************************)
\* _collect_tool_metrics.  (Its last branch waits for an event that belongs to another
\* category: the bus gives it to _collect_hitl_metrics, which counts decisions only.)
CountTool_one(e) ==  \* mutant: a new counter starts at one and is then counted up
  toolCount' = [toolCount EXCEPT ![e.type] = IF @ = 0 THEN 2 ELSE @ + 1]
CountTool(e) ==
  toolCount' = [toolCount EXCEPT ![e.type] =
    IF e.type = "tool.approval.required" /\ toolCount["tool.execution.requested"] = 0
    THEN @ ELSE @ + 1]

\* _on_request_started, _completed and _failed: an end is paired with the start
\* that the session has heard last.
CountRequest_first(e) ==  \* mutant: the start heard first is kept
  LET s == e.sess
  IN  IF e.type = "llm.request.started"
      THEN starter' = [starter EXCEPT ![s] = IF @ = NoRequest THEN e.req ELSE @] /\ UNCHANGED counted
      ELSE /\ counted' = [counted EXCEPT ![e.req] =
                <<IF e.type = "llm.request.completed" THEN "completed" ELSE "failed", starter[s]>>]
           /\ starter' = [starter EXCEPT ![s] = NoRequest]
CountRequest(e) ==
  LET s == e.sess
  IN  IF e.type = "llm.request.started"
      THEN starter' = [starter EXCEPT ![s] = e.req] /\ UNCHANGED counted
      ELSE /\ counted' = [counted EXCEPT ![e.req] =
                <<IF e.type = "llm.request.completed" THEN "completed" ELSE "failed", starter[s]>>]
           /\ starter' = [starter EXCEPT ![s] = NoRequest]

Handle ==
  /\ RunHandler
  /\ LET h == Head(ready).handler
         e == Head(ready).event
     IN  /\ IF h = "tools" THEN CountTool(e) ELSE UNCHANGED toolCount
         /\ IF h = "sessions" THEN CountRequest(e) ELSE UNCHANGED <<starter, counted>>
  /\ UNCHANGED <<tableVars, requestVars, historyVars>>

RunBus ==
  \/ RunFanOut /\ UNCHANGED <<tableVars, requestVars, metricVars, historyVars>>
  \/ Handle

-----------------------------------------------------------------------------
Step(r) ==
  \/ FindPending(r) \/ LookUp(r) \/ Decide(r) \/ StartTurn(r)
  \/ ModelFails(r) \/ AnswerText(r) \/ CallTool(r) \/ AddPending(r) \/ InsertPending(r) \/ RecordCall(r)
  \/ Commit(r)

Next ==
  \/ \E r \in Requests, j \in Jobs : Enter(r, j)
  \/ \E r \in Requests : Resumed(r) /\ (Step(r) \/ Disconnect(r))
  \/ RunBus

Spec == Init /\ [][Next]_vars
-----------------------------------------------------------------------------
(***************************************************************************)
(* Properties                                                              *)
(***************************************************************************)
\* A committed decision stands: an answer that comes after it, a repeated
\* result or a call id that the provider uses again never changes it (only an
\* answer that was already on its way may: update_status looks at no status).
DecisionsStand ==
  [][\A c \in Calls :
        rows[c] \in Decided /\ rows'[c] # rows[c] =>
          /\ rows'[c] \in Decided
          /\ \E r \in Requests :
                phase[r] = "commit" /\ job[r].kind = "answer" /\ job[r].call = c /\ ~late[r]]_rows

\* What GET pending-approvals shows has been announced, and of what is decided the
\* request and the decision, although events are published before the commit and
\* by transactions that may be rolled back.
Announced ==
  /\ \A c \in Shown : Approval("approval.requested", c) \in announced
  /\ \A c \in Calls : rows[c] \in Decided =>
        {Approval("approval.requested", c), Approval(DecisionEvent(rows[c]), c)} \subseteq announced

\* Every handler gets its events once and in the order of their publication,
\* although each event and each handler runs in a task of its own.
ImplementsMailboxes == Mail!Spec

\* The collectors neither lose nor mix up what they hear, although they keep one
\* start per session and hear of it after the turn went on: once the bus has caught
\* up, every turn is counted as its client was told, completed or failed, and paired
\* with its own start (a client that left leaves no entry and no start to mistake), and
\* every tool that a turn called is counted once.
Counts(type) == toolCount[type] = Cardinality(published[type])
MetricsAgree ==
  ready = <<>> =>
    /\ \A r \in Requests :
          counted[r] = CASE outcome[r] = "told" -> <<"completed", r>>
                         [] outcome[r] = "failed" -> <<"failed", r>>
                         [] OTHER -> <<"no", NoRequest>>
    /\ Counts("tool.execution.requested")

\* What MetricsCollector and its guide say of approvals: a tool that was requested and
\* has to be approved is counted under requires_approval as well.
ApprovalsCounted == ready = <<>> => Counts("tool.approval.required")
=============================================================================
