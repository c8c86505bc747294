-------------------------------- MODULE EventBus --------------------------------
(***************************************************************************)
(* agent-runtime/app/events/event_bus.py as the services use it: publish   *)
(* starts a task that starts one task per handler, and nobody waits for    *)
(* either.  The tasks wait in the event loop's queue of ready callbacks,   *)
(* first come first served; the registered handlers have no awaits, and    *)
(* the bus's lock is never held across one, so a task is one step.         *)
(* Events are records with a field type; the other fields are the          *)
(* publisher's.  No middleware is registered, and only the shutdown event, *)
(* which has no handler, is published with wait_for_handlers.              *)
(***************************************************************************)
EXTENDS Naturals, Sequences, FiniteSets, SequencesExt, SequenceFilter

VARIABLE ready  \* the bus's tasks in the event loop's queue

-----------------------------------------------------------------------------
(***************************************************************************)
(* The events of a turn and their subscriptions, by type or by category.   *)
(* (The end of an agent's work and its errors only add to counters of      *)
(* their own and are left out; agent switches, HITL decisions and tool     *)
(* results have handlers too, but nothing in app/ publishes them.)         *)
(***************************************************************************)
EventTypes == {"llm.request.started", "llm.request.completed", "llm.request.failed",
               "tool.execution.requested", "tool.approval.required"}
CategoryOf ==
  [type \in EventTypes |->
     CASE type = "tool.execution.requested" -> "tool"
       [] type = "tool.approval.required" -> "hitl"
       [] OTHER -> "metrics"]
OfCategory(category) == {type \in EventTypes : CategoryOf[type] = category}

AuditLogger == [name |-> "audit", priority |-> 10, on |-> {"tool.approval.required"}]
ToolMetrics == [name |-> "tools", priority |-> 5, on |-> OfCategory("tool")]
HitlMetrics == [name |-> "hitl", priority |-> 5, on |-> OfCategory("hitl")]
SessionMetrics == [name |-> "sessions", priority |-> 0,
                   on |-> {"llm.request.started", "llm.request.completed", "llm.request.failed"}]

Subscribers == {AuditLogger, ToolMetrics, HitlMetrics, SessionMetrics}
Handlers == {s.name : s \in Subscribers}

\* _get_handlers_for_event: highest priority first.
HandlersForType ==
  [type \in EventTypes |->
     LET on == {s \in Subscribers : type \in s.on}
     IN  CHOOSE q \in [1..Cardinality(on) -> on] :
           \A i, j \in DOMAIN q : i < j => q[i].priority > q[j].priority]
HandlersFor(e) == HandlersForType[e.type]

FanOut(e) == [task |-> "fan-out", event |-> e]
Run(s, e) == [task |-> "run", handler |-> s.name, event |-> e]

InitBus == ready = <<>>

\* publish, for the events es in this order.  (Approval and system events have no
\* handler: nothing is started for them.)
Publish_front(es) ==  \* mutant: the newest event is served first
  ready' = [i \in DOMAIN es |-> FanOut(es[i])] \o ready
Publish(es) ==
  ready' = ready \o [i \in DOMAIN es |-> FanOut(es[i])]

\* _execute_handlers_async: one task per handler.
StartHandlers(e, q) ==
  q \o [i \in DOMAIN HandlersFor(e) |-> Run(HandlersFor(e)[i], e)]

RunFanOut ==
  /\ ready # <<>> /\ Head(ready).task = "fan-out"
  /\ ready' = StartHandlers(Head(ready).event, Tail(ready))

\* _execute_single_handler: the handler's task at the head of the queue.
RunHandler ==
  /\ ready # <<>> /\ Head(ready).task = "run"
  /\ ready' = Tail(ready)

\* What waits for a handler: its own tasks, then those still to be started.
MailboxOf(s) ==
  LET tasks   == Range(ready)
      running == Keep(ready, {t \in tasks : t.task = "run" /\ t.handler = s.name})
      coming  == Keep(ready, {t \in tasks : t.task = "fan-out" /\ t.event.type \in s.on})
      waiting == running \o coming
  IN  [i \in DOMAIN waiting |-> waiting[i].event]
Mail == INSTANCE Mailboxes WITH
          Handlers <- Handlers,
          mailbox <- [h \in Handlers |-> MailboxOf(CHOOSE s \in Subscribers : s.name = h)]
=============================================================================
