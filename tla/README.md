# Verification of codelab-ai-service

TLA+ models of the services of this repository, TLC runs that check them on small instances, and
TLAPS proofs for every size. Paths below are relative to the repository; `ar/` abbreviates
`agent-runtime/app/`. `PROJECT.json` maps every definition to the lines it stands for.

## 1. Inventory

The system is a back end for an AI IDE: nginx → gateway (WebSocket) → agent-runtime (SSE over
HTTP) → llm-proxy → model providers; auth-service issues the tokens.

| Part | State | Operations | What makes it correct | Model |
|---|---|---|---|---|
| Session lock, `ar/infrastructure/concurrency/session_lock.py` | one `asyncio.Lock` per session in a dictionary | `lock`, `cleanup_unused_locks` | one request per session, first come first served, no lost wake-up | `SessionLock`, `SessionMutex` |
| Message orchestration, `ar/domain/services/` (`message_orchestration`, `message_processor`, `tool_result_handler`, `hitl_decision_handler`, helpers), `ar/application/handlers/`, `ar/api/v1/routers/messages_router.py` | the request's progress, its transaction | user message, tool result, human decision, agent switch; agent runs; hand-over between agents | the history stays one the provider accepts, an approval is decided once and settled by its answer, turns are not lost or torn, every request ends | `MessageOrchestration`, `ConversationLog` |
| Persistence, `ar/infrastructure/persistence/` | sessions, messages, contexts, switches, approvals (SQLite or PostgreSQL) | repositories and mappers (delete and insert), `get_db` (commit at the end) | a commit contains what the request read plus what it added | in `MessageOrchestration`, `SessionStore` (SQLite), `Approvals` (rows locked as in PostgreSQL) |
| Sessions and their clean-up, `ar/domain/entities/session.py`, `ar/domain/services/session_management.py`, `sessions_router.py`, `ar/infrastructure/cleanup/` | the sessions table: active, deleted, last activity, messages, title | create, get or create, add a message, deactivate, delete, get, history, list; the clean-up task | an id has one creator and lives once, what was confirmed is there, what the clean-up reports as cleaned is gone | `SessionStore` |
| Rate limit and internal key, `ar/api/middleware/` | times of the last minute's requests | let in, refuse | – (it decides which requests begin) | in `SessionStore` |
| Agent contexts, `ar/domain/entities/agent_context.py`, `ar/domain/services/agent_orchestration.py`, REST `agents_router.py` | current agent, switch counter and history | create, switch | counter, history and current agent agree; the limit holds | in `MessageOrchestration` |
| Agents and registry, `ar/agents/`, `agent_registry.py` | registered agents | route, process | an agent that runs is registered; tools are used by those who may | in `MessageOrchestration`, as choices |
| Approvals, `approval_management.py`, `ar/domain/services/hitl_policy.py`, `ar/domain/entities/approval.py`, `hitl.py` | pending approvals, the policy's rules | add, get, approve, reject; `requires_approval` | a decision stands; what is stored was announced | `Approvals`; within a conversation `MessageOrchestration` |
| Event bus and subscribers, `ar/events/` | the bus's tasks in the event loop, metrics | publish, handlers of the audit logger and the two collectors | each handler hears the events of its types and categories once, in order; the metrics tell what happened | `EventBus`, `Mailboxes`, `Approvals` |
| Model clients, `ar/infrastructure/llm/`, `ar/infrastructure/resilience/` | circuit breaker shared by the process | `chat_completion`, breaker, retries | breaker state agrees with its count, reopens and recovers, calls end | `LLMClient` |
| Tools, `tool_registry.py`, `tool_filter_service.py`, `tool_parser.py` | tool tables | filter, parse | – (tables and string processing) | no |
| Adapters, `ar/infrastructure/adapters/`, `ar/services/` | – | former interfaces | – | the session manager's in `SessionStore` |
| Gateway, `gateway/app/` | sockets by session | connect, read, forward, leave out, refuse, give up, end; REST proxies | a client learns how each turn ended; the registry names no dead socket | `Gateway` |
| Token checks, `gateway/app/middleware/`, `auth-service/app/services/jwks_service.py` | cached key set | fetch, store, use, fall back; publish | a token is checked against keys that are not older than the cache's lifetime, or than a fetch | `KeyCache` |
| Auth service: grants, `auth-service/app/api/v1/oauth.py`, `services/auth_service.py`, `token_service.py`, `refresh_token_service.py` | table `refresh_tokens` | password grant, refresh grant with rotation, reuse detection | a token serves once, a reuse ends its family, a token that was sent is known | `TokenRotation`, `TokenLedger` |
| Auth service: limits, `services/rate_limiter.py`, `brute_force_protection.py`, `middleware/rate_limit.py` | counters in Redis | count requests and failed attempts, lock out, reset | the limit is passed by overlapping attempts only; counters expire | `LoginLimits` |
| Auth service: users, clients, audit log | tables | look-ups, log | – (choices of the grants; changing them has no endpoint) | checks only, in `TokenRotation` and `LoginLimits` |
| llm-proxy, nginx, `client/`, `doc/`, `benchmark/`, `expirements/` | none of their own, or not part of the program | – | – | no |

How they interact: the gateway holds one WebSocket per session and, for each message it
receives, opens one HTTP stream to agent-runtime and forwards its events until it ends; only
then does it read the next message. agent-runtime runs in one event loop: requests interleave at
awaits only. They share the lock manager, the database, the breaker, the event bus and nothing
else. FastAPI's dependency `get_db` gives each request its own database session and commits when
the response has been sent.

What is hard here: a lock whose scope is shorter than the transaction; whole collections
rewritten from an entity that was read before another commit; a REST endpoint that takes no
lock; SQLite's single write lock held across a model call; answers sent before the commit;
exceptions turned into chunks, so that half a turn is committed; cancellation at any await; the
counters and limits met in the middle of a turn. `PROJECT.json` lists each at its line under
`hazards`, with the properties that cover it.

## 2. Plan

1. *(done)* `SessionLock`, with `SessionMutex` as its abstract specification.
2. *(done)* `MessageOrchestration` over `SessionMutex`, with `ConversationLog` as the abstract
   specification of what the database shows.
3. *(done)* `LLMClient`.
4. *(done)* `TokenRotation` with `TokenLedger`, `LoginLimits`.
5. *(done)* `SessionStore`: the sessions table under concurrent creation, stale entities,
   deletion, the clean-up and crashes.
6. *(done)* `EventBus` with its abstract specification `Mailboxes`; `Approvals` over it.
7. *(done)* `KeyCache` and, over it, `Gateway`.
8. *(done)* Proofs of every safety property, action property and refinement that the runs check
   (section 5).
9. Left to model: the composition of `Gateway` with the requests of `MessageOrchestration`,
   which would say when a client of the gateway can overtake its own turn (`overtaken`).

## 3. Modules

**`SessionMutex`** – the promise of the lock manager: per session a holder and a queue of
requests; `EnterNow`, `EnterQueue`, `Grant`, `Exit`, `Leave` (a waiter gives up).

**`SessionLock`** – the code. `locks` is `_locks`; each lock object has its `_locked` flag
(`locked`), its deque (`waiters`) and the waiters' futures (`fut`). `asyncio.Lock` is external
and modelled from CPython 3.12: `Enter` is everything up to the first suspension (`_global_lock`
is never held across an await, so looking the lock up and trying to take it is one step),
`Resume` the woken waiter's task, `Cancel`/`Abandon` the two halves of a cancellation, `Release`
the end of the block, `Cleanup(max)` `cleanup_unused_locks`. `Next` is what `app/` does;
`MaintainedNext` adds the clean-up, which only a test calls.

**`MessageOrchestration`** – the request handling. It EXTENDS `SessionMutex`: the lock is used
through its promise, which `SessionLock` implements. State and code:

| Variable | Code |
|---|---|
| `db` | the committed rows: messages per session, agent context, approval status per call |
| `writer`, `work` | the request that holds SQLite's write lock, and its uncommitted image |
| `seen[r]` | what the operation `r` is executing has read with its SELECTs |
| `phase[r]` | the await `r` stands at: waiting for the lock (`queued`), before a database operation (`add`, `decide`, `result`, `context`, `explicit`, `answer`, `handover`, `pend`, `record`), before an agent run or the model (`agent`), at the end of the generator (`leave`), between lock release and commit (`commit`) |
| `job[r]`, `hop[r]`, `actor[r]`, `told[r]` | the request's arguments; which agent run this is; the current agent; the model's last answer |
| `issued`, `delivered` | call ids the provider has used, calls that reached the client, each with its session |
| `overtaken`, `forgotten` | not in the code: the sessions in which a turn began while the writes of the one before were not committed; the calls that a client had been sent and the database had not when the process died |

A database operation is two steps, `Load` (its SELECTs) and the action that writes; a request
that already writes reads its own image. `WithMessage` is `SessionMapper.to_model` (all rows
deleted and rewritten from the entity read), `WithContext` `AgentContextMapper.to_model`.
`Release` precedes `Commit`, as the code does. An exception of the services ends the generator
with an error chunk and what was written is committed (`Finish`); a cancelled or timed-out
database call rolls back (`RollBack`); a cancellation in front of the model commits
(`Disconnect`). `Crash` forgets everything but `db`. Which tool the model calls, whether the
agent may use it and where it wants to switch are choices in `Consult`; routing is a choice in
`Classify` (a failed classification falls back to keywords and still routes). Requests arrive at
any time: `NotesTurn` marks the session when one enters between `Release` and `Commit` of the
turn before.

**`ConversationLog`** – what a client may rely on: messages of a session only grow, a turn at a
time; approvals only go none → pending → decided; a stored result leaves no pending approval. A
session in which a turn overtook the one before goes adrift (`Lose`), and its calls with it: its
messages are still its own, but nothing more is promised of them. `ImplementsLog` maps
`overtaken` to it.

**`LLMClient`** – `chat_completion` of `llm/client.py`: `Admit`/`Refuse` are the entry of
`CircuitBreaker.call`, `Succeed`/`Fail` its `_on_success`/`_on_failure` whenever they come,
`Repeat` the retry handler, `Cancel` a cancelled request (`CancelledError` passes both by). Time
is one bit, `ripe`. `failures` is counted up to the threshold; beyond it only `get_stats` looks
at it.

**`TokenLedger`** – what the table of refresh tokens promises: a token is issued at a login or
to the user and client of a revoked one; a row is never changed except to revoke it.

**`TokenRotation`** – the code. `rows` is the table, `held` the tokens that were sent. The
refresh grant is a sequence of short transactions, each an action: `Validate` (select, decide),
`ReadChain`/`RevokeChain` (the select and the commit of `revoke_token_chain`), `Exchange`
(`authenticate_refresh_grant`, which makes the new pair), `RevokeOld`, `Save`, `Answer`; the
password grant is `Password`, `Save`, `Answer`. A write changes the columns it assigns, whatever
has been committed since its select (SQLAlchemy writes changed columns of the row with that key;
PostgreSQL, READ COMMITTED, as `.env.example` sets it up). `late` and `siblings` remember what
was revoked or held when a request arrived, for the properties only. That a JWT expires or is
not accepted is the refusal in `Validate` and `Exchange`.

**`LoginLimits`** – the counters of both limits. An action is a Redis command; `first` remembers
which counters a request has made 1 and must give a time to live. The rate limit counts the
forwarded address, the lock-out the peer's. It shares no state with `TokenRotation`: there a
locked-out attempt is a refusal, here the password check is a choice.

**`SessionStore`** – the sessions table, with the requests that come through the REST endpoints
and services. `rows` is what is committed; `writer` and `work` are the write lock of SQLite and
its uncommitted image. A request reads an entity (`CreateSession`, `AddMessage`, `Deactivate`,
`Remove`), `SessionMapper.to_model` looks the row up again (`Look`), and the flush writes the
columns in which the entity differs from that row, and all messages (`Save`): `Updated` says
which columns survive a commit that came in between. `Reply` sends the answer, `Commit` comes
after it. `Submit` is the two middlewares, in their order. `SweepSelect`, `SweepMark` and
`SweepClose` are one round of the clean-up; `SweepClose` rolls back, because the factory in
`ar/main.py:108` closes its database session without a commit, so that `SweptAreGone` fails.

**`Mailboxes`** – what a subscriber may expect of a bus: a mailbox per handler, events appended,
taken from the head, each once.

**`EventBus`** – the code: `publish` puts a task in the event loop's queue (`ready`), which puts
one task per handler there (`RunFanOut`), highest priority first; `RunHandler` takes a handler's
task. The audit logger and the session collector subscribe to types of events, the metrics
collector's two handlers to a category each: `tool.approval.required` has category HITL
(`ar/events/tool_events.py:129`), so that `_collect_hitl_metrics` gets it, and not
`_collect_tool_metrics`. `MailboxOf` reads a handler's mailbox off the queue, and `Mail` is the
refinement.

**`Approvals`** – requests over that bus: a user message or an answer (`FindPending`, `LookUp`,
`Decide`: the status is looked for, looked up once more and overwritten), one call of the model
(`StartTurn`, `ModelFails`, `AnswerText`, `CallTool`), the approval it may need (`AddPending`,
`InsertPending`, by `RequiresApproval`, the first matching rule), the message (`RecordCall`),
and `Commit`. `drafts[r]` is what the open transaction of `r` has written. `CountTool` and
`CountRequest` are the metrics collectors; the branch of `CountTool` that counts approvals is in
the code and is never reached. `published` remembers what there was to count. A step of a
request is guarded by `Resumed`: the tasks its own `publish` started are in front of it in the
event loop's queue.

**`KeyCache`** – the gateway's copy of the key set: `GetJwks` is `get_jwks` up to its await,
`ServeJwks` the endpoint of auth-service, `StoreJwks` and `FetchFails` what follows; after
`StoreJwks` the HTTP client is closed, which is an await, and only then the check takes the copy
(`UseJwks`), which another check may have replaced. A key set is a number; `retired` remembers
when a pair was replaced. `NewKeys` is a restart of auth-service without its files.

**`Gateway`** – over `KeyCache`: `CheckToken`, `Serve` are a REST call; the WebSocket handler is
`Connect`, `ReadMessage`, `AskAgent`/`AskInVain`, `Forward`, `SkipLine`, `EndOfStream`,
`GiveUp`, `ReadNothing`. `Send` is `send_json` with what follows when the client has left,
`Close` the two outer `except` clauses of the handler, which do the same. `SkipLine` is a data
line that does not parse, which is logged and left out; `unread` remembers the turns that lost
their last chunk so. agent-runtime is seen from outside: it sends chunks, ends or dies.

`MCSessionLock`, `MCMessageOrchestration`, `MCLLMClient`, `MCTokenRotation`, `MCLoginLimits`,
`MCSessionStore`, `MCApprovals` and `MCGateway` hold the values of the constants.
`SequenceFilter` defines `Keep`, which is `SelectSeq` for a set instead of a test, written as a
recursive function that the provers can expand; the lock's waiters and the mailboxes are read
with it. The modules named `…_proofs` hold the proofs. Definitions marked *mutant* are broken
variants, used to confirm that each property notices them.

## 4. Runs

| cfg | shows |
|---|---|
| `MCSessionLock` | 3 requests, 2 sessions, cancelled at any moment: `MutualExclusion`, `NoLostWakeup`, `LockedIffHeld`, `EveryWaiterServed`, and that the code implements `SessionMutex` (`ImplementsMutex`) |
| `MCMessages` | 3 requests, 1 session, 2 calls (one guarded), REST switches and disconnects at any time, `hitl_models` missing as in the repository: `TypeOK`, `ResultsFollowCalls`, `AnsweredNotPending`, `ContextConsistent`, `OneAtATime` |
| `MCMessagesFailures` | 2 requests, on one session or on two that compete for the write lock; crashes, disconnects, busy time-outs: `PendingIsShown`, `ResultsFollowCalls`, `ImplementsLog`, `RequestsEnd` |
| `MCLLMClient` | 3 callers, threshold 2, one retry, outages and cancellations: `TypeOK`, `CountAgrees`, `OutageEnds`, `CallsEnd` |
| `MCTokenRotation` | 2 requests, 3 tokens, 2 clients, failures at any step: `TypeOK`, `SpentOnce`, `ReuseEndsFamily`, `HeldStored`, and that the transactions implement `TokenLedger` (`ImplementsLedger`) |
| `MCLoginLimits` | 2 requests of one user, lapses at any moment, failing Redis commands: `TypeOK`, `AttemptsBounded`, `CountersExpire`, `LockoutEnds` |
| `MCSessionStore` | 2 requests of any kind on 2 sessions beside the clean-up, with crashes and busy time-outs: `TypeOK`, `OneCreator`, `LivesOnce`, `CreatedAppears` |
| `MCApprovals` | 2 requests about one call id that may be known already, disconnects: `TypeOK`, `Announced`, `DecisionsStand`, `MetricsAgree`, and that the bus implements `Mailboxes` (`ImplementsMailboxes`) |
| `MCGateway` | 2 sockets of one session, 2 messages, agent-runtime failing at any moment, lines that do not parse; 2 overlapping token checks while the keys change: `TypeOK`, `KeysFresh`, `RegisteredServed`, `TurnsAnswered` |

Three runs show a disagreement between the code and what the repository says of it:

| cfg | found |
|---|---|
| `MCMessagesOvertaken` | a request enters between `Release` and `Commit` of the previous one and, rewriting the history it read, deletes the committed messages (`NoLostMessage`), although the lock is there against "race conditions" of requests of one session |
| `MCSessionSweep` | the clean-up counts a session as cleaned, and it is still there (`SweptAreGone`): nothing it marks is ever committed, although automatic clean-up is listed as implemented |
| `MCApprovalsCounted` | a tool that needs an approval is called, its event is handled, and `requires_approval` stays 0 (`ApprovalsCounted`), where the guide to the metrics shows a count |

What the models show beside it, without a run of its own:

- *Conversations.* In an overtaken session the other properties fail as well: an answer that
  comes in the window of `MCMessagesOvertaken` finds the approval not yet committed, and settles
  nothing. After a crash a client may answer a call that the database has forgotten; its result
  is stored without the call. An approval whose message the limit refuses stays without its
  call, and a `switch_mode` call that has a result may get a second one
  (`agent_switch_helper.py:66`). As the repository stands no human decision settles an approval
  (`hitl_decision_handler.py:87` imports the missing `app.models.hitl_models`; `HitlModels`
  FALSE). A `switch_mode` call without a valid target is stored and never gets a result
  (`agent_switch_helper.py:91`).
- *Lock.* `MutualExclusion` fails under `MaintainedSpec`: the clean-up drops a lock object that
  a woken waiter is about to take, and a second one is created.
- *Sessions.* Two clients may both be told 201 for one id: the second finds the row at the
  mapper's look-up and updates it, although the docstring of `create_session` promises
  `SessionAlreadyExistsError`. Nothing in `app/` calls `deactivate_session` or the repository's
  `delete`, so that the clean-up would find nothing to select even if it committed: old sessions
  stay. For the rate limit of agent-runtime the gateway is one client, so that all users share
  60 requests a minute, unauthorized ones included. The history's `current_agent` is always
  null, because the adapter's `get` answers None, and the `total` of a list is the length of the
  page.
- *Approvals and events.* A call id that the provider repeats is announced as requiring an
  approval although the stored one is decided and stays so. A decision that was on its way when
  another one committed overwrites it (`update_status` looks at no status). `AGENT_SWITCHED`,
  `HITL_DECISION_MADE`, `TOOL_EXECUTION_COMPLETED` and `_FAILED` have handlers but no publisher,
  so those metrics and audit entries stay empty; `AgentContextSubscriber` imports a module that
  does not exist.
- *Model client.* Errors called non-retryable are retried (`retry_handler.py:115`,
  `client.py:151`); an attempt made before the breaker opened closes it when its answer comes,
  without the recovery time.
- *Gateway.* After a reconnect the entry of the live socket goes when the old handler ends
  (nothing reads the registry). A time-out that comes after the last chunk tells the client
  twice. The last chunk of a turn may come in a line that does not parse (httpx's `aiter_lines`
  splits the text of a line at U+2028, U+2029 and U+0085 too): it is left out, the next message
  is read, and the client never learns how its turn ended (`SkipLine`; `TurnsAnswered` excepts
  these turns only). With two overlapping fetches an older key set may replace a newer one, also
  between a check's store and its use; so the keys a check uses may be older than the lifetime
  of the copy, by up to the time of a fetch if that is longer. A check whose fetch failed uses
  what there is, however old. Tokens are checked only when `USE_JWT_AUTH` is set, which it is
  not by default.
- *Auth service.* An error between the commits of `RevokeOld` and `Save` leaves the client with
  a revoked token and no successor. A Redis error between `incr` and `expire` leaves a counter
  without a time to live: nothing but a successful login, which a locked user cannot make, ever
  deletes it (`CountersExpire` and `LockoutEnds` exclude it by `redisFailed`).

What the token properties do not say: two *overlapping* requests with one token may both be
served, and a successor stored after the select of `revoke_token_chain` survives it; `SpentOnce`
and `ReuseEndsFamily` are about what was true when the request arrived.

**Bounds.** Requests 2–3, sessions 1–2, calls 1–2: two requests give every race of a reader and
a writer, the third a queue behind them (or a REST switch beside them); the second session is
there for the shared write lock; of two calls one is guarded and one not, so a turn can leave an
approval behind while another call is answered. `MaxMessages = 4` (1000 in the code) and
`MaxSwitches = 2` (50) are reached within a run, in the middle of turns too. `MaxLockObjects` is
2: without the clean-up one lock object per session is all there is. `Threshold` and
`MaxRetries` are smaller than 5 and 3; there are more callers than the threshold, so that
failures arrive in every state of the breaker. Three tokens are a login, its successor and a
second branch or generation; two clients are needed for a foreign `client_id`. The lock-out has
`Threshold = 1` and `RateLimit = 2` (5 and 5): every counter meets its limit with both requests
on their way; `MaxCount` is the largest value a limit or a property looks at. In
`MCSessionStore` two requests give every pair of a stale entity and a commit, and each limit is
1 (`MaxMessages`, `BatchSize`, `PageSize`, `RateLimit` in a `Window` of 1; 1000, 100, 100 and 60
in the code), so that it is met; with `MaxAge` 0 and one tick (`MaxTime` 1) a session that was
deactivated becomes old while another request still works with it. The database holds no session
or a fresh one of an earlier run. `MCApprovals`: what two requests do to one row is everything
that one row can be part of; the call may be unknown, pending or approved before. `MCGateway`:
the second socket is the reconnect, the second message the next turn, `MaxInFlight` 2 keeps two
chunks unread. Two key pairs are an old and a new one, and with `Lifetime` 1, `FetchTime` 2 and
`MaxTime` 3 a copy gets old while another fetch is on its way. The token checks and the sockets
share no variable, so that `OnePart` lets one of them move at a time. Symmetry is used in runs
without liveness only (`ImplementsLedger`, `DecisionsStand` and `ImplementsMailboxes` are step
properties and themselves symmetric).

**Assumptions.** Requests are sent whenever they like, also before the one they follow has been
committed; what the conversation properties promise they promise of sessions in which that did
not happen (`overtaken`, a turn began in the window between the lock's release and the commit: a
client sees the end of the stream before the commit, and nothing makes it wait), and
`MCMessagesOvertaken` shows what happens to the others. `ResultsFollowCalls` also excepts the
calls that a crash left to the client only (`forgotten`). `HitlModels` is FALSE in `MCMessages`,
which takes the repository as it stands, and TRUE in `MCMessagesFailures` (the handlers work as
written). Call ids of the provider are new and sessions exist in `MessageOrchestration` (not so
in `Approvals` and `SessionStore`); user messages are not empty; the database is SQLite, the
default, except in `Approvals`. Clocks go forward, a fetch of the keys takes no longer than
`FetchTime` (each of its steps times out after five seconds), and a key pair that was replaced
does not come back.

**Fairness.** Weak fairness of each request's steps and of the lock's hand-over: the event loop
runs ready tasks, the protected block's awaits end because the model's HTTP client has a
time-out of 360 s and the database a busy time-out. In `LLMClient`: pauses and attempts end
(same time-out) and time passes. Nobody is required to ask, to disconnect, to crash or to be up;
`OutageEnds` assumes in its left side that the provider stays up. In `LoginLimits` the event
loop serves each request and a key with a time to live lapses. In `SessionStore` the event loop
serves each request (a write waits for the lock or for its busy time-out), and the `async with`
around the clean-up's database session closes it. `Approvals` and `Gateway` state safety only.

**Deadlock** is not checked in the message, session, approval and gateway runs: each request is
made once, so the system stops when all are done (or turns and key pairs are used up).
`RequestsEnd` is what forbids getting stuck earlier.

## 5. Proofs

TLAPS checks, for every value of the constants allowed by the named assumptions
(`SessionLockAssumption`, `NoRequestAssumption`, `MessageOrchestrationAssumption`,
`LLMClientAssumption`, `TokenRotationAssumption`, `LoginLimitsAssumption`,
`SessionStoreAssumption`, `ApprovalsAssumption`, `KeyCacheAssumption`, `GatewayAssumption`).
Every safety property, action property and refinement of the passing runs is a theorem:

- `SessionLock_proofs`: `TypeCorrect`, `WakeupsKept` (`NoLostWakeup`) and `FlagsSound`
  (`LockedIffHeld`), with the clean-up as well; `MutuallyExclusive` (`MutualExclusion`, without
  the clean-up, which breaks it). `QueueInv` speaks of lock objects only: a deque lists waiting
  requests of its object, each once; a holder's object is marked locked and has no other holder
  (and, with `LockedHeld`, a marked object has a holder); and only the first waiter of a free
  lock is on its way to taking it (`WokenFirst`), without which a release or a cancellation
  could lose the wake-up. Exclusion per session needs `OwnLock` in addition: what a request
  refers to is the dictionary's lock object, which the clean-up falsifies. `ManagerIsAMutex`
  (`ImplementsMutex`, without the clean-up) maps every step to one of `SessionMutex`: the line
  of a session is the deque of its lock object without the waiters that were cancelled (`Keep`
  with the set of those that live), the holder is who holds the object. `MapInv` adds that two
  sessions never share an object (`Distinct`) and that whoever waits stands in the deque
  (`InLine`); the lemmas about `Keep` say what appending, removing and cancelling do to the
  line.
- `MessageOrchestration_proofs`: `TypeCorrect`; `WorkingAlone` (`OneAtATime`): a stream request
  that works is the holder of its session, a queued one is in the queue once, and others are
  nowhere in it (`Waiting`, `Once`, `WorkersHold`); `ContextsStayConsistent`: every image a
  request can work from has consistent contexts, and `SwitchTo` preserves consistency, so that
  overwriting (not merging) keeps it. `Fits(r)` says what each phase requires of `job`, `told`
  and `actor`, without which the types are not inductive. The theorems about conversations hold
  for requests that arrive at any time and for every failure, in the sessions that are not
  overtaken: `AnsweredCallsAreSettled` (`AnsweredNotPending`), `ConversationsAreLogs`
  (`ImplementsLog`) and `OnlyOvertakenSessionsLose`, from `InOrder`. The last one says that the
  window of `MCMessagesOvertaken` is the only way in which a commit loses a message. In
  `InOrder`, `Turns` says that one unfinished turn works on such a session, `Drafts` that the
  writer's image extends the committed one in its own session only and that what a turn has read
  is still current, `CallsInOrder` that results and approvals belong together in every image a
  request may use (`InUse`: the committed one, the writer's and what was read), that a call id
  has one owner, and that the writer's approvals are legal moves from the committed ones.
  `WaitingCallsAreShown` (`PendingIsShown`) adds `WaitingShown`: a pending approval is in the
  conversation or its request is about to record the call. `ResultsFollowTheirCalls`
  (`ResultsFollowCalls`) adds `CallsKept`: a call that a client was sent, and that is not
  forgotten, is committed or is about to be, and a call that is being answered is committed. TLC
  checked these invariants first, on the instances of `MCMessages` and `MCMessagesFailures`.
- `LLMClient_proofs`: `TypeCorrect`; `BreakerCounts` (`CountAgrees`); the attempts of a call
  agree with where it is.
- `TokenRotation_proofs`: `TypeCorrect`, `ServesOnce` (`SpentOnce`), `ReuseRevokes`
  (`ReuseEndsFamily`), `SentIsStored` (`HeldStored`) and the whole refinement `KeepsLedger`
  (`ImplementsLedger`). `Fits` says what each place of a request knows of the table (its token
  is stored and of its user and client; from `save` on it is revoked); `OwnFresh` keeps the
  fresh tokens of requests apart, without which a `Save` could rewrite a row; `Kept` carries
  what was revoked or held at arrival to the end of the request, because rows are never
  un-revoked.
- `LoginLimits_proofs`: `TypeCorrect`; `OvershootBounded` (`AttemptsBounded`), from the stronger
  `RoomLeft`: the counter plus the requests that have passed the check and not counted yet stays
  below the bound; `NothingCountsForEver` (`CountersExpire`, inductive itself).
- `SessionStore_proofs`: `TypeCorrect`; `CreatedOnce` (`OneCreator`) and `IdsLiveOnce`
  (`LivesOnce`: a row never disappears, and a deleted one stays deleted, whatever stale entity
  is saved later). The invariant is about the image a request works on: whatever it has read
  before, `Extends` says that the holder of the write lock has lost no row of the committed
  table and deleted at most its own session (nobody else can commit meanwhile), so that a commit
  keeps every row (`RowsChange`). `Inserting` and `HasInserted` follow a creator that found no
  row at the mapper's look-up: it holds the lock and the table has no such row, or it has
  committed one; two of them would contradict each other. `LookedUp` (a row once found is still
  there) keeps `Save` from losing it. `NoRow` is assumed not to be a row. `TypeCorrect` adds
  `AllShort`, `Paged` and `Limited`: no copy of a session is longer than the limit, a page is no
  longer than its limit, and the limiter's times are in order and as many as it lets in
  (`Recent` drops the expired ones at the front, which is what the code's filter does to times
  in order).
- `Approvals_proofs`: `CommittedDecisionsStand` (`DecisionsStand`), from `TableInv`: a row has
  one writer (`OneWriter`), a request that inserts an approval knows that the row is not there
  (`NewPending`), and only an answer that found its call undecided writes a decision
  (`OwnDecision`; `Undone` and `LateDone` say that what was decided when it looked, or arrived,
  is decided still). `ApprovalsAreAnnounced` (`Announced`), from `AnnouncedAhead`: the events of
  what an open transaction has written, or is about to decide, are out already. `BusIsMailboxes`
  (`ImplementsMailboxes`): a handler's mailbox is read off the event loop's queue as the events
  of its tasks followed by those of the fan-outs it listens to; a fan-out at the head starts
  tasks behind every other task, so that it moves its event between the two parts and the
  mailbox stays what it was (`WaitingStarted`). `CollectorsAgree` (`MetricsAgree`): among the
  events of a session that wait for the session collector every end follows the start of its own
  turn, or is first and the collector holds that start (`Paired`), which needs that the requests
  that work have different sessions (`Alone`); an end that waits is the only one of its request
  and says what the client was told (`OneEnd`), and what no longer waits is counted (`Counted`).
  For the tool collector `ToolsInv` says that what it has counted and what waits for it are
  together the requests that have published a tool event; `TypeCorrect` takes the bound of the
  counter from that. `NextEffects` sums up what a step may do to a turn and to the bus. TLC
  checked `TurnsInv` and `ToolsInv` on `MCApprovals`, and with three requests on one session.
- `Gateway_proofs`: `TypeCorrect`; `KeysAreFresh` (`KeysFresh`), from `CopiesFresh` – the copy
  and every answer on its way were in force at the time they will carry –, `StoredLately` – what
  may replace a copy was asked for no longer ago than a fetch takes – and `Retirements`;
  `RegisteredAreServed` (`RegisteredServed`); `TurnsAreAnswered` (`TurnsAnswered`), from
  `Numbered` (a turn belongs to one socket) and `Ending` (a stream that ends without a break has
  a last chunk that is in flight, was sent on or was left out).

Model-checked only: the liveness properties (`EveryWaiterServed`, `RequestsEnd`, `OutageEnds`,
`CallsEnd`, `LockoutEnds`, `CreatedAppears`), because fairness and ENABLED are outside the
prover. Only proved: the type invariant of the lock manager and that lock objects stay sound
when `cleanup_unused_locks` drops them (`TypeOK`, `FlagsSound` with `MaintainedSpec`; no run
calls the clean-up, as `app/` does not), and `OnlyOvertakenSessionsLose`. `MutualExclusion`, `ImplementsMutex` and their theorems are about
the manager without the clean-up.

## 6. Not modelled

Texts, prompts, metadata and timestamps; PostgreSQL (beyond the row locks of `Approvals`); more
than one tool call per answer (the handler takes the first); counters that only add up (agents'
work, errors, durations); and the parts the table calls "no": tool tables and parsing are string
processing, llm-proxy forwards without state, the rest is configuration. What nothing in `app/`
calls is left out: the bus's middleware, `unsubscribe` and `clear`, `cleanup_now`,
`reset_session`, `DatabaseService`, the former `services/`, `ApprovalManager`'s own policy, the
counts of the repositories, the gateway's token buffers and `stream_service`. (The command
`AddMessage`, `deactivate_session`, the repository's `delete` and `cleanup_unused_locks` have no
caller either, but are modelled.) In auth-service: signatures, hashes and scopes; the skip of
the rate limit for local addresses and its switch; `cleanup_expired_tokens` and
`check_rate_limit_username`, which nothing calls; SQLite (there `RefreshToken.is_expired`,
`models/refresh_token.py:93`, compares an aware time with the naive one that SQLite returns, so
that every refresh ends as a server error). `CircuitBreaker.reset` and `RetryHandler`'s delays:
nothing calls the former, and the delays only say that time passes.
