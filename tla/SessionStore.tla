------------------------------ MODULE SessionStore ------------------------------
(***************************************************************************)
(* The sessions of agent-runtime: the REST and service operations on rows  *)
(* of the sessions table, and the background clean-up.                     *)
(*                                                                         *)
(* An operation has three database steps: it reads an entity, the mapper   *)
(* looks the row up again (Look), and only then the first write takes      *)
(* SQLite's write lock (Save): other commits may come between any two.     *)
(* The client gets its answer before get_db commits (FastAPI ends          *)
(* dependencies after the response).  All requests come through the        *)
(* gateway, for the rate limit one client.  No endpoint calls the command  *)
(* AddMessage, deactivate_session and the repository's delete: they are    *)
(* operations of the services and their adapters.                          *)
(***************************************************************************)
EXTENDS Naturals, Sequences, FiniteSets

CONSTANTS
  Requests,     \* requests, each with one operation and one transaction
  Sessions,     \* session ids
  Sweeper,      \* the clean-up, as a holder of the write lock
  NoRequest, NoRow, NoJob,
  MaxAge,       \* max_age_hours of the clean-up
  MaxMessages,  \* Session.max_messages
  BatchSize,    \* batch_size of cleanup_old
  PageSize,     \* limit of a listing
  RateLimit,    \* requests_per_minute
  Window,       \* the minute
  MaxTime,      \* bound: the clock stops here
  MayCrash      \* TRUE iff the process may die

\* SessionModel with its messages: a message is the request that wrote it,
\* title the message the title was taken from (NoRequest: none).
RowTypes == [active : BOOLEAN, deleted : BOOLEAN, activity : 0..MaxTime,
             msgs : Seq(Requests), title : Requests \cup {NoRequest}]

ASSUME SessionStoreAssumption ==
  /\ NoRow \notin RowTypes
  /\ Sweeper \notin Requests /\ NoRequest \notin Requests /\ NoRequest # Sweeper
  /\ MaxAge \in Nat /\ MaxMessages \in Nat \ {0}
  /\ BatchSize \in Nat \ {0} /\ PageSize \in Nat \ {0} /\ MaxTime \in Nat
  /\ RateLimit \in Nat \ {0} /\ Window \in Nat \ {0}
  /\ MayCrash \in BOOLEAN

VARIABLES
  rows,      \* the committed rows of the sessions table, with their messages
  writer,    \* who holds the database's write lock
  work,      \* its uncommitted image
  now,       \* the clock
  admitted,  \* RateLimitMiddleware.requests: when requests were let in
  phase,     \* where request r is
  job,       \* what r was asked to do
  entity,    \* the Session object r works with
  looked,    \* the row r's mapper has found
  page,      \* the sessions r lists
  answer,    \* what r's client was told
  sweep,     \* where the clean-up task is
  picked     \* the sessions it has selected

dbVars == <<rows, writer, work>>
reqVars == <<phase, job, entity, looked, page, answer>>
sweepVars == <<sweep, picked>>
vars == <<dbVars, now, admitted, reqVars, sweepVars>>

-----------------------------------------------------------------------------
Rows == {row \in RowTypes : Len(row.msgs) <= MaxMessages}
Images == [Sessions -> Rows \cup {NoRow}]
Kinds == {"create", "post", "add", "deactivate", "remove", "get", "history", "list"}
Jobs == [kind : Kinds, sess : Sessions]
Phases == {"new", "find", "create", "fetch", "look", "write", "mark", "reply", "commit",
           "done", "lost"}
Answers == {"none", "created", "added", "done", "found", "missing", "exists", "refused",
            "conflict", "busy", "limited", "unauthorized"}

TypeOK ==
  /\ rows \in Images
  /\ writer \in Requests \cup {Sweeper, NoRequest}
  /\ writer # NoRequest => work \in Images
  /\ now \in 0..MaxTime
  /\ admitted \in Seq(0..now) /\ Len(admitted) <= RateLimit
  /\ phase \in [Requests -> Phases]
  /\ job \in [Requests -> Jobs \cup {NoJob}]
  /\ \A r \in Requests : phase[r] # "new" => job[r] \in Jobs
  /\ entity \in [Requests -> Rows \cup {NoRow}]
  /\ looked \in [Requests -> Rows \cup {NoRow}]
  /\ page \in [Requests -> SUBSET Sessions]
  /\ \A r \in Requests : Cardinality(page[r]) <= PageSize
  /\ answer \in [Requests -> Answers]
  /\ sweep \in {"off", "asleep", "mark", "close"}
  /\ picked \subseteq Sessions

\* A new Session entity.
Fresh == [active |-> TRUE, deleted |-> FALSE, activity |-> now, msgs |-> <<>>,
          title |-> NoRequest]

\* The database may hold sessions of an earlier run of the process.
Init ==
  /\ now = 0
  /\ admitted = <<>>
  /\ rows \in [Sessions -> {NoRow, Fresh}]
  /\ writer = NoRequest
  /\ work = NoRow
  /\ phase = [r \in Requests |-> "new"]
  /\ job = [r \in Requests |-> NoJob]
  /\ entity = [r \in Requests |-> NoRow]
  /\ looked = [r \in Requests |-> NoRow]
  /\ page = [r \in Requests |-> {}]
  /\ answer = [r \in Requests |-> "none"]
  /\ sweep = "off"
  /\ picked = {}

-----------------------------------------------------------------------------
(***************************************************************************)
(* Database operations                                                     *)
(***************************************************************************)
S(r) == job[r].sess
Kind(r) == job[r].kind

\* What r's statements see: its own transaction, or the last commit.
Image(r) == IF writer = r THEN work ELSE rows
MayWrite(r) == writer = r \/ writer = NoRequest

Live(row) == row # NoRow /\ ~row.deleted

\* find_by_id, and the look-up of to_model: a deleted row is not found.
FindById(r) == IF Live(Image(r)[S(r)]) THEN Image(r)[S(r)] ELSE NoRow

\* list and find_active: the PageSize sessions that were active last (any of
\* those that were active at the same time).
Listed(img, activeOnly) == {s \in Sessions : Live(img[s]) /\ (activeOnly => img[s].active)}
IsPage(P, img, activeOnly) ==
  /\ P \subseteq Listed(img, activeOnly)
  /\ Cardinality(P) <= PageSize
  /\ \A s \in Listed(img, activeOnly) \ P :
        /\ Cardinality(P) = PageSize
        /\ \A t \in P : img[s].activity <= img[t].activity

Goto(r, p) == phase' = [phase EXCEPT ![r] = p]

Write(r, img) ==
  /\ MayWrite(r)
  /\ writer' = r
  /\ work' = img
  /\ UNCHANGED rows

RollBack(r) ==
  /\ writer' = IF writer = r THEN NoRequest ELSE writer
  /\ work' = IF writer = r THEN NoRow ELSE work
  /\ UNCHANGED rows

\* The request ends and nothing is written: get_db rolls back after an
\* exception, and has nothing to commit after a query.
Conclude(r, a) ==
  /\ RollBack(r)
  /\ Goto(r, "done")
  /\ answer' = [answer EXCEPT ![r] = a]
  /\ entity' = [entity EXCEPT ![r] = NoRow]
  /\ looked' = [looked EXCEPT ![r] = NoRow]
  /\ UNCHANGED <<job, page>>

\* An entity goes to SessionRepositoryImpl.save.
SaveEntity(r, e) ==
  /\ entity' = [entity EXCEPT ![r] = e]
  /\ Goto(r, "look")
  /\ UNCHANGED <<dbVars, job, looked, page, answer>>

-----------------------------------------------------------------------------
(***************************************************************************)
(* Requests                                                                *)
(***************************************************************************)
FirstPhase(k) ==
  CASE k = "create" -> "create"
    [] k \in {"post", "get", "history", "list"} -> "find"
    [] k \in {"add", "deactivate", "remove"} -> "fetch"

\* RateLimitMiddleware forgets what is older than a minute (the times are in the
\* order of admission: a prefix), then looks at the limit and lets the request in;
\* InternalAuthMiddleware comes after it.
Expired == {i \in DOMAIN admitted : now - admitted[i] >= Window}
Recent == SubSeq(admitted, Cardinality(Expired) + 1, Len(admitted))

Refuse(r, a) ==
  /\ Goto(r, "done")
  /\ answer' = [answer EXCEPT ![r] = a]

Submit(r, j) ==
  /\ phase[r] = "new"
  /\ job' = [job EXCEPT ![r] = j]
  /\ \/ /\ Len(Recent) >= RateLimit
        /\ admitted' = Recent
        /\ Refuse(r, "limited")
     \/ /\ Len(Recent) < RateLimit
        /\ admitted' = Append(Recent, now)
        /\ Refuse(r, "unauthorized")
     \/ /\ Len(Recent) < RateLimit
        /\ admitted' = Append(Recent, now)
        /\ Goto(r, FirstPhase(j.kind))
        /\ UNCHANGED answer
  /\ UNCHANGED <<dbVars, now, sweepVars, entity, looked, page>>

\* GET /sessions/{id}.
GetSession(r) ==
  /\ phase[r] = "find" /\ Kind(r) = "get"
  /\ Conclude(r, IF FindById(r) = NoRow THEN "missing" ELSE "found")
  /\ UNCHANGED <<now, admitted, sweepVars>>

\* GET /sessions/{id}/history: the same look-up; the agent context it also asks
\* for is never there (its adapter answers None).
GetHistory(r) ==
  /\ phase[r] = "find" /\ Kind(r) = "history"
  /\ Conclude(r, IF FindById(r) = NoRow THEN "missing" ELSE "found")
  /\ UNCHANGED <<now, admitted, sweepVars>>

\* ListSessionsHandler: list or find_active.
Found(P) == IsPage(P, rows, FALSE) \/ IsPage(P, rows, TRUE)

\* GET /sessions: a page of the sessions, or of the active ones.
List(r) ==
  /\ phase[r] = "find" /\ Kind(r) = "list"
  /\ \E P \in SUBSET Sessions : Found(P) /\ page' = [page EXCEPT ![r] = P]
  /\ Goto(r, "done")
  /\ answer' = [answer EXCEPT ![r] = "found"]
  /\ UNCHANGED <<dbVars, now, admitted, sweepVars, job, entity, looked>>

\* get_or_create_session, with which every message begins.
GetOrCreate(r) ==
  /\ phase[r] = "find" /\ Kind(r) = "post"
  /\ Goto(r, IF FindById(r) = NoRow THEN "create" ELSE "fetch")
  /\ UNCHANGED <<dbVars, now, admitted, sweepVars, job, entity, looked, page, answer>>

\* create_session, called by POST /sessions and by get_or_create_session (which
\* does not expect the session to have appeared in between).
CreateSession(r) ==
  /\ phase[r] = "create"
  /\ \/ /\ FindById(r) = NoRow
        /\ SaveEntity(r, Fresh)
     \/ /\ FindById(r) # NoRow
        /\ Conclude(r, "exists")
  /\ UNCHANGED <<now, admitted, sweepVars>>

\* Session.add_message: an inactive or a full session refuses.
Accepts_full(row) == row.active /\ Len(row.msgs) <= MaxMessages  \* mutant: one too many
Accepts(row) == row.active /\ Len(row.msgs) < MaxMessages
WithMessage(row, r) ==
  [row EXCEPT !.msgs = Append(@, r), !.activity = now,
              !.title = IF @ = NoRequest THEN r ELSE @]

\* add_message: the session is read again, then the message is added.
AddMessage(r) ==
  /\ phase[r] = "fetch" /\ Kind(r) \in {"post", "add"}
  /\ LET found == FindById(r)
     IN  \/ /\ found = NoRow
            /\ Conclude(r, "missing")
         \/ /\ found # NoRow /\ ~Accepts(found)
            /\ Conclude(r, "refused")
         \/ /\ found # NoRow /\ Accepts(found)
            /\ SaveEntity(r, WithMessage(found, r))
  /\ UNCHANGED <<now, admitted, sweepVars>>

\* deactivate_session (the session manager adapter's delete).
Deactivate(r) ==
  /\ phase[r] = "fetch" /\ Kind(r) = "deactivate"
  /\ \/ /\ FindById(r) = NoRow
        /\ Conclude(r, "missing")
     \/ /\ FindById(r) # NoRow
        /\ SaveEntity(r, [FindById(r) EXCEPT !.active = FALSE])
  /\ UNCHANGED <<now, admitted, sweepVars>>

\* SessionRepositoryImpl.delete reads the row whether or not it is deleted...
Remove(r) ==
  /\ phase[r] = "fetch" /\ Kind(r) = "remove"
  /\ \/ /\ Image(r)[S(r)] = NoRow
        /\ Conclude(r, "missing")
     \/ /\ Image(r)[S(r)] # NoRow
        /\ looked' = [looked EXCEPT ![r] = Image(r)[S(r)]]
        /\ Goto(r, "mark")
        /\ UNCHANGED <<dbVars, job, entity, page, answer>>
  /\ UNCHANGED <<now, admitted, sweepVars>>

\* ...and its flush writes what differs from that row.
MarkRemoved(r) ==
  /\ phase[r] = "mark"
  /\ Write(r, [Image(r) EXCEPT ![S(r)].deleted = TRUE,
                               ![S(r)].active = @ /\ ~looked[r].active])
  /\ Goto(r, "reply")
  /\ UNCHANGED <<now, admitted, sweepVars, job, entity, looked, page, answer>>

\* SessionMapper.to_model looks the row up once more...
Look(r) ==
  /\ phase[r] = "look"
  /\ looked' = [looked EXCEPT ![r] = FindById(r)]
  /\ Goto(r, "write")
  /\ UNCHANGED <<dbVars, now, admitted, sweepVars, job, entity, page, answer>>

\* ...and writes: a new row, or the columns in which the entity differs from
\* the row found; the messages are always replaced.
Updated(row, old, e) ==
  [row EXCEPT !.active   = IF e.active = old.active THEN @ ELSE e.active,
              !.activity = IF e.activity = old.activity THEN @ ELSE e.activity,
              !.title    = IF e.title = old.title THEN @ ELSE e.title,
              !.msgs     = e.msgs]

\* A post that has only created its session goes on with its message.
AfterSave(r) ==
  IF Kind(r) = "post" /\ entity[r].msgs = <<>> THEN "fetch" ELSE "reply"

Save_upsert(r) ==  \* mutant: an existing row is replaced instead of refused
  /\ phase[r] = "write"
  /\ Write(r, [Image(r) EXCEPT ![S(r)] =
       IF looked[r] = NoRow THEN entity[r] ELSE Updated(@, looked[r], entity[r])])
  /\ Goto(r, AfterSave(r))
  /\ UNCHANGED <<now, admitted, sweepVars, job, entity, looked, page, answer>>
Save(r) ==
  /\ phase[r] = "write"
  /\ \/ /\ looked[r] = NoRow /\ Image(r)[S(r)] = NoRow
        /\ Write(r, [Image(r) EXCEPT ![S(r)] = entity[r]])
        /\ Goto(r, AfterSave(r))
        /\ UNCHANGED <<job, entity, looked, page, answer>>
     \/ /\ looked[r] = NoRow /\ Image(r)[S(r)] # NoRow  \* the primary key exists
        /\ MayWrite(r)
        /\ Conclude(r, "conflict")
     \/ /\ looked[r] # NoRow
        /\ Write(r, [Image(r) EXCEPT ![S(r)] = Updated(@, looked[r], entity[r])])
        /\ Goto(r, AfterSave(r))
        /\ UNCHANGED <<job, entity, looked, page, answer>>
  /\ UNCHANGED <<now, admitted, sweepVars>>

\* The write lock is not obtained within the busy timeout.
BusyTimeout(r) ==
  /\ phase[r] \in {"write", "mark"}
  /\ ~MayWrite(r)
  /\ Conclude(r, "busy")
  /\ UNCHANGED <<now, admitted, sweepVars>>

\* The response is sent...
Reply(r) ==
  /\ phase[r] = "reply"
  /\ answer' = [answer EXCEPT ![r] =
       CASE Kind(r) = "create" -> "created" [] Kind(r) \in {"post", "add"} -> "added" [] OTHER -> "done"]
  /\ entity' = [entity EXCEPT ![r] = NoRow]
  /\ Goto(r, "commit")
  /\ UNCHANGED <<dbVars, now, admitted, sweepVars, job, looked, page>>

\* ...and get_db commits.
Commit_closed(r) ==  \* mutant: get_db closes the session without a commit
  /\ phase[r] = "commit"
  /\ RollBack(r)
  /\ Goto(r, "done")
  /\ UNCHANGED <<now, admitted, sweepVars, job, entity, looked, page, answer>>
Commit(r) ==
  /\ phase[r] = "commit"
  /\ IF writer = r THEN rows' = work /\ writer' = NoRequest /\ work' = NoRow
                   ELSE UNCHANGED dbVars
  /\ Goto(r, "done")
  /\ UNCHANGED <<now, admitted, sweepVars, job, entity, looked, page, answer>>

-----------------------------------------------------------------------------
(***************************************************************************)
(* The clean-up                                                            *)
(***************************************************************************)
SweepStart ==
  /\ sweep = "off"
  /\ sweep' = "asleep"
  /\ UNCHANGED <<dbVars, now, admitted, reqVars, picked>>

\* cleanup_old: inactive sessions whose last activity is long past.
Outdated(row) == Live(row) /\ ~row.active /\ row.activity + MaxAge < now
Old == {s \in Sessions : Outdated(rows[s])}

\* The interval is over: a batch of old sessions is selected.
SweepSelect ==
  /\ sweep = "asleep"
  /\ \E P \in SUBSET Old :
        /\ P # {}
        /\ Cardinality(P) = BatchSize \/ (P = Old /\ Cardinality(P) <= BatchSize)
        /\ picked' = P
  /\ sweep' = "mark"
  /\ UNCHANGED <<dbVars, now, admitted, reqVars>>

\* The flush marks the rows that were selected, whatever they are now.
SweepMark ==
  /\ sweep = "mark"
  /\ writer = NoRequest
  /\ writer' = Sweeper
  /\ work' = [s \in Sessions |->
       IF s \in picked THEN [rows[s] EXCEPT !.deleted = TRUE] ELSE rows[s]]
  /\ sweep' = "close"
  /\ UNCHANGED <<rows, now, admitted, reqVars, picked>>

\* The factory of main.py closes its database session, which rolls back.
SweepClose ==
  /\ sweep = "close"
  /\ RollBack(Sweeper)
  /\ sweep' = "asleep"
  /\ picked' = {}
  /\ UNCHANGED <<now, admitted, reqVars>>

\* The flush fails; the loop goes on.
SweepFail ==
  /\ sweep = "mark"
  /\ writer # NoRequest
  /\ sweep' = "asleep"
  /\ picked' = {}
  /\ UNCHANGED <<dbVars, now, admitted, reqVars>>

\* stop() cancels the task.
SweepStop ==
  /\ sweep # "off"
  /\ RollBack(Sweeper)
  /\ sweep' = "off"
  /\ picked' = {}
  /\ UNCHANGED <<now, admitted, reqVars>>

-----------------------------------------------------------------------------
Tick ==
  /\ now < MaxTime
  /\ now' = now + 1
  /\ UNCHANGED <<dbVars, admitted, reqVars, sweepVars>>

Unfinished(r) == phase[r] \notin {"new", "done", "lost"}

\* The process dies: requests, the clean-up and uncommitted work are lost.
Crash ==
  /\ MayCrash
  /\ \E r \in Requests : Unfinished(r)
  /\ writer' = NoRequest
  /\ work' = NoRow
  /\ phase' = [r \in Requests |-> IF Unfinished(r) THEN "lost" ELSE phase[r]]
  /\ sweep' = "off"
  /\ picked' = {}
  /\ admitted' = <<>>
  /\ entity' = [r \in Requests |-> NoRow]
  /\ looked' = [r \in Requests |-> IF Unfinished(r) THEN NoRow ELSE looked[r]]
  /\ UNCHANGED <<rows, now, job, page, answer>>

Step(r) ==
  \/ GetSession(r) \/ GetHistory(r) \/ List(r) \/ GetOrCreate(r) \/ CreateSession(r) \/ AddMessage(r)
  \/ Deactivate(r) \/ Remove(r) \/ MarkRemoved(r) \/ Look(r) \/ Save(r)
  \/ Reply(r) \/ Commit(r)

Next ==
  \/ \E r \in Requests :
        \/ \E j \in Jobs : Submit(r, j)
        \/ Step(r)
        \/ BusyTimeout(r)
  \/ SweepStart \/ SweepSelect \/ SweepMark \/ SweepClose \/ SweepFail \/ SweepStop
  \/ Tick \/ Crash

Spec == Init /\ [][Next]_vars

\* The event loop runs every ready task; a session of the database is closed.
FairSpec ==
  /\ Spec
  /\ \A r \in Requests : WF_vars(Step(r) \/ BusyTimeout(r))
  /\ WF_vars(SweepClose)
-----------------------------------------------------------------------------
(***************************************************************************)
(* Properties                                                              *)
(***************************************************************************)
\* Requests that create one session id look for it long before they write, and
\* their clients are answered before the commit; of those that are told they
\* created it at most one inserted the row.  (Another one may have found the
\* row at the mapper's look-up and updated it: create_session then answers 201
\* for a session that exists.)
Inserted(r) ==
  /\ phase[r] \in {"commit", "done"}
  /\ answer[r] = "created"
  /\ looked[r] = NoRow
OneCreator ==
  \A q, r \in Requests : Inserted(q) /\ Inserted(r) /\ S(q) = S(r) => q = r

\* An id is used once: a row is created, may be deleted, and never comes back,
\* whatever stale entity is saved afterwards.
LivesOnce ==
  [][\A s \in Sessions :
        /\ rows[s] # NoRow => rows'[s] # NoRow
        /\ rows[s] # NoRow /\ rows[s].deleted => rows'[s].deleted]_rows

\* The number the clean-up reports as cleaned ("Returns: the number of sessions
\* cleaned", session_repository_impl.py:381) is of sessions that are gone.
SweptAreGone ==
  [][sweep = "close" /\ sweep' = "asleep" => \A s \in picked : ~Live(rows'[s])]_vars

\* Every request ends, and a session whose creation was answered with 201
\* is in the database then or soon after, unless the process died in between.
CreatedAppears ==
  \A r \in Requests :
     phase[r] # "new" ~> \/ phase[r] = "lost"
                         \/ phase[r] = "done" /\ (answer[r] = "created" => rows[S(r)] # NoRow)
=============================================================================
