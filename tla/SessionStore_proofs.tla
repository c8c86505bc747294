-------------------------- MODULE SessionStore_proofs --------------------------
(***************************************************************************)
(* Proofs about the sessions table, for any number of requests and         *)
(* sessions: a session id is created once and never comes back after a     *)
(* deletion, and the clean-up takes no active session.                     *)
(*                                                                         *)
(* The argument: who holds the write lock works on an image in which no    *)
(* row of the committed table is lost, and nobody else commits meanwhile;  *)
(* a request that will be told that it created its session either holds    *)
(* the lock and has put a row where the table has none, or has committed.  *)
(***************************************************************************)
EXTENDS SessionStore, Integers, SequenceTheorems, FiniteSetTheorems, TLAPS

StoredRows == RowTypes \cup {NoRow}

StoreTypes ==
  /\ now \in 0..MaxTime
  /\ rows \in [Sessions -> StoredRows]
  /\ writer \in Requests \cup {Sweeper, NoRequest}
  /\ writer # NoRequest => work \in [Sessions -> StoredRows]
  /\ phase \in [Requests -> Phases]
  /\ job \in [Requests -> Jobs \cup {NoJob}]
  /\ \A r \in Requests : phase[r] # "new" => job[r] \in Jobs
  /\ entity \in [Requests -> StoredRows]
  /\ \A r \in Requests : phase[r] \in {"look", "write"} => entity[r] # NoRow
  /\ looked \in [Requests -> StoredRows]
  /\ \A r \in Requests : phase[r] = "mark" => looked[r] # NoRow /\ job[r].kind = "remove"
  /\ answer \in [Requests -> Answers]
  /\ sweep \in {"off", "asleep", "mark", "close"}
  /\ picked \subseteq Sessions
  /\ \A s \in picked : rows[s] # NoRow

\* What may become of a row: it stays, and stays deleted.
Keeps(old, new) ==
  /\ old # NoRow => new # NoRow
  /\ old # NoRow /\ old.deleted => new.deleted

\* The image of request r, which may delete its own session only.
ImageOf(r, img) ==
  \A s \in Sessions :
    /\ Keeps(rows[s], img[s])
    /\ Live(rows[s]) /\ ~Live(img[s]) => Kind(r) = "remove" /\ S(r) = s

Extends ==
  \A r \in Requests : writer = r => Unfinished(r) /\ phase[r] # "find" /\ ImageOf(r, work)

\* A row that was looked up is still there for its request.
LookedUp ==
  \A r \in Requests : looked[r] # NoRow => phase[r] # "new" /\ Image(r)[S(r)] # NoRow

\* A creator that found no row holds the lock and has inserted one, or has
\* committed it.
Inserts(r) == Kind(r) = "create" /\ looked[r] = NoRow
Inserting ==
  \A r \in Requests :
     phase[r] \in {"reply", "commit"} /\ Inserts(r) =>
       writer = r /\ rows[S(r)] = NoRow /\ work[S(r)] # NoRow
HasInserted ==
  \A r \in Requests :
     phase[r] = "done" /\ answer[r] = "created" /\ looked[r] = NoRow => rows[S(r)] # NoRow

Answered ==
  \A r \in Requests :
     answer[r] = "created" => Kind(r) = "create" /\ phase[r] \in {"commit", "done", "lost"}

StoreInv ==
  /\ StoreTypes /\ Extends /\ LookedUp /\ Inserting /\ HasInserted /\ Answered /\ OneCreator

LEMMA InitStore == Init => StoreInv
<1> SUFFICES ASSUME Init PROVE StoreInv
  OBVIOUS
<1> USE SessionStoreAssumption DEF Init
<1>1. Fresh \in RowTypes
  BY DEF Fresh, RowTypes
<1>2. StoreTypes
  BY <1>1 DEF StoreTypes, StoredRows, Phases, Answers
<1> QED
  BY <1>2 DEF StoreInv, Extends, LookedUp, Inserting, HasInserted, Answered, OneCreator, Inserted

\* The image a request works on has every row, and its write keeps them.
LEMMA ImageFacts ==
  ASSUME StoreInv, NEW r \in Requests, MayWrite(r)
  PROVE  /\ Image(r) \in [Sessions -> StoredRows]
         /\ ImageOf(r, Image(r))
  BY SessionStoreAssumption
  DEF StoreInv, StoreTypes, Extends, Image, MayWrite, ImageOf, Keeps

\* r goes on and touches nothing but its entity.
LEMMA MoveStep ==
  ASSUME StoreInv, NEW r \in Requests, phase[r] \in {"find", "create", "fetch"},
         NEW p \in {"create", "fetch", "look"}, Goto(r, p),
         UNCHANGED <<dbVars, now, sweepVars, job, looked, answer>>,
         entity' \in [Requests -> StoredRows],
         \A q \in Requests \ {r} : entity'[q] = entity[q],
         p = "look" => entity'[r] # NoRow
  PROVE  StoreInv'
<1> USE SessionStoreAssumption DEF StoreInv, dbVars, sweepVars
<1>1. /\ phase' = [phase EXCEPT ![r] = p]
      /\ UNCHANGED <<rows, writer, work, now, sweep, picked, job, looked, answer>>
  BY DEF Goto
<1>2. StoreTypes'
  BY <1>1 DEF StoreTypes, Phases, Unfinished
<1>3. Extends' /\ LookedUp'
  BY <1>1 DEF StoreTypes, Extends, LookedUp, ImageOf, Kind, S, Image, Unfinished
<1>4. Inserting' /\ HasInserted' /\ Answered'
  BY <1>1 DEF StoreTypes, Inserting, HasInserted, Answered, Inserts, Kind, S, Unfinished
<1>5. OneCreator'
  BY <1>1 DEF StoreTypes, OneCreator, Inserted, S
<1> QED
  BY <1>2, <1>3, <1>4, <1>5

\* r ends without a trace in the database.
LEMMA ConcludeStep ==
  ASSUME StoreInv, NEW r \in Requests, Unfinished(r), NEW a \in Answers \ {"created"},
         Conclude(r, a), UNCHANGED <<now, sweepVars>>
  PROVE  StoreInv'
<1> USE SessionStoreAssumption DEF StoreInv, sweepVars
<1>1. /\ rows' = rows
      /\ IF writer = r THEN writer' = NoRequest ELSE writer' = writer /\ work' = work
      /\ phase' = [phase EXCEPT ![r] = "done"]
      /\ answer' = [answer EXCEPT ![r] = a]
      /\ entity' = [entity EXCEPT ![r] = NoRow]
      /\ looked' = [looked EXCEPT ![r] = NoRow]
      /\ UNCHANGED <<now, sweep, picked, job>>
  BY DEF Conclude, RollBack, Goto
<1>2. StoreTypes'
  BY <1>1 DEF StoreTypes, Phases, Unfinished, StoredRows
<1>3. Extends'
  BY <1>1 DEF StoreTypes, Extends, ImageOf, Kind, S, Unfinished
<1>4. LookedUp'
  BY <1>1 DEF StoreTypes, LookedUp, S, Image, Unfinished
<1>5. Inserting' /\ HasInserted' /\ Answered'
  BY <1>1 DEF StoreTypes, Inserting, HasInserted, Answered, Inserts, Kind, S, Unfinished
<1>6. OneCreator'
  BY <1>1 DEF StoreTypes, OneCreator, Inserted, S
<1> QED
  BY <1>2, <1>3, <1>4, <1>5, <1>6

\* r writes an image that keeps every row.
LEMMA WriteStep ==
  ASSUME StoreInv, NEW r \in Requests, phase[r] \in {"write", "mark"},
         NEW img \in [Sessions -> StoredRows], Write(r, img),
         \A s \in Sessions :
            /\ Keeps(Image(r)[s], img[s])
            /\ Live(Image(r)[s]) /\ ~Live(img[s]) => Kind(r) = "remove" /\ S(r) = s,
         Inserts(r) => Image(r)[S(r)] = NoRow /\ img[S(r)] # NoRow,
         NEW p \in {"fetch", "reply"}, Goto(r, p),
         UNCHANGED <<now, sweepVars, job, entity, looked, answer>>
  PROVE  StoreInv'
<1> USE SessionStoreAssumption DEF StoreInv, sweepVars
<1>1. /\ writer' = r /\ work' = img /\ rows' = rows
      /\ phase' = [phase EXCEPT ![r] = p]
      /\ writer = r \/ writer = NoRequest
      /\ UNCHANGED <<now, sweep, picked, job, entity, looked, answer>>
  BY DEF Write, MayWrite, Goto
<1>2. /\ Image(r) \in [Sessions -> StoredRows] /\ ImageOf(r, Image(r))
      /\ \A q \in Requests \ {r} : Image(q) = rows
      /\ \A q \in Requests \ {r} : Image(q)' = rows
      /\ Image(r)' = img
  BY <1>1, ImageFacts DEF Image, MayWrite, StoreTypes
<1>3. job[r] \in Jobs /\ S(r) \in Sessions /\ \A q \in Requests : S(q)' = S(q) /\ Kind(q)' = Kind(q)
  BY <1>1 DEF StoreTypes, Jobs, S, Kind
<1>4. StoreTypes'
  BY <1>1 DEF StoreTypes, Phases
<1>5. ImageOf(r, img)
  BY <1>2 DEF ImageOf, Keeps, Live
<1>6. Extends'
  BY <1>1, <1>3, <1>5 DEF StoreTypes, Extends, ImageOf, Unfinished
<1>7. LookedUp'
  <2> SUFFICES ASSUME NEW q \in Requests, looked[q] # NoRow
               PROVE  phase'[q] # "new" /\ Image(q)'[S(q)] # NoRow
    BY <1>1, <1>3 DEF LookedUp
  <2>1. phase[q] # "new" /\ Image(q)[S(q)] # NoRow /\ S(q) \in Sessions
    BY DEF LookedUp, StoreTypes, S, Jobs
  <2> QED
    BY <1>1, <1>2, <2>1 DEF StoreTypes, Keeps
<1>8. Inserting'
  <2> SUFFICES ASSUME NEW q \in Requests, phase'[q] \in {"reply", "commit"}, Inserts(q)'
               PROVE  writer' = q /\ rows'[S(q)] = NoRow /\ work'[S(q)] # NoRow
    BY <1>3 DEF Inserting
  <2>1. Inserts(q)
    BY <1>1, <1>3 DEF Inserts
  <2>2. CASE q = r
    BY <1>1, <1>2, <1>3, <2>1, <2>2 DEF ImageOf, Keeps
  <2>3. CASE q # r
    BY <1>1, <2>1, <2>3 DEF Inserting, StoreTypes
  <2> QED
    BY <2>2, <2>3
<1>9. HasInserted' /\ Answered' /\ OneCreator'
  BY <1>1, <1>3 DEF StoreTypes, HasInserted, Answered, OneCreator, Inserted
<1> QED
  BY <1>4, <1>6, <1>7, <1>8, <1>9

LEMMA ImageType ==
  ASSUME StoreInv, NEW r \in Requests PROVE Image(r) \in [Sessions -> StoredRows]
  BY SessionStoreAssumption DEF StoreInv, StoreTypes, Image

\* r has read the row of its session.
LEMMA FoundStep ==
  ASSUME StoreInv, NEW r \in Requests, phase[r] \in {"look", "fetch"},
         NEW row \in {NoRow, Image(r)[S(r)]},
         NEW p \in {"write", "mark"}, Goto(r, p),
         p = "write" => entity[r] # NoRow,
         p = "mark" => row # NoRow /\ job[r].kind = "remove",
         looked' = [looked EXCEPT ![r] = row],
         UNCHANGED <<dbVars, now, sweepVars, job, entity, answer>>
  PROVE  StoreInv'
<1> USE SessionStoreAssumption DEF StoreInv, dbVars, sweepVars
<1>1. /\ phase' = [phase EXCEPT ![r] = p]
      /\ UNCHANGED <<rows, writer, work, now, sweep, picked, job, entity, answer>>
  BY DEF Goto
<1>2. row \in StoredRows
  <2>1. S(r) \in Sessions
    BY DEF StoreTypes, S, Jobs
  <2> QED
    BY <2>1, ImageType DEF StoredRows
<1>3. StoreTypes'
  BY <1>1, <1>2 DEF StoreTypes, Phases
<1>4. Extends' /\ LookedUp'
  BY <1>1 DEF StoreTypes, Extends, LookedUp, ImageOf, Kind, S, Image, Unfinished
<1>5. Inserting' /\ HasInserted' /\ Answered'
  BY <1>1 DEF StoreTypes, Inserting, HasInserted, Answered, Inserts, Kind, S
<1>6. OneCreator'
  BY <1>1 DEF StoreTypes, OneCreator, Inserted, S
<1> QED
  BY <1>3, <1>4, <1>5, <1>6

LEMMA SubmitStep == ASSUME StoreInv, NEW r \in Requests, NEW j \in Jobs, Submit(r, j) PROVE StoreInv'
<1> USE SessionStoreAssumption DEF StoreInv, dbVars, sweepVars
<1>1. PICK p \in {"create", "find", "fetch", "done"}, a \in {answer[r], "limited", "unauthorized"} :
        /\ phase' = [phase EXCEPT ![r] = p]
        /\ answer' = [answer EXCEPT ![r] = a]
  <2>1. FirstPhase(j.kind) \in {"create", "find", "fetch"}
    BY DEF FirstPhase, Jobs, Kinds
  <2>2. answer = [answer EXCEPT ![r] = answer[r]]
    BY DEF StoreTypes
  <2> QED
    BY <2>1, <2>2 DEF Submit, Refuse, Goto
<1>2. /\ phase[r] = "new" /\ job' = [job EXCEPT ![r] = j]
      /\ UNCHANGED <<rows, writer, work, now, sweep, picked, entity, looked>>
  BY DEF Submit
<1>3. writer # r /\ looked[r] = NoRow /\ answer[r] # "created"
  BY <1>2 DEF Extends, LookedUp, Answered, Unfinished
<1>4. a \in Answers \ {"created"}
  BY <1>1, <1>3 DEF StoreTypes, Answers
<1>5. StoreTypes'
  BY <1>1, <1>2, <1>4 DEF StoreTypes, Phases
<1>6. \A q \in Requests \ {r} : S(q)' = S(q) /\ Kind(q)' = Kind(q) /\ Image(q)' = Image(q)
  BY <1>2 DEF StoreTypes, S, Kind, Image
<1>7. Extends' /\ LookedUp'
  BY <1>1, <1>2, <1>3, <1>6 DEF StoreTypes, Extends, LookedUp, ImageOf, Unfinished
<1>8. Inserting' /\ HasInserted' /\ Answered'
  BY <1>1, <1>2, <1>3, <1>4, <1>6 DEF StoreTypes, Inserting, HasInserted, Answered, Inserts
<1>9. OneCreator'
  BY <1>1, <1>2, <1>4, <1>6 DEF StoreTypes, OneCreator, Inserted
<1> QED
  BY <1>5, <1>7, <1>8, <1>9

\* The answer is sent: whoever is told "created" is the first.
LEMMA ReplyStep == ASSUME StoreInv, NEW r \in Requests, Reply(r) PROVE StoreInv'
<1> USE SessionStoreAssumption DEF StoreInv, dbVars, sweepVars
<1>1. PICK a \in {"created", "added", "done"} :
        /\ a = "created" <=> Kind(r) = "create"
        /\ answer' = [answer EXCEPT ![r] = a]
  BY DEF Reply
<1>2. /\ phase[r] = "reply" /\ phase' = [phase EXCEPT ![r] = "commit"]
      /\ entity' = [entity EXCEPT ![r] = NoRow]
      /\ UNCHANGED <<rows, writer, work, now, sweep, picked, job, looked>>
  BY DEF Reply, Goto
<1>3. StoreTypes'
  BY <1>1, <1>2 DEF StoreTypes, Phases, Answers, StoredRows
<1>4. Extends' /\ LookedUp'
  BY <1>1, <1>2 DEF StoreTypes, Extends, LookedUp, ImageOf, Kind, S, Image, Unfinished
<1>5. Inserting' /\ HasInserted' /\ Answered'
  BY <1>1, <1>2 DEF StoreTypes, Inserting, HasInserted, Answered, Inserts, Kind, S
<1>6. OneCreator'
  <2> SUFFICES ASSUME NEW q \in Requests, q # r, Inserted(q)', Inserted(r)', S(q)' = S(r)'
               PROVE  FALSE
    BY <1>1, <1>2 DEF OneCreator, Inserted, S, StoreTypes
  <2>1. Inserts(r) /\ writer = r /\ rows[S(r)] = NoRow
    BY <1>1, <1>2 DEF Inserted, Inserting, Inserts, StoreTypes
  <2>2. Inserted(q) /\ S(q) = S(r) /\ Kind(q) = "create"
    BY <1>1, <1>2 DEF Inserted, S, StoreTypes, Answered
  <2>3. CASE phase[q] = "commit"
    BY <2>1, <2>2, <2>3 DEF Inserting, Inserts, Inserted
  <2>4. CASE phase[q] = "done"
    BY <2>1, <2>2, <2>4 DEF HasInserted, Inserted
  <2> QED
    BY <2>2, <2>3, <2>4 DEF Inserted
<1> QED
  BY <1>3, <1>4, <1>5, <1>6

LEMMA CommitStep == ASSUME StoreInv, NEW r \in Requests, Commit(r) PROVE StoreInv'
<1> USE SessionStoreAssumption DEF StoreInv, dbVars, sweepVars
<1>1. /\ phase[r] = "commit" /\ phase' = [phase EXCEPT ![r] = "done"]
      /\ UNCHANGED <<now, sweep, picked, job, entity, looked, answer>>
      /\ \/ writer = r /\ rows' = work /\ writer' = NoRequest
         \/ writer # r /\ UNCHANGED <<rows, writer, work>>
  BY DEF Commit, Goto
<1>2. \A q \in Requests : S(q)' = S(q) /\ Kind(q)' = Kind(q) /\ (Inserts(q)' <=> Inserts(q))
  BY <1>1 DEF S, Kind, Inserts
<1>3. \A q \in Requests : phase[q] # "new" => S(q) \in Sessions
  BY DEF StoreTypes, S, Jobs
<1>4. CASE writer # r
  <2>1. StoreTypes' /\ Extends' /\ LookedUp'
    BY <1>1, <1>2, <1>4 DEF StoreTypes, Phases, Extends, LookedUp, ImageOf, Image, Unfinished
  <2>2. Inserting' /\ HasInserted' /\ Answered' /\ OneCreator'
    BY <1>1, <1>2, <1>4
    DEF StoreTypes, Inserting, Inserts, HasInserted, Answered, OneCreator, Inserted
  <2> QED
    BY <2>1, <2>2
<1>5. CASE writer = r
  <2>1. /\ rows' = work /\ writer' = NoRequest /\ ImageOf(r, work)
        /\ rows \in [Sessions -> StoredRows] /\ work \in [Sessions -> StoredRows]
    BY <1>1, <1>5 DEF Extends, StoreTypes
  <2>2. \A s \in Sessions : rows[s] # NoRow => rows'[s] # NoRow
    BY <2>1 DEF ImageOf, Keeps
  <2>3. StoreTypes' /\ Extends'
    BY <1>1, <2>1, <2>2 DEF StoreTypes, Phases, Extends
  <2>4. LookedUp'
    <3> SUFFICES ASSUME NEW q \in Requests, looked[q] # NoRow
                 PROVE  phase'[q] # "new" /\ Image(q)'[S(q)] # NoRow
      BY <1>1, <1>2 DEF LookedUp
    <3>1. phase[q] # "new" /\ Image(q)[S(q)] # NoRow /\ S(q) \in Sessions
      BY <1>3 DEF LookedUp
    <3>2. Image(q)' = work
      BY <2>1 DEF Image
    <3> QED
      BY <1>1, <1>5, <2>1, <2>2, <3>1, <3>2 DEF Image, StoreTypes
  <2>5. Inserting' /\ Answered'
    BY <1>1, <1>2, <1>5 DEF StoreTypes, Inserting, Answered
  <2>6. HasInserted'
    <3> SUFFICES ASSUME NEW q \in Requests, phase'[q] = "done", answer[q] = "created",
                        looked[q] = NoRow
                 PROVE  rows'[S(q)] # NoRow
      BY <1>1, <1>2 DEF HasInserted
    <3>1. CASE q = r
      BY <1>1, <1>5, <2>1, <3>1 DEF Inserting, Inserts, Answered
    <3>2. CASE q # r
      BY <1>1, <1>3, <2>2, <3>2 DEF HasInserted, StoreTypes
    <3> QED
      BY <3>1, <3>2
  <2>7. OneCreator'
    BY <1>1, <1>2 DEF OneCreator, Inserted, StoreTypes
  <2> QED
    BY <2>3, <2>4, <2>5, <2>6, <2>7
<1> QED
  BY <1>4, <1>5

LEMMA SaveStep == ASSUME StoreInv, NEW r \in Requests, Save(r) PROVE StoreInv'
<1> USE SessionStoreAssumption
<1> DEFINE s == S(r)
           row == Image(r)[s]
<1>1. /\ phase[r] = "write" /\ entity[r] \in RowTypes /\ looked[r] \in StoredRows
      /\ s \in Sessions /\ row \in StoredRows
  BY ImageType DEF Save, StoreInv, StoreTypes, StoredRows, S, Jobs
<1>2. AfterSave(r) \in {"fetch", "reply"} /\ (Inserts(r) => AfterSave(r) = "reply")
  BY DEF AfterSave, Inserts
<1>3. ASSUME NEW new \in RowTypes, row = NoRow \/ (new.deleted = row.deleted /\ looked[r] # NoRow),
             Write(r, [Image(r) EXCEPT ![s] = new]), Goto(r, AfterSave(r)),
             UNCHANGED <<now, sweepVars, job, entity, looked, answer>>
      PROVE  StoreInv'
  <2> DEFINE img == [Image(r) EXCEPT ![s] = new]
  <2>1. img \in [Sessions -> StoredRows] /\ img[s] = new /\ new # NoRow
        /\ \A q \in Sessions \ {s} : img[q] = Image(r)[q]
    BY <1>1, ImageType DEF StoredRows
  <2>2. ASSUME NEW q \in Sessions
        PROVE  Keeps(Image(r)[q], img[q]) /\ ~(Live(Image(r)[q]) /\ ~Live(img[q]))
    BY <1>1, <1>3, <2>1 DEF Keeps, Live
  <2>3. Inserts(r) => Image(r)[S(r)] = NoRow /\ img[S(r)] # NoRow
    BY <1>3, <2>1 DEF Inserts
  <2> HIDE DEF img, s
  <2> QED
    BY <1>1, <1>2, <1>3, <2>1, <2>2, <2>3, WriteStep DEF img
<1>4. CASE looked[r] = NoRow /\ row = NoRow /\ Write(r, [Image(r) EXCEPT ![s] = entity[r]])
           /\ Goto(r, AfterSave(r)) /\ UNCHANGED <<job, entity, looked, page, answer>>
  BY <1>1, <1>3, <1>4 DEF Save
<1>5. CASE MayWrite(r) /\ Conclude(r, "conflict")
  BY <1>1, <1>5, ConcludeStep DEF Save, Unfinished, Answers
<1>6. CASE looked[r] # NoRow
  <2>1. row \in RowTypes /\ looked[r] \in RowTypes
    BY <1>1, <1>6 DEF StoreInv, LookedUp, StoredRows
  <2> DEFINE new == Updated(row, looked[r], entity[r])
  <2>2. new \in RowTypes /\ new.deleted = row.deleted
    BY <1>1, <2>1 DEF Updated, RowTypes
  <2>3. /\ Write(r, [Image(r) EXCEPT ![s] = new]) /\ Goto(r, AfterSave(r))
        /\ UNCHANGED <<now, sweepVars, job, entity, looked, answer>>
    BY <1>6 DEF Save
  <2> HIDE DEF new
  <2> QED
    BY <1>3, <1>6, <2>2, <2>3
<1> QED
  BY <1>4, <1>5, <1>6 DEF Save

LEMMA MarkRemovedStep == ASSUME StoreInv, NEW r \in Requests, MarkRemoved(r) PROVE StoreInv'
<1> USE SessionStoreAssumption
<1> DEFINE s == S(r)
           row == Image(r)[s]
           new == [row EXCEPT !.deleted = TRUE, !.active = @ /\ ~looked[r].active]
           img == [Image(r) EXCEPT ![s] = new]
<1>1. /\ phase[r] = "mark" /\ s \in Sessions /\ row \in RowTypes /\ looked[r] \in RowTypes
  BY ImageType DEF MarkRemoved, StoreInv, StoreTypes, StoredRows, LookedUp, S, Jobs
<1>2. new \in RowTypes /\ new.deleted
  BY <1>1 DEF RowTypes
<1>3. [Image(r) EXCEPT ![s].deleted = TRUE, ![s].active = @ /\ ~looked[r].active] = img
  BY <1>1, ImageType DEF RowTypes
<1>4. /\ Write(r, img) /\ Goto(r, "reply")
      /\ UNCHANGED <<now, sweepVars, job, entity, looked, answer>>
  BY <1>3 DEF MarkRemoved
<1>5. /\ img \in [Sessions -> StoredRows] /\ img[s] = new /\ new # NoRow
      /\ \A q \in Sessions \ {s} : img[q] = Image(r)[q]
  BY <1>1, <1>2, ImageType DEF StoredRows
<1> HIDE DEF new
<1>6. Kind(r) = "remove"
  BY <1>1 DEF StoreInv, StoreTypes, Kind
<1> QED
  BY <1>1, <1>2, <1>4, <1>5, <1>6, WriteStep DEF Keeps, Live, Inserts

LEMMA StepStep == ASSUME StoreInv, NEW r \in Requests, Step(r) \/ BusyTimeout(r) PROVE StoreInv'
<1> USE SessionStoreAssumption
<1>1. CASE GetSession(r) \/ GetHistory(r)
  <2>1. \E a \in Answers \ {"created"} : Conclude(r, a)
    BY <1>1 DEF GetSession, GetHistory, Answers
  <2> QED
    BY <1>1, <2>1, ConcludeStep DEF GetSession, GetHistory, Unfinished
<1>2. CASE List(r)
  <2> USE DEF StoreInv, dbVars, sweepVars
  <2>1. /\ phase[r] = "find" /\ phase' = [phase EXCEPT ![r] = "done"]
        /\ answer' = [answer EXCEPT ![r] = "found"]
        /\ UNCHANGED <<rows, writer, work, now, sweep, picked, job, entity, looked>>
    BY <1>2 DEF List, Goto
  <2>2. StoreTypes'
    BY <2>1 DEF StoreTypes, Phases, Answers
  <2>3. writer # r
    BY <2>1 DEF Extends
  <2>4. Extends' /\ LookedUp'
    BY <2>1, <2>3 DEF StoreTypes, Extends, LookedUp, ImageOf, Kind, S, Image, Unfinished
  <2>5. Inserting' /\ HasInserted' /\ Answered'
    BY <2>1 DEF StoreTypes, Inserting, HasInserted, Answered, Inserts, Kind, S
  <2>6. OneCreator'
    BY <2>1 DEF StoreTypes, OneCreator, Inserted, S
  <2> QED
    BY <2>2, <2>4, <2>5, <2>6
<1>3. CASE GetOrCreate(r)
  <2>1. \A q \in Requests \ {r} : entity'[q] = entity[q]
    BY <1>3 DEF GetOrCreate
  <2> QED
    BY <1>3, <2>1, MoveStep DEF GetOrCreate, StoreInv, StoreTypes
<1>4. ASSUME NEW e \in RowTypes, phase[r] \in {"create", "fetch"}, SaveEntity(r, e),
             UNCHANGED <<now, sweepVars>>
      PROVE  StoreInv'
  <2>1. /\ entity' \in [Requests -> StoredRows] /\ entity'[r] = e
        /\ \A q \in Requests \ {r} : entity'[q] = entity[q]
    BY <1>4 DEF SaveEntity, StoreInv, StoreTypes, StoredRows
  <2> QED
    BY <1>4, <2>1, MoveStep DEF SaveEntity
<1>5. CASE CreateSession(r)
  <2>1. Fresh \in RowTypes
    BY DEF Fresh, RowTypes, StoreInv, StoreTypes
  <2> QED
    BY <1>4, <1>5, <2>1, ConcludeStep DEF CreateSession, Unfinished, Answers
<1>6. ASSUME FindById(r) # NoRow, phase[r] # "new"
      PROVE  FindById(r) \in RowTypes
  BY <1>6, ImageType DEF FindById, StoreInv, StoreTypes, StoredRows, S, Jobs
<1>7. CASE AddMessage(r)
  <2>1. ASSUME FindById(r) # NoRow PROVE WithMessage(FindById(r), r) \in RowTypes
    <3> DEFINE old == FindById(r)
               title == IF old.title = NoRequest THEN r ELSE old.title
    <3>1. old \in RowTypes /\ now \in 0..MaxTime
      BY <1>6, <1>7, <2>1 DEF AddMessage, StoreInv, StoreTypes
    <3>2. Append(old.msgs, r) \in Seq(Requests) /\ title \in Requests \cup {NoRequest}
      BY <3>1 DEF RowTypes
    <3>3. WithMessage(old, r) =
            [old EXCEPT !.msgs = Append(old.msgs, r), !.activity = now, !.title = title]
      BY DEF WithMessage
    <3> HIDE DEF old, title
    <3>4. [old EXCEPT !.msgs = Append(old.msgs, r), !.activity = now, !.title = title] \in RowTypes
      BY <3>1, <3>2 DEF RowTypes
    <3> QED
      BY <3>3, <3>4 DEF old
  <2> QED
    BY <1>4, <1>7, <2>1, ConcludeStep DEF AddMessage, Unfinished, Answers
<1>8. CASE Deactivate(r)
  <2>1. ASSUME FindById(r) # NoRow PROVE [FindById(r) EXCEPT !.active = FALSE] \in RowTypes
    BY <1>6, <1>8, <2>1 DEF Deactivate, RowTypes
  <2> QED
    BY <1>4, <1>8, <2>1, ConcludeStep DEF Deactivate, Unfinished, Answers
<1>9. CASE Remove(r)
  BY <1>9, ConcludeStep, FoundStep DEF Remove, Unfinished, Answers, Kind
<1>10. CASE Look(r)
  <2>1. FindById(r) \in {NoRow, Image(r)[S(r)]}
    BY DEF FindById
  <2> QED
    BY <1>10, <2>1, FoundStep DEF Look, StoreInv, StoreTypes
<1>11. CASE BusyTimeout(r)
  BY <1>11, ConcludeStep DEF BusyTimeout, Unfinished, Answers
<1> QED
  BY <1>1, <1>2, <1>3, <1>5, <1>7, <1>8, <1>9, <1>10, <1>11, SaveStep, MarkRemovedStep,
     ReplyStep, CommitStep DEF Step

\* The clean-up has a turn, or the clock: the committed rows stay.
LEMMA SweepStep ==
  ASSUME StoreInv,
         \/ SweepStart \/ SweepSelect \/ SweepMark \/ SweepClose \/ SweepFail \/ SweepStop \/ Tick
  PROVE  StoreInv'
<1> USE SessionStoreAssumption DEF StoreInv, dbVars, reqVars, sweepVars
<1>1. UNCHANGED <<rows, phase, job, entity, looked, answer>>
  BY DEF SweepStart, SweepSelect, SweepMark, SweepClose, SweepFail, SweepStop, Tick, RollBack
<1>2. \A r \in Requests : (writer = r <=> writer' = r) /\ (writer = r => work' = work)
  BY DEF StoreTypes, SweepStart, SweepSelect, SweepMark, SweepClose, SweepFail, SweepStop, Tick,
         RollBack
<1>3. now' \in 0..MaxTime
  BY DEF StoreTypes, SweepStart, SweepSelect, SweepMark, SweepClose, SweepFail, SweepStop, Tick
<1>4. /\ sweep' \in {"off", "asleep", "mark", "close"}
      /\ picked' \subseteq Sessions
      /\ \A s \in picked' : rows[s] # NoRow
  BY DEF StoreTypes, SweepStart, SweepSelect, SweepMark, SweepClose, SweepFail, SweepStop, Tick,
         Old, Outdated, Live
<1>5. /\ writer' \in Requests \cup {Sweeper, NoRequest}
      /\ writer' # NoRequest => work' \in [Sessions -> StoredRows]
  <2>1. CASE SweepMark
    <3>1. \A s \in picked : s \in Sessions /\ rows[s] \in RowTypes
      BY DEF StoreTypes, StoredRows
    <3>2. \A s \in picked : [rows[s] EXCEPT !.deleted = TRUE] \in RowTypes
      BY <3>1 DEF RowTypes
    <3> QED
      BY <2>1, <3>2 DEF SweepMark, StoreTypes, StoredRows
  <2>2. CASE SweepClose \/ SweepStop
    BY <2>2 DEF SweepClose, SweepStop, RollBack, StoreTypes
  <2>3. CASE SweepStart \/ SweepSelect \/ SweepFail \/ Tick
    BY <2>3 DEF SweepStart, SweepSelect, SweepFail, Tick, StoreTypes
  <2> QED
    BY <2>1, <2>2, <2>3
<1>6. StoreTypes'
  BY <1>1, <1>3, <1>4, <1>5 DEF StoreTypes
<1>7. \A r \in Requests : S(r)' = S(r) /\ Kind(r)' = Kind(r) /\ Image(r)' = Image(r)
  BY <1>1, <1>2 DEF S, Kind, Image
<1>8. Extends' /\ LookedUp'
  BY <1>1, <1>2, <1>7 DEF Extends, LookedUp, ImageOf, Unfinished
<1>9. Inserting' /\ HasInserted' /\ Answered' /\ OneCreator'
  BY <1>1, <1>2, <1>7 DEF Inserting, Inserts, HasInserted, Answered, OneCreator, Inserted
<1> QED
  BY <1>6, <1>8, <1>9

LEMMA CrashStep == ASSUME StoreInv, Crash PROVE StoreInv'
<1> USE SessionStoreAssumption DEF StoreInv
<1>1. /\ writer' = NoRequest /\ sweep' = "off" /\ picked' = {}
      /\ phase' = [r \in Requests |-> IF Unfinished(r) THEN "lost" ELSE phase[r]]
      /\ entity' = [r \in Requests |-> NoRow]
      /\ looked' = [r \in Requests |-> IF Unfinished(r) THEN NoRow ELSE looked[r]]
      /\ UNCHANGED <<rows, now, job, answer>>
  BY DEF Crash
<1>2. \A r \in Requests :
        /\ S(r)' = S(r) /\ Kind(r)' = Kind(r)
        /\ phase'[r] \notin {"look", "write", "mark", "reply", "commit"}
        /\ phase'[r] \in {"new", "done"} <=> phase[r] \in {"new", "done"}
        /\ phase'[r] # "lost" => phase'[r] = phase[r] /\ looked'[r] = looked[r]
        /\ looked'[r] # NoRow => looked'[r] = looked[r]
  BY <1>1 DEF S, Kind, Unfinished
<1>3. StoreTypes'
  <2>1. phase' \in [Requests -> Phases]
    BY <1>1 DEF StoreTypes, Phases
  <2>2. entity' \in [Requests -> StoredRows] /\ looked' \in [Requests -> StoredRows]
    BY <1>1 DEF StoreTypes, StoredRows
  <2> QED
    BY <1>1, <1>2, <2>1, <2>2 DEF StoreTypes
<1>4. Extends'
  BY <1>1 DEF Extends
<1>5. LookedUp'
  <2> SUFFICES ASSUME NEW r \in Requests, looked'[r] # NoRow
               PROVE  phase'[r] # "new" /\ Image(r)'[S(r)'] # NoRow
    BY DEF LookedUp
  <2>1. ~Unfinished(r) /\ phase'[r] = phase[r] /\ looked'[r] = looked[r]
    BY <1>1
  <2>2. Image(r) = rows /\ Image(r)' = rows
    BY <1>1, <2>1 DEF Extends, Image
  <2> QED
    BY <1>2, <2>1, <2>2 DEF LookedUp
<1>6. Inserting' /\ HasInserted' /\ Answered'
  BY <1>1, <1>2 DEF Inserting, HasInserted, Answered, StoreTypes, Phases, Unfinished
<1>7. OneCreator'
  BY <1>1, <1>2 DEF OneCreator, Inserted
<1> QED
  BY <1>3, <1>4, <1>5, <1>6, <1>7

LEMMA QuietStep == ASSUME StoreInv, UNCHANGED vars PROVE StoreInv'
<1> USE DEF vars, dbVars, reqVars, sweepVars
<1>1. StoreTypes' /\ Extends' /\ LookedUp'
  BY DEF StoreInv, StoreTypes, Extends, ImageOf, LookedUp, Image, S, Kind, Unfinished
<1>2. Inserting' /\ HasInserted' /\ Answered' /\ OneCreator'
  BY DEF StoreInv, Inserting, Inserts, HasInserted, Answered, OneCreator, Inserted, S, Kind
<1> QED
  BY <1>1, <1>2 DEF StoreInv

LEMMA NextStore == StoreInv /\ [Next]_vars => StoreInv'
<1> SUFFICES ASSUME StoreInv, [Next]_vars PROVE StoreInv'
  OBVIOUS
<1>1. CASE \E r \in Requests : (\E j \in Jobs : Submit(r, j)) \/ Step(r) \/ BusyTimeout(r)
  BY <1>1, SubmitStep, StepStep
<1>2. CASE SweepStart \/ SweepSelect \/ SweepMark \/ SweepClose \/ SweepFail \/ SweepStop \/ Tick
  BY <1>2, SweepStep
<1>3. CASE Crash
  BY <1>3, CrashStep
<1>4. CASE UNCHANGED vars
  BY <1>4, QuietStep
<1> QED
  BY <1>1, <1>2, <1>3, <1>4 DEF Next

\* What every request's transaction sees, and what it will commit, keeps the rows
\* that get_db's other transactions have committed.
THEOREM StoreInvariant == Spec => []StoreInv
<1>1. Init => StoreInv
  BY InitStore
<1>2. StoreInv /\ [Next]_vars => StoreInv'
  BY NextStore
<1> QED
  BY <1>1, <1>2, PTL DEF Spec

\* Of the clients that ask for one session id and are answered before their
\* commit, at most one is told "created" for a row its own request inserted.
THEOREM CreatedOnce == Spec => []OneCreator
<1>1. StoreInv => OneCreator
  BY DEF StoreInv
<1> QED
  BY <1>1, StoreInvariant, PTL

-----------------------------------------------------------------------------
\* The committed rows change only when a request commits its image of them.
LEMMA RowsChange ==
  ASSUME StoreInv, [Next]_vars, rows' # rows
  PROVE  \E r \in Requests : phase[r] = "commit" /\ ImageOf(r, rows')
<1> USE DEF dbVars, reqVars, sweepVars
<1>1. CASE \E r \in Requests : Step(r)
  <2> PICK r \in Requests : Step(r)
    BY <1>1
  <2>1. CASE Commit(r)
    BY <2>1 DEF Commit, StoreInv, Extends
  <2>2. CASE Save(r)
    BY <2>2 DEF Save, Write, Conclude, RollBack
  <2>3. CASE ~Commit(r) /\ ~Save(r)
    BY <2>3 DEF Step, GetSession, GetHistory, List, GetOrCreate, CreateSession, AddMessage,
                Deactivate, Remove, MarkRemoved, Look, Reply, Write, Conclude, RollBack, SaveEntity
  <2> QED
    BY <2>1, <2>2, <2>3
<1>2. CASE \E r \in Requests : (\E j \in Jobs : Submit(r, j)) \/ BusyTimeout(r)
  BY <1>2 DEF Submit, BusyTimeout, Conclude, RollBack
<1>3. CASE \/ SweepStart \/ SweepSelect \/ SweepMark \/ SweepClose \/ SweepFail \/ SweepStop
           \/ Tick \/ Crash \/ UNCHANGED vars
  BY <1>3 DEF SweepStart, SweepSelect, SweepMark, SweepClose, SweepFail, SweepStop, Tick, Crash,
              RollBack, vars
<1> QED
  BY <1>1, <1>2, <1>3 DEF Next

\* A row once inserted stays, and a deleted one stays deleted, although entities
\* that were read before the deletion are saved after it.
THEOREM IdsLiveOnce == Spec => LivesOnce
<1>1. ASSUME StoreInv, [Next]_vars
      PROVE  [\A s \in Sessions :
                 /\ rows[s] # NoRow => rows'[s] # NoRow
                 /\ rows[s] # NoRow /\ rows[s].deleted => rows'[s].deleted]_rows
  BY <1>1, RowsChange DEF ImageOf, Keeps
<1> QED
  BY <1>1, StoreInvariant, PTL DEF Spec, LivesOnce

-----------------------------------------------------------------------------
(***************************************************************************)
(* TypeOK.  What StoreTypes does not say: no row has more messages than    *)
(* the limit, no listing more sessions than its page, and the limiter      *)
(* remembers no more requests than it lets in.                             *)
(***************************************************************************)
Short(row) == row # NoRow => Len(row.msgs) <= MaxMessages
AllShort ==
  /\ \A s \in Sessions : Short(rows[s]) /\ (writer # NoRequest => Short(work[s]))
  /\ \A r \in Requests : Short(entity[r]) /\ Short(looked[r])
Paged ==
  /\ page \in [Requests -> SUBSET Sessions]
  /\ \A r \in Requests : Cardinality(page[r]) <= PageSize
Limited == admitted \in Seq(0..now) /\ Len(admitted) <= RateLimit

FullInv == StoreInv /\ AllShort /\ Paged /\ Limited

LEMMA RecentFacts ==
  ASSUME Limited, now \in Nat
  PROVE  Recent \in Seq(0..now) /\ Len(Recent) <= RateLimit /\ Len(Recent) \in Nat
<1> DEFINE n == Cardinality(Expired)
<1>1. admitted \in Seq(0..now) /\ Len(admitted) \in Nat /\ Len(admitted) <= RateLimit
      /\ DOMAIN admitted = 1..Len(admitted)
  BY LenProperties DEF Limited
<1>2. n \in Nat
  <2>1. IsFiniteSet(1..Len(admitted))
    BY <1>1, FS_Interval
  <2>2. Expired \subseteq 1..Len(admitted)
    BY <1>1 DEF Expired
  <2> QED
    BY <2>1, <2>2, FS_Subset, FS_CardinalityType
<1> HIDE DEF n
<1>3. \A i \in (n + 1)..Len(admitted) : admitted[i] \in 0..now
  BY <1>1, <1>2, ElementOfSeq
<1>4. /\ SubSeq(admitted, n + 1, Len(admitted)) \in Seq(0..now)
      /\ Len(SubSeq(admitted, n + 1, Len(admitted))) =
           IF n + 1 <= Len(admitted) THEN Len(admitted) - (n + 1) + 1 ELSE 0
  BY <1>1, <1>2, <1>3, SubSeqProperties
<1>5. Len(Recent) <= Len(admitted) /\ Len(Recent) \in Nat
  BY <1>1, <1>2, <1>4 DEF Recent, n
<1> QED
  BY <1>1, <1>4, <1>5, SessionStoreAssumption DEF Recent, n

LEMMA InitFull == Init => FullInv
<1> SUFFICES ASSUME Init PROVE FullInv
  OBVIOUS
<1>1. AllShort
  BY SessionStoreAssumption, EmptySeq DEF Init, AllShort, Short, Fresh
<1>2. Paged
  BY SessionStoreAssumption, FS_EmptySet DEF Init, Paged
<1>3. Limited
  BY SessionStoreAssumption, EmptySeq DEF Init, Limited
<1> QED
  BY <1>1, <1>2, <1>3, InitStore DEF FullInv

\* The limiter: only a request that arrives, the clock and a crash touch it.
LEMMA NextLimited == FullInv /\ [Next]_vars => Limited'
<1> SUFFICES ASSUME FullInv, [Next]_vars PROVE Limited'
  OBVIOUS
<1>1. now \in 0..MaxTime /\ now \in Nat /\ Limited /\ admitted \in Seq(0..now)
  BY SessionStoreAssumption DEF FullInv, StoreInv, StoreTypes, Limited
<1>2. CASE \E r \in Requests, j \in Jobs : Submit(r, j)
  <2>1. Recent \in Seq(0..now) /\ Len(Recent) <= RateLimit /\ Len(Recent) \in Nat
    BY <1>1, RecentFacts
  <2>2. Append(Recent, now) \in Seq(0..now) /\ Len(Append(Recent, now)) = Len(Recent) + 1
    BY <1>1, <2>1, AppendProperties
  <2>3. /\ now' = now
        /\ admitted' = Recent \/ (admitted' = Append(Recent, now) /\ Len(Recent) < RateLimit)
    BY <1>2 DEF Submit
  <2>4. CASE admitted' = Recent
    BY <2>1, <2>3, <2>4 DEF Limited
  <2>5. CASE admitted' = Append(Recent, now) /\ Len(Recent) < RateLimit
    <3>1. Len(admitted') <= RateLimit
      BY <2>1, <2>2, <2>5, SessionStoreAssumption
    <3> QED
      BY <2>2, <2>3, <2>5, <3>1 DEF Limited
  <2> QED
    BY <2>3, <2>4, <2>5
<1>3. CASE Tick
  <2>1. admitted' = admitted /\ now' = now + 1
    BY <1>3 DEF Tick
  <2>2. admitted \in Seq(0..(now + 1))
    <3>1. 0..now \subseteq 0..(now + 1)
      BY <1>1
    <3> QED
      BY <1>1, <3>1, SeqMonotonic
  <2> QED
    BY <1>1, <2>1, <2>2 DEF Limited
<1>4. CASE Crash
  BY <1>4, EmptySeq, SessionStoreAssumption DEF Crash, Limited
<1>5. ASSUME UNCHANGED <<now, admitted>> PROVE Limited'
  BY <1>1, <1>5 DEF Limited
<1>6. CASE \E r \in Requests : Step(r) \/ BusyTimeout(r)
  BY <1>5, <1>6 DEF Step, BusyTimeout, GetSession, GetHistory, List, GetOrCreate, CreateSession,
     AddMessage, Deactivate, Remove, MarkRemoved, Look, Save, Reply, Commit
<1>7. CASE SweepStart \/ SweepSelect \/ SweepMark \/ SweepClose \/ SweepFail \/ SweepStop
  BY <1>5, <1>7 DEF SweepStart, SweepSelect, SweepMark, SweepClose, SweepFail, SweepStop
<1>8. CASE UNCHANGED vars
  BY <1>5, <1>8 DEF vars
<1> QED
  BY <1>2, <1>3, <1>4, <1>6, <1>7, <1>8 DEF Next

LEMMA NextPaged == FullInv /\ [Next]_vars => Paged'
<1> SUFFICES ASSUME FullInv, [Next]_vars PROVE Paged'
  OBVIOUS
<1>1. CASE \E r \in Requests : List(r)
  BY <1>1 DEF List, Found, IsPage, FullInv, Paged
<1>2. ASSUME page' = page PROVE Paged'
  BY <1>2 DEF FullInv, Paged
<1>3. CASE \E r \in Requests : (Step(r) /\ ~List(r)) \/ BusyTimeout(r)
  BY <1>2, <1>3 DEF Step, BusyTimeout, GetSession, GetHistory, GetOrCreate, CreateSession,
     AddMessage, Deactivate, Remove, MarkRemoved, Look, Save, Reply, Commit, Conclude, SaveEntity
<1>4. CASE SweepStart \/ SweepSelect \/ SweepMark \/ SweepClose \/ SweepFail \/ SweepStop \/ Tick
  BY <1>2, <1>4 DEF SweepStart, SweepSelect, SweepMark, SweepClose, SweepFail, SweepStop, Tick,
     reqVars
<1>5. CASE Crash \/ UNCHANGED vars \/ \E r \in Requests, j \in Jobs : Submit(r, j)
  BY <1>2, <1>5 DEF Crash, vars, reqVars, Submit
<1> QED
  BY <1>1, <1>3, <1>4, <1>5 DEF Next

\* What a request sees is short, and what it finds.
LEMMA ShortImage ==
  ASSUME FullInv, NEW r \in Requests
  PROVE  \A s \in Sessions : Short(Image(r)[s])
BY SessionStoreAssumption DEF FullInv, AllShort, Image

\* An image that r writes, with entities and rows found that are short.
LEMMA ShortWrite ==
  ASSUME FullInv, NEW r \in Requests, NEW s \in Sessions, NEW row,
         Short(row), Write(r, [Image(r) EXCEPT ![s] = row]), UNCHANGED <<entity, looked>>,
         phase[r] # "new"
  PROVE  AllShort'
<1>1. rows' = rows /\ work' = [Image(r) EXCEPT ![s] = row]
  BY DEF Write
<1>2. Image(r) \in [Sessions -> StoredRows]
  BY ImageType DEF FullInv
<1>3. \A t \in Sessions : Short(work'[t])
  BY <1>1, <1>2, ShortImage
<1> QED
  BY <1>1, <1>3 DEF FullInv, AllShort, Short

\* r's transaction ends, or nothing is written: only its entity and the row it has
\* found may be new.
LEMMA ShortMove ==
  ASSUME FullInv, NEW r \in Requests,
         rows' = rows, writer' \in {writer, NoRequest}, writer' # NoRequest => work' = work,
         \A q \in Requests \ {r} : entity'[q] = entity[q] /\ looked'[q] = looked[q],
         Short(entity'[r]), Short(looked'[r])
  PROVE  AllShort'
BY DEF FullInv, AllShort, Short

LEMMA NextShort == FullInv /\ [Next]_vars => AllShort'
<1> SUFFICES ASSUME FullInv, [Next]_vars PROVE AllShort'
  OBVIOUS
<1> USE SessionStoreAssumption
<1>t. StoreInv /\ StoreTypes /\ AllShort
  BY DEF FullInv, StoreInv
<1>n. Short(NoRow)
  BY DEF Short
<1>1. ASSUME NEW r \in Requests, NEW a, Conclude(r, a) PROVE AllShort'
  BY <1>1, <1>n, <1>t, ShortMove DEF Conclude, RollBack, StoreTypes
<1>2. ASSUME NEW r \in Requests, NEW e, Short(e), SaveEntity(r, e) PROVE AllShort'
  BY <1>2, <1>t, ShortMove DEF SaveEntity, StoreTypes, AllShort, dbVars
<1>3. ASSUME NEW r \in Requests, phase[r] # "new" PROVE Short(FindById(r)) /\ Short(Image(r)[S(r)])
  BY <1>3, <1>t, ShortImage DEF FindById, Short, StoreTypes, S, Jobs
<1>4. ASSUME NEW r \in Requests, Step(r) \/ BusyTimeout(r) PROVE AllShort'
  <2>1. CASE GetSession(r) \/ GetHistory(r) \/ BusyTimeout(r)
    BY <1>1, <2>1 DEF GetSession, GetHistory, BusyTimeout
  <2>2. CASE List(r) \/ GetOrCreate(r)
    BY <2>2, <1>t, ShortMove DEF List, GetOrCreate, AllShort, dbVars
  <2>3. CASE CreateSession(r)
    <3>1. Short(Fresh)
      BY EmptySeq DEF Short, Fresh
    <3> QED
      BY <1>1, <1>2, <2>3, <3>1 DEF CreateSession
  <2>4. CASE AddMessage(r)
    <3>1. ASSUME FindById(r) # NoRow, Accepts(FindById(r))
          PROVE  Short(WithMessage(FindById(r), r))
      <4> DEFINE old == FindById(r)
      <4>1. old \in RowTypes
        BY <1>t, <2>4, <3>1, ImageType DEF AddMessage, FindById, StoreTypes, StoredRows, S, Jobs
      <4>2. old.msgs \in Seq(Requests) /\ Len(old.msgs) < MaxMessages
        BY <3>1, <4>1 DEF Accepts, RowTypes
      <4>3. WithMessage(old, r).msgs = Append(old.msgs, r)
        BY <4>1 DEF WithMessage, RowTypes
      <4> HIDE DEF old
      <4>4. Len(Append(old.msgs, r)) = Len(old.msgs) + 1 /\ Len(old.msgs) \in Nat
        BY <4>2, AppendProperties, LenProperties
      <4>5. Len(WithMessage(old, r).msgs) <= MaxMessages
        BY <4>2, <4>3, <4>4
      <4> QED
        BY <4>5 DEF Short, old
    <3> QED
      BY <1>1, <1>2, <2>4, <3>1 DEF AddMessage
  <2>5. CASE Deactivate(r)
    <3>1. ASSUME FindById(r) # NoRow PROVE Short([FindById(r) EXCEPT !.active = FALSE])
      <4> DEFINE old == FindById(r)
      <4>1. old \in RowTypes /\ Short(old)
        BY <1>3, <1>t, <2>5, <3>1, ImageType
        DEF Deactivate, FindById, StoreTypes, StoredRows, S, Jobs
      <4>2. [old EXCEPT !.active = FALSE].msgs = old.msgs
        BY <4>1 DEF RowTypes
      <4> QED
        BY <3>1, <4>1, <4>2 DEF Short
    <3> QED
      BY <1>1, <1>2, <2>5, <3>1 DEF Deactivate
  <2>6. CASE Remove(r) \/ Look(r)
    <3>1. CASE \E a : Conclude(r, a)
      BY <1>1, <3>1
    <3>2. CASE /\ looked' = [looked EXCEPT ![r] = FindById(r)]
                  \/ looked' = [looked EXCEPT ![r] = Image(r)[S(r)]]
               /\ UNCHANGED <<dbVars, entity>>
      <4>1. phase[r] # "new"
        BY <2>6 DEF Remove, Look
      <4> QED
        BY <1>3, <1>t, <3>2, <4>1, ShortMove DEF StoreTypes, AllShort, dbVars
    <3> QED
      BY <2>6, <3>1, <3>2 DEF Remove, Look
  <2>7. CASE MarkRemoved(r)
    <3> DEFINE row == Image(r)[S(r)]
               new == [row EXCEPT !.deleted = TRUE, !.active = @ /\ ~looked[r].active]
    <3>1. /\ phase[r] = "mark" /\ S(r) \in Sessions /\ row \in RowTypes /\ looked[r] \in RowTypes
      BY <1>t, <2>7, ImageType
      DEF MarkRemoved, StoreInv, StoreTypes, StoredRows, LookedUp, S, Jobs
    <3>2. [Image(r) EXCEPT ![S(r)].deleted = TRUE, ![S(r)].active = @ /\ ~looked[r].active]
             = [Image(r) EXCEPT ![S(r)] = new]
      BY <1>t, <3>1, ImageType DEF RowTypes
    <3>3. Short(new)
      <4>1. Short(row) /\ row # NoRow
        BY <1>3, <3>1
      <4>2. new.msgs = row.msgs
        BY <3>1 DEF RowTypes
      <4> QED
        BY <4>1, <4>2 DEF Short
    <3>4. Write(r, [Image(r) EXCEPT ![S(r)] = new]) /\ UNCHANGED <<entity, looked>>
      BY <2>7, <3>2 DEF MarkRemoved
    <3> HIDE DEF new
    <3> QED
      BY <3>1, <3>3, <3>4, ShortWrite
  <2>8. CASE Save(r)
    <3>1. /\ phase[r] = "write" /\ S(r) \in Sessions
          /\ entity[r] \in RowTypes /\ Short(entity[r]) /\ Len(entity[r].msgs) <= MaxMessages
      BY <1>t, <2>8 DEF Save, StoreTypes, StoredRows, AllShort, Short, S, Jobs
    <3>2. CASE MayWrite(r) /\ Conclude(r, "conflict")
      BY <1>1, <3>2
    <3>3. CASE Write(r, [Image(r) EXCEPT ![S(r)] = entity[r]]) /\ UNCHANGED <<entity, looked>>
      BY <3>1, <3>3, ShortWrite
    <3>4. CASE /\ looked[r] # NoRow
               /\ Write(r, [Image(r) EXCEPT ![S(r)] = Updated(@, looked[r], entity[r])])
               /\ UNCHANGED <<entity, looked>>
      <4> DEFINE row == Image(r)[S(r)]
                 new == Updated(row, looked[r], entity[r])
      <4>1. row \in RowTypes
        BY <1>t, <3>1, <3>4, ImageType DEF StoreInv, LookedUp, StoredRows
      <4>2. new.msgs = entity[r].msgs
        BY <4>1 DEF Updated, RowTypes
      <4>3. Short(new)
        BY <3>1, <4>2 DEF Short
      <4>4. Write(r, [Image(r) EXCEPT ![S(r)] = new])
        BY <3>4
      <4> HIDE DEF new
      <4> QED
        BY <3>1, <3>4, <4>3, <4>4, ShortWrite
    <3> QED
      BY <2>8, <3>2, <3>3, <3>4 DEF Save
  <2>9. CASE Reply(r)
    BY <1>n, <1>t, <2>9, ShortMove DEF Reply, StoreTypes, AllShort, dbVars
  <2>10. CASE Commit(r)
    BY <1>t, <2>10 DEF Commit, AllShort, Short, dbVars
  <2> QED
    BY <1>4, <2>1, <2>2, <2>3, <2>4, <2>5, <2>6, <2>7, <2>8, <2>9, <2>10 DEF Step
<1>5. CASE SweepMark
  <2>1. \A s \in picked : s \in Sessions /\ rows[s] \in RowTypes
    BY <1>t DEF StoreTypes, StoredRows
  <2>2. \A s \in picked : [rows[s] EXCEPT !.deleted = TRUE].msgs = rows[s].msgs
    BY <2>1 DEF RowTypes
  <2>3. \A s \in Sessions : Short(work'[s])
    BY <1>5, <1>t, <2>1, <2>2 DEF SweepMark, AllShort, Short
  <2> QED
    BY <1>5, <1>t, <2>3 DEF SweepMark, AllShort, Short, reqVars
<1>6. CASE SweepStart \/ SweepSelect \/ SweepClose \/ SweepFail \/ SweepStop \/ Tick
  BY <1>6, <1>t DEF SweepStart, SweepSelect, SweepClose, SweepFail, SweepStop, Tick, RollBack,
     AllShort, Short, dbVars, reqVars
<1>7. CASE Crash
  BY <1>7, <1>t DEF Crash, AllShort, Short
<1>8. CASE UNCHANGED vars \/ \E r \in Requests, j \in Jobs : Submit(r, j)
  BY <1>8, <1>t DEF Submit, vars, reqVars, dbVars, AllShort, Short
<1> QED
  BY <1>4, <1>5, <1>6, <1>7, <1>8 DEF Next

\* The types of the sessions table, of its uncommitted image and of the entities
\* that requests work with: whatever is saved concurrently, no session has more
\* messages than its limit, no listing is longer than its page, and the limiter
\* never remembers more requests than it lets in.
THEOREM TypeCorrect == Spec => []TypeOK
<1>1. Init => FullInv
  BY InitFull
<1>2. FullInv /\ [Next]_vars => FullInv'
  BY NextStore, NextShort, NextPaged, NextLimited DEF FullInv
<1>3. FullInv => TypeOK
  <2> SUFFICES ASSUME FullInv PROVE TypeOK
    OBVIOUS
  <2>1. StoreTypes /\ AllShort /\ Paged /\ Limited
    BY DEF FullInv, StoreInv
  <2>2. \A row \in StoredRows : Short(row) => row \in Rows \cup {NoRow}
    BY DEF StoredRows, Short, Rows
  <2>3. rows \in Images /\ (writer # NoRequest => work \in Images)
    BY <2>1, <2>2 DEF StoreTypes, AllShort, Images
  <2>4. entity \in [Requests -> Rows \cup {NoRow}] /\ looked \in [Requests -> Rows \cup {NoRow}]
    BY <2>1, <2>2 DEF StoreTypes, AllShort
  <2> QED
    BY <2>1, <2>3, <2>4 DEF TypeOK, StoreTypes, Paged, Limited
<1> QED
  BY <1>1, <1>2, <1>3, PTL DEF Spec
=============================================================================
