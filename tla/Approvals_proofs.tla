---------------------------- MODULE Approvals_proofs ----------------------------
(***************************************************************************)
(* Proofs about the approvals and the events of a turn, for any number of  *)
(* requests, sessions and calls, whatever approvals the table holds at     *)
(* first and whether or not clients leave: a committed decision stands,    *)
(* what the table shows has been announced, the bus is a mailbox per       *)
(* handler, and the collectors agree with the turns.                       *)
(*                                                                         *)
(* The first two rest on what the open transactions hold (TableInv).  A    *)
(* row has one writer at a time (OneWriter); a request that inserts an     *)
(* approval knows that the row is not there (NewPending); and only an      *)
(* answer that found its call undecided writes a decision (OwnDecision),   *)
(* because a decided row stays decided between its look and its write      *)
(* (Undone, LateDone).                                                     *)
(*                                                                         *)
(* The others see the bus as the mailboxes of its handlers: starting the   *)
(* tasks of an event moves it inside every mailbox from the events still   *)
(* to be started to those that run, which are in front, and so changes     *)
(* none of them (WaitingStarted).  Of the session collector's mailbox,     *)
(* every end follows the start of its own turn among the events of its     *)
(* session (Paired), because one request at a time works on a session; of  *)
(* the tool collector's, what was counted and what waits make up what was  *)
(* published (ToolsInv).                                                   *)
(***************************************************************************)
EXTENDS Approvals, Integers, SequenceTheorems, FiniteSetTheorems, WellFoundedInduction,
        TLAPS

-----------------------------------------------------------------------------
(***************************************************************************)
(* Types of the table and of the requests that work on it                  *)
(***************************************************************************)
\* A request settles the approval of the call it was asked to answer.
Settling(r) == phase[r] \in {"settle", "look", "decide"}

TableTypeOK ==
  /\ rows \in [Calls -> Statuses]
  /\ drafts \in [Requests -> [Calls -> Statuses]]
  /\ phase \in [Requests -> Phases]
  /\ job \in [Requests -> Jobs \cup {NoJob}]
  /\ asked \in [Requests -> Calls \cup {NoCall}]
  /\ seen \in [Requests -> Statuses]
  /\ late \in [Requests -> BOOLEAN]
  /\ announced \subseteq ApprovalEvents
  /\ \A r \in Requests : phase[r] \in {"pend", "insert"} => asked[r] \in Calls
  /\ \A r \in Requests : Settling(r) =>
        job[r].kind = "answer" /\ job[r].call \in Calls /\ job[r].verdict \in Decided

\* Nothing is written before the answer is decided.
NotYet == \A r \in Requests : Settling(r) \/ phase[r] = "new" =>
            \A c \in Calls : drafts[r][c] = "none"

\* The rows are locked by their writers.
OneWriter ==
  \A q, r \in Requests, c \in Calls :
     drafts[q][c] # "none" /\ drafts[r][c] # "none" => q = r

\* An approval is asked for only while it has no row, and decided only by an
\* answer that was not late.
NewPending ==
  \A r \in Requests, c \in Calls : drafts[r][c] = "pending" => rows[c] = "none"
OwnDecision ==
  \A r \in Requests, c \in Calls : drafts[r][c] \in Decided =>
     job[r].kind = "answer" /\ job[r].call = c /\ ~late[r]

\* What was decided when r looked, or when it arrived, is decided still.
Undone ==
  \A r \in Requests : phase[r] = "decide" /\ seen[r] \in Decided =>
     rows[job[r].call] \in Decided
LateDone ==
  \A r \in Requests : late[r] =>
     /\ phase[r] \notin {"new", "look", "decide"}
     /\ phase[r] = "settle" => rows[job[r].call] \in Decided

TableInv ==
  /\ TableTypeOK
  /\ NotYet /\ OneWriter /\ NewPending /\ OwnDecision /\ Undone /\ LateDone

-----------------------------------------------------------------------------
\* Only a commit changes the rows, and what it does to a decided one.
LEMMA CommitDecided ==
  ASSUME TableInv, NEW r \in Requests, Commit(r), NEW c \in Calls, rows[c] \in Decided
  PROVE  /\ rows'[c] \in Decided
         /\ rows'[c] # rows[c] => /\ phase[r] = "commit" /\ job[r].kind = "answer"
                                  /\ job[r].call = c /\ ~late[r]
<1>1. phase[r] = "commit" /\ rows'[c] = Status(r, c)
  BY DEF Commit
<1>2. drafts[r][c] \in Statuses
  BY DEF TableInv, TableTypeOK
<1>3. CASE drafts[r][c] = "none"
  BY <1>1, <1>3 DEF Status
<1>4. CASE drafts[r][c] = "pending"
  BY <1>4 DEF TableInv, NewPending, Decided
<1>5. CASE drafts[r][c] \in Decided
  BY <1>1, <1>5 DEF Status, TableInv, OwnDecision, Decided
<1> QED
  BY <1>2, <1>3, <1>4, <1>5 DEF Statuses, Decided

LEMMA InitTable == Init => TableInv
<1> SUFFICES ASSUME Init PROVE TableInv
  OBVIOUS
<1>1. \A r \in Requests : phase[r] = "new" /\ ~late[r] /\ \A c \in Calls : drafts[r][c] = "none"
  BY DEF Init
<1>2. TableTypeOK
  <2>1. rows \in [Calls -> Statuses]
    BY ApprovalsAssumption DEF Init, Statuses
  <2> QED
    BY <1>1, <2>1 DEF Init, TableTypeOK, Statuses, Phases, Settling
<1> QED
  BY <1>1, <1>2
  DEF TableInv, NotYet, OneWriter, NewPending, OwnDecision, Undone, LateDone, Settling, Decided

\* A step of r that leaves the table alone and goes on to phase p.
LEMMA QuietTable ==
  ASSUME TableInv, NEW r \in Requests, UNCHANGED tableVars, NEW p \in Phases, Goto(r, p),
         asked' \in [Requests -> Calls \cup {NoCall}], p \in {"pend", "insert"} => asked'[r] \in Calls,
         \A q \in Requests \ {r} : asked'[q] = asked[q],
         UNCHANGED <<job, seen, late>>, announced' \subseteq ApprovalEvents,
         p \notin {"settle", "look", "decide", "new"}
  PROVE  TableInv'
<1>1. /\ phase' \in [Requests -> Phases] /\ phase'[r] = p
      /\ \A q \in Requests \ {r} : phase'[q] = phase[q]
      /\ rows' = rows /\ drafts' = drafts
  BY DEF Goto, TableInv, TableTypeOK, tableVars
<1>2. \A q \in Requests : Settling(q)' => Settling(q) /\ phase'[q] = phase[q] /\ q # r
  BY <1>1 DEF Settling
<1>3. TableTypeOK'
  BY <1>1, <1>2 DEF TableInv, TableTypeOK
<1>4. NotYet' /\ OneWriter' /\ NewPending' /\ OwnDecision'
  BY <1>1, <1>2 DEF TableInv, NotYet, OneWriter, NewPending, OwnDecision
<1>5. Undone' /\ LateDone'
  BY <1>1, <1>2 DEF TableInv, Undone, LateDone, Settling
<1> QED
  BY <1>3, <1>4, <1>5 DEF TableInv

LEMMA EnterTable ==
  ASSUME TableInv, NEW r \in Requests, NEW j \in Jobs, Enter(r, j)
  PROVE  TableInv'
<1>1. /\ rows' = rows /\ drafts' = drafts /\ asked' = asked /\ seen' = seen
      /\ announced' = announced
      /\ phase[r] = "new" /\ job' = [job EXCEPT ![r] = j]
      /\ phase' = [phase EXCEPT ![r] = IF j.kind = "message" THEN "start" ELSE "settle"]
      /\ late' = [late EXCEPT ![r] = j.kind = "answer" /\ rows[j.call] \in Decided]
  BY DEF Enter, tableVars, Goto
<1>2. /\ j.kind \in {"message", "answer"}
      /\ j.kind = "answer" => j.call \in Calls /\ j.verdict \in Decided
  BY DEF Jobs
<1>3. /\ \A q \in Requests \ {r} : phase'[q] = phase[q] /\ job'[q] = job[q] /\ late'[q] = late[q]
      /\ job'[r] = j /\ phase'[r] \in {"start", "settle"}
      /\ phase'[r] = "settle" => j.kind = "answer"
      /\ late'[r] <=> (j.kind = "answer" /\ rows[j.call] \in Decided)
      /\ late' \in [Requests -> BOOLEAN]
  BY <1>1, <1>2 DEF TableInv, TableTypeOK
<1>4. TableTypeOK'
  BY <1>1, <1>2, <1>3 DEF TableInv, TableTypeOK, Phases, Settling
<1>5. \A c \in Calls : drafts[r][c] = "none"
  BY <1>1 DEF TableInv, NotYet
<1>6. NotYet' /\ OneWriter' /\ NewPending'
  BY <1>1, <1>3, <1>5 DEF TableInv, NotYet, OneWriter, NewPending, Settling
<1>7. OwnDecision'
  BY <1>1, <1>3, <1>5 DEF TableInv, OwnDecision, Decided
<1>8. Undone' /\ LateDone'
  BY <1>1, <1>3 DEF TableInv, Undone, LateDone
<1> QED
  BY <1>4, <1>6, <1>7, <1>8 DEF TableInv

\* FindPending and LookUp.
LEMMA LookTable ==
  ASSUME TableInv, NEW r \in Requests, FindPending(r) \/ LookUp(r)
  PROVE  TableInv'
<1>1. /\ rows' = rows /\ drafts' = drafts /\ asked' = asked /\ job' = job /\ late' = late
      /\ announced' = announced /\ Settling(r)
      /\ phase' \in [Requests -> Phases]
      /\ \A q \in Requests \ {r} : phase'[q] = phase[q] /\ seen'[q] = seen[q]
      /\ phase'[r] \in {"start", "look", "decide"}
  BY DEF FindPending, LookUp, tableVars, historyVars, Goto, TableInv, TableTypeOK, Phases, Settling
<1>2. job[r].call \in Calls /\ drafts[r][job[r].call] = "none"
      /\ Status(r, job[r].call) = rows[job[r].call] /\ rows[job[r].call] \in Statuses
  BY <1>1 DEF TableInv, TableTypeOK, NotYet, Status
<1>3. seen' \in [Requests -> Statuses]
  BY <1>2 DEF FindPending, LookUp, TableInv, TableTypeOK
<1>4. \A q \in Requests : Settling(q)' => Settling(q)
  BY <1>1 DEF Settling
<1>5. TableTypeOK'
  BY <1>1, <1>3, <1>4 DEF TableInv, TableTypeOK
<1>6. NotYet' /\ OneWriter' /\ NewPending' /\ OwnDecision'
  BY <1>1, <1>4 DEF TableInv, NotYet, OneWriter, NewPending, OwnDecision
<1>7. Undone'
  <2>1. phase'[r] = "decide" => seen'[r] = rows[job[r].call]
    BY <1>1, <1>2 DEF FindPending, LookUp, Goto, TableInv, TableTypeOK
  <2> QED
    BY <1>1, <2>1 DEF TableInv, Undone
<1>8. LateDone'
  <2>1. ASSUME late[r] PROVE phase'[r] = "start"
    <3>1. phase[r] = "settle" /\ rows[job[r].call] # "pending"
      BY <1>1, <2>1 DEF TableInv, LateDone, Settling, Decided
    <3> QED
      BY <1>2, <3>1 DEF FindPending, LookUp, Goto, TableInv, TableTypeOK
  <2> QED
    BY <1>1, <2>1 DEF TableInv, LateDone
<1> QED
  BY <1>5, <1>6, <1>7, <1>8 DEF TableInv

\* r writes a row that nobody else has written.
LEMMA WriteTable ==
  ASSUME TableInv, NEW r \in Requests, NEW c \in Calls, NEW status \in Statuses,
         MayWrite(r, c), Write(r, c, status),
         status = "pending" => rows[c] = "none",
         status \in Decided => job[r].kind = "answer" /\ job[r].call = c /\ ~late[r],
         NEW p \in {"start", "record"}, Goto(r, p),
         UNCHANGED <<job, asked, late>>, announced' \subseteq ApprovalEvents,
         seen' \in [Requests -> Statuses], \A q \in Requests \ {r} : seen'[q] = seen[q]
  PROVE  TableInv'
<1>1. /\ rows' = rows /\ drafts' = [drafts EXCEPT ![r][c] = status]
      /\ phase' \in [Requests -> Phases] /\ phase'[r] = p
      /\ \A q \in Requests \ {r} : phase'[q] = phase[q]
  BY DEF Write, Goto, TableInv, TableTypeOK, Phases
<1>2. drafts' \in [Requests -> [Calls -> Statuses]]
  BY <1>1 DEF TableInv, TableTypeOK
<1>3. \A q \in Requests, d \in Calls :
        drafts'[q][d] = IF q = r /\ d = c THEN status ELSE drafts[q][d]
  BY <1>1 DEF TableInv, TableTypeOK
<1>4. \A q \in Requests : Settling(q)' => Settling(q) /\ q # r
  BY <1>1 DEF Settling
<1>5. TableTypeOK'
  BY <1>1, <1>2, <1>4 DEF TableInv, TableTypeOK
<1>6. NotYet'
  BY <1>1, <1>3, <1>4 DEF TableInv, NotYet
<1>7. OneWriter'
  BY <1>3 DEF TableInv, OneWriter, MayWrite
<1>8. NewPending' /\ OwnDecision'
  BY <1>1, <1>3 DEF TableInv, NewPending, OwnDecision
<1>9. Undone' /\ LateDone'
  BY <1>1 DEF TableInv, Undone, LateDone
<1> QED
  BY <1>5, <1>6, <1>7, <1>8, <1>9 DEF TableInv

LEMMA DecideTable ==
  ASSUME TableInv, NEW r \in Requests, Decide(r)
  PROVE  TableInv'
<1> DEFINE c == job[r].call
           v == job[r].verdict
           status == IF seen[r] = v THEN Status(r, c) ELSE v
<1>1. /\ phase[r] = "decide" /\ c \in Calls /\ v \in Decided /\ job[r].kind = "answer"
      /\ ~late[r] /\ Status(r, c) = rows[c] /\ rows[c] \in Statuses
  BY DEF Decide, TableInv, TableTypeOK, Settling, LateDone, NotYet, Status
<1>2. status \in Decided /\ status \in Statuses
  BY <1>1 DEF TableInv, Undone, Decided, Statuses
<1>3. Approval(DecisionEvent(v), c) \in ApprovalEvents
  BY <1>1 DEF DecisionEvent, Approval, ApprovalEvents, Decided
<1>4. announced' \subseteq ApprovalEvents
  BY <1>3 DEF Decide, TableInv, TableTypeOK
<1>5. /\ seen' \in [Requests -> Statuses] /\ \A q \in Requests \ {r} : seen'[q] = seen[q]
      /\ UNCHANGED <<job, asked, late>> /\ Goto(r, "start")
      /\ MayWrite(r, c) /\ Write(r, c, status)
  BY DEF Decide, TableInv, TableTypeOK, Statuses
<1>6. status # "pending"
  BY <1>2 DEF Decided
<1> HIDE DEF status, c
<1> QED
  BY <1>1, <1>2, <1>4, <1>5, <1>6, WriteTable DEF c

\* r gives up what it has written.
LEMMA RollBackTable ==
  ASSUME TableInv, NEW r \in Requests, RollBack(r), Goto(r, "commit"),
         UNCHANGED <<job, asked, seen, late, announced>>
  PROVE  TableInv'
<1>1. /\ rows' = rows /\ drafts' = [drafts EXCEPT ![r] = [c \in Calls |-> "none"]]
      /\ phase' \in [Requests -> Phases] /\ phase'[r] = "commit"
      /\ \A q \in Requests \ {r} : phase'[q] = phase[q]
  BY DEF RollBack, Goto, TableInv, TableTypeOK, Phases
<1>2. /\ drafts' \in [Requests -> [Calls -> Statuses]]
      /\ \A q \in Requests, c \in Calls :
           drafts'[q][c] = IF q = r THEN "none" ELSE drafts[q][c]
  BY <1>1 DEF TableInv, TableTypeOK, Statuses
<1>3. \A q \in Requests : Settling(q)' => Settling(q) /\ q # r
  BY <1>1 DEF Settling
<1>4. TableTypeOK'
  BY <1>1, <1>2, <1>3 DEF TableInv, TableTypeOK
<1>5. NotYet' /\ OneWriter' /\ NewPending' /\ OwnDecision'
  BY <1>1, <1>2, <1>3 DEF TableInv, NotYet, OneWriter, NewPending, OwnDecision, Decided
<1>6. Undone' /\ LateDone'
  BY <1>1 DEF TableInv, Undone, LateDone
<1> QED
  BY <1>4, <1>5, <1>6 DEF TableInv

LEMMA CommitTable ==
  ASSUME TableInv, NEW r \in Requests, Commit(r)
  PROVE  TableInv'
<1>1. /\ phase[r] = "commit" /\ announced' = announced
      /\ rows' = [c \in Calls |-> Status(r, c)]
      /\ drafts' = [drafts EXCEPT ![r] = [c \in Calls |-> "none"]]
      /\ phase' \in [Requests -> Phases] /\ phase'[r] = "done"
      /\ \A q \in Requests \ {r} : phase'[q] = phase[q] /\ job'[q] = job[q]
                                  /\ asked'[q] = asked[q] /\ seen'[q] = seen[q]
                                  /\ late'[q] = late[q]
      /\ ~late'[r]
  BY DEF Commit, Goto, TableInv, TableTypeOK, Phases
<1>2. /\ drafts' \in [Requests -> [Calls -> Statuses]]
      /\ \A q \in Requests, c \in Calls :
           drafts'[q][c] = IF q = r THEN "none" ELSE drafts[q][c]
      /\ rows' \in [Calls -> Statuses]
  BY <1>1 DEF TableInv, TableTypeOK, Statuses, Status
<1>3. \A q \in Requests : Settling(q)' => Settling(q) /\ q # r
  BY <1>1 DEF Settling
<1>4. TableTypeOK'
  <2>1. /\ job' \in [Requests -> Jobs \cup {NoJob}] /\ asked' \in [Requests -> Calls \cup {NoCall}]
        /\ seen' \in [Requests -> Statuses] /\ late' \in [Requests -> BOOLEAN]
    BY DEF Commit, TableInv, TableTypeOK, Statuses
  <2>2. announced' \subseteq ApprovalEvents
    BY <1>1 DEF TableInv, TableTypeOK
  <2>3. \A q \in Requests : phase'[q] \in {"pend", "insert"} => asked'[q] \in Calls
    BY <1>1 DEF TableInv, TableTypeOK
  <2>4. \A q \in Requests : Settling(q)' =>
          job'[q].kind = "answer" /\ job'[q].call \in Calls /\ job'[q].verdict \in Decided
    BY <1>1, <1>3 DEF TableInv, TableTypeOK
  <2> QED
    BY <1>1, <1>2, <2>1, <2>2, <2>3, <2>4 DEF TableTypeOK
<1>5. NotYet' /\ OneWriter' /\ OwnDecision'
  BY <1>1, <1>2, <1>3 DEF TableInv, NotYet, OneWriter, OwnDecision, Decided
<1>6. NewPending'
  <2> SUFFICES ASSUME NEW q \in Requests, NEW c \in Calls, drafts'[q][c] = "pending"
               PROVE  rows'[c] = "none"
    BY DEF NewPending
  <2>1. q # r /\ drafts[q][c] = "pending" /\ rows[c] = "none"
    BY <1>2 DEF TableInv, NewPending
  <2>2. drafts[r][c] = "none"
    BY <2>1 DEF TableInv, OneWriter
  <2> QED
    BY <1>1, <2>1, <2>2 DEF Status
<1>7. \A c \in Calls : rows[c] \in Decided => rows'[c] \in Decided
  BY CommitDecided
<1>8. \A q \in Requests : Settling(q) => job[q].call \in Calls
  BY DEF TableInv, TableTypeOK
<1>9. Undone' /\ LateDone'
  BY <1>1, <1>7, <1>8 DEF TableInv, Undone, LateDone, Settling
<1> QED
  BY <1>4, <1>5, <1>6, <1>9 DEF TableInv

-----------------------------------------------------------------------------
(***************************************************************************)
(* The steps                                                               *)
(***************************************************************************)
\* The steps of the turn that write no row.
LEMMA TurnTable ==
  ASSUME TableInv, NEW r \in Requests,
         StartTurn(r) \/ ModelFails(r) \/ AnswerText(r) \/ CallTool(r) \/ RecordCall(r)
  PROVE  TableInv'
<1>1. asked \in [Requests -> Calls \cup {NoCall}] /\ announced \subseteq ApprovalEvents
  BY DEF TableInv, TableTypeOK
<1>2. CASE StartTurn(r)
  BY <1>1, <1>2, QuietTable DEF StartTurn, historyVars, Phases
<1>3. CASE ModelFails(r) \/ AnswerText(r) \/ RecordCall(r)
  <2>1. /\ Goto(r, "commit")
        /\ UNCHANGED <<tableVars, job, asked, seen, late, announced>>
    BY <1>3 DEF ModelFails, AnswerText, RecordCall, EndTurn, historyVars
  <2> QED
    BY <1>1, <2>1, QuietTable DEF Phases
<1>4. CASE CallTool(r)
  <2>1. PICK c \in Calls, t \in Tools :
          /\ asked' = [asked EXCEPT ![r] = c]
          /\ Goto(r, IF RequiresApproval(t) THEN "pend" ELSE "record")
    BY <1>4 DEF CallTool
  <2>2. /\ asked' \in [Requests -> Calls \cup {NoCall}] /\ asked'[r] \in Calls
        /\ \A q \in Requests \ {r} : asked'[q] = asked[q]
    BY <1>1, <2>1
  <2>3. UNCHANGED tableVars /\ UNCHANGED <<job, seen, late>> /\ announced' \subseteq ApprovalEvents
    BY <1>1, <1>4 DEF CallTool, historyVars
  <2>4. PICK p \in {"pend", "record"} : Goto(r, p)
    BY <2>1
  <2> QED
    BY <2>2, <2>3, <2>4, QuietTable DEF Phases
<1> QED
  BY <1>2, <1>3, <1>4

\* add_pending, which stores an approval that the table does not know.
LEMMA PendingTable ==
  ASSUME TableInv, NEW r \in Requests, AddPending(r) \/ InsertPending(r)
  PROVE  TableInv'
<1>1. /\ asked \in [Requests -> Calls \cup {NoCall}] /\ announced \subseteq ApprovalEvents
      /\ asked[r] \in Calls
  BY DEF AddPending, InsertPending, TableInv, TableTypeOK
<1>2. Approval("approval.requested", asked[r]) \in ApprovalEvents
  BY <1>1 DEF Approval, ApprovalEvents
<1>3. UNCHANGED <<job, asked, seen, late>> /\ announced' \subseteq ApprovalEvents
  BY <1>1, <1>2 DEF AddPending, InsertPending, Announce
<1>4. CASE AddPending(r)
  <2>1. PICK p \in {"insert", "record"} : Goto(r, p)
    BY <1>4 DEF AddPending, Announce
  <2>2. UNCHANGED tableVars
    BY <1>4 DEF AddPending
  <2> QED
    BY <1>1, <1>3, <2>1, <2>2, QuietTable DEF Phases
<1>5. CASE InsertPending(r)
  <2>1. CASE /\ rows[asked[r]] = "none"
             /\ Write(r, asked[r], "pending")
             /\ Announce(r)
    <3>1. MayWrite(r, asked[r]) /\ Goto(r, "record") /\ seen' \in [Requests -> Statuses]
      BY <1>3, <1>5, <2>1 DEF InsertPending, Announce, TableInv, TableTypeOK
    <3>2. "pending" \in Statuses /\ "pending" \notin Decided
      BY DEF Statuses, Decided
    <3> QED
      BY <1>1, <1>3, <2>1, <3>1, <3>2, WriteTable
  <2>2. CASE RollBack(r) /\ EndTurn(r, "llm.request.failed") /\ UNCHANGED announced
    BY <1>3, <2>2, RollBackTable DEF EndTurn
  <2> QED
    BY <1>5, <2>1, <2>2 DEF InsertPending
<1> QED
  BY <1>4, <1>5

LEMMA DisconnectTable ==
  ASSUME TableInv, NEW r \in Requests, Disconnect(r)
  PROVE  TableInv'
<1>1. Goto(r, "commit") /\ UNCHANGED <<job, asked, seen, late, announced>>
  BY DEF Disconnect, historyVars
<1>2. asked \in [Requests -> Calls \cup {NoCall}] /\ announced \subseteq ApprovalEvents
  BY DEF TableInv, TableTypeOK
<1>3. CASE UNCHANGED tableVars
  BY <1>1, <1>2, <1>3, QuietTable DEF Phases
<1>4. CASE RollBack(r)
  BY <1>1, <1>4, RollBackTable
<1> QED
  BY <1>3, <1>4 DEF Disconnect

\* The event loop runs a task of the bus, or nothing happens.
LEMMA IdleTable ==
  ASSUME TableInv, RunBus \/ UNCHANGED vars
  PROVE  TableInv' /\ UNCHANGED <<rows, drafts, phase, job, asked, seen, late, announced>>
<1>1. UNCHANGED <<rows, drafts, phase, job, asked, seen, late, announced>>
  BY DEF RunBus, Handle, vars, tableVars, requestVars, historyVars
<1> QED
  BY <1>1 DEF TableInv, TableTypeOK, NotYet, OneWriter, NewPending, OwnDecision, Undone,
              LateDone, Settling

LEMMA StepTable ==
  ASSUME TableInv, NEW r \in Requests, Step(r) \/ Disconnect(r)
  PROVE  TableInv'
BY LookTable, DecideTable, TurnTable, PendingTable, CommitTable, DisconnectTable DEF Step

LEMMA NextTable == TableInv /\ [Next]_vars => TableInv'
<1> SUFFICES ASSUME TableInv, [Next]_vars PROVE TableInv'
  OBVIOUS
<1>1. CASE \E r \in Requests, j \in Jobs : Enter(r, j)
  BY <1>1, EnterTable
<1>2. CASE \E r \in Requests : Resumed(r) /\ (Step(r) \/ Disconnect(r))
  BY <1>2, StepTable
<1>3. CASE RunBus \/ UNCHANGED vars
  BY <1>3, IdleTable
<1> QED
  BY <1>1, <1>2, <1>3 DEF Next

LEMMA TableHolds == Spec => []TableInv
BY InitTable, NextTable, PTL DEF Spec

-----------------------------------------------------------------------------
(***************************************************************************)
(* Decisions stand                                                         *)
(***************************************************************************)
\* Only a commit changes the rows of the table.
LEMMA RowsChange ==
  ASSUME TableInv, [Next]_vars, rows' # rows
  PROVE  \E r \in Requests : Commit(r)
<1>1. CASE \E r \in Requests, j \in Jobs : Enter(r, j)
  BY <1>1 DEF Enter, tableVars
<1>2. CASE \E r \in Requests : Resumed(r) /\ (Step(r) \/ Disconnect(r))
  <2>1. PICK r \in Requests : Step(r) \/ Disconnect(r)
    BY <1>2
  <2>2. Commit(r)
    BY <2>1 DEF Step, FindPending, LookUp, Decide, StartTurn, ModelFails, AnswerText, CallTool,
         AddPending, InsertPending, RecordCall, Disconnect, Write, RollBack, tableVars
  <2> QED
    BY <2>2
<1>3. CASE RunBus \/ UNCHANGED vars
  BY <1>3, IdleTable
<1> QED
  BY <1>1, <1>2, <1>3 DEF Next

\* A decision that is committed (approval_management's update_status, followed by
\* get_db's commit) stays a decision, and is changed by nothing but an answer to the
\* same call that came while the call was undecided.
THEOREM CommittedDecisionsStand == Spec => DecisionsStand
<1>1. TableInv /\ [Next]_vars =>
        [\A c \in Calls :
           rows[c] \in Decided /\ rows'[c] # rows[c] =>
             /\ rows'[c] \in Decided
             /\ \E r \in Requests :
                   phase[r] = "commit" /\ job[r].kind = "answer" /\ job[r].call = c /\ ~late[r]]_rows
  <2> SUFFICES ASSUME TableInv, [Next]_vars, rows' # rows,
                      NEW c \in Calls, rows[c] \in Decided, rows'[c] # rows[c]
               PROVE  /\ rows'[c] \in Decided
                      /\ \E r \in Requests : phase[r] = "commit" /\ job[r].kind = "answer"
                                             /\ job[r].call = c /\ ~late[r]
    OBVIOUS
  <2>1. PICK r \in Requests : Commit(r)
    BY RowsChange
  <2> QED
    BY <2>1, CommitDecided
<1> QED
  BY <1>1, TableHolds, PTL DEF Spec, DecisionsStand

-----------------------------------------------------------------------------
(***************************************************************************)
(* What the table shows has been announced                                 *)
(***************************************************************************)
\* The announcements run ahead of the commits: they are made for what a transaction
\* has written, and for the approval that an answer is about to decide.
AnnouncedAhead ==
  /\ \A r \in Requests, c \in Calls : drafts[r][c] = "pending" =>
        Approval("approval.requested", c) \in announced
  /\ \A r \in Requests, c \in Calls : drafts[r][c] \in Decided =>
        {Approval("approval.requested", c), Approval(DecisionEvent(drafts[r][c]), c)}
          \subseteq announced
  /\ \A r \in Requests : phase[r] \in {"look", "decide"} =>
        Approval("approval.requested", job[r].call) \in announced

AnnouncedInv == Announced /\ AnnouncedAhead

LEMMA InitAnnounced == Init => AnnouncedInv
<1> SUFFICES ASSUME Init PROVE AnnouncedInv
  OBVIOUS
<1>1. \A r \in Requests, c \in Calls : drafts[r][c] = "none" /\ phase[r] = "new"
  BY DEF Init
<1>2. AnnouncedAhead
  BY <1>1 DEF AnnouncedAhead, Decided, Init
<1>3. ASSUME NEW c \in Calls, rows[c] \in {"pending", "approved", "rejected"}
      PROVE  Approval("approval.requested", c) \in announced
             /\ Approval(DecisionEvent(rows[c]), c) \in announced
  <2>1. /\ Approval("approval.requested", c) \in ApprovalEvents
        /\ Approval(DecisionEvent(rows[c]), c) \in ApprovalEvents
    BY <1>3 DEF Approval, ApprovalEvents, DecisionEvent
  <2>2. /\ Approval("approval.requested", c).call = c
        /\ Approval("approval.requested", c).type = "approval.requested"
        /\ Approval(DecisionEvent(rows[c]), c).call = c
        /\ Approval(DecisionEvent(rows[c]), c).type = DecisionEvent(rows[c])
    BY DEF Approval
  <2> QED
    BY <1>3, <2>1, <2>2 DEF Init
<1>4. Announced
  BY <1>3 DEF Announced, Shown, Decided
<1> QED
  BY <1>2, <1>4 DEF AnnouncedInv

\* Announcements are not taken back: a step that writes nothing new keeps the promise.
LEMMA QuietAnnounced ==
  ASSUME AnnouncedInv, UNCHANGED rows, announced \subseteq announced',
         \A r \in Requests, c \in Calls :
            drafts'[r][c] # "none" => drafts'[r][c] = drafts[r][c],
         \A r \in Requests : phase'[r] \in {"look", "decide"} =>
            phase[r] \in {"look", "decide"} /\ job'[r] = job[r]
  PROVE  AnnouncedInv'
<1>1. Announced'
  BY DEF AnnouncedInv, Announced, Shown
<1>2. AnnouncedAhead'
  BY DEF AnnouncedInv, AnnouncedAhead, Decided
<1> QED
  BY <1>1, <1>2 DEF AnnouncedInv

LEMMA EnterAnnounced ==
  ASSUME TableInv, AnnouncedInv, NEW r \in Requests, NEW j \in Jobs, Enter(r, j)
  PROVE  AnnouncedInv'
<1>1. UNCHANGED <<rows, drafts, announced>>
  BY DEF Enter, tableVars
<1>2. \A q \in Requests : phase'[q] \in {"look", "decide"} =>
        phase[q] \in {"look", "decide"} /\ job'[q] = job[q]
  BY DEF Enter, Goto, TableInv, TableTypeOK
<1> QED
  BY <1>1, <1>2, QuietAnnounced

LEMMA LookAnnounced ==
  ASSUME TableInv, AnnouncedInv, NEW r \in Requests, FindPending(r) \/ LookUp(r)
  PROVE  AnnouncedInv'
<1>1. UNCHANGED <<rows, drafts, announced, job>>
  BY DEF FindPending, LookUp, tableVars, historyVars
<1>2. phase'[r] \in {"look", "decide"} => Approval("approval.requested", job[r].call) \in announced
  <2>1. CASE FindPending(r)
    <3>1. /\ job[r].call \in Calls /\ drafts[r][job[r].call] = "none"
          /\ Status(r, job[r].call) = rows[job[r].call]
      BY <2>1 DEF FindPending, TableInv, TableTypeOK, NotYet, Settling, Status
    <3>2. phase'[r] \in {"look", "decide"} => job[r].call \in Shown
      BY <2>1, <3>1 DEF FindPending, Goto, TableInv, TableTypeOK, Shown
    <3> QED
      BY <3>2 DEF AnnouncedInv, Announced
  <2>2. CASE LookUp(r)
    BY <2>2 DEF LookUp, AnnouncedInv, AnnouncedAhead
  <2> QED
    BY <2>1, <2>2
<1>3. \A q \in Requests \ {r} : phase'[q] = phase[q]
  BY DEF FindPending, LookUp, Goto, TableInv, TableTypeOK
<1>4. Announced'
  BY <1>1 DEF AnnouncedInv, Announced, Shown
<1>5. AnnouncedAhead'
  BY <1>1, <1>2, <1>3 DEF AnnouncedInv, AnnouncedAhead
<1> QED
  BY <1>4, <1>5 DEF AnnouncedInv

\* A row that r writes is announced by then.
LEMMA WriteAnnounced ==
  ASSUME TableInv, AnnouncedInv, NEW r \in Requests, NEW c \in Calls, NEW status \in Statuses,
         Write(r, c, status), announced \subseteq announced',
         Approval("approval.requested", c) \in announced',
         Approval(DecisionEvent(status), c) \in announced',
         UNCHANGED job, \A q \in Requests \ {r} : phase'[q] = phase[q],
         phase'[r] \notin {"look", "decide"}
  PROVE  AnnouncedInv'
<1>1. /\ UNCHANGED rows
      /\ \A q \in Requests, d \in Calls :
           drafts'[q][d] = IF q = r /\ d = c THEN status ELSE drafts[q][d]
  BY DEF Write, TableInv, TableTypeOK
<1>2. Announced'
  BY <1>1 DEF AnnouncedInv, Announced, Shown
<1>3. ASSUME NEW q \in Requests, NEW d \in Calls
      PROVE  /\ drafts'[q][d] = "pending" => Approval("approval.requested", d) \in announced'
             /\ drafts'[q][d] \in Decided =>
                  {Approval("approval.requested", d), Approval(DecisionEvent(drafts'[q][d]), d)}
                    \subseteq announced'
  <2>1. CASE q = r /\ d = c
    BY <1>1, <2>1
  <2>2. CASE ~(q = r /\ d = c)
    BY <1>1, <2>2 DEF AnnouncedInv, AnnouncedAhead
  <2> QED
    BY <2>1, <2>2
<1>4. \A q \in Requests : phase'[q] \in {"look", "decide"} =>
        Approval("approval.requested", job'[q].call) \in announced'
  BY DEF AnnouncedInv, AnnouncedAhead
<1>5. AnnouncedAhead'
  BY <1>3, <1>4 DEF AnnouncedAhead
<1> QED
  BY <1>2, <1>5 DEF AnnouncedInv

\* Decide announces the verdict; when it writes no other status than it found, that
\* one is decided and was announced with its commit.
LEMMA DecideAnnounced ==
  ASSUME TableInv, AnnouncedInv, NEW r \in Requests, Decide(r)
  PROVE  AnnouncedInv'
<1> DEFINE c == job[r].call
           v == job[r].verdict
           status == IF seen[r] = v THEN Status(r, c) ELSE v
<1>1. /\ phase[r] = "decide" /\ c \in Calls /\ v \in Decided
      /\ Status(r, c) = rows[c] /\ rows[c] \in Statuses
  BY DEF Decide, TableInv, TableTypeOK, Settling, NotYet, Status
<1>2. /\ status \in Statuses
      /\ status = v \/ (status = rows[c] /\ rows[c] \in Decided)
  BY <1>1 DEF TableInv, Undone, Decided, Statuses
<1>3. announced' = announced \cup {Approval(DecisionEvent(v), c)} /\ Write(r, c, status)
      /\ UNCHANGED job
  BY DEF Decide
<1>4. /\ \A q \in Requests \ {r} : phase'[q] = phase[q]
      /\ phase'[r] \notin {"look", "decide"}
  BY DEF Decide, Goto, TableInv, TableTypeOK
<1>5. Approval("approval.requested", c) \in announced
  BY <1>1 DEF AnnouncedInv, AnnouncedAhead
<1>6. Approval(DecisionEvent(status), c) \in announced'
  <2>1. CASE status = v
    BY <1>3, <2>1
  <2>2. CASE status = rows[c] /\ rows[c] \in Decided
    <3>1. Approval(DecisionEvent(rows[c]), c) \in announced
      BY <1>1, <2>2 DEF AnnouncedInv, Announced
    <3> QED
      BY <1>3, <2>2, <3>1
  <2> QED
    BY <1>2, <2>1, <2>2
<1>7. announced \subseteq announced'
  BY <1>3
<1> HIDE DEF status, c, v
<1> QED
  BY <1>1, <1>2, <1>3, <1>4, <1>5, <1>6, <1>7, WriteAnnounced DEF c

LEMMA TurnAnnounced ==
  ASSUME TableInv, AnnouncedInv, NEW r \in Requests,
         StartTurn(r) \/ ModelFails(r) \/ AnswerText(r) \/ CallTool(r) \/ RecordCall(r) \/ AddPending(r)
  PROVE  AnnouncedInv'
<1>1. UNCHANGED <<rows, drafts, job>> /\ announced \subseteq announced'
  BY DEF StartTurn, ModelFails, AnswerText, CallTool, RecordCall, AddPending, Announce, tableVars,
         historyVars
<1>2. PICK p \in {"model", "commit", "pend", "record", "insert"} : Goto(r, p)
  BY DEF StartTurn, ModelFails, AnswerText, CallTool, RecordCall, AddPending, Announce, EndTurn
<1>3. \A q \in Requests : phase'[q] \in {"look", "decide"} => phase[q] \in {"look", "decide"}
  BY <1>2 DEF Goto, TableInv, TableTypeOK
<1> QED
  BY <1>1, <1>3, QuietAnnounced

\* A transaction that is rolled back leaves its announcements behind.
LEMMA RollBackAnnounced ==
  ASSUME TableInv, AnnouncedInv, NEW r \in Requests, RollBack(r), Goto(r, "commit"),
         UNCHANGED <<job, announced>>
  PROVE  AnnouncedInv'
<1>1. UNCHANGED rows /\ \A q \in Requests, c \in Calls :
        drafts'[q][c] # "none" => drafts'[q][c] = drafts[q][c]
  BY DEF RollBack, TableInv, TableTypeOK
<1>2. \A q \in Requests : phase'[q] \in {"look", "decide"} => phase[q] \in {"look", "decide"}
  BY DEF Goto, TableInv, TableTypeOK
<1> QED
  BY <1>1, <1>2, QuietAnnounced

LEMMA InsertAnnounced ==
  ASSUME TableInv, AnnouncedInv, NEW r \in Requests, InsertPending(r)
  PROVE  AnnouncedInv'
<1>1. asked[r] \in Calls /\ UNCHANGED job
  BY DEF InsertPending, TableInv, TableTypeOK
<1>2. CASE Write(r, asked[r], "pending") /\ Announce(r)
  <2>1. /\ announced' = announced \cup {Approval("approval.requested", asked[r])}
        /\ \A q \in Requests \ {r} : phase'[q] = phase[q]
        /\ phase'[r] = "record"
    BY <1>2 DEF Announce, Goto, TableInv, TableTypeOK
  <2>2. "pending" \in Statuses /\ DecisionEvent("pending") = "approval.requested"
    BY DEF Statuses, DecisionEvent
  <2> QED
    BY <1>1, <1>2, <2>1, <2>2, WriteAnnounced
<1>3. CASE RollBack(r) /\ EndTurn(r, "llm.request.failed") /\ UNCHANGED announced
  BY <1>1, <1>3, RollBackAnnounced DEF EndTurn
<1> QED
  BY <1>2, <1>3 DEF InsertPending

LEMMA DisconnectAnnounced ==
  ASSUME TableInv, AnnouncedInv, NEW r \in Requests, Disconnect(r)
  PROVE  AnnouncedInv'
<1>1. Goto(r, "commit") /\ UNCHANGED <<job, announced>>
  BY DEF Disconnect, historyVars
<1>2. CASE UNCHANGED tableVars
  <2>1. \A q \in Requests : phase'[q] \in {"look", "decide"} => phase[q] \in {"look", "decide"}
    BY <1>1 DEF Goto, TableInv, TableTypeOK
  <2> QED
    BY <1>1, <1>2, <2>1, QuietAnnounced DEF tableVars
<1>3. CASE RollBack(r)
  BY <1>1, <1>3, RollBackAnnounced
<1> QED
  BY <1>2, <1>3 DEF Disconnect

\* A commit puts into the table what its transaction has announced.
LEMMA CommitAnnounced ==
  ASSUME TableInv, AnnouncedInv, NEW r \in Requests, Commit(r)
  PROVE  AnnouncedInv'
<1>1. /\ announced' = announced
      /\ \A c \in Calls : rows'[c] = Status(r, c)
      /\ \A q \in Requests, c \in Calls : drafts'[q][c] = IF q = r THEN "none" ELSE drafts[q][c]
  BY DEF Commit, TableInv, TableTypeOK
<1>2. \A q \in Requests : phase'[q] \in {"look", "decide"} =>
        phase[q] \in {"look", "decide"} /\ job'[q] = job[q]
  BY DEF Commit, Goto, TableInv, TableTypeOK
<1>3. AnnouncedAhead'
  BY <1>1, <1>2 DEF AnnouncedInv, AnnouncedAhead, Decided
<1>4. ASSUME NEW c \in Calls
      PROVE  /\ rows'[c] = "pending" => Approval("approval.requested", c) \in announced
             /\ rows'[c] \in Decided =>
                  {Approval("approval.requested", c), Approval(DecisionEvent(rows'[c]), c)}
                    \subseteq announced
  <2>1. CASE drafts[r][c] = "none"
    <3>1. rows'[c] = rows[c]
      BY <1>1, <2>1 DEF Status
    <3> QED
      BY <3>1 DEF AnnouncedInv, Announced, Shown
  <2>2. CASE drafts[r][c] # "none"
    <3>1. rows'[c] = drafts[r][c]
      BY <1>1, <2>2 DEF Status
    <3> QED
      BY <3>1 DEF AnnouncedInv, AnnouncedAhead
  <2> QED
    BY <2>1, <2>2
<1>5. Announced'
  BY <1>1, <1>4 DEF Announced, Shown
<1> QED
  BY <1>3, <1>5 DEF AnnouncedInv

LEMMA NextAnnounced == TableInv /\ AnnouncedInv /\ [Next]_vars => AnnouncedInv'
<1> SUFFICES ASSUME TableInv, AnnouncedInv, [Next]_vars PROVE AnnouncedInv'
  OBVIOUS
<1>1. CASE \E r \in Requests, j \in Jobs : Enter(r, j)
  BY <1>1, EnterAnnounced
<1>2. CASE \E r \in Requests : Resumed(r) /\ (Step(r) \/ Disconnect(r))
  BY <1>2, LookAnnounced, DecideAnnounced, TurnAnnounced, InsertAnnounced, CommitAnnounced,
     DisconnectAnnounced DEF Step
<1>3. CASE RunBus \/ UNCHANGED vars
  <2>1. UNCHANGED <<rows, drafts, phase, job, announced>>
    BY <1>3, IdleTable
  <2> QED
    BY <2>1, QuietAnnounced
<1> QED
  BY <1>1, <1>2, <1>3 DEF Next

\* What get_all_pending shows was requested in an event, and what is decided was
\* requested and decided in events, although add_pending and update_status publish
\* before get_db commits and some transactions are rolled back.
THEOREM ApprovalsAreAnnounced == Spec => []Announced
<1>1. Spec => []AnnouncedInv
  BY InitAnnounced, NextAnnounced, TableHolds, PTL DEF Spec
<1>2. AnnouncedInv => Announced
  BY DEF AnnouncedInv
<1> QED
  BY <1>1, <1>2, PTL

-----------------------------------------------------------------------------
(***************************************************************************)
(* Induction, for sets: what a set has for 0 and passes on it has for all. *)
(***************************************************************************)
LEMMA NatSet ==
  ASSUME NEW T, 0 \in T, \A n \in Nat : n \in T => n + 1 \in T
  PROVE  \A n \in Nat : n \in T
<1> DEFINE Bad == Nat \ T
<1> SUFFICES ASSUME Bad # {} PROVE FALSE
  OBVIOUS
<1>1. PICK m \in Bad : \A n \in Bad : ~(<<n, m>> \in OpToRel(<, Nat))
  <2>1. Bad \subseteq Nat
    OBVIOUS
  <2> HIDE DEF Bad
  <2> QED
    BY <2>1, NatLessThanWellFounded, WFMin
<1>2. m \in Nat /\ m # 0 /\ m - 1 \in Nat
  OBVIOUS
<1>3. m - 1 \notin Bad
  <2>1. <<m - 1, m>> \in OpToRel(<, Nat)
    BY <1>2 DEF OpToRel
  <2> QED
    BY <1>1, <2>1
<1>4. m - 1 \in T
  BY <1>2, <1>3
<1>5. (m - 1) + 1 \in T
  BY <1>2, <1>4
<1> QED
  BY <1>2, <1>5

LEMMA SeqSet ==
  ASSUME NEW X, NEW T, <<>> \in T,
         \A q \in Seq(X) : \A x \in X : q \in T => Append(q, x) \in T
  PROVE  \A q \in Seq(X) : q \in T
<1> DEFINE Done == {n \in Nat : \A q \in Seq(X) : Len(q) = n => q \in T}
<1>1. 0 \in Done
  BY EmptySeq
<1>2. ASSUME NEW n \in Nat, n \in Done PROVE n + 1 \in Done
  <2> SUFFICES ASSUME NEW q \in Seq(X), Len(q) = n + 1 PROVE q \in T
    OBVIOUS
  <2> DEFINE p == SubSeq(q, 1, n)
  <2>1. \A i \in 1..Len(q) : q[i] \in X
    BY ElementOfSeq
  <2>2. p \in Seq(X) /\ Len(p) = n /\ \A i \in 1..n : p[i] = q[i]
    <3>1. \A i \in 1..n : q[i] \in X
      BY <2>1
    <3>2. /\ p \in Seq(X) /\ Len(p) = IF 1 <= n THEN n - 1 + 1 ELSE 0
          /\ \A i \in 1..(n - 1 + 1) : p[i] = q[1 + i - 1]
      BY <3>1, SubSeqProperties
    <3> HIDE DEF p
    <3> QED
      BY <3>2
  <2> HIDE DEF p
  <2>3. q[n + 1] \in X
    BY <2>1
  <2>4. Append(p, q[n + 1]) = q
    <3>1. /\ Append(p, q[n + 1]) \in Seq(X) /\ Len(Append(p, q[n + 1])) = n + 1
          /\ \A i \in 1..n : Append(p, q[n + 1])[i] = p[i]
          /\ Append(p, q[n + 1])[n + 1] = q[n + 1]
      BY <2>2, <2>3, AppendProperties
    <3>2. \A i \in 1..(n + 1) : i \in 1..n \/ i = n + 1
      OBVIOUS
    <3>3. \A i \in 1..(n + 1) : Append(p, q[n + 1])[i] = q[i]
      BY <2>2, <3>1, <3>2
    <3> QED
      BY <3>1, <3>3, SeqEqual
  <2>5. p \in T
    BY <1>2, <2>2
  <2> QED
    BY <2>2, <2>3, <2>4, <2>5
<1> HIDE DEF Done
<1>3. \A n \in Nat : n \in Done
  BY <1>1, <1>2, NatSet
<1> QED
  BY <1>3, LenProperties DEF Done

-----------------------------------------------------------------------------
(***************************************************************************)
(* Keep                                                                    *)
(***************************************************************************)
\* One step of the recursion, and what its function is.
KeepStep(q, X, f, i) ==
  IF i = 0 THEN <<>>
  ELSE IF q[i] \in X THEN Append(f[i - 1], q[i])
  ELSE f[i - 1]
KeptFn(q, X) == CHOOSE f : f = [i \in 0..Len(q) |-> KeepStep(q, X, f, i)]

LEMMA KeepIsKept == \A q, X : Keep(q, X) = KeptFn(q, X)[Len(q)]
BY DEF Keep, KeptFn, KeepStep

LEMMA KeptFnExists ==
  ASSUME NEW Y, NEW q \in Seq(Y), NEW X
  PROVE  KeptFn(q, X) = [i \in 0..Len(q) |-> KeepStep(q, X, KeptFn(q, X), i)]
<1> DEFINE Done == {n \in Nat : \E f : f = [i \in 0..n |-> KeepStep(q, X, f, i)]}
<1>1. 0 \in Done
  <2> DEFINE f == [i \in 0..0 |-> <<>>]
  <2>1. f = [i \in 0..0 |-> KeepStep(q, X, f, i)]
    BY DEF KeepStep
  <2> QED
    BY <2>1
<1>2. ASSUME NEW n \in Nat, n \in Done PROVE n + 1 \in Done
  <2>1. PICK f : f = [i \in 0..n |-> KeepStep(q, X, f, i)]
    BY <1>2
  <2> DEFINE g == [i \in 0..(n + 1) |-> IF i = n + 1 THEN KeepStep(q, X, f, n + 1) ELSE f[i]]
  <2>2. \A i \in 0..n : g[i] = f[i] /\ f[i] = KeepStep(q, X, f, i)
    <3>1. \A i \in 0..n : g[i] = f[i]
      OBVIOUS
    <3> HIDE DEF g
    <3> QED
      BY <2>1, <3>1
  <2>3. \A i \in 0..(n + 1) : KeepStep(q, X, g, i) = KeepStep(q, X, f, i)
    <3>1. \A i \in 0..(n + 1) : i = 0 \/ i - 1 \in 0..n
      OBVIOUS
    <3> HIDE DEF g
    <3> QED
      BY <2>2, <3>1 DEF KeepStep
  <2>4. \A i \in 0..(n + 1) : g[i] = KeepStep(q, X, f, i)
    <3>1. g[n + 1] = KeepStep(q, X, f, n + 1)
      OBVIOUS
    <3>2. \A i \in 0..(n + 1) : i \in 0..n \/ i = n + 1
      OBVIOUS
    <3> HIDE DEF g
    <3> QED
      BY <2>2, <3>1, <3>2
  <2>5. g = [i \in 0..(n + 1) |-> KeepStep(q, X, g, i)]
    <3>1. g = [i \in 0..(n + 1) |-> g[i]]
      OBVIOUS
    <3> HIDE DEF g
    <3> QED
      BY <2>3, <2>4, <3>1
  <2> HIDE DEF g
  <2> QED
    BY <2>5
<1> HIDE DEF Done
<1>3. Len(q) \in Done
  BY <1>1, <1>2, NatSet, LenProperties
<1> QED
  BY <1>3 DEF Done, KeptFn

LEMMA KeepEmpty == \A X : Keep(<<>>, X) = <<>>
<1>1. ASSUME NEW X, NEW q \in Seq({}), Len(q) = 0
      PROVE  Keep(q, X) = <<>>
  <2> DEFINE f == KeptFn(q, X)
  <2>1. f = [i \in 0..Len(q) |-> KeepStep(q, X, f, i)]
    BY KeptFnExists
  <2>2. Keep(q, X) = f[Len(q)]
    BY KeepIsKept
  <2> HIDE DEF f
  <2>3. f[0] = KeepStep(q, X, f, 0)
    BY <1>1, <2>1
  <2> QED
    BY <1>1, <2>2, <2>3 DEF KeepStep
<1>2. <<>> \in Seq({}) /\ Len(<<>>) = 0
  BY EmptySeq
<1> QED
  BY <1>1, <1>2

LEMMA KeepAppend ==
  ASSUME NEW Y, NEW q \in Seq(Y), NEW y \in Y, NEW X
  PROVE  Keep(Append(q, y), X) = IF y \in X THEN Append(Keep(q, X), y) ELSE Keep(q, X)
<1> DEFINE p == Append(q, y)
           f == KeptFn(q, X)
           g == KeptFn(p, X)
           n == Len(q)
           Same == {i \in Nat : i <= n => f[i] = g[i]}
<1>1. /\ p \in Seq(Y) /\ Len(p) = n + 1 /\ n \in Nat
      /\ \A i \in 1..n : p[i] = q[i]
      /\ p[n + 1] = y
  BY AppendProperties, LenProperties
<1>2. f = [i \in 0..n |-> KeepStep(q, X, f, i)]
  BY KeptFnExists
<1>3. g = [i \in 0..(n + 1) |-> KeepStep(p, X, g, i)]
  BY <1>1, KeptFnExists
<1>4. Keep(q, X) = f[n] /\ Keep(p, X) = g[n + 1]
  BY <1>1, KeepIsKept
<1> HIDE DEF f, g, p, n
<1>5. \A i \in 0..n : f[i] = KeepStep(q, X, f, i) /\ g[i] = KeepStep(p, X, g, i)
  <2>1. \A i \in 0..n : i \in 0..(n + 1)
    BY <1>1
  <2> QED
    BY <1>2, <1>3, <2>1
<1>6. 0 \in Same
  BY <1>1, <1>5 DEF KeepStep
<1>7. ASSUME NEW i \in Nat, i \in Same PROVE i + 1 \in Same
  <2> SUFFICES ASSUME i + 1 <= n PROVE f[i + 1] = g[i + 1]
    OBVIOUS
  <2>1. i + 1 \in 0..n /\ i + 1 \in 1..n /\ i + 1 # 0 /\ (i + 1) - 1 = i /\ i <= n
    BY <1>1
  <2>2. f[i] = g[i]
    BY <1>7, <2>1
  <2>3. p[i + 1] = q[i + 1]
    BY <1>1, <2>1
  <2> QED
    BY <1>5, <2>1, <2>2, <2>3 DEF KeepStep
<1> HIDE DEF Same
<1>8. n \in Same
  BY <1>1, <1>6, <1>7, NatSet
<1>9. f[n] = g[n]
  BY <1>1, <1>8 DEF Same
<1>10. g[n + 1] = KeepStep(p, X, g, n + 1)
  <2>1. n + 1 \in 0..(n + 1)
    BY <1>1
  <2> QED
    BY <1>3, <2>1
<1>11. n + 1 # 0 /\ (n + 1) - 1 = n
  BY <1>1
<1>12. g[n + 1] = IF y \in X THEN Append(f[n], y) ELSE f[n]
  BY <1>1, <1>9, <1>10, <1>11 DEF KeepStep
<1> QED
  BY <1>4, <1>12 DEF p

\* The elements kept are those of q that X has.
LEMMA KeepType ==
  ASSUME NEW Y, NEW X, NEW q \in Seq(Y)
  PROVE  Keep(q, X) \in Seq(Y \cap X) /\ Len(Keep(q, X)) <= Len(q)
<1> DEFINE T == {p \in Seq(Y) : Keep(p, X) \in Seq(Y \cap X) /\ Len(Keep(p, X)) <= Len(p)}
<1>1. <<>> \in T
  <2>1. <<>> \in Seq(Y) /\ <<>> \in Seq(Y \cap X) /\ Len(<<>>) = 0
    BY EmptySeq
  <2>2. Keep(<<>>, X) = <<>>
    BY KeepEmpty
  <2>3. Keep(<<>>, X) \in Seq(Y \cap X) /\ Len(Keep(<<>>, X)) = 0
    BY <2>1, <2>2
  <2> QED
    BY <2>1, <2>3
<1>2. ASSUME NEW p \in Seq(Y), NEW y \in Y, p \in T PROVE Append(p, y) \in T
  <2>1. /\ Append(p, y) \in Seq(Y) /\ Len(Append(p, y)) = Len(p) + 1
        /\ Len(p) \in Nat /\ Len(Keep(p, X)) \in Nat
    BY <1>2, AppendProperties, LenProperties
  <2>2. CASE y \in X
    <3>1. Keep(Append(p, y), X) = Append(Keep(p, X), y)
      BY <2>2, KeepAppend
    <3>2. /\ Append(Keep(p, X), y) \in Seq(Y \cap X)
          /\ Len(Append(Keep(p, X), y)) = Len(Keep(p, X)) + 1
      BY <1>2, <2>2, AppendProperties
    <3> QED
      BY <1>2, <2>1, <3>1, <3>2
  <2>3. CASE y \notin X
    <3>1. Keep(Append(p, y), X) = Keep(p, X)
      BY <2>3, KeepAppend
    <3> QED
      BY <1>2, <2>1, <3>1
  <2> QED
    BY <2>2, <2>3
<1> HIDE DEF T
<1>3. q \in T
  BY <1>1, <1>2, SeqSet
<1> QED
  BY <1>3 DEF T

\* Only the elements of q count.
LEMMA KeepSame ==
  ASSUME NEW Y, NEW q \in Seq(Y), NEW X, NEW Z,
         \A i \in 1..Len(q) : q[i] \in X <=> q[i] \in Z
  PROVE  Keep(q, X) = Keep(q, Z)
<1> DEFINE T == {p \in Seq(Y) : (\A i \in 1..Len(p) : p[i] \in X <=> p[i] \in Z)
                                   => Keep(p, X) = Keep(p, Z)}
<1>1. <<>> \in T
  BY KeepEmpty, EmptySeq
<1>2. ASSUME NEW p \in Seq(Y), NEW y \in Y, p \in T PROVE Append(p, y) \in T
  <2> SUFFICES ASSUME \A i \in 1..Len(Append(p, y)) : Append(p, y)[i] \in X <=> Append(p, y)[i] \in Z
               PROVE  Keep(Append(p, y), X) = Keep(Append(p, y), Z)
    BY AppendProperties
  <2>1. /\ Len(Append(p, y)) = Len(p) + 1 /\ Len(p) \in Nat
        /\ \A i \in 1..Len(p) : Append(p, y)[i] = p[i]
        /\ Append(p, y)[Len(p) + 1] = y
    BY AppendProperties, LenProperties
  <2>2. \A i \in 1..Len(p) : p[i] \in X <=> p[i] \in Z
    BY <2>1
  <2>3. y \in X <=> y \in Z
    BY <2>1
  <2>4. Keep(Append(p, y), X) = IF y \in X THEN Append(Keep(p, X), y) ELSE Keep(p, X)
    BY KeepAppend
  <2>5. Keep(Append(p, y), Z) = IF y \in Z THEN Append(Keep(p, Z), y) ELSE Keep(p, Z)
    BY KeepAppend
  <2> QED
    BY <1>2, <2>2, <2>3, <2>4, <2>5
<1> HIDE DEF T
<1>3. q \in T
  BY <1>1, <1>2, SeqSet
<1> QED
  BY <1>3 DEF T

\* Nothing is kept when X has none of the elements of q.
LEMMA KeepNone ==
  ASSUME NEW Y, NEW q \in Seq(Y), NEW X, \A i \in 1..Len(q) : q[i] \notin X
  PROVE  Keep(q, X) = <<>>
<1>1. Keep(q, X) = Keep(q, {})
  BY KeepSame
<1>2. Keep(q, {}) \in Seq({})
  BY KeepType
<1>3. ASSUME Keep(q, {}) # <<>> PROVE FALSE
  BY <1>2, <1>3, HeadTailProperties
<1> QED
  BY <1>1, <1>3

LEMMA ConcatAppend ==
  ASSUME NEW Y, NEW p \in Seq(Y), NEW q \in Seq(Y), NEW y \in Y
  PROVE  p \o Append(q, y) = Append(p \o q, y)
<1>1. <<y>> \in Seq(Y) /\ p \o q \in Seq(Y)
  BY ConcatProperties
<1>2. Append(q, y) = q \o <<y>> /\ Append(p \o q, y) = (p \o q) \o <<y>>
  BY <1>1, AppendIsConcat
<1> QED
  BY <1>1, <1>2, ConcatAssociative

LEMMA KeepConcat ==
  ASSUME NEW Y, NEW p \in Seq(Y), NEW q \in Seq(Y), NEW X
  PROVE  Keep(p \o q, X) = Keep(p, X) \o Keep(q, X)
<1> DEFINE T == {s \in Seq(Y) : Keep(p \o s, X) = Keep(p, X) \o Keep(s, X)}
<1>1. \A s \in Seq(Y) : Keep(s, X) \in Seq(Y \cap X)
  BY KeepType
<1>2. <<>> \in T
  BY <1>1, KeepEmpty, EmptySeq, ConcatEmptySeq
<1>3. ASSUME NEW s \in Seq(Y), NEW y \in Y, s \in T PROVE Append(s, y) \in T
  <2>1. p \o s \in Seq(Y) /\ Append(s, y) \in Seq(Y)
    BY ConcatProperties, AppendProperties
  <2>2. p \o Append(s, y) = Append(p \o s, y)
    BY ConcatAppend
  <2>3. Keep(Append(s, y), X) = IF y \in X THEN Append(Keep(s, X), y) ELSE Keep(s, X)
    BY KeepAppend
  <2>4. Keep(Append(p \o s, y), X) =
          IF y \in X THEN Append(Keep(p \o s, X), y) ELSE Keep(p \o s, X)
    BY <2>1, KeepAppend
  <2>5. CASE y \in X
    <3>1. Keep(p, X) \o Append(Keep(s, X), y) = Append(Keep(p, X) \o Keep(s, X), y)
      BY <1>1, <2>5, ConcatAppend
    <3> QED
      BY <1>3, <2>1, <2>2, <2>3, <2>4, <2>5, <3>1
  <2>6. CASE y \notin X
    BY <1>3, <2>1, <2>2, <2>3, <2>4, <2>6
  <2> QED
    BY <2>5, <2>6
<1> HIDE DEF T
<1>4. q \in T
  BY <1>2, <1>3, SeqSet
<1> QED
  BY <1>4 DEF T

LEMMA KeepOne ==
  ASSUME NEW Y, NEW y \in Y, NEW X
  PROVE  Keep(<<y>>, X) = IF y \in X THEN <<y>> ELSE <<>>
<1>1. <<>> \in Seq(Y) /\ Append(<<>>, y) = <<y>>
  BY EmptySeq
<1> DEFINE e == <<>>
<1> HIDE DEF e
<1>2. e \in Seq(Y) /\ Append(e, y) = <<y>> /\ Keep(e, X) = e
  BY <1>1, KeepEmpty DEF e
<1>3. Keep(Append(e, y), X) = IF y \in X THEN Append(Keep(e, X), y) ELSE Keep(e, X)
  BY <1>2, KeepAppend
<1> QED
  BY <1>2, <1>3 DEF e

-----------------------------------------------------------------------------
(***************************************************************************)
(* The event bus                                                           *)
(***************************************************************************)
\* The tasks that hold an event for subscriber s, and the events of tasks.
RunsOf(s) == {t \in Tasks : t.task = "run" /\ t.handler = s.name}
FanOutsFor(s) == {t \in Tasks : t.task = "fan-out" /\ t.event.type \in s.on}
EventsOf(q) == [i \in DOMAIN q |-> q[i].event]
Waiting(q, s) == EventsOf(Keep(q, RunsOf(s)) \o Keep(q, FanOutsFor(s)))

LEMMA SubscriberFacts ==
  /\ \A s \in Subscribers : s \in {AuditLogger, ToolMetrics, HitlMetrics, SessionMetrics}
  /\ AuditLogger.name = "audit" /\ ToolMetrics.name = "tools"
  /\ HitlMetrics.name = "hitl" /\ SessionMetrics.name = "sessions"
  /\ AuditLogger.on = {"tool.approval.required"}
  /\ ToolMetrics.on = {"tool.execution.requested"}
  /\ HitlMetrics.on = {"tool.approval.required"}
  /\ SessionMetrics.on = {"llm.request.started", "llm.request.completed", "llm.request.failed"}
  /\ AuditLogger.priority = 10 /\ HitlMetrics.priority = 5
<1>1. OfCategory("tool") = {"tool.execution.requested"}
  BY DEF OfCategory, CategoryOf, EventTypes
<1>2. OfCategory("hitl") = {"tool.approval.required"}
  BY DEF OfCategory, CategoryOf, EventTypes
<1> QED
  BY <1>1, <1>2 DEF Subscribers, AuditLogger, ToolMetrics, HitlMetrics, SessionMetrics

\* A subscriber is known by its name.
LEMMA NamesDiffer == \A s, t \in Subscribers : s.name = t.name => s = t
BY SubscriberFacts

LEMMA TaskFacts ==
  /\ \A e \in Events : FanOut(e) \in Tasks /\ FanOut(e).task = "fan-out" /\ FanOut(e).event = e
  /\ \A e \in Events, s \in Subscribers :
        Run(s, e) \in Tasks /\ Run(s, e).task = "run" /\ Run(s, e).event = e
        /\ Run(s, e).handler = s.name
  /\ \A t \in Tasks : t.event \in Events /\ t.task \in {"run", "fan-out"}
                      /\ (t.task = "run" => t.handler \in Handlers)
BY DEF FanOut, Run, Tasks, Handlers

LEMMA SameLength ==
  ASSUME NEW m \in Nat, NEW n \in Nat, 1..m = 1..n
  PROVE  m = n
<1>1. CASE m < n
  <2>1. n \in 1..n /\ n \notin 1..m
    BY <1>1
  <2> QED
    BY <2>1
<1>2. CASE n < m
  <2>1. m \in 1..m /\ m \notin 1..n
    BY <1>2
  <2> QED
    BY <2>1
<1> QED
  BY <1>1, <1>2

LEMMA FunctionIsSeq ==
  ASSUME NEW Y, NEW n \in Nat, NEW f \in [1..n -> Y]
  PROVE  f \in Seq(Y) /\ Len(f) = n
<1>1. f \in Seq(Y)
  BY SeqDef
<1>2. DOMAIN f = 1..Len(f) /\ DOMAIN f = 1..n /\ Len(f) \in Nat
  BY <1>1, LenProperties
<1> QED
  BY <1>1, <1>2, SameLength

LEMMA EventsType ==
  ASSUME NEW q \in Seq(Tasks)
  PROVE  /\ EventsOf(q) \in Seq(Events) /\ Len(EventsOf(q)) = Len(q)
         /\ \A i \in 1..Len(q) : EventsOf(q)[i] = q[i].event
<1>1. Len(q) \in Nat /\ DOMAIN q = 1..Len(q) /\ \A i \in 1..Len(q) : q[i] \in Tasks
  BY LenProperties, ElementOfSeq
<1>2. EventsOf(q) \in [1..Len(q) -> Events]
  BY <1>1, TaskFacts DEF EventsOf
<1>3. EventsOf(q) \in Seq(Events)
  BY <1>1, <1>2, SeqDef
<1>4. DOMAIN EventsOf(q) = 1..Len(EventsOf(q)) /\ Len(EventsOf(q)) \in Nat
  BY <1>3, LenProperties
<1>5. 1..Len(EventsOf(q)) = 1..Len(q)
  BY <1>2, <1>4
<1>6. Len(EventsOf(q)) = Len(q)
  BY <1>1, <1>4, <1>5, SameLength
<1> QED
  BY <1>1, <1>3, <1>6 DEF EventsOf

LEMMA EventsEmpty == EventsOf(<<>>) = <<>>
<1>1. <<>> \in Seq(Tasks) /\ Len(<<>>) = 0
  BY EmptySeq
<1>2. EventsOf(<<>>) \in Seq(Events) /\ Len(EventsOf(<<>>)) = 0
  BY <1>1, EventsType
<1> QED
  BY <1>2, EmptySeq

LEMMA EventsConcat ==
  ASSUME NEW p \in Seq(Tasks), NEW q \in Seq(Tasks)
  PROVE  EventsOf(p \o q) = EventsOf(p) \o EventsOf(q)
<1>1. /\ p \o q \in Seq(Tasks) /\ Len(p \o q) = Len(p) + Len(q)
      /\ \A i \in 1..(Len(p) + Len(q)) : (p \o q)[i] = IF i <= Len(p) THEN p[i] ELSE q[i - Len(p)]
  BY ConcatProperties
<1>2. /\ EventsOf(p) \in Seq(Events) /\ Len(EventsOf(p)) = Len(p)
      /\ \A i \in 1..Len(p) : EventsOf(p)[i] = p[i].event
  BY EventsType
<1>3. /\ EventsOf(q) \in Seq(Events) /\ Len(EventsOf(q)) = Len(q)
      /\ \A i \in 1..Len(q) : EventsOf(q)[i] = q[i].event
  BY EventsType
<1>4. /\ EventsOf(p \o q) \in Seq(Events) /\ Len(EventsOf(p \o q)) = Len(p) + Len(q)
      /\ \A i \in 1..(Len(p) + Len(q)) : EventsOf(p \o q)[i] = (p \o q)[i].event
  BY <1>1, EventsType
<1>5. /\ EventsOf(p) \o EventsOf(q) \in Seq(Events)
      /\ Len(EventsOf(p) \o EventsOf(q)) = Len(p) + Len(q)
      /\ \A i \in 1..(Len(p) + Len(q)) : (EventsOf(p) \o EventsOf(q))[i] =
            IF i <= Len(p) THEN EventsOf(p)[i] ELSE EventsOf(q)[i - Len(p)]
  <2> DEFINE a == EventsOf(p)
             b == EventsOf(q)
  <2>1. a \in Seq(Events) /\ b \in Seq(Events) /\ Len(a) = Len(p) /\ Len(b) = Len(q)
    BY <1>2, <1>3
  <2> HIDE DEF a, b
  <2>2. /\ a \o b \in Seq(Events) /\ Len(a \o b) = Len(a) + Len(b)
        /\ \A i \in 1..(Len(a) + Len(b)) :
              (a \o b)[i] = IF i <= Len(a) THEN a[i] ELSE b[i - Len(a)]
    BY <2>1, ConcatProperties
  <2> QED
    BY <2>1, <2>2 DEF a, b
<1>6. Len(p) \in Nat /\ Len(q) \in Nat
  BY LenProperties
<1>7. ASSUME NEW i \in 1..(Len(p) + Len(q))
      PROVE  EventsOf(p \o q)[i] = (EventsOf(p) \o EventsOf(q))[i]
  <2>1. CASE i <= Len(p)
    <3>1. i \in 1..Len(p)
      BY <1>6, <2>1
    <3> QED
      BY <1>1, <1>2, <1>4, <1>5, <2>1, <3>1
  <2>2. CASE ~(i <= Len(p))
    <3>1. i - Len(p) \in 1..Len(q)
      BY <1>6, <2>2
    <3> QED
      BY <1>1, <1>3, <1>4, <1>5, <2>2, <3>1
  <2> QED
    BY <2>1, <2>2
<1> QED
  BY <1>4, <1>5, <1>7, SeqEqual

LEMMA EventsOne == ASSUME NEW t \in Tasks PROVE EventsOf(<<t>>) = <<t.event>>
<1> DEFINE o == <<t>>
           v == <<t.event>>
<1>1. o \in Seq(Tasks) /\ Len(o) = 1 /\ o[1] = t
  OBVIOUS
<1>2. t.event \in Events
  BY TaskFacts
<1>3. v \in Seq(Events) /\ Len(v) = 1 /\ v[1] = t.event
  BY <1>2
<1> HIDE DEF o, v
<1>4. EventsOf(o) \in Seq(Events) /\ Len(EventsOf(o)) = 1 /\ EventsOf(o)[1] = t.event
  BY <1>1, EventsType
<1>5. EventsOf(o) = v
  BY <1>3, <1>4, SeqEqual
<1> QED
  BY <1>5 DEF o, v

\* The mailbox, with sets of tasks that do not depend on the queue.
LEMMA MailboxIs ==
  ASSUME NEW s \in Subscribers, ready \in Seq(Tasks)
  PROVE  MailboxOf(s) = Waiting(ready, s)
<1> DEFINE X == {t \in Range(ready) : t.task = "run" /\ t.handler = s.name}
           Z == {t \in Range(ready) : t.task = "fan-out" /\ t.event.type \in s.on}
<1>1. \A i \in 1..Len(ready) : ready[i] \in Tasks /\ ready[i] \in Range(ready)
  BY ElementOfSeq, LenProperties DEF Range
<1>2. \A i \in 1..Len(ready) : ready[i] \in X <=> ready[i] \in RunsOf(s)
  BY <1>1 DEF RunsOf
<1>3. \A i \in 1..Len(ready) : ready[i] \in Z <=> ready[i] \in FanOutsFor(s)
  BY <1>1 DEF FanOutsFor
<1>4. MailboxOf(s) = EventsOf(Keep(ready, X) \o Keep(ready, Z))
  BY DEF MailboxOf, EventsOf
<1> HIDE DEF X, Z
<1>5. Keep(ready, X) = Keep(ready, RunsOf(s))
  BY <1>2, KeepSame
<1>6. Keep(ready, Z) = Keep(ready, FanOutsFor(s))
  BY <1>3, KeepSame
<1> QED
  BY <1>4, <1>5, <1>6 DEF Waiting

LEMMA WaitingType ==
  ASSUME NEW s, NEW q \in Seq(Tasks)
  PROVE  /\ Waiting(q, s) \in Seq(Events)
         /\ Keep(q, RunsOf(s)) \in Seq(Tasks) /\ Keep(q, FanOutsFor(s)) \in Seq(Tasks)
         /\ Keep(q, RunsOf(s)) \o Keep(q, FanOutsFor(s)) \in Seq(Tasks)
<1> DEFINE R == Keep(q, RunsOf(s))
           F == Keep(q, FanOutsFor(s))
<1>1. R \in Seq(Tasks \cap RunsOf(s)) /\ F \in Seq(Tasks \cap FanOutsFor(s))
  BY KeepType
<1> HIDE DEF R, F
<1>2. R \in Seq(Tasks) /\ F \in Seq(Tasks)
  BY <1>1, SeqMonotonic
<1>3. R \o F \in Seq(Tasks)
  BY <1>2, ConcatProperties
<1>4. EventsOf(R \o F) \in Seq(Events)
  BY <1>3, EventsType
<1> QED
  BY <1>2, <1>3, <1>4 DEF Waiting, R, F

LEMMA WaitingEmpty == \A s : Waiting(<<>>, s) = <<>>
<1> SUFFICES ASSUME NEW s PROVE Waiting(<<>>, s) = <<>>
  OBVIOUS
<1>1. Keep(<<>>, RunsOf(s)) = <<>> /\ Keep(<<>>, FanOutsFor(s)) = <<>>
  BY KeepEmpty
<1>2. <<>> \o <<>> = <<>>
  <2>1. <<>> \in Seq({})
    BY EmptySeq
  <2> QED
    BY <2>1, ConcatEmptySeq
<1> QED
  BY <1>1, <1>2, EventsEmpty DEF Waiting

\* A fan-out at the end of the queue is the last for its subscribers.
LEMMA WaitingPublished ==
  ASSUME NEW s \in Subscribers, NEW q \in Seq(Tasks), NEW e \in Events
  PROVE  Waiting(Append(q, FanOut(e)), s) =
           IF e.type \in s.on THEN Append(Waiting(q, s), e) ELSE Waiting(q, s)
<1> DEFINE f == FanOut(e)
           R == Keep(q, RunsOf(s))
           F == Keep(q, FanOutsFor(s))
<1>1. f \in Tasks /\ f.task = "fan-out" /\ f.event = e
  BY TaskFacts
<1>2. f \notin RunsOf(s) /\ (f \in FanOutsFor(s) <=> e.type \in s.on)
  BY <1>1 DEF RunsOf, FanOutsFor
<1> HIDE DEF f
<1>3. Keep(Append(q, f), RunsOf(s)) = R
  BY <1>1, <1>2, KeepAppend
<1>4. Keep(Append(q, f), FanOutsFor(s)) = IF e.type \in s.on THEN Append(F, f) ELSE F
  BY <1>1, <1>2, KeepAppend
<1>5. R \in Seq(Tasks) /\ F \in Seq(Tasks) /\ R \o F \in Seq(Tasks)
  BY WaitingType
<1> HIDE DEF R, F
<1>6. CASE e.type \in s.on
  <2> DEFINE p == R \o F
  <2>1. R \o Append(F, f) = Append(p, f)
    BY <1>1, <1>5, ConcatAppend
  <2>2. Append(p, f) = p \o <<f>> /\ <<f>> \in Seq(Tasks)
    BY <1>1, <1>5, AppendIsConcat
  <2> HIDE DEF p
  <2>3. EventsOf(p \o <<f>>) = EventsOf(p) \o EventsOf(<<f>>)
    BY <1>5, <2>2, EventsConcat DEF p
  <2>4. EventsOf(<<f>>) = <<e>>
    BY <1>1, EventsOne
  <2>5. EventsOf(p) \in Seq(Events)
    BY <1>5, EventsType DEF p
  <2>6. EventsOf(p) \o <<e>> = Append(EventsOf(p), e)
    BY <2>5, AppendIsConcat
  <2>7. Waiting(Append(q, f), s) = EventsOf(p \o <<f>>)
    BY <1>3, <1>4, <1>6, <2>1, <2>2 DEF Waiting
  <2>8. Waiting(q, s) = EventsOf(p)
    BY DEF Waiting, p, R, F
  <2> QED
    BY <1>6, <2>3, <2>4, <2>6, <2>7, <2>8 DEF f
<1>7. CASE e.type \notin s.on
  BY <1>3, <1>4, <1>7 DEF Waiting, R, F, f
<1> QED
  BY <1>6, <1>7

\* A queue and its first task.
LEMMA HeadAndTail ==
  ASSUME NEW Y, NEW q \in Seq(Y), q # <<>>
  PROVE  /\ Head(q) \in Y /\ <<Head(q)>> \in Seq(Y) /\ Tail(q) \in Seq(Y)
         /\ q = <<Head(q)>> \o Tail(q)
<1>1. Head(q) \in Y /\ Tail(q) \in Seq(Y) /\ Len(q) \in Nat /\ Len(q) # 0
  BY HeadTailProperties, EmptySeq
<1> DEFINE o == <<Head(q)>>
           a == SubSeq(q, 1, 1)
<1>2. o \in Seq(Y) /\ Len(o) = 1 /\ o[1] = Head(q)
  BY <1>1
<1> HIDE DEF o
<1>3. 1 \in 1..(Len(q) + 1) /\ 1 \in (1 - 1)..Len(q) /\ Len(q) \in 1..Len(q)
  BY <1>1
<1>4. SubSeq(q, 1, 1) \o SubSeq(q, 1 + 1, Len(q)) = SubSeq(q, 1, Len(q))
  BY <1>3, ConcatAdjacentSubSeq
<1>5. a = o
  <2>1. \A i \in 1..1 : q[i] \in Y
    BY <1>1, ElementOfSeq
  <2>2. a \in Seq(Y) /\ Len(a) = 1 /\ \A i \in 1..1 : a[i] = q[1 + i - 1]
    BY <2>1, SubSeqProperties
  <2>3. q[1] = Head(q)
    OBVIOUS
  <2> HIDE DEF a
  <2>4. \A i \in 1..1 : a[i] = o[i]
    BY <1>2, <2>2, <2>3
  <2> QED
    BY <1>2, <2>2, <2>4, SeqEqual
<1>6. Tail(q) = SubSeq(q, 1 + 1, Len(q))
  BY TailIsSubSeq
<1>7. q = o \o Tail(q)
  BY <1>4, <1>5, <1>6, SubSeqFull
<1> QED
  BY <1>1, <1>2, <1>7 DEF o

\* The first of a queue, if it is kept.
LEMMA KeepFirst ==
  ASSUME NEW Y, NEW q \in Seq(Y), q # <<>>, NEW X
  PROVE  Keep(q, X) = IF Head(q) \in X THEN <<Head(q)>> \o Keep(Tail(q), X) ELSE Keep(Tail(q), X)
<1> DEFINE o == <<Head(q)>>
           t == Tail(q)
<1>1. Head(q) \in Y /\ o \in Seq(Y) /\ t \in Seq(Y) /\ q = o \o t
  BY HeadAndTail
<1>2. Keep(o, X) = IF Head(q) \in X THEN o ELSE <<>>
  BY <1>1, KeepOne
<1> HIDE DEF o, t
<1>3. Keep(o \o t, X) = Keep(o, X) \o Keep(t, X)
  BY <1>1, KeepConcat
<1>4. Keep(t, X) \in Seq(Y \cap X)
  BY <1>1, KeepType
<1>5. <<>> \o Keep(t, X) = Keep(t, X)
  BY <1>4, ConcatEmptySeq
<1> QED
  BY <1>1, <1>2, <1>3, <1>5 DEF o, t

\* A handler's task at the head of the queue is the first of its mailbox, and in
\* no other.
LEMMA WaitingTaken ==
  ASSUME NEW s \in Subscribers, NEW q \in Seq(Tasks), q # <<>>, Head(q).task = "run"
  PROVE  IF Head(q).handler = s.name
         THEN /\ Waiting(q, s) # <<>> /\ Head(Waiting(q, s)) = Head(q).event
              /\ Waiting(Tail(q), s) = Tail(Waiting(q, s))
         ELSE Waiting(Tail(q), s) = Waiting(q, s)
<1> DEFINE t == Head(q)
           p == Tail(q)
           R == Keep(p, RunsOf(s))
           F == Keep(p, FanOutsFor(s))
<1>1. t \in Tasks /\ p \in Seq(Tasks)
  BY HeadAndTail
<1>2. t \notin FanOutsFor(s) /\ (t \in RunsOf(s) <=> t.handler = s.name)
  BY <1>1 DEF RunsOf, FanOutsFor
<1>3. Keep(q, FanOutsFor(s)) = F
  BY <1>2, KeepFirst
<1>4. Keep(q, RunsOf(s)) = IF t.handler = s.name THEN <<t>> \o R ELSE R
  BY <1>2, KeepFirst
<1>5. R \in Seq(Tasks) /\ F \in Seq(Tasks) /\ R \o F \in Seq(Tasks)
  BY <1>1, WaitingType
<1>6. Waiting(p, s) = EventsOf(R \o F)
  BY DEF Waiting
<1>7. Waiting(q, s) = EventsOf(Keep(q, RunsOf(s)) \o F)
  BY <1>3 DEF Waiting
<1> HIDE DEF t, p, R, F
<1>8. CASE t.handler = s.name
  <2> DEFINE o == <<t>>
             M == EventsOf(R \o F)
             v == t.event
             b == <<t.event>>
  <2>1. o \in Seq(Tasks) /\ EventsOf(o) = b
    BY <1>1, EventsOne
  <2>2. v \in Events /\ b \in Seq(Events) /\ Len(b) = 1 /\ b[1] = v
    BY <1>1, TaskFacts
  <2>3. M \in Seq(Events)
    BY <1>5, EventsType
  <2> HIDE DEF o, v, b
  <2>4. (o \o R) \o F = o \o (R \o F)
    BY <1>5, <2>1, ConcatAssociative
  <2>5. EventsOf(o \o (R \o F)) = EventsOf(o) \o EventsOf(R \o F)
    BY <1>5, <2>1, EventsConcat
  <2>6. Waiting(q, s) = b \o M
    BY <1>4, <1>7, <1>8, <2>1, <2>4, <2>5 DEF o
  <2> HIDE DEF M
  <2>7. /\ b \o M \in Seq(Events) /\ Len(b \o M) = 1 + Len(M) /\ Len(M) \in Nat
        /\ \A i \in 1..(1 + Len(M)) : (b \o M)[i] = IF i <= 1 THEN b[i] ELSE M[i - 1]
    <3>1. /\ b \o M \in Seq(Events) /\ Len(b \o M) = Len(b) + Len(M)
          /\ \A i \in 1..(Len(b) + Len(M)) :
                (b \o M)[i] = IF i <= Len(b) THEN b[i] ELSE M[i - Len(b)]
      BY <2>2, <2>3, ConcatProperties
    <3>2. Len(M) \in Nat
      BY <2>3, LenProperties
    <3> QED
      BY <2>2, <3>1, <3>2
  <2>8. b \o M # <<>>
    BY <2>7, EmptySeq
  <2>9. Head(b \o M) = v
    <3>1. 1 \in 1..(1 + Len(M)) /\ (b \o M)[1] = b[1]
      BY <2>7
    <3> QED
      BY <2>2, <2>7, <2>8, <3>1
  <2>10. Tail(b \o M) = M
    <3>1. /\ Tail(b \o M) \in Seq(Events) /\ Len(Tail(b \o M)) = Len(M)
          /\ \A i \in 1..Len(Tail(b \o M)) : Tail(b \o M)[i] = (b \o M)[i + 1]
      BY <2>7, <2>8, HeadTailProperties
    <3>2. \A i \in 1..Len(M) : i + 1 \in 1..(1 + Len(M)) /\ ~(i + 1 <= 1) /\ (i + 1) - 1 = i
      BY <2>7
    <3>3. \A i \in 1..Len(M) : (b \o M)[i + 1] = M[i]
      BY <2>7, <3>2
    <3> DEFINE c == Tail(b \o M)
    <3>4. c \in Seq(Events) /\ Len(c) = Len(M) /\ \A i \in 1..Len(c) : c[i] = M[i]
      BY <3>1, <3>3
    <3> HIDE DEF c
    <3>5. c = M
      BY <2>3, <3>4, SeqEqual
    <3> QED
      BY <3>5 DEF c
  <2>11. Waiting(p, s) = M
    BY <1>6 DEF M
  <2> QED
    BY <1>8, <2>6, <2>8, <2>9, <2>10, <2>11 DEF v, t, p
<1>9. CASE t.handler # s.name
  BY <1>4, <1>6, <1>7, <1>9 DEF t, p
<1> QED
  BY <1>8, <1>9

\* _get_handlers_for_event: who hears of an event, in the order of the priorities.
Ordered(q) == \A i, j \in DOMAIN q : i < j => q[i].priority > q[j].priority
Listening(type) == {s \in Subscribers : type \in s.on}

LEMMA HandlersChosen ==
  ASSUME NEW type \in EventTypes, NEW n \in Nat, Cardinality(Listening(type)) = n,
         \E q \in [1..n -> Listening(type)] : Ordered(q)
  PROVE  /\ HandlersForType[type] \in [1..n -> Listening(type)]
         /\ Ordered(HandlersForType[type])
<1>1. HandlersForType[type] =
        CHOOSE q \in [1..Cardinality(Listening(type)) -> Listening(type)] : Ordered(q)
  BY DEF HandlersForType, Listening, Ordered
<1> QED
  BY <1>1

LEMMA OneHandler ==
  ASSUME NEW type \in EventTypes, NEW s \in Subscribers, Listening(type) = {s}
  PROVE  HandlersForType[type] \in [1..1 -> Subscribers] /\ HandlersForType[type][1] = s
<1>1. Cardinality(Listening(type)) = 1
  BY FS_Singleton
<1> DEFINE q == [i \in 1..1 |-> s]
<1>2. q \in [1..1 -> Listening(type)] /\ Ordered(q)
  BY DEF Ordered
<1> HIDE DEF q
<1>3. HandlersForType[type] \in [1..1 -> Listening(type)]
  BY <1>1, <1>2, HandlersChosen
<1> QED
  BY <1>3

LEMMA TwoHandlers ==
  LET h == HandlersForType["tool.approval.required"]
  IN  h \in [1..2 -> Subscribers] /\ h[1] = AuditLogger /\ h[2] = HitlMetrics
<1> DEFINE type == "tool.approval.required"
           q == [i \in 1..2 |-> IF i = 1 THEN AuditLogger ELSE HitlMetrics]
           h == HandlersForType[type]
<1>1. type \in EventTypes
  BY DEF EventTypes
<1>2. Listening(type) = {AuditLogger, HitlMetrics} /\ AuditLogger # HitlMetrics
  BY SubscriberFacts DEF Listening, Subscribers
<1>3. Cardinality(Listening(type)) = 2
  <2>1. IsFiniteSet({AuditLogger}) /\ Cardinality({AuditLogger}) = 1
    BY FS_Singleton
  <2>2. Cardinality({AuditLogger} \cup {HitlMetrics}) = 2
    BY <1>2, <2>1, FS_AddElement
  <2>3. {AuditLogger} \cup {HitlMetrics} = {AuditLogger, HitlMetrics}
    OBVIOUS
  <2> QED
    BY <1>2, <2>2, <2>3
<1>4. q \in [1..2 -> Listening(type)] /\ Ordered(q)
  <2>1. q \in [1..2 -> {AuditLogger, HitlMetrics}] /\ q[1] = AuditLogger /\ q[2] = HitlMetrics
    OBVIOUS
  <2> HIDE DEF q
  <2> QED
    BY <1>2, <2>1, SubscriberFacts DEF Ordered
<1> HIDE DEF q, type, h
<1>5. h \in [1..2 -> Listening(type)] /\ Ordered(h)
  BY <1>1, <1>3, <1>4, HandlersChosen DEF h
<1>6. h[1] \in {AuditLogger, HitlMetrics} /\ h[2] \in {AuditLogger, HitlMetrics}
      /\ h[1].priority > h[2].priority
  BY <1>2, <1>5 DEF Ordered
<1>7. h[1] = AuditLogger /\ h[2] = HitlMetrics
  BY <1>6, SubscriberFacts
<1>8. h \in [1..2 -> Subscribers]
  BY <1>5 DEF Listening
<1> QED
  BY <1>7, <1>8 DEF h, type

\* The tasks a fan-out starts: one for each subscriber of the event's type.
LEMMA Started ==
  ASSUME NEW e \in Events, NEW q \in Seq(Tasks)
  PROVE  \/ \E s \in Subscribers : Listening(e.type) = {s} /\ StartHandlers(e, q) = Append(q, Run(s, e))
         \/ /\ Listening(e.type) = {AuditLogger, HitlMetrics}
            /\ StartHandlers(e, q) = Append(Append(q, Run(AuditLogger, e)), Run(HitlMetrics, e))
<1> DEFINE h == HandlersFor(e)
           f == [i \in DOMAIN h |-> Run(h[i], e)]
<1>1. e.type \in EventTypes /\ h = HandlersForType[e.type]
  BY DEF Events, HandlersFor
<1>2. Len(q) \in Nat
  BY LenProperties
<1>3. ASSUME NEW s \in Subscribers, Listening(e.type) = {s}
      PROVE  StartHandlers(e, q) = Append(q, Run(s, e))
  <2>1. h \in [1..1 -> Subscribers] /\ h[1] = s
    BY <1>1, <1>3, OneHandler
  <2> DEFINE t == Run(s, e)
             o == <<t>>
  <2>2. f \in [1..1 -> Tasks] /\ f[1] = t
    BY <2>1, TaskFacts
  <2>3. f \in Seq(Tasks)
    <3>1. 1 \in Nat
      OBVIOUS
    <3> HIDE DEF f
    <3> QED
      BY <2>2, <3>1, FunctionIsSeq
  <2>4. t \in Tasks /\ o \in Seq(Tasks) /\ Len(o) = 1 /\ o[1] = t
    BY TaskFacts
  <2>5. StartHandlers(e, q) = q \o f
    BY DEF StartHandlers
  <2> HIDE DEF f, h, t, o
  <2>6. Len(f) = 1
    <3>1. DOMAIN f = 1..Len(f) /\ DOMAIN f = 1..1 /\ Len(f) \in Nat
      BY <2>2, <2>3, LenProperties
    <3> QED
      BY <3>1, SameLength
  <2>7. f = o
    <3>1. \A i \in 1..Len(f) : f[i] = o[i]
      BY <2>2, <2>4, <2>6
    <3> QED
      BY <2>3, <2>4, <2>6, <3>1, SeqEqual
  <2>8. Append(q, t) = q \o o
    BY <2>4, AppendIsConcat DEF o
  <2> QED
    BY <2>5, <2>7, <2>8 DEF t
<1>4. CASE e.type = "tool.approval.required"
  <2>1. h \in [1..2 -> Subscribers] /\ h[1] = AuditLogger /\ h[2] = HitlMetrics
    BY <1>1, <1>4, TwoHandlers
  <2>2. Listening(e.type) = {AuditLogger, HitlMetrics}
    BY <1>4, SubscriberFacts DEF Listening, Subscribers
  <2> DEFINE t == Run(AuditLogger, e)
             u == Run(HitlMetrics, e)
             p == Append(q, t)
             w == Append(p, u)
  <2>3. t \in Tasks /\ u \in Tasks
    BY TaskFacts DEF Subscribers
  <2>4. f \in [1..2 -> Tasks] /\ f[1] = t /\ f[2] = u
    BY <2>1, <2>3, TaskFacts
  <2>5. f \in Seq(Tasks)
    <3>1. 2 \in Nat
      OBVIOUS
    <3> HIDE DEF f
    <3> QED
      BY <2>4, <3>1, FunctionIsSeq
  <2>6. StartHandlers(e, q) = q \o f
    BY DEF StartHandlers
  <2> HIDE DEF f, h, t, u
  <2>7. Len(f) = 2
    <3>1. DOMAIN f = 1..Len(f) /\ DOMAIN f = 1..2 /\ Len(f) \in Nat
      BY <2>4, <2>5, LenProperties
    <3> QED
      BY <3>1, SameLength
  <2>8. /\ p \in Seq(Tasks) /\ Len(p) = Len(q) + 1
        /\ \A i \in 1..Len(q) : p[i] = q[i]
        /\ p[Len(q) + 1] = t
    BY <2>3, AppendProperties
  <2> HIDE DEF p
  <2>9. /\ w \in Seq(Tasks) /\ Len(w) = Len(p) + 1
        /\ \A i \in 1..Len(p) : w[i] = p[i]
        /\ w[Len(p) + 1] = u
    BY <2>3, <2>8, AppendProperties
  <2> HIDE DEF w
  <2>10. /\ q \o f \in Seq(Tasks) /\ Len(q \o f) = Len(q) + 2
         /\ \A i \in 1..(Len(q) + 2) : (q \o f)[i] = IF i <= Len(q) THEN q[i] ELSE f[i - Len(q)]
    <3>1. /\ q \o f \in Seq(Tasks) /\ Len(q \o f) = Len(q) + Len(f)
          /\ \A i \in 1..(Len(q) + Len(f)) : (q \o f)[i] = IF i <= Len(q) THEN q[i] ELSE f[i - Len(q)]
      BY <2>5, ConcatProperties
    <3> QED
      BY <2>7, <3>1
  <2>11. ASSUME NEW i \in 1..(Len(q) + 2) PROVE (q \o f)[i] = w[i]
    <3>1. CASE i <= Len(q)
      <4>1. i \in 1..Len(q) /\ i \in 1..Len(p)
        BY <1>2, <2>8, <3>1
      <4> QED
        BY <2>8, <2>9, <2>10, <3>1, <4>1
    <3>2. CASE i = Len(q) + 1
      <4>1. ~(i <= Len(q)) /\ i - Len(q) = 1 /\ i \in 1..Len(p)
        BY <1>2, <2>8, <3>2
      <4>2. w[i] = t
        BY <2>8, <2>9, <3>2, <4>1
      <4> QED
        BY <2>4, <2>10, <4>1, <4>2
    <3>3. CASE i = Len(q) + 2
      <4>1. ~(i <= Len(q)) /\ i - Len(q) = 2 /\ i = Len(p) + 1
        BY <1>2, <2>8, <3>3
      <4>2. w[i] = u
        BY <2>9, <4>1
      <4> QED
        BY <2>4, <2>10, <4>1, <4>2
    <3>4. i <= Len(q) \/ i = Len(q) + 1 \/ i = Len(q) + 2
      BY <1>2
    <3> QED
      BY <3>1, <3>2, <3>3, <3>4
  <2>12. q \o f = w
    <3>1. Len(w) = Len(q) + 2
      BY <1>2, <2>8, <2>9
    <3> DEFINE c == q \o f
    <3>2. c \in Seq(Tasks) /\ Len(c) = Len(w) /\ \A i \in 1..Len(c) : c[i] = w[i]
      BY <2>10, <2>11, <3>1
    <3> HIDE DEF c
    <3>3. c = w
      BY <2>9, <3>2, SeqEqual
    <3> QED
      BY <3>3 DEF c
  <2> QED
    BY <2>2, <2>6, <2>12 DEF w, p, t, u
<1>5. CASE e.type = "tool.execution.requested"
  <2>1. Listening(e.type) = {ToolMetrics} /\ ToolMetrics \in Subscribers
    BY <1>5, SubscriberFacts DEF Listening, Subscribers
  <2> QED
    BY <1>3, <2>1
<1>6. CASE e.type \in {"llm.request.started", "llm.request.completed", "llm.request.failed"}
  <2>1. Listening(e.type) = {SessionMetrics} /\ SessionMetrics \in Subscribers
    BY <1>6, SubscriberFacts DEF Listening, Subscribers
  <2> QED
    BY <1>3, <2>1
<1> QED
  BY <1>1, <1>4, <1>5, <1>6 DEF EventTypes

\* Starting a handler's task adds its event behind the tasks that wait, in front of
\* the fan-outs.
LEMMA StartedOne ==
  ASSUME NEW s \in Subscribers, NEW x \in Subscribers, NEW q \in Seq(Tasks), NEW e \in Events
  PROVE  /\ Append(q, Run(x, e)) \in Seq(Tasks)
         /\ Keep(Append(q, Run(x, e)), FanOutsFor(s)) = Keep(q, FanOutsFor(s))
         /\ Keep(Append(q, Run(x, e)), RunsOf(s)) =
              IF x = s THEN Append(Keep(q, RunsOf(s)), Run(x, e)) ELSE Keep(q, RunsOf(s))
<1> DEFINE t == Run(x, e)
<1>1. t \in Tasks /\ t \notin FanOutsFor(s) /\ (t \in RunsOf(s) <=> x = s)
  BY TaskFacts, NamesDiffer DEF RunsOf, FanOutsFor
<1> HIDE DEF t
<1>2. Append(q, t) \in Seq(Tasks)
  BY <1>1, AppendProperties
<1>3. Keep(Append(q, t), FanOutsFor(s)) = Keep(q, FanOutsFor(s))
  BY <1>1, KeepAppend
<1>4. Keep(Append(q, t), RunsOf(s)) =
        IF x = s THEN Append(Keep(q, RunsOf(s)), t) ELSE Keep(q, RunsOf(s))
  BY <1>1, KeepAppend
<1> QED
  BY <1>2, <1>3, <1>4 DEF t

\* So a fan-out changes no mailbox.
LEMMA WaitingStarted ==
  ASSUME NEW s \in Subscribers, NEW q \in Seq(Tasks), q # <<>>, Head(q).task = "fan-out"
  PROVE  /\ StartHandlers(Head(q).event, Tail(q)) \in Seq(Tasks)
         /\ Waiting(StartHandlers(Head(q).event, Tail(q)), s) = Waiting(q, s)
<1> DEFINE f == Head(q)
           e == f.event
           p == Tail(q)
           R == Keep(p, RunsOf(s))
           F == Keep(p, FanOutsFor(s))
           new == StartHandlers(e, p)
           t == Run(s, e)
<1>1. f \in Tasks /\ p \in Seq(Tasks) /\ e \in Events
  BY HeadAndTail, TaskFacts
<1>2. f \notin RunsOf(s) /\ (f \in FanOutsFor(s) <=> e.type \in s.on)
  BY <1>1 DEF RunsOf, FanOutsFor
<1>3. Keep(q, RunsOf(s)) = R
  BY <1>2, KeepFirst
<1>4. Keep(q, FanOutsFor(s)) = IF e.type \in s.on THEN <<f>> \o F ELSE F
  BY <1>2, KeepFirst
<1>5. R \in Seq(Tasks) /\ F \in Seq(Tasks)
  BY <1>1, WaitingType
<1>6. Waiting(q, s) = EventsOf(R \o (IF e.type \in s.on THEN <<f>> \o F ELSE F))
  BY <1>3, <1>4 DEF Waiting
<1> HIDE DEF f, p, e
<1>7. /\ new \in Seq(Tasks)
      /\ Keep(new, FanOutsFor(s)) = F
      /\ Keep(new, RunsOf(s)) = IF e.type \in s.on THEN Append(R, t) ELSE R
  <2>1. ASSUME NEW x \in Subscribers, Listening(e.type) = {x}, new = Append(p, Run(x, e))
        PROVE  /\ new \in Seq(Tasks)
               /\ Keep(new, FanOutsFor(s)) = F
               /\ Keep(new, RunsOf(s)) = IF e.type \in s.on THEN Append(R, t) ELSE R
    <3>1. e.type \in s.on <=> x = s
      BY <2>1 DEF Listening
    <3> QED
      BY <1>1, <2>1, <3>1, StartedOne
  <2>2. CASE /\ Listening(e.type) = {AuditLogger, HitlMetrics}
             /\ new = Append(Append(p, Run(AuditLogger, e)), Run(HitlMetrics, e))
    <3> DEFINE m == Append(p, Run(AuditLogger, e))
    <3>1. /\ e.type \in s.on <=> s \in {AuditLogger, HitlMetrics}
          /\ AuditLogger \in Subscribers /\ HitlMetrics \in Subscribers
          /\ AuditLogger # HitlMetrics
      BY <2>2, SubscriberFacts DEF Listening, Subscribers
    <3>2. /\ m \in Seq(Tasks)
          /\ Keep(m, FanOutsFor(s)) = F
          /\ Keep(m, RunsOf(s)) = IF AuditLogger = s THEN Append(R, Run(AuditLogger, e)) ELSE R
      BY <1>1, <3>1, StartedOne
    <3> HIDE DEF m
    <3>3. /\ Append(m, Run(HitlMetrics, e)) \in Seq(Tasks)
          /\ Keep(Append(m, Run(HitlMetrics, e)), FanOutsFor(s)) = Keep(m, FanOutsFor(s))
          /\ Keep(Append(m, Run(HitlMetrics, e)), RunsOf(s)) =
               IF HitlMetrics = s THEN Append(Keep(m, RunsOf(s)), Run(HitlMetrics, e))
               ELSE Keep(m, RunsOf(s))
      BY <1>1, <3>1, <3>2, StartedOne
    <3>4. new = Append(m, Run(HitlMetrics, e))
      BY <2>2 DEF m
    <3> HIDE DEF new
    <3> QED
      BY <3>1, <3>2, <3>3, <3>4
  <2> QED
    BY <1>1, <2>1, <2>2, Started
<1> HIDE DEF new, R, F, t
<1>8. CASE e.type \in s.on
  <2> DEFINE o == <<f>>
             n == <<t>>
             b == <<e>>
             A == EventsOf(R)
             B == EventsOf(F)
  <2>1. t \in Tasks /\ t.event = e /\ f.event = e
    BY <1>1, TaskFacts DEF t, e
  <2>2. o \in Seq(Tasks) /\ n \in Seq(Tasks) /\ EventsOf(o) = b /\ EventsOf(n) = b
    BY <1>1, <2>1, EventsOne
  <2>3. A \in Seq(Events) /\ B \in Seq(Events) /\ b \in Seq(Events)
    BY <1>1, <1>5, EventsType
  <2>4. Append(R, t) = R \o n
    BY <1>5, <2>1, AppendIsConcat
  <2> HIDE DEF o, n, b
  <2>5. o \o F \in Seq(Tasks) /\ R \o n \in Seq(Tasks)
    BY <1>5, <2>2, ConcatProperties
  <2>6. EventsOf(R \o (o \o F)) = A \o (b \o B)
    <3>1. EventsOf(o \o F) = EventsOf(o) \o B
      BY <1>5, <2>2, EventsConcat
    <3> DEFINE c == o \o F
    <3> HIDE DEF c
    <3>2. EventsOf(R \o c) = A \o EventsOf(c)
      BY <1>5, <2>5, EventsConcat DEF c
    <3> QED
      BY <2>2, <3>1, <3>2 DEF c
  <2>7. EventsOf((R \o n) \o F) = (A \o b) \o B
    <3>1. EventsOf(R \o n) = A \o EventsOf(n)
      BY <1>5, <2>2, EventsConcat
    <3> DEFINE c == R \o n
    <3> HIDE DEF c
    <3>2. EventsOf(c \o F) = EventsOf(c) \o B
      BY <1>5, <2>5, EventsConcat DEF c
    <3> QED
      BY <2>2, <3>1, <3>2 DEF c
  <2> HIDE DEF A, B
  <2>8. (A \o b) \o B = A \o (b \o B)
    BY <2>3, ConcatAssociative
  <2>9. Waiting(new, s) = EventsOf((R \o n) \o F)
    BY <1>7, <1>8, <2>4 DEF Waiting
  <2>10. Waiting(q, s) = EventsOf(R \o (o \o F))
    BY <1>6, <1>8 DEF o
  <2> QED
    BY <1>7, <2>6, <2>7, <2>8, <2>9, <2>10 DEF new, e, f, p
<1>9. CASE e.type \notin s.on
  BY <1>6, <1>7, <1>9 DEF Waiting, new, e, f, p
<1> QED
  BY <1>8, <1>9

-----------------------------------------------------------------------------
(***************************************************************************)
(* The steps of the bus, seen from the mailboxes                           *)
(***************************************************************************)
Box(s) == Waiting(ready, s)

LEMMA PublishedBox ==
  ASSUME ready \in Seq(Tasks), NEW e \in Events, Publish(<<e>>)
  PROVE  /\ ready' \in Seq(Tasks)
         /\ \A s \in Subscribers :
               Box(s)' = IF e.type \in s.on THEN Append(Box(s), e) ELSE Box(s)
<1> DEFINE f == FanOut(e)
<1>1. f \in Tasks
  BY TaskFacts
<1>2. [i \in DOMAIN <<e>> |-> FanOut(<<e>>[i])] = <<f>>
  OBVIOUS
<1>3. ready' = ready \o <<f>>
  BY <1>2 DEF Publish
<1> HIDE DEF f
<1>4. ready \o <<f>> = Append(ready, f)
  BY <1>1, AppendIsConcat
<1>5. ready' = Append(ready, f) /\ ready' \in Seq(Tasks)
  BY <1>1, <1>3, <1>4, AppendProperties
<1>6. ASSUME NEW s \in Subscribers
      PROVE  Box(s)' = IF e.type \in s.on THEN Append(Box(s), e) ELSE Box(s)
  <2>1. Waiting(Append(ready, f), s) =
          IF e.type \in s.on THEN Append(Waiting(ready, s), e) ELSE Waiting(ready, s)
    BY WaitingPublished DEF f
  <2> QED
    BY <1>5, <2>1 DEF Box
<1> QED
  BY <1>5, <1>6

LEMMA FannedOutBox ==
  ASSUME ready \in Seq(Tasks), RunFanOut
  PROVE  ready' \in Seq(Tasks) /\ \A s \in Subscribers : Box(s)' = Box(s)
<1>1. /\ ready # <<>> /\ Head(ready).task = "fan-out"
      /\ ready' = StartHandlers(Head(ready).event, Tail(ready))
  BY DEF RunFanOut
<1>2. AuditLogger \in Subscribers
  BY DEF Subscribers
<1>3. StartHandlers(Head(ready).event, Tail(ready)) \in Seq(Tasks)
  BY <1>1, <1>2, WaitingStarted
<1>4. ASSUME NEW s \in Subscribers PROVE Box(s)' = Box(s)
  <2>1. Waiting(StartHandlers(Head(ready).event, Tail(ready)), s) = Waiting(ready, s)
    BY <1>1, WaitingStarted
  <2> QED
    BY <1>1, <2>1 DEF Box
<1> QED
  BY <1>1, <1>3, <1>4

LEMMA HandledBox ==
  ASSUME ready \in Seq(Tasks), RunHandler
  PROVE  /\ ready' \in Seq(Tasks) /\ Head(ready).event \in Events
         /\ Head(ready).handler \in Handlers
         /\ \A s \in Subscribers :
               IF Head(ready).handler = s.name
               THEN /\ Box(s) # <<>> /\ Head(Box(s)) = Head(ready).event
                    /\ Box(s)' = Tail(Box(s))
               ELSE Box(s)' = Box(s)
<1>1. ready # <<>> /\ Head(ready).task = "run" /\ ready' = Tail(ready)
  BY DEF RunHandler
<1>2. Head(ready) \in Tasks /\ Tail(ready) \in Seq(Tasks)
  BY <1>1, HeadAndTail
<1>3. Head(ready).event \in Events /\ Head(ready).handler \in Handlers
  BY <1>1, <1>2, TaskFacts
<1>4. ASSUME NEW s \in Subscribers
      PROVE  IF Head(ready).handler = s.name
             THEN /\ Box(s) # <<>> /\ Head(Box(s)) = Head(ready).event
                  /\ Box(s)' = Tail(Box(s))
             ELSE Box(s)' = Box(s)
  BY <1>1, WaitingTaken DEF Box
<1> QED
  BY <1>1, <1>2, <1>3, <1>4

-----------------------------------------------------------------------------
(***************************************************************************)
(* What the bus holds                                                      *)
(***************************************************************************)
\* A request has its job until it is done, and only the session's lock-holder works.
HasJob == \A r \in Requests : phase[r] \notin {"new", "done"} => job[r] \in Jobs
Alone == \A q, r \in Requests : Working(q) /\ Working(r) /\ S(q) = S(r) => q = r

\* A handler hears what it asked for.
Heard == \A s \in Subscribers : \A i \in 1..Len(Box(s)) : Box(s)[i].type \in s.on

BusInv ==
  /\ ready \in Seq(Tasks)
  /\ outcome \in [Requests -> {"none", "told", "failed", "cancelled"}]
  /\ HasJob /\ Alone /\ Heard

\* The events of a request that has a job.
LEMMA EventType ==
  ASSUME HasJob, NEW r \in Requests, phase[r] \notin {"new", "done"}, NEW type \in EventTypes
  PROVE  /\ Event(type, r) \in Events /\ S(r) \in Sessions
         /\ Event(type, r).type = type /\ Event(type, r).req = r /\ Event(type, r).sess = S(r)
<1>1. job[r] \in Jobs
  BY DEF HasJob
<1>2. S(r) \in Sessions
  BY <1>1 DEF S, Jobs
<1> QED
  BY <1>2 DEF Event, Events

LEMMA BoxType ==
  ASSUME ready \in Seq(Tasks)
  PROVE  \A s \in Subscribers : Box(s) \in Seq(Events)
BY WaitingType DEF Box

LEMMA Appended ==
  ASSUME NEW Y, NEW q \in Seq(Y), NEW y \in Y
  PROVE  /\ Append(q, y) \in Seq(Y) /\ Len(q) \in Nat /\ Len(Append(q, y)) = Len(q) + 1
         /\ \A k \in 1..Len(q) : Append(q, y)[k] = q[k]
         /\ Append(q, y)[Len(q) + 1] = y
         /\ \A k \in 1..(Len(q) + 1) : k \in 1..Len(q) \/ k = Len(q) + 1
<1>1. Len(q) \in Nat
  BY LenProperties
<1>2. \A k \in 1..(Len(q) + 1) : k \in 1..Len(q) \/ k = Len(q) + 1
  BY <1>1
<1> QED
  BY <1>1, <1>2, AppendProperties

LEMMA Tailed ==
  ASSUME NEW Y, NEW q \in Seq(Y), q # <<>>
  PROVE  /\ Tail(q) \in Seq(Y) /\ Len(q) \in Nat /\ Len(q) >= 1
         /\ Len(Tail(q)) = Len(q) - 1
         /\ \A k \in 1..(Len(q) - 1) : Tail(q)[k] = q[k + 1] /\ k + 1 \in 1..Len(q)
         /\ 1 \in 1..Len(q) /\ Head(q) = q[1] /\ Head(q) \in Y
<1>1. Len(q) \in Nat /\ Len(q) # 0
  BY LenProperties, EmptySeq
<1>2. /\ 1 \in 1..Len(q) /\ Len(q) >= 1
      /\ \A k \in 1..(Len(q) - 1) : k + 1 \in 1..Len(q)
  BY <1>1
<1>3. /\ Tail(q) \in Seq(Y) /\ Len(Tail(q)) = Len(q) - 1
      /\ \A k \in 1..(Len(q) - 1) : Tail(q)[k] = q[k + 1]
      /\ Head(q) = q[1] /\ Head(q) \in Y
  <2>1. Tail(q) \in Seq(Y) /\ Len(Tail(q)) = Len(q) - 1 /\ Head(q) \in Y
    BY HeadTailProperties
  <2>2. ASSUME NEW k \in 1..(Len(q) - 1) PROVE Tail(q)[k] = q[k + 1]
    <3>1. k \in 1..Len(Tail(q))
      BY <2>1
    <3> QED
      BY <3>1, HeadTailProperties
  <2>3. Head(q) = q[1]
    BY HeadTailProperties
  <2> QED
    BY <2>1, <2>2, <2>3
<1> QED
  BY <1>1, <1>2, <1>3

LEMMA HeardAppended ==
  ASSUME ready \in Seq(Tasks), Heard, NEW e \in Events,
         \A s \in Subscribers : Box(s)' = IF e.type \in s.on THEN Append(Box(s), e) ELSE Box(s)
  PROVE  Heard'
<1> SUFFICES ASSUME NEW s \in Subscribers, NEW i \in 1..Len(Box(s)') PROVE Box(s)'[i].type \in s.on
  BY DEF Heard
<1> DEFINE b == Box(s)
<1>1. b \in Seq(Events) /\ \A k \in 1..Len(b) : b[k].type \in s.on
  BY BoxType DEF Heard
<1>2. b' = IF e.type \in s.on THEN Append(b, e) ELSE b
  OBVIOUS
<1> HIDE DEF b
<1>3. CASE e.type \notin s.on
  <2>1. b' = b
    BY <1>2, <1>3
  <2>2. Box(s)' = b /\ i \in 1..Len(b)
    BY <2>1 DEF b
  <2> QED
    BY <1>1, <2>2
<1>4. CASE e.type \in s.on
  <2>1. b' = Append(b, e)
    BY <1>2, <1>4
  <2>2. Len(Append(b, e)) = Len(b) + 1 /\ \A k \in 1..Len(b) : Append(b, e)[k] = b[k]
        /\ Append(b, e)[Len(b) + 1] = e
    BY <1>1, AppendProperties
  <2>3. Box(s)' = Append(b, e)
    BY <2>1 DEF b
  <2>4. i \in 1..(Len(b) + 1) /\ Len(b) \in Nat
    BY <1>1, <2>2, <2>3, LenProperties
  <2>5. CASE i = Len(b) + 1
    BY <1>4, <2>2, <2>3, <2>5
  <2>6. CASE i # Len(b) + 1
    <3>1. i \in 1..Len(b)
      BY <2>4, <2>6
    <3> QED
      BY <1>1, <2>2, <2>3, <3>1
  <2> QED
    BY <2>5, <2>6
<1> QED
  BY <1>3, <1>4

LEMMA HeardTaken ==
  ASSUME ready \in Seq(Tasks), Heard,
         \A s \in Subscribers : Box(s)' = Box(s) \/ (Box(s) # <<>> /\ Box(s)' = Tail(Box(s)))
  PROVE  Heard'
<1> SUFFICES ASSUME NEW s \in Subscribers, NEW i \in 1..Len(Box(s)') PROVE Box(s)'[i].type \in s.on
  BY DEF Heard
<1> DEFINE b == Box(s)
           c == Box(s)'
<1>1. b \in Seq(Events) /\ \A k \in 1..Len(b) : b[k].type \in s.on
  BY BoxType DEF Heard
<1>2. c = b \/ (b # <<>> /\ c = Tail(b))
  OBVIOUS
<1>3. i \in 1..Len(c)
  OBVIOUS
<1> HIDE DEF b, c
<1>4. c[i].type \in s.on
  <2>1. CASE c = b
    BY <1>1, <1>3, <2>1
  <2>2. CASE b # <<>> /\ c = Tail(b)
    <3>1. /\ Len(Tail(b)) = Len(b) - 1
          /\ \A k \in 1..(Len(b) - 1) : Tail(b)[k] = b[k + 1] /\ k + 1 \in 1..Len(b)
      BY <1>1, <2>2, Tailed
    <3> QED
      BY <1>1, <1>3, <2>2, <3>1
  <2> QED
    BY <1>2, <2>1, <2>2
<1> QED
  BY <1>4 DEF c

-----------------------------------------------------------------------------
(***************************************************************************)
(* What a step may do to a turn and to the bus                             *)
(***************************************************************************)
Others(r) ==
  \A q \in Requests \ {r} :
     phase'[q] = phase[q] /\ job'[q] = job[q] /\ outcome'[q] = outcome[q]

\* Request r goes on and publishes nothing.
Silent(r) ==
  /\ UNCHANGED <<ready, metricVars, published>> /\ Others(r)
  /\ \/ /\ phase[r] = "new" /\ phase'[r] \in {"start", "settle"}
        /\ job'[r] \in Jobs /\ \A q \in Requests : Working(q) => S(q) # job'[r].sess
        /\ outcome'[r] = outcome[r]
     \/ /\ <<phase[r], phase'[r]>> \in {<<"settle", "look">>, <<"settle", "start">>,
             <<"look", "decide">>, <<"decide", "start">>, <<"pend", "insert">>}
        /\ job'[r] = job[r] /\ outcome'[r] = outcome[r]
     \/ phase[r] = "commit" /\ phase'[r] = "done" /\ outcome'[r] = outcome[r]
     \/ Working(r) /\ phase'[r] = "commit" /\ job'[r] = job[r] /\ outcome'[r] = "cancelled"

\* Request r goes on and publishes an event of this type.
Says(r, type) ==
  /\ Publish(<<Event(type, r)>>) /\ UNCHANGED metricVars /\ Others(r) /\ job'[r] = job[r]
  /\ published' = IF type \in ToolEvents
                  THEN [published EXCEPT ![type] = @ \cup {r}] ELSE published
  /\ \/ /\ type = "llm.request.started" /\ phase[r] = "start" /\ phase'[r] = "model"
        /\ outcome'[r] = outcome[r]
     \/ /\ type = "tool.execution.requested" /\ phase[r] = "model"
        /\ phase'[r] \in {"pend", "record"} /\ outcome'[r] = outcome[r]
     \/ /\ type = "tool.approval.required" /\ phase[r] \in {"pend", "insert"}
        /\ phase'[r] = "record" /\ outcome'[r] = outcome[r]
     \/ /\ type \in {"llm.request.completed", "llm.request.failed"}
        /\ phase[r] \in {"model", "insert", "record"} /\ phase'[r] = "commit"
        /\ outcome'[r] = IF type = "llm.request.completed" THEN "told" ELSE "failed"

FansOut == RunFanOut /\ UNCHANGED <<requestVars, metricVars, published>>
Idles == UNCHANGED <<ready, requestVars, metricVars, published>>

Effects ==
  \/ \E r \in Requests : Silent(r)
  \/ \E r \in Requests, type \in EventTypes : Says(r, type)
  \/ FansOut \/ Handle \/ Idles

LEMMA SilentSteps ==
  ASSUME TableTypeOK, BusInv, NEW r \in Requests,
         FindPending(r) \/ LookUp(r) \/ Decide(r) \/ Commit(r) \/ Disconnect(r)
  PROVE  Silent(r)
<1>1. phase \in [Requests -> Phases] /\ job \in [Requests -> Jobs \cup {NoJob}]
      /\ outcome \in [Requests -> {"none", "told", "failed", "cancelled"}]
  BY DEF TableTypeOK, BusInv
<1>2. CASE FindPending(r)
  BY <1>1, <1>2 DEF FindPending, Silent, Others, Goto, historyVars
<1>3. CASE LookUp(r)
  BY <1>1, <1>3 DEF LookUp, Silent, Others, Goto, historyVars
<1>4. CASE Decide(r)
  BY <1>1, <1>4 DEF Decide, Silent, Others, Goto
<1>5. CASE Commit(r)
  BY <1>1, <1>5 DEF Commit, Silent, Others, Goto
<1>6. CASE Disconnect(r)
  BY <1>1, <1>6 DEF Disconnect, Silent, Others, Goto, Working, historyVars
<1> QED
  BY <1>2, <1>3, <1>4, <1>5, <1>6

LEMMA EnterIsSilent ==
  ASSUME TableTypeOK, BusInv, NEW r \in Requests, NEW j \in Jobs, Enter(r, j)
  PROVE  Silent(r)
<1>1. phase \in [Requests -> Phases] /\ job \in [Requests -> Jobs \cup {NoJob}]
  BY DEF TableTypeOK
<1>2. /\ UNCHANGED <<ready, metricVars, published, outcome>> /\ phase[r] = "new"
      /\ \A q \in Requests : Working(q) => S(q) # j.sess
      /\ job' = [job EXCEPT ![r] = j]
      /\ phase' = [phase EXCEPT ![r] = IF j.kind = "message" THEN "start" ELSE "settle"]
  BY DEF Enter, Goto
<1>3. job'[r] = j /\ phase'[r] \in {"start", "settle"}
      /\ \A q \in Requests \ {r} : phase'[q] = phase[q] /\ job'[q] = job[q]
  BY <1>1, <1>2
<1> QED
  BY <1>2, <1>3 DEF Silent, Others

LEMMA EndTurnSays ==
  ASSUME TableTypeOK, BusInv, NEW r \in Requests,
         NEW type \in {"llm.request.completed", "llm.request.failed"}, EndTurn(r, type),
         UNCHANGED <<job, metricVars, published>>, phase[r] \in {"model", "insert", "record"}
  PROVE  Says(r, type)
<1>1. phase \in [Requests -> Phases]
      /\ outcome \in [Requests -> {"none", "told", "failed", "cancelled"}]
  BY DEF TableTypeOK, BusInv
<1> QED
  BY <1>1 DEF EndTurn, Says, Others, Goto, ToolEvents

LEMMA AnnounceSays ==
  ASSUME TableTypeOK, BusInv, NEW r \in Requests, Announce(r),
         UNCHANGED <<job, outcome, metricVars>>, phase[r] \in {"pend", "insert"}
  PROVE  Says(r, "tool.approval.required")
<1>1. phase \in [Requests -> Phases]
  BY DEF TableTypeOK
<1> QED
  BY <1>1 DEF Announce, PublishTool, Says, Others, Goto, ToolEvents

LEMMA TurnSteps ==
  ASSUME TableTypeOK, BusInv, NEW r \in Requests,
         \/ StartTurn(r) \/ ModelFails(r) \/ AnswerText(r) \/ CallTool(r)
         \/ AddPending(r) \/ InsertPending(r) \/ RecordCall(r)
  PROVE  Silent(r) \/ \E type \in EventTypes : Says(r, type)
<1>1. phase \in [Requests -> Phases] /\ "llm.request.started" \in EventTypes
      /\ "tool.execution.requested" \in EventTypes /\ "tool.approval.required" \in EventTypes
      /\ {"llm.request.completed", "llm.request.failed"} \subseteq EventTypes
  BY DEF TableTypeOK, EventTypes
<1>2. CASE StartTurn(r)
  <2>1. Says(r, "llm.request.started")
    BY <1>1, <1>2 DEF StartTurn, Says, Others, Goto, ToolEvents, historyVars
  <2> QED
    BY <1>1, <2>1
<1>3. CASE ModelFails(r)
  <2>1. Says(r, "llm.request.failed")
    BY <1>3, EndTurnSays DEF ModelFails, historyVars
  <2> QED
    BY <1>1, <2>1
<1>4. CASE AnswerText(r)
  <2>1. PICK type \in {"llm.request.completed", "llm.request.failed"} : EndTurn(r, type)
    BY <1>4 DEF AnswerText
  <2>2. Says(r, type)
    BY <1>4, <2>1, EndTurnSays DEF AnswerText, historyVars
  <2> QED
    BY <1>1, <2>2
<1>5. CASE CallTool(r)
  <2>1. PICK p \in {"pend", "record"} : Goto(r, p)
    BY <1>5 DEF CallTool
  <2>2. /\ phase[r] = "model" /\ PublishTool("tool.execution.requested", r)
        /\ UNCHANGED <<job, outcome, metricVars>>
    BY <1>5 DEF CallTool
  <2>3. Says(r, "tool.execution.requested")
    BY <1>1, <2>1, <2>2 DEF PublishTool, Says, Others, Goto, ToolEvents
  <2> QED
    BY <1>1, <2>3
<1>6. CASE AddPending(r)
  <2>1. CASE Goto(r, "insert") /\ UNCHANGED <<ready, announced, published>>
    BY <1>1, <1>6, <2>1 DEF AddPending, Silent, Others, Goto
  <2>2. CASE Announce(r)
    BY <1>1, <1>6, <2>2, AnnounceSays DEF AddPending
  <2> QED
    BY <1>6, <2>1, <2>2 DEF AddPending
<1>7. CASE InsertPending(r)
  <2>1. CASE Announce(r) /\ UNCHANGED outcome
    BY <1>1, <1>7, <2>1, AnnounceSays DEF InsertPending
  <2>2. CASE EndTurn(r, "llm.request.failed") /\ UNCHANGED published
    <3>1. Says(r, "llm.request.failed")
      BY <1>7, <2>2, EndTurnSays DEF InsertPending
    <3> QED
      BY <1>1, <3>1
  <2> QED
    BY <1>7, <2>1, <2>2 DEF InsertPending
<1>8. CASE RecordCall(r)
  <2>1. PICK type \in {"llm.request.completed", "llm.request.failed"} : EndTurn(r, type)
    BY <1>8 DEF RecordCall
  <2>2. Says(r, type)
    BY <1>8, <2>1, EndTurnSays DEF RecordCall, historyVars
  <2> QED
    BY <1>1, <2>2
<1> QED
  BY <1>2, <1>3, <1>4, <1>5, <1>6, <1>7, <1>8

LEMMA NextEffects == TableTypeOK /\ BusInv /\ [Next]_vars => Effects
<1> SUFFICES ASSUME TableTypeOK, BusInv, [Next]_vars PROVE Effects
  OBVIOUS
<1>1. ASSUME NEW r \in Requests, NEW j \in Jobs, Enter(r, j) PROVE Effects
  BY <1>1, EnterIsSilent DEF Effects
<1>2. ASSUME NEW r \in Requests, Step(r) \/ Disconnect(r) PROVE Effects
  <2>1. Silent(r) \/ \E type \in EventTypes : Says(r, type)
    BY <1>2, SilentSteps, TurnSteps DEF Step
  <2> QED
    BY <2>1 DEF Effects
<1>3. CASE RunBus
  BY <1>3 DEF RunBus, Effects, FansOut, historyVars
<1>4. CASE UNCHANGED vars
  BY <1>4 DEF vars, Effects, Idles, historyVars
<1> QED
  BY <1>1, <1>2, <1>3, <1>4 DEF Next

-----------------------------------------------------------------------------
(***************************************************************************)
(* The bus keeps its promises                                              *)
(***************************************************************************)
\* Only a request that enters starts to work, and it was given another session
\* than those that work.
LEMMA SilentBus ==
  ASSUME BusInv, NEW r \in Requests, Silent(r)
  PROVE  HasJob' /\ Alone'
<1>1. HasJob'
  BY DEF Silent, Others, BusInv, HasJob, Working
<1>2. \A q \in Requests \ {r} : Working(q)' = Working(q) /\ S(q)' = S(q)
  BY DEF Silent, Others, Working, S
<1>3. Working(r)' => \/ Working(r) /\ S(r)' = S(r)
                     \/ \A q \in Requests : Working(q) => S(q) # S(r)'
  BY DEF Silent, Working, S
<1>4. Alone'
  BY <1>2, <1>3 DEF BusInv, Alone
<1> QED
  BY <1>1, <1>4

LEMMA SaysBus ==
  ASSUME BusInv, NEW r \in Requests, NEW type \in EventTypes, Says(r, type)
  PROVE  HasJob' /\ Alone'
<1>1. HasJob'
  BY DEF Says, Others, BusInv, HasJob
<1>2. \A q \in Requests : S(q)' = S(q) /\ (Working(q)' => Working(q))
  BY DEF Says, Others, Working, S
<1>3. Alone'
  BY <1>2 DEF BusInv, Alone
<1> QED
  BY <1>1, <1>3

\* What a step does to the mailboxes.
LEMMA SilentBox ==
  ASSUME NEW r \in Requests, Silent(r)
  PROVE  \A s \in Subscribers : Box(s)' = Box(s)
BY DEF Silent, Box

LEMMA SaysBox ==
  ASSUME BusInv, NEW r \in Requests, NEW type \in EventTypes, Says(r, type)
  PROVE  /\ Event(type, r) \in Events
         /\ Event(type, r).type = type /\ Event(type, r).req = r /\ Event(type, r).sess = S(r)
         /\ ready' \in Seq(Tasks)
         /\ \A s \in Subscribers :
               Box(s)' = IF type \in s.on THEN Append(Box(s), Event(type, r)) ELSE Box(s)
<1>1. phase[r] \notin {"new", "done"} /\ HasJob /\ ready \in Seq(Tasks)
  BY DEF Says, BusInv
<1>2. /\ Event(type, r) \in Events
      /\ Event(type, r).type = type /\ Event(type, r).req = r /\ Event(type, r).sess = S(r)
  BY <1>1, EventType
<1>3. Publish(<<Event(type, r)>>)
  BY DEF Says
<1> DEFINE e == Event(type, r)
<1> HIDE DEF e
<1>4. /\ ready' \in Seq(Tasks)
      /\ \A s \in Subscribers : Box(s)' = IF e.type \in s.on THEN Append(Box(s), e) ELSE Box(s)
  BY <1>1, <1>2, <1>3, PublishedBox DEF e
<1> QED
  BY <1>2, <1>4 DEF e

LEMMA InitBusInv == Init => BusInv
<1> SUFFICES ASSUME Init PROVE BusInv
  OBVIOUS
<1>1. ready = <<>> /\ ready \in Seq(Tasks)
  BY EmptySeq DEF Init, InitBus
<1>2. \A s \in Subscribers : Box(s) = <<>>
  BY <1>1, WaitingEmpty DEF Box
<1>3. Heard
  <2>1. \A s \in Subscribers : 1..Len(Box(s)) = {}
    BY <1>2
  <2> QED
    BY <2>1 DEF Heard
<1>4. /\ outcome \in [Requests -> {"none", "told", "failed", "cancelled"}]
      /\ HasJob /\ Alone
  BY DEF Init, HasJob, Alone, Working
<1> QED
  BY <1>1, <1>3, <1>4 DEF BusInv

LEMMA OutcomeType ==
  ASSUME BusInv, TableTypeOK, [Next]_vars
  PROVE  outcome' \in [Requests -> {"none", "told", "failed", "cancelled"}]
<1>1. outcome \in [Requests -> {"none", "told", "failed", "cancelled"}]
  BY DEF BusInv
<1>2. ASSUME NEW r \in Requests, Step(r) \/ Disconnect(r) PROVE outcome' \in
         [Requests -> {"none", "told", "failed", "cancelled"}]
  <2>1. CASE FindPending(r) \/ LookUp(r) \/ Decide(r) \/ StartTurn(r) \/ CallTool(r)
             \/ AddPending(r) \/ Commit(r)
    BY <1>1, <2>1 DEF FindPending, LookUp, Decide, StartTurn, CallTool, AddPending, Commit
  <2>2. CASE ModelFails(r) \/ AnswerText(r) \/ RecordCall(r) \/ InsertPending(r)
    BY <1>1, <2>2 DEF ModelFails, AnswerText, RecordCall, InsertPending, EndTurn
  <2>3. CASE Disconnect(r)
    BY <1>1, <2>3 DEF Disconnect
  <2> QED
    BY <1>2, <2>1, <2>2, <2>3 DEF Step
<1>3. CASE RunBus \/ UNCHANGED vars
  BY <1>1, <1>3 DEF RunBus, Handle, vars, requestVars
<1>4. ASSUME NEW r \in Requests, NEW j \in Jobs, Enter(r, j) PROVE outcome' = outcome
  BY <1>4 DEF Enter
<1> QED
  BY <1>1, <1>2, <1>3, <1>4 DEF Next

LEMMA HandlePost ==
  ASSUME BusInv, Handle
  PROVE  /\ UNCHANGED requestVars /\ ready' \in Seq(Tasks)
         /\ Head(ready).event \in Events /\ Head(ready).handler \in Handlers
         /\ \A s \in Subscribers :
               IF Head(ready).handler = s.name
               THEN /\ Box(s) # <<>> /\ Head(Box(s)) = Head(ready).event
                    /\ Box(s)' = Tail(Box(s))
               ELSE Box(s)' = Box(s)
<1>1. RunHandler /\ UNCHANGED requestVars /\ ready \in Seq(Tasks)
  BY DEF Handle, BusInv
<1> QED
  BY <1>1, HandledBox

LEMMA NextBus == TableTypeOK /\ BusInv /\ [Next]_vars => BusInv'
<1> SUFFICES ASSUME TableTypeOK, BusInv, [Next]_vars PROVE BusInv'
  OBVIOUS
<1>1. outcome' \in [Requests -> {"none", "told", "failed", "cancelled"}]
  BY OutcomeType
<1>2. ready \in Seq(Tasks) /\ Heard
  BY DEF BusInv
<1>3. ASSUME NEW r \in Requests, Silent(r) PROVE BusInv'
  <2>1. ready' \in Seq(Tasks)
    BY <1>2, <1>3 DEF Silent
  <2>2. Heard'
    BY <1>2, <1>3, SilentBox, HeardTaken
  <2> QED
    BY <1>1, <1>3, <2>1, <2>2, SilentBus DEF BusInv
<1>4. ASSUME NEW r \in Requests, NEW type \in EventTypes, Says(r, type) PROVE BusInv'
  <2> DEFINE e == Event(type, r)
  <2>1. /\ ready' \in Seq(Tasks) /\ e \in Events /\ e.type = type
        /\ \A s \in Subscribers : Box(s)' = IF type \in s.on THEN Append(Box(s), e) ELSE Box(s)
    BY <1>4, SaysBox
  <2> HIDE DEF e
  <2>2. Heard'
    BY <1>2, <2>1, HeardAppended
  <2> QED
    BY <1>1, <1>4, <2>1, <2>2, SaysBus DEF BusInv
<1>5. CASE FansOut
  <2>1. ready' \in Seq(Tasks) /\ \A s \in Subscribers : Box(s)' = Box(s)
    BY <1>2, <1>5, FannedOutBox DEF FansOut
  <2>2. Heard'
    BY <1>2, <2>1, HeardTaken
  <2>3. HasJob' /\ Alone'
    BY <1>5 DEF FansOut, BusInv, HasJob, Alone, Working, S, requestVars
  <2> QED
    BY <1>1, <2>1, <2>2, <2>3 DEF BusInv
<1>6. CASE Handle
  <2>1. /\ ready' \in Seq(Tasks) /\ UNCHANGED requestVars
        /\ \A s \in Subscribers : Box(s)' = Box(s) \/ (Box(s) # <<>> /\ Box(s)' = Tail(Box(s)))
    BY <1>6, HandlePost
  <2>2. Heard'
    BY <1>2, <2>1, HeardTaken
  <2>3. HasJob' /\ Alone'
    BY <2>1 DEF BusInv, HasJob, Alone, Working, S, requestVars
  <2> QED
    BY <1>1, <2>1, <2>2, <2>3 DEF BusInv
<1>7. CASE Idles
  <2>1. ready' \in Seq(Tasks) /\ \A s \in Subscribers : Box(s)' = Box(s)
    BY <1>2, <1>7 DEF Box, Idles
  <2>2. Heard'
    BY <1>2, <2>1, HeardTaken
  <2>3. HasJob' /\ Alone'
    BY <1>7 DEF Idles, BusInv, HasJob, Alone, Working, S, requestVars
  <2> QED
    BY <1>1, <2>1, <2>2, <2>3 DEF BusInv
<1> QED
  BY <1>3, <1>4, <1>5, <1>6, <1>7, NextEffects DEF Effects

LEMMA BusHolds == Spec => [](TableTypeOK /\ BusInv)
<1>1. TableInv => TableTypeOK
  BY DEF TableInv
<1> QED
  BY <1>1, InitBusInv, NextBus, TableHolds, PTL DEF Spec

-----------------------------------------------------------------------------
(***************************************************************************)
(* The bus is a mailbox per handler                                        *)
(***************************************************************************)
LEMMA PrefixOfExtension ==
  ASSUME NEW T, NEW p \in Seq(T), NEW q \in Seq(T),
         Len(p) <= Len(q), \A i \in 1..Len(p) : q[i] = p[i]
  PROVE  IsPrefix(p, q)
<1>1. /\ Len(p) \in Nat /\ Len(q) \in Nat
      /\ \A i \in 1..Len(p) : p[i] \in T
      /\ \A i \in 1..Len(q) : q[i] \in T
  BY LenProperties, ElementOfSeq
<1>2. 1 \in Int /\ Len(p) \in Int
  BY <1>1
<1>3. \A i \in 1..Len(p) : p[i] \in T /\ q[i] \in T
  BY <1>1
<1> DEFINE a == SubSeq(p, 1, Len(p))
           b == SubSeq(q, 1, Len(p))
<1>4. /\ a \in Seq(T) /\ Len(a) = Len(p)
      /\ \A i \in 1..Len(p) : a[i] = p[i]
  BY <1>1, <1>2, <1>3, SubSeqProperties
<1>5. /\ b \in Seq(T) /\ Len(b) = Len(p)
      /\ \A i \in 1..Len(p) : b[i] = q[i]
  BY <1>1, <1>2, <1>3, SubSeqProperties
<1> HIDE DEF a, b
<1>6. a = b
  BY <1>1, <1>4, <1>5, SeqEqual
<1> QED
  BY <1>6 DEF IsPrefix, a, b

LEMMA PrefixOfAppend ==
  ASSUME NEW T, NEW p \in Seq(T), NEW x \in T
  PROVE  IsPrefix(p, Append(p, x)) /\ IsPrefix(p, p)
<1> DEFINE q == Append(p, x)
<1>1. /\ q \in Seq(T) /\ Len(p) \in Nat /\ Len(q) = Len(p) + 1
      /\ \A k \in 1..Len(p) : q[k] = p[k]
  BY Appended
<1> HIDE DEF q
<1>2. IsPrefix(p, q)
  <2>1. Len(p) <= Len(q)
    BY <1>1
  <2> QED
    BY <1>1, <2>1, PrefixOfExtension
<1>3. IsPrefix(p, p)
  <2>1. Len(p) <= Len(p)
    BY <1>1
  <2> QED
    BY <2>1, PrefixOfExtension
<1> QED
  BY <1>2, <1>3 DEF q

\* The subscriber of a name, and the mailboxes by name.
Named(h) == CHOOSE s \in Subscribers : s.name = h
Letters == [h \in Handlers |-> Box(Named(h))]

LEMMA NamedSubscriber ==
  /\ \A h \in Handlers : Named(h) \in Subscribers /\ Named(h).name = h
  /\ \A s \in Subscribers : s.name \in Handlers /\ Named(s.name) = s
<1>1. \A h \in Handlers : \E s \in Subscribers : s.name = h
  BY DEF Handlers
<1>2. \A h \in Handlers : Named(h) \in Subscribers /\ Named(h).name = h
  BY <1>1 DEF Named
<1>3. \A s \in Subscribers : s.name \in Handlers
  BY DEF Handlers
<1> QED
  BY <1>2, <1>3, NamesDiffer

LEMMA MailboxesAre ==
  ASSUME ready \in Seq(Tasks)
  PROVE  [h \in Handlers |-> MailboxOf(CHOOSE s \in Subscribers : s.name = h)] = Letters
<1>1. \A h \in Handlers : MailboxOf(Named(h)) = Box(Named(h))
  BY MailboxIs, NamedSubscriber DEF Box
<1> QED
  BY <1>1 DEF Letters, Named

LEMMA MailboxesWillBe ==
  (ready \in Seq(Tasks))' =>
     ([h \in Handlers |-> MailboxOf(CHOOSE s \in Subscribers : s.name = h)] = Letters)'
<1>1. ready \in Seq(Tasks) =>
         [h \in Handlers |-> MailboxOf(CHOOSE s \in Subscribers : s.name = h)] = Letters
  BY MailboxesAre
<1> QED
  BY <1>1, PTL

LEMMA InitMail == Init => Mail!Init
<1> SUFFICES ASSUME Init PROVE Mail!Init
  OBVIOUS
<1>1. ready = <<>> /\ ready \in Seq(Tasks)
  BY EmptySeq DEF Init, InitBus
<1>2. \A h \in Handlers : Box(Named(h)) = <<>>
  BY <1>1, WaitingEmpty DEF Box
<1>3. Letters = [h \in Handlers |-> <<>>]
  BY <1>2 DEF Letters
<1> QED
  BY <1>1, <1>3, MailboxesAre DEF Mail!Init

LEMMA SameMail ==
  ASSUME ready \in Seq(Tasks), ready' \in Seq(Tasks), \A s \in Subscribers : Box(s)' = Box(s)
  PROVE  Letters' = Letters
<1>1. \A h \in Handlers : Box(Named(h))' = Box(Named(h))
  BY NamedSubscriber
<1> QED
  BY <1>1 DEF Letters, Named

\* Delivering to some handlers, or taking from one.
LEMMA DeliveredMail ==
  ASSUME ready \in Seq(Tasks), ready' \in Seq(Tasks), NEW e \in Events,
         \A s \in Subscribers : Box(s)' = Box(s) \/ Box(s)' = Append(Box(s), e)
  PROVE  Mail!Deliver
<1>1. ASSUME NEW h \in Handlers PROVE IsPrefix(Letters[h], Letters'[h])
  <2> DEFINE s == Named(h)
             b == Box(s)
             c == Box(s)'
  <2>1. s \in Subscribers
    BY NamedSubscriber
  <2>2. b \in Seq(Events) /\ (c = b \/ c = Append(b, e))
    BY <2>1, BoxType
  <2>3. Letters[h] = b /\ Letters'[h] = c
    BY DEF Letters, Named
  <2> HIDE DEF b, c
  <2>4. IsPrefix(b, c)
    BY <2>2, PrefixOfAppend
  <2> QED
    BY <2>3, <2>4
<1>2. [h \in Handlers |-> MailboxOf(CHOOSE s \in Subscribers : s.name = h)] = Letters
  BY MailboxesAre
<1>3. [h \in Handlers |-> MailboxOf(CHOOSE s \in Subscribers : s.name = h)]' = Letters'
  BY MailboxesWillBe
<1> QED
  BY <1>1, <1>2, <1>3 DEF Mail!Deliver, IsPrefix, Mail!IsPrefix

LEMMA TakenMail ==
  ASSUME BusInv, Handle
  PROVE  \E h \in Handlers : Mail!Take(h)
<1>1. ready \in Seq(Tasks) /\ ready' \in Seq(Tasks) /\ Head(ready).handler \in Handlers
  BY HandlePost DEF BusInv
<1>2. PICK h \in Handlers : h = Head(ready).handler
  BY <1>1
<1>3. Named(h) \in Subscribers /\ Named(h).name = h
  BY NamedSubscriber
<1>4. Box(Named(h)) # <<>> /\ Box(Named(h))' = Tail(Box(Named(h)))
  BY <1>2, <1>3, HandlePost
<1>5. ASSUME NEW g \in Handlers \ {h} PROVE Box(Named(g))' = Box(Named(g))
  <2>1. Named(g) \in Subscribers /\ Named(g).name = g
    BY NamedSubscriber
  <2> QED
    BY <1>2, <2>1, HandlePost
<1>6. Letters[h] # <<>> /\ Letters' = [Letters EXCEPT ![h] = Tail(@)]
  <2> DEFINE new == [g \in Handlers |-> Box(Named(g))']
  <2>1. Letters' = new
    BY DEF Letters, Named
  <2>2. Letters = [g \in Handlers |-> Box(Named(g))]
    BY DEF Letters, Named
  <2> QED
    BY <1>4, <1>5, <2>1, <2>2
<1>7. [g \in Handlers |-> MailboxOf(CHOOSE s \in Subscribers : s.name = g)] = Letters
  BY <1>1, MailboxesAre
<1>8. [g \in Handlers |-> MailboxOf(CHOOSE s \in Subscribers : s.name = g)]' = Letters'
  BY <1>1, MailboxesWillBe
<1> QED
  BY <1>6, <1>7, <1>8 DEF Mail!Take

LEMMA NextMail ==
  ASSUME TableTypeOK, BusInv, [Next]_vars
  PROVE  [Mail!Next]_([h \in Handlers |-> MailboxOf(CHOOSE s \in Subscribers : s.name = h)])
<1> DEFINE mail == [h \in Handlers |-> MailboxOf(CHOOSE s \in Subscribers : s.name = h)]
<1>1. ready \in Seq(Tasks) /\ ready' \in Seq(Tasks)
  BY NextBus DEF BusInv
<1>2. mail = Letters /\ mail' = Letters'
  BY <1>1, MailboxesAre, MailboxesWillBe
<1>3. ASSUME \A s \in Subscribers : Box(s)' = Box(s) PROVE mail' = mail
  BY <1>1, <1>2, <1>3, SameMail
<1> DEFINE goal == Mail!Next \/ mail' = mail
<1>4. ASSUME NEW r \in Requests, Silent(r) PROVE goal
  BY <1>3, <1>4, SilentBox
<1>5. ASSUME NEW r \in Requests, NEW type \in EventTypes, Says(r, type) PROVE goal
  <2>1. PICK e \in Events :
           \A s \in Subscribers : Box(s)' = Box(s) \/ Box(s)' = Append(Box(s), e)
    BY <1>5, SaysBox
  <2>2. Mail!Deliver
    BY <1>1, <2>1, DeliveredMail
  <2> QED
    BY <2>2 DEF Mail!Next
<1>6. ASSUME FansOut PROVE goal
  <2>1. \A s \in Subscribers : Box(s)' = Box(s)
    BY <1>1, <1>6, FannedOutBox DEF FansOut
  <2> QED
    BY <1>3, <2>1
<1>7. ASSUME Handle PROVE goal
  <2>1. \E h \in Handlers : Mail!Take(h)
    BY <1>7, TakenMail
  <2> QED
    BY <2>1 DEF Mail!Next
<1>8. ASSUME Idles PROVE goal
  <2>1. \A s \in Subscribers : Box(s)' = Box(s)
    BY <1>8 DEF Box, Idles
  <2> QED
    BY <1>3, <2>1
<1>9. goal
  <2>1. Effects
    BY NextEffects
  <2> HIDE DEF goal
  <2> QED
    BY <1>4, <1>5, <1>6, <1>7, <1>8, <2>1 DEF Effects
<1> QED
  BY <1>9

\* Every handler gets its events once and in the order of their publication,
\* whichever of the bus's tasks are queued between them.
THEOREM BusIsMailboxes == Spec => ImplementsMailboxes
<1>1. TableTypeOK /\ BusInv /\ [Next]_vars
        => [Mail!Next]_([h \in Handlers |-> MailboxOf(CHOOSE s \in Subscribers : s.name = h)])
  BY NextMail
<1> QED
  BY InitMail, <1>1, BusHolds, PTL DEF Spec, Mail!Spec, ImplementsMailboxes

-----------------------------------------------------------------------------
(***************************************************************************)
(* The turns that the session collector counts                             *)
(***************************************************************************)
Ends == {"llm.request.completed", "llm.request.failed"}
Open(r) == phase[r] \in {"model", "pend", "insert", "record"}

\* In front of place n + 1 of mailbox m, the last that the collector hears of session
\* s is the start of request r, perhaps already.
StartLast(m, start, n, r, s) ==
  \/ start[s] = r /\ \A k \in 1..n : m[k].sess # s
  \/ \E j \in 1..n :
        /\ m[j].type = "llm.request.started" /\ m[j].req = r /\ m[j].sess = s
        /\ \A k \in (j + 1)..n : m[k].sess # s

EndWaits(m, r) == \E i \in 1..Len(m) : m[i].type \in Ends /\ m[i].req = r
Told(type) == IF type = "llm.request.completed" THEN "told" ELSE "failed"
Entry(r) ==
  CASE outcome[r] = "told" -> <<"completed", r>>
    [] outcome[r] = "failed" -> <<"failed", r>>
    [] OTHER -> <<"no", NoRequest>>

\* No two ends of a request; each says what the client was told.
OneEnd(m) ==
  /\ \A i, j \in 1..Len(m) :
        m[i].type \in Ends /\ m[j].type \in Ends /\ m[i].req = m[j].req => i = j
  /\ \A i \in 1..Len(m) : m[i].type \in Ends => outcome[m[i].req] = Told(m[i].type)

\* A start is followed by the end of its own turn.
Paired(m) ==
  /\ \A i \in 1..Len(m) : m[i].type \in Ends => StartLast(m, starter, i - 1, m[i].req, m[i].sess)
  /\ \A r \in Requests : Open(r) => StartLast(m, starter, Len(m), r, S(r))

\* What has been heard is counted, and nothing else.
Counted(m) ==
  \A r \in Requests : counted[r] = IF EndWaits(m, r) THEN <<"no", NoRequest>> ELSE Entry(r)

NoOutcome == \A r \in Requests : phase[r] \notin {"commit", "done"} => outcome[r] = "none"

TurnsInv(m) == OneEnd(m) /\ Paired(m) /\ Counted(m) /\ NoOutcome

TurnTypes ==
  /\ starter \in [Sessions -> Requests \cup {NoRequest}]
  /\ counted \in [Requests -> {"no", "completed", "failed"} \X (Requests \cup {NoRequest})]

\* What a mailbox holds.
LEMMA MailTypes ==
  ASSUME NEW m \in Seq(Events)
  PROVE  /\ Len(m) \in Nat
         /\ \A i \in 1..Len(m) : m[i] \in Events /\ m[i].req \in Requests
                                 /\ m[i].sess \in Sessions /\ m[i].type \in EventTypes
<1>1. Len(m) \in Nat /\ \A i \in 1..Len(m) : m[i] \in Events
  BY LenProperties, ElementOfSeq
<1> QED
  BY <1>1 DEF Events

\* The start in front of a place stays where it is when events are added...
LEMMA StartLastStays ==
  ASSUME NEW m \in Seq(Events), NEW e \in Events, NEW start, NEW n \in 0..Len(m), NEW r, NEW s,
         StartLast(m, start, n, r, s)
  PROVE  StartLast(Append(m, e), start, n, r, s)
<1>1. /\ Len(m) \in Nat
      /\ \A k \in 1..Len(m) : Append(m, e)[k] = m[k]
  BY Appended
<1>2. \A k \in 1..n : k \in 1..Len(m) /\ \A j \in (k + 1)..n : j \in 1..Len(m)
  BY <1>1
<1> QED
  BY <1>1, <1>2 DEF StartLast

LEMMA StartLastOther ==
  ASSUME NEW m \in Seq(Events), NEW e \in Events, NEW start, NEW r, NEW s,
         e.sess # s, StartLast(m, start, Len(m), r, s)
  PROVE  StartLast(Append(m, e), start, Len(m) + 1, r, s)
<1> DEFINE w == Append(m, e)
           n == Len(m)
<1>1. /\ n \in Nat /\ w[n + 1] = e
      /\ \A k \in 1..n : w[k] = m[k]
      /\ \A k \in 1..(n + 1) : k \in 1..n \/ k = n + 1
  BY Appended
<1>2. StartLast(m, start, n, r, s)
  OBVIOUS
<1> HIDE DEF w, n
<1>3. CASE start[s] = r /\ \A k \in 1..n : m[k].sess # s
  <2>1. \A k \in 1..(n + 1) : w[k].sess # s
    BY <1>1, <1>3
  <2> QED
    BY <1>3, <2>1 DEF StartLast, w, n
<1>4. ASSUME NEW j \in 1..n, m[j].type = "llm.request.started", m[j].req = r, m[j].sess = s,
             \A k \in (j + 1)..n : m[k].sess # s
      PROVE  StartLast(w, start, n + 1, r, s)
  <2>1. j \in 1..(n + 1) /\ w[j] = m[j]
    BY <1>1
  <2>2. ASSUME NEW k \in (j + 1)..(n + 1) PROVE w[k].sess # s
    <3>1. k \in 1..(n + 1) /\ (k \in 1..n => k \in (j + 1)..n)
      BY <1>1
    <3> QED
      BY <1>1, <1>4, <3>1
  <2> QED
    BY <1>4, <2>1, <2>2 DEF StartLast
<1> QED
  BY <1>2, <1>3, <1>4 DEF StartLast, w, n

LEMMA StartLastOwn ==
  ASSUME NEW m \in Seq(Events), NEW e \in Events, NEW start, e.type = "llm.request.started"
  PROVE  StartLast(Append(m, e), start, Len(m) + 1, e.req, e.sess)
<1> DEFINE w == Append(m, e)
           n == Len(m)
<1>1. n \in Nat /\ w[n + 1] = e
  BY Appended
<1> HIDE DEF w, n
<1>2. n + 1 \in 1..(n + 1) /\ \A k \in (n + 1 + 1)..(n + 1) : w[k].sess # e.sess
  BY <1>1
<1>3. StartLast(w, start, n + 1, e.req, e.sess)
  BY <1>1, <1>2 DEF StartLast
<1> QED
  BY <1>3 DEF w, n

\* ...and is remembered when the collector hears of it.
LEMMA StartLastTaken ==
  ASSUME NEW m \in Seq(Events), m # <<>>, NEW s \in Sessions, NEW r,
         NEW start \in [Sessions -> Requests \cup {NoRequest}],
         NEW next, NEW n \in 1..Len(m),
         next = [start EXCEPT ![Head(m).sess] =
                   IF Head(m).type = "llm.request.started" THEN Head(m).req ELSE NoRequest],
         StartLast(m, start, n, r, s)
  PROVE  StartLast(Tail(m), next, n - 1, r, s)
<1> DEFINE w == Tail(m)
           e == Head(m)
<1>1. /\ Len(m) \in Nat /\ m[1] = e /\ e \in Events
      /\ \A k \in 1..(Len(m) - 1) : w[k] = m[k + 1]
  BY Tailed
<1>2. e.sess \in Sessions
  BY <1>1 DEF Events
<1>3. next = [start EXCEPT ![e.sess] = IF e.type = "llm.request.started" THEN e.req ELSE NoRequest]
  OBVIOUS
<1> HIDE DEF w, e
<1>4. CASE start[s] = r /\ \A k \in 1..n : m[k].sess # s
  <2>1. e.sess # s
    BY <1>1, <1>4
  <2>2. next[s] = r
    BY <1>2, <1>3, <1>4, <2>1
  <2>3. ASSUME NEW k \in 1..(n - 1) PROVE w[k].sess # s
    <3>1. k \in 1..(Len(m) - 1) /\ k + 1 \in 1..n
      BY <1>1
    <3> QED
      BY <1>1, <1>4, <3>1
  <2> QED
    BY <2>2, <2>3 DEF StartLast, w
<1>5. ASSUME NEW j \in 1..n, m[j].type = "llm.request.started", m[j].req = r, m[j].sess = s,
             \A k \in (j + 1)..n : m[k].sess # s
      PROVE  StartLast(w, next, n - 1, r, s)
  <2>1. ASSUME NEW k \in j..(n - 1) PROVE w[k].sess # s
    <3>1. k \in 1..(Len(m) - 1) /\ k + 1 \in (j + 1)..n
      BY <1>1
    <3> QED
      BY <1>1, <1>5, <3>1
  <2>2. CASE j = 1
    <3>1. next[s] = r
      BY <1>1, <1>2, <1>3, <1>5, <2>2
    <3>2. \A k \in 1..(n - 1) : w[k].sess # s
      BY <2>1, <2>2
    <3> QED
      BY <3>1, <3>2 DEF StartLast
  <2>3. CASE j # 1
    <3>1. j - 1 \in 1..(n - 1) /\ j - 1 \in 1..(Len(m) - 1) /\ (j - 1) + 1 = j
      BY <1>1, <2>3
    <3>2. w[j - 1] = m[j]
      BY <1>1, <3>1
    <3>3. \A k \in ((j - 1) + 1)..(n - 1) : w[k].sess # s
      BY <2>1, <3>1
    <3> QED
      BY <1>5, <3>1, <3>2, <3>3 DEF StartLast
  <2> QED
    BY <2>2, <2>3
<1> QED
  BY <1>4, <1>5 DEF StartLast, w

\* A step that the collector hears nothing of.
LEMMA QuietTurns ==
  ASSUME NEW m \in Seq(Events), TurnsInv(m), UNCHANGED <<starter, counted>>,
         \A r \in Requests : \/ outcome'[r] = outcome[r]
                             \/ phase[r] \notin {"commit", "done"} /\ outcome'[r] = "cancelled",
         \A r \in Requests : phase'[r] \notin {"commit", "done"} =>
            phase[r] \notin {"commit", "done"} /\ outcome'[r] = outcome[r],
         \A r \in Requests : Open(r)' => Open(r) /\ S(r)' = S(r)
  PROVE  TurnsInv(m)'
<1>1. \A i \in 1..Len(m) : m[i].req \in Requests
  BY MailTypes
<1>2. \A i \in 1..Len(m) : m[i].type \in Ends => outcome[m[i].req] \in {"told", "failed"}
  BY DEF TurnsInv, OneEnd, Told
<1>3. \A r \in Requests : outcome'[r] = outcome[r]
                          \/ (outcome[r] = "none" /\ outcome'[r] = "cancelled")
  BY DEF TurnsInv, NoOutcome
<1>4. OneEnd(m)'
  BY <1>1, <1>2, <1>3 DEF TurnsInv, OneEnd
<1>5. Paired(m)'
  BY DEF TurnsInv, Paired, StartLast
<1>6. \A r \in Requests : Entry(r)' = Entry(r)
  BY <1>3 DEF Entry
<1>7. Counted(m)'
  BY <1>6 DEF TurnsInv, Counted, EndWaits
<1>8. NoOutcome'
  BY DEF TurnsInv, NoOutcome
<1> QED
  BY <1>4, <1>5, <1>7, <1>8 DEF TurnsInv

\* A turn starts, and ends.
LEMMA StartedTurns ==
  ASSUME NEW m \in Seq(Events), TurnsInv(m), UNCHANGED metricVars, Alone,
         NEW r \in Requests, NEW e \in Events, e.type = "llm.request.started",
         e.req = r, e.sess = S(r), Others(r), job'[r] = job[r], outcome'[r] = outcome[r],
         phase[r] = "start", phase'[r] = "model"
  PROVE  TurnsInv(Append(m, e))'
<1> DEFINE w == Append(m, e)
<1>1. /\ Len(m) \in Nat /\ Len(w) = Len(m) + 1 /\ w[Len(m) + 1] = e
      /\ \A k \in 1..Len(m) : w[k] = m[k] /\ k \in 1..Len(w)
      /\ \A k \in 1..Len(w) : k \in 1..Len(m) \/ k = Len(m) + 1
  BY Appended
<1>2. /\ starter' = starter /\ counted' = counted /\ e.type \notin Ends
      /\ \A q \in Requests : outcome'[q] = outcome[q] /\ S(q)' = S(q)
  BY DEF Others, metricVars, Ends, S
<1>3. \A i \in 1..Len(m) : m[i].req \in Requests
  BY MailTypes
<1> HIDE DEF w
<1>4. \A i \in 1..Len(w) : w[i].type \in Ends => i \in 1..Len(m) /\ w[i] = m[i]
  BY <1>1, <1>2
<1>5. OneEnd(w)'
  BY <1>1, <1>2, <1>3, <1>4 DEF TurnsInv, OneEnd
<1>6. \A q \in Requests : EndWaits(w, q) <=> EndWaits(m, q)
  BY <1>1, <1>4 DEF EndWaits
<1>7. Counted(w)'
  <2>1. \A q \in Requests : Entry(q)' = Entry(q)
    BY <1>2 DEF Entry
  <2> QED
    BY <1>2, <1>6, <2>1 DEF TurnsInv, Counted
<1>8. NoOutcome'
  BY <1>2 DEF TurnsInv, NoOutcome, Others
<1>9. ASSUME NEW i \in 1..Len(w), w[i].type \in Ends
      PROVE  StartLast(w, starter, i - 1, w[i].req, w[i].sess)
  <2>1. i \in 1..Len(m) /\ w[i] = m[i] /\ i - 1 \in 0..Len(m)
    BY <1>1, <1>4, <1>9
  <2>2. StartLast(m, starter, i - 1, m[i].req, m[i].sess)
    BY <1>9, <2>1 DEF TurnsInv, Paired
  <2>3. StartLast(w, starter, i - 1, m[i].req, m[i].sess)
    BY <2>1, <2>2, StartLastStays DEF w
  <2> QED
    BY <2>1, <2>3
<1>10. ASSUME NEW q \in Requests, Open(q)' PROVE StartLast(w, starter, Len(m) + 1, q, S(q))
  <2>1. CASE q = r
    BY <2>1, StartLastOwn DEF w
  <2>2. CASE q # r
    <3>1. Open(q) /\ Working(q) /\ Working(r)
      BY <1>10, <2>2 DEF Others, Open, Working
    <3>2. S(q) # e.sess
      BY <2>2, <3>1 DEF Alone
    <3>3. StartLast(m, starter, Len(m), q, S(q))
      BY <3>1 DEF TurnsInv, Paired
    <3> QED
      BY <3>2, <3>3, StartLastOther DEF w
  <2> QED
    BY <2>1, <2>2
<1>11. Paired(w)'
  BY <1>1, <1>2, <1>9, <1>10 DEF Paired, StartLast
<1> QED
  BY <1>5, <1>7, <1>8, <1>11 DEF TurnsInv, w

LEMMA EndedTurns ==
  ASSUME NEW m \in Seq(Events), TurnsInv(m), UNCHANGED metricVars, Alone,
         NEW r \in Requests, NEW e \in Events, e.type \in Ends,
         e.req = r, e.sess = S(r), Others(r), job'[r] = job[r], outcome'[r] = Told(e.type),
         Open(r), phase'[r] = "commit"
  PROVE  TurnsInv(Append(m, e))'
<1> DEFINE w == Append(m, e)
<1>1. /\ Len(m) \in Nat /\ Len(w) = Len(m) + 1 /\ w[Len(m) + 1] = e
      /\ \A k \in 1..Len(m) : w[k] = m[k] /\ k \in 1..Len(w)
      /\ \A k \in 1..Len(w) : k \in 1..Len(m) \/ k = Len(m) + 1
      /\ Len(m) + 1 \in 1..Len(w)
  BY Appended
<1>2. /\ starter' = starter /\ counted' = counted
      /\ \A q \in Requests : S(q)' = S(q)
      /\ \A q \in Requests \ {r} : outcome'[q] = outcome[q]
  BY DEF Others, metricVars, S
<1>3. \A i \in 1..Len(m) : m[i].req \in Requests
  BY MailTypes
<1>4. outcome[r] = "none" /\ Told(e.type) \in {"told", "failed"}
  BY DEF TurnsInv, NoOutcome, Open, Told
<1>5. \A i \in 1..Len(m) : m[i].type \in Ends => m[i].req # r
  BY <1>4 DEF TurnsInv, OneEnd, Told
<1> HIDE DEF w
<1>6. OneEnd(w)'
  <2>1. \A i, j \in 1..Len(w) :
           w[i].type \in Ends /\ w[j].type \in Ends /\ w[i].req = w[j].req => i = j
    BY <1>1, <1>5 DEF TurnsInv, OneEnd
  <2>2. ASSUME NEW i \in 1..Len(w), w[i].type \in Ends PROVE outcome'[w[i].req] = Told(w[i].type)
    <3>1. CASE i = Len(m) + 1
      BY <1>1, <3>1
    <3>2. CASE i \in 1..Len(m)
      <4>1. w[i] = m[i] /\ m[i].req \in Requests \ {r} /\ outcome[m[i].req] = Told(m[i].type)
        BY <1>1, <1>3, <1>5, <2>2, <3>2 DEF TurnsInv, OneEnd
      <4> QED
        BY <1>2, <4>1
    <3> QED
      BY <1>1, <3>1, <3>2
  <2> QED
    BY <2>1, <2>2 DEF OneEnd
<1>7. ~EndWaits(m, r) /\ EndWaits(w, r)
      /\ \A q \in Requests \ {r} : EndWaits(w, q) <=> EndWaits(m, q)
  <2>1. ~EndWaits(m, r)
    BY <1>5 DEF EndWaits
  <2>2. EndWaits(w, r)
    BY <1>1 DEF EndWaits
  <2>3. \A q \in Requests \ {r} : EndWaits(w, q) => EndWaits(m, q)
    BY <1>1 DEF EndWaits
  <2>4. \A q \in Requests \ {r} : EndWaits(m, q) => EndWaits(w, q)
    BY <1>1 DEF EndWaits
  <2> QED
    BY <2>1, <2>2, <2>3, <2>4
<1>8. Counted(w)'
  <2>1. \A q \in Requests \ {r} : Entry(q)' = Entry(q)
    BY <1>2 DEF Entry
  <2>2. Entry(r) = <<"no", NoRequest>>
    BY <1>4 DEF Entry
  <2>3. counted[r] = <<"no", NoRequest>>
    BY <1>7, <2>2 DEF TurnsInv, Counted
  <2>4. \A q \in Requests \ {r} :
           counted[q] = IF EndWaits(w, q) THEN <<"no", NoRequest>> ELSE Entry(q)
    BY <1>7 DEF TurnsInv, Counted
  <2> QED
    BY <1>2, <1>7, <2>1, <2>3, <2>4 DEF Counted
<1>9. NoOutcome'
  BY <1>2 DEF TurnsInv, NoOutcome, Others
<1>10. ASSUME NEW i \in 1..Len(w), w[i].type \in Ends
       PROVE  StartLast(w, starter, i - 1, w[i].req, w[i].sess)
  <2>1. CASE i \in 1..Len(m)
    <3>1. w[i] = m[i] /\ i - 1 \in 0..Len(m)
      BY <1>1, <2>1
    <3>2. StartLast(m, starter, i - 1, m[i].req, m[i].sess)
      BY <1>10, <2>1, <3>1 DEF TurnsInv, Paired
    <3>3. StartLast(w, starter, i - 1, m[i].req, m[i].sess)
      BY <3>1, <3>2, StartLastStays DEF w
    <3> QED
      BY <3>1, <3>3
  <2>2. CASE i = Len(m) + 1
    <3>1. StartLast(m, starter, Len(m), r, S(r))
      BY DEF TurnsInv, Paired
    <3>2. Len(m) \in 0..Len(m) /\ i - 1 = Len(m)
      BY <1>1, <2>2
    <3>3. StartLast(w, starter, Len(m), r, S(r))
      BY <3>1, <3>2, StartLastStays DEF w
    <3> QED
      BY <1>1, <2>2, <3>2, <3>3
  <2> QED
    BY <1>1, <2>1, <2>2
<1>11. ASSUME NEW q \in Requests, Open(q)' PROVE StartLast(w, starter, Len(m) + 1, q, S(q))
  <2>1. q # r
    BY <1>11 DEF Open
  <2>2. Open(q) /\ Working(q) /\ Working(r)
    BY <1>11, <2>1 DEF Others, Open, Working
  <2>3. S(q) # e.sess
    BY <2>1, <2>2 DEF Alone
  <2>4. StartLast(m, starter, Len(m), q, S(q))
    BY <2>2 DEF TurnsInv, Paired
  <2> QED
    BY <2>3, <2>4, StartLastOther DEF w
<1>12. Paired(w)'
  BY <1>1, <1>2, <1>10, <1>11 DEF Paired, StartLast
<1> QED
  BY <1>6, <1>8, <1>9, <1>12 DEF TurnsInv, w

\* The collector hears of a start or of an end.
LEMMA TakenTurns ==
  ASSUME NEW m \in Seq(Events), m # <<>>, TurnsInv(m), TurnTypes, HasJob,
         \A i \in 1..Len(m) : m[i].type \in SessionMetrics.on,
         UNCHANGED requestVars, CountRequest(Head(m))
  PROVE  TurnsInv(Tail(m))' /\ TurnTypes'
<1> DEFINE w == Tail(m)
           e == Head(m)
           n == Len(m)
<1>1. /\ n \in Nat /\ n >= 1 /\ Len(w) = n - 1 /\ 1 \in 1..n
      /\ m[1] = e /\ e \in Events /\ w \in Seq(Events)
      /\ \A k \in 1..(n - 1) : w[k] = m[k + 1] /\ k + 1 \in 1..n
  BY Tailed
<1>2. /\ e.sess \in Sessions /\ e.req \in Requests
      /\ e.type # "llm.request.started" => e.type \in Ends
  BY <1>1, SubscriberFacts DEF Events, Ends
<1>3. \A i \in 1..n : m[i].req \in Requests /\ m[i].sess \in Sessions
  BY MailTypes
<1>4. /\ outcome' = outcome /\ phase' = phase
      /\ \A r \in Requests : S(r)' = S(r) /\ (Open(r)' <=> Open(r)) /\ Entry(r)' = Entry(r)
  BY DEF requestVars, S, Open, Entry
<1>5. starter' = [starter EXCEPT ![e.sess] =
         IF e.type = "llm.request.started" THEN e.req ELSE NoRequest]
  BY DEF CountRequest
<1>6. TurnsInv(m) /\ TurnTypes
  OBVIOUS
<1>7. \A i \in 2..n : m[i] = w[i - 1] /\ i - 1 \in 1..(n - 1)
  BY <1>1
<1> HIDE DEF w
<1>8. OneEnd(w)'
  <2>1. OneEnd(m)
    BY <1>6 DEF TurnsInv
  <2>2. \A i \in 1..Len(w) : w[i] = m[i + 1] /\ i + 1 \in 1..n
    BY <1>1
  <2>3. ASSUME NEW i \in 1..Len(w), NEW j \in 1..Len(w), w[i].type \in Ends, w[j].type \in Ends,
               w[i].req = w[j].req
        PROVE  i = j
    <3>1. i + 1 = j + 1
      BY <2>1, <2>2, <2>3 DEF OneEnd
    <3> QED
      BY <1>1, <3>1
  <2>4. \A i \in 1..Len(w) : w[i].type \in Ends => outcome[w[i].req] = Told(w[i].type)
    BY <2>1, <2>2 DEF OneEnd
  <2> QED
    BY <1>4, <2>3, <2>4 DEF OneEnd
<1>9. ASSUME NEW i \in 1..Len(w), w[i].type \in Ends
      PROVE  StartLast(w, starter', i - 1, w[i].req, w[i].sess)
  <2>1. i + 1 \in 1..n /\ i \in 1..n /\ w[i] = m[i + 1] /\ (i + 1) - 1 = i
    BY <1>1
  <2>2. StartLast(m, starter, i, w[i].req, w[i].sess)
    BY <1>6, <1>9, <2>1 DEF TurnsInv, Paired
  <2>3. starter \in [Sessions -> Requests \cup {NoRequest}] /\ w[i].sess \in Sessions
    BY <1>3, <1>6, <2>1 DEF TurnTypes
  <2> QED
    BY <1>5, <2>1, <2>2, <2>3, StartLastTaken DEF w
<1>10. ASSUME NEW r \in Requests, Open(r) PROVE StartLast(w, starter', Len(w), r, S(r))
  <2>1. StartLast(m, starter, n, r, S(r))
    BY <1>6, <1>10 DEF TurnsInv, Paired
  <2>2. S(r) \in Sessions
    <3>1. job[r] \in Jobs
      BY <1>10 DEF Open, HasJob
    <3> QED
      BY <3>1 DEF S, Jobs
  <2>3. starter \in [Sessions -> Requests \cup {NoRequest}] /\ n \in 1..n
    BY <1>1, <1>6 DEF TurnTypes
  <2>4. PICK s \in Sessions : s = S(r)
    BY <2>2
  <2>5. StartLast(w, starter', n - 1, r, s)
    BY <1>5, <2>1, <2>3, <2>4, StartLastTaken DEF w
  <2> QED
    BY <1>1, <2>4, <2>5
<1>11. Paired(w)'
  <2>1. \A i \in 1..Len(w) : w[i].type \in Ends =>
           StartLast(w, starter', i - 1, w[i].req, w[i].sess)
    BY <1>9
  <2>2. \A r \in Requests : Open(r)' => StartLast(w, starter', Len(w), r, S(r)')
    BY <1>4, <1>10
  <2> QED
    BY <2>1, <2>2 DEF Paired, StartLast
<1>12. NoOutcome'
  BY <1>4, <1>6 DEF TurnsInv, NoOutcome
<1>13. CASE e.type = "llm.request.started"
  <2>1. counted' = counted
    BY <1>13 DEF CountRequest
  <2>2. \A r \in Requests : EndWaits(w, r) <=> EndWaits(m, r)
    <3>1. \A r \in Requests : EndWaits(w, r) => EndWaits(m, r)
      BY <1>1 DEF EndWaits
    <3>2. \A i \in 1..n : m[i].type \in Ends => i \in 2..n
      BY <1>1, <1>13 DEF Ends
    <3>3. \A r \in Requests : EndWaits(m, r) => EndWaits(w, r)
      BY <1>1, <1>7, <3>2 DEF EndWaits
    <3> QED
      BY <3>1, <3>3
  <2>3. Counted(w)'
    BY <1>4, <1>6, <2>1, <2>2 DEF TurnsInv, Counted
  <2>4. TurnTypes'
    BY <1>2, <1>5, <1>6, <2>1 DEF TurnTypes
  <2> QED
    BY <1>8, <1>11, <1>12, <2>3, <2>4 DEF TurnsInv, w
<1>14. CASE e.type # "llm.request.started"
  <2> DEFINE r == e.req
             kind == IF e.type = "llm.request.completed" THEN "completed" ELSE "failed"
  <2>1. e.type \in Ends /\ r \in Requests
    BY <1>2, <1>14
  <2>2. counted' = [counted EXCEPT ![r] = <<kind, starter[e.sess]>>]
    BY <1>14 DEF CountRequest
  <2>3. starter[e.sess] = r
    <3>1. StartLast(m, starter, 0, r, e.sess)
      <4>1. StartLast(m, starter, 1 - 1, m[1].req, m[1].sess)
        BY <1>1, <1>6, <2>1 DEF TurnsInv, Paired
      <4> QED
        BY <1>1, <4>1
    <3> QED
      BY <3>1 DEF StartLast
  <2>4. ~EndWaits(w, r)
    <3>1. ASSUME NEW i \in 1..Len(w), w[i].type \in Ends, w[i].req = r PROVE FALSE
      <4>1. i + 1 \in 1..n /\ i + 1 # 1 /\ w[i] = m[i + 1]
        BY <1>1
      <4> QED
        BY <1>1, <1>6, <2>1, <3>1, <4>1 DEF TurnsInv, OneEnd
    <3> QED
      BY <3>1 DEF EndWaits
  <2>5. \A q \in Requests \ {r} : EndWaits(w, q) <=> EndWaits(m, q)
    <3>1. \A q \in Requests : EndWaits(w, q) => EndWaits(m, q)
      BY <1>1 DEF EndWaits
    <3>2. \A i \in 1..n : m[i].req # r => i \in 2..n
      BY <1>1
    <3>3. \A q \in Requests \ {r} : EndWaits(m, q) => EndWaits(w, q)
      BY <1>1, <1>7, <3>2 DEF EndWaits
    <3> QED
      BY <3>1, <3>3
  <2>6. outcome[r] = Told(e.type)
    BY <1>1, <1>6, <2>1 DEF TurnsInv, OneEnd
  <2>7. Entry(r) = <<kind, r>>
    BY <2>1, <2>6 DEF Entry, Told, Ends
  <2> HIDE DEF r, kind
  <2>8. counted'[r] = <<kind, r>> /\ \A q \in Requests \ {r} : counted'[q] = counted[q]
    BY <1>6, <2>1, <2>2, <2>3 DEF TurnTypes
  <2>9. Counted(w)'
    <3>1. \A q \in Requests \ {r} :
             counted[q] = IF EndWaits(w, q) THEN <<"no", NoRequest>> ELSE Entry(q)
      BY <1>6, <2>5 DEF TurnsInv, Counted
    <3> QED
      BY <1>4, <2>1, <2>4, <2>7, <2>8, <3>1 DEF Counted
  <2>10. TurnTypes'
    <3>1. kind \in {"no", "completed", "failed"} /\ starter[e.sess] \in Requests \cup {NoRequest}
      BY <2>1, <2>3 DEF kind
    <3> QED
      BY <1>2, <1>5, <1>6, <2>2, <3>1 DEF TurnTypes
  <2> QED
    BY <1>8, <1>11, <1>12, <2>9, <2>10 DEF TurnsInv, w
<1> QED
  BY <1>13, <1>14

\* What is true of the mailbox of the session collector.
TurnsHold == \A m \in Seq(Events) : m = Box(SessionMetrics) => TurnsInv(m)

LEMMA MetricsSubscribe ==
  /\ SessionMetrics \in Subscribers /\ ToolMetrics \in Subscribers
  /\ \A type \in EventTypes :
        /\ type \in SessionMetrics.on <=> type = "llm.request.started" \/ type \in Ends
        /\ type \in ToolMetrics.on <=> type = "tool.execution.requested"
  /\ SessionMetrics.name = "sessions" /\ ToolMetrics.name = "tools"
  /\ ToolEvents = {"tool.execution.requested", "tool.approval.required"}
<1>1. SessionMetrics \in Subscribers /\ ToolMetrics \in Subscribers
  BY DEF Subscribers
<1> QED
  BY <1>1, SubscriberFacts DEF Ends, EventTypes, ToolEvents

LEMMA InitTurns == Init => TurnsHold /\ TurnTypes
<1> SUFFICES ASSUME Init PROVE TurnsHold /\ TurnTypes
  OBVIOUS
<1>1. Box(SessionMetrics) = <<>>
  BY WaitingEmpty DEF Init, InitBus, Box
<1>2. Len(<<>>) = 0 /\ 1..0 = {}
  OBVIOUS
<1>3. TurnsInv(<<>>)
  BY <1>2 DEF Init, TurnsInv, OneEnd, Paired, Counted, NoOutcome, Entry, EndWaits, Open
<1>4. TurnTypes
  BY DEF Init, TurnTypes
<1> QED
  BY <1>1, <1>3, <1>4 DEF TurnsHold

LEMMA NextTurns ==
  ASSUME TableTypeOK, BusInv, TurnsHold, TurnTypes, [Next]_vars
  PROVE  TurnsHold' /\ TurnTypes'
<1> DEFINE b == Box(SessionMetrics)
<1>1. PICK m \in Seq(Events) : m = b
  BY BoxType, MetricsSubscribe DEF BusInv
<1>2. TurnsInv(m)
  BY <1>1 DEF TurnsHold
<1>3. ASSUME b' = b, TurnsInv(m)' PROVE TurnsHold'
  BY <1>1, <1>3 DEF TurnsHold
<1>4. ASSUME UNCHANGED <<starter, counted>> PROVE TurnTypes'
  BY <1>4 DEF TurnTypes
<1>5. ASSUME NEW r \in Requests, Silent(r) PROVE TurnsHold' /\ TurnTypes'
  <2>1. b' = b
    BY <1>5, SilentBox, MetricsSubscribe
  <2>2. UNCHANGED <<starter, counted>>
    BY <1>5 DEF Silent, metricVars
  <2>3. TurnsInv(m)'
    <3>1. \A q \in Requests : \/ outcome'[q] = outcome[q]
                              \/ phase[q] \notin {"commit", "done"} /\ outcome'[q] = "cancelled"
      BY <1>5 DEF Silent, Others, Working
    <3>2. \A q \in Requests : phase'[q] \notin {"commit", "done"} =>
             phase[q] \notin {"commit", "done"} /\ outcome'[q] = outcome[q]
      BY <1>5 DEF Silent, Others
    <3>3. \A q \in Requests : Open(q)' => Open(q) /\ S(q)' = S(q)
      BY <1>5 DEF Silent, Others, Open, S
    <3> QED
      BY <1>2, <2>2, <3>1, <3>2, <3>3, QuietTurns
  <2> QED
    BY <1>3, <1>4, <2>1, <2>2, <2>3
<1>6. ASSUME NEW r \in Requests, NEW type \in EventTypes, Says(r, type)
      PROVE  TurnsHold' /\ TurnTypes'
  <2>1. PICK e \in Events :
           /\ e.type = type /\ e.req = r /\ e.sess = S(r)
           /\ b' = IF type \in SessionMetrics.on THEN Append(b, e) ELSE b
    BY <1>6, SaysBox, MetricsSubscribe
  <2>2. UNCHANGED metricVars /\ UNCHANGED <<starter, counted>> /\ Alone
    BY <1>6 DEF Says, metricVars, BusInv
  <2>3. CASE type = "llm.request.started"
    <3>1. b' = Append(m, e)
      BY <1>1, <2>1, <2>3, MetricsSubscribe
    <3>2. TurnsInv(Append(m, e))'
      <4>1. /\ Others(r) /\ job'[r] = job[r] /\ outcome'[r] = outcome[r]
            /\ phase[r] = "start" /\ phase'[r] = "model"
        BY <1>6, <2>3 DEF Says
      <4> QED
        BY <1>2, <2>1, <2>2, <2>3, <4>1, StartedTurns
    <3> QED
      BY <1>4, <2>2, <3>1, <3>2 DEF TurnsHold
  <2>4. CASE type \in Ends
    <3>1. b' = Append(m, e)
      BY <1>1, <2>1, <2>4, MetricsSubscribe
    <3>2. TurnsInv(Append(m, e))'
      <4>1. /\ Others(r) /\ job'[r] = job[r] /\ outcome'[r] = Told(type)
            /\ Open(r) /\ phase'[r] = "commit"
        BY <1>6, <2>4 DEF Says, Ends, Told, Open
      <4> QED
        BY <1>2, <2>1, <2>2, <2>4, <4>1, EndedTurns
    <3> QED
      BY <1>4, <2>2, <3>1, <3>2 DEF TurnsHold
  <2>5. CASE type # "llm.request.started" /\ type \notin Ends
    <3>1. b' = b
      BY <2>1, <2>5, MetricsSubscribe
    <3>2. TurnsInv(m)'
      <4>1. \A q \in Requests : outcome'[q] = outcome[q] /\ S(q)' = S(q)
        BY <1>6, <2>5 DEF Says, Others, Ends, S
      <4>2. \A q \in Requests : phase'[q] \notin {"commit", "done"} =>
               phase[q] \notin {"commit", "done"}
        BY <1>6, <2>5 DEF Says, Others, Ends
      <4>3. \A q \in Requests : Open(q)' => Open(q)
        BY <1>6, <2>5 DEF Says, Others, Ends, Open
      <4> QED
        BY <1>2, <2>2, <4>1, <4>2, <4>3, QuietTurns
    <3> QED
      BY <1>3, <1>4, <2>2, <3>1, <3>2
  <2> QED
    BY <2>3, <2>4, <2>5
<1>7. ASSUME UNCHANGED <<requestVars, starter, counted>>, b' = b PROVE TurnsHold' /\ TurnTypes'
  <2>1. TurnsInv(m)'
    <3>1. UNCHANGED <<starter, counted>>
          /\ \A q \in Requests : /\ outcome'[q] = outcome[q] /\ phase'[q] = phase[q]
                                 /\ S(q)' = S(q) /\ (Open(q)' <=> Open(q))
      BY <1>7 DEF requestVars, S, Open
    <3> QED
      BY <1>2, <3>1, QuietTurns
  <2> QED
    BY <1>3, <1>4, <1>7, <2>1
<1>8. ASSUME FansOut \/ Idles PROVE TurnsHold' /\ TurnTypes'
  <2>1. CASE FansOut
    <3>1. b' = b
      BY <2>1, FannedOutBox, MetricsSubscribe DEF FansOut, BusInv
    <3> QED
      BY <1>7, <2>1, <3>1 DEF FansOut, metricVars
  <2>2. CASE Idles
    <3>1. b' = b
      BY <2>2 DEF Idles, Box
    <3> QED
      BY <1>7, <2>2, <3>1 DEF Idles, metricVars
  <2> QED
    BY <1>8, <2>1, <2>2
<1>9. ASSUME Handle PROVE TurnsHold' /\ TurnTypes'
  <2>1. UNCHANGED requestVars
    BY <1>9, HandlePost
  <2>2. CASE Head(ready).handler = "sessions"
    <3>1. b # <<>> /\ Head(b) = Head(ready).event /\ b' = Tail(b)
      BY <1>9, <2>2, HandlePost, MetricsSubscribe
    <3>2. CountRequest(Head(m))
      BY <1>1, <1>9, <2>2, <3>1 DEF Handle
    <3>3. m # <<>> /\ b' = Tail(m) /\ HasJob /\ \A i \in 1..Len(m) : m[i].type \in SessionMetrics.on
      BY <1>1, <3>1, MetricsSubscribe DEF BusInv, Heard
    <3>4. TurnsInv(Tail(m))' /\ TurnTypes'
      BY <1>2, <2>1, <3>2, <3>3, TakenTurns
    <3> QED
      BY <3>3, <3>4 DEF TurnsHold
  <2>3. CASE Head(ready).handler # "sessions"
    <3>1. b' = b
      BY <1>9, <2>3, HandlePost, MetricsSubscribe
    <3>2. UNCHANGED <<starter, counted>>
      BY <1>9, <2>3 DEF Handle
    <3> QED
      BY <1>7, <2>1, <3>1, <3>2
  <2> QED
    BY <2>2, <2>3
<1>10. Effects
  BY NextEffects
<1> QED
  BY <1>5, <1>6, <1>8, <1>9, <1>10 DEF Effects

-----------------------------------------------------------------------------
(***************************************************************************)
(* The tools that the tool collector counts                                *)
(***************************************************************************)
\* The type of its events, and the type that it waits for in vain.
Request == "tool.execution.requested"
Approve == "tool.approval.required"

\* r has not called a tool yet.
Early(r) == phase[r] \in {"new", "settle", "look", "decide", "start", "model"}

\* What was counted and what waits are the tools that were published, one of a request.
ToolsInv(m) ==
  /\ toolCount[Request] + Len(m) = Cardinality(published[Request])
  /\ toolCount[Approve] = 0
  /\ \A r \in Requests : Early(r) => r \notin published[Request]

CountTypes ==
  /\ toolCount \in [ToolEvents -> Nat]
  /\ published \in [ToolEvents -> SUBSET Requests]

LEMMA ToolTypes ==
  /\ Request \in ToolEvents /\ Approve \in ToolEvents /\ Request # Approve
  /\ ToolEvents = {Request, Approve}
BY DEF ToolEvents, Request, Approve

LEMMA PublishedFinite ==
  ASSUME CountTypes, NEW type \in ToolEvents
  PROVE  /\ IsFiniteSet(published[type]) /\ Cardinality(published[type]) \in Nat
         /\ Cardinality(published[type]) <= Cardinality(Requests)
         /\ Cardinality(Requests) \in Nat
<1>1. published[type] \in SUBSET Requests /\ IsFiniteSet(Requests)
  BY ApprovalsAssumption DEF CountTypes
<1>2. IsFiniteSet(published[type]) /\ Cardinality(published[type]) <= Cardinality(Requests)
  BY <1>1, FS_Subset
<1> QED
  BY <1>1, <1>2, FS_CardinalityType

\* A step that the collector hears nothing of.
LEMMA QuietTools ==
  ASSUME NEW m \in Seq(Events), ToolsInv(m), CountTypes, UNCHANGED toolCount,
         published'[Request] = published[Request],
         \A r \in Requests : Early(r)' => Early(r)
  PROVE  ToolsInv(m)'
BY DEF ToolsInv

\* A tool is requested.
LEMMA RequestedTools ==
  ASSUME NEW m \in Seq(Events), ToolsInv(m), CountTypes, UNCHANGED toolCount,
         NEW r \in Requests, NEW e \in Events, Others(r),
         phase[r] = "model", phase'[r] \in {"pend", "record"},
         published' = [published EXCEPT ![Request] = @ \cup {r}]
  PROVE  ToolsInv(Append(m, e))'
<1> DEFINE w == Append(m, e)
<1>1. Len(w) = Len(m) + 1 /\ Len(m) \in Nat
  BY Appended
<1>2. toolCount[Request] \in Nat /\ published'[Request] = published[Request] \cup {r}
  BY ToolTypes DEF CountTypes
<1>3. r \notin published[Request] /\ ~Early(r)'
  BY DEF ToolsInv, Early
<1>4. /\ Cardinality(published'[Request]) = Cardinality(published[Request]) + 1
      /\ Cardinality(published[Request]) \in Nat
  BY <1>2, <1>3, ToolTypes, PublishedFinite, FS_AddElement
<1>5. \A q \in Requests \ {r} : Early(q)' <=> Early(q)
  BY DEF Others, Early
<1> HIDE DEF w
<1>6. ToolsInv(w)'
  <2>1. toolCount'[Request] + Len(w) = Cardinality(published'[Request])
    BY <1>1, <1>2, <1>4 DEF ToolsInv
  <2>2. \A q \in Requests : Early(q)' => q \notin published'[Request]
    BY <1>2, <1>3, <1>5 DEF ToolsInv
  <2> QED
    BY <2>1, <2>2 DEF ToolsInv, w
<1> QED
  BY <1>6 DEF w

\* The collector takes its next event.
LEMMA TakenTools ==
  ASSUME NEW m \in Seq(Events), ToolsInv(m), CountTypes, m # <<>>, Head(m).type = Request,
         CountTool(Head(m)), UNCHANGED <<phase, published>>
  PROVE  ToolsInv(Tail(m))' /\ CountTypes'
<1> DEFINE w == Tail(m)
<1>1. Len(m) \in Nat /\ Len(m) >= 1 /\ Len(w) = Len(m) - 1
  BY Tailed
<1>2. toolCount' = [toolCount EXCEPT ![Request] = @ + 1]
  BY DEF CountTool, Request
<1>3. toolCount \in [ToolEvents -> Nat] /\ toolCount[Request] \in Nat
      /\ published \in [ToolEvents -> SUBSET Requests]
  BY ToolTypes DEF CountTypes
<1>4. toolCount'[Request] = toolCount[Request] + 1 /\ toolCount'[Approve] = toolCount[Approve]
      /\ toolCount' \in [ToolEvents -> Nat]
  BY <1>2, <1>3, ToolTypes
<1> HIDE DEF w
<1>5. Cardinality(published[Request]) \in Nat
  BY ToolTypes, PublishedFinite
<1>6. ToolsInv(w)'
  <2>1. toolCount'[Request] + Len(w) = Cardinality(published'[Request])
    BY <1>1, <1>3, <1>4, <1>5 DEF ToolsInv
  <2> QED
    BY <1>4, <2>1 DEF ToolsInv, Early, w
<1>7. CountTypes'
  BY <1>3, <1>4 DEF CountTypes
<1> QED
  BY <1>6, <1>7 DEF w

\* What is true of the mailbox of the tool collector.
ToolsHold == \A m \in Seq(Events) : m = Box(ToolMetrics) => ToolsInv(m)

LEMMA InitTools == Init => ToolsHold /\ CountTypes
<1> SUFFICES ASSUME Init PROVE ToolsHold /\ CountTypes
  OBVIOUS
<1>1. Box(ToolMetrics) = <<>>
  BY WaitingEmpty DEF Init, InitBus, Box
<1>2. Len(<<>>) = 0
  OBVIOUS
<1>3. Cardinality({}) = 0
  BY FS_EmptySet
<1>4. /\ toolCount[Request] = 0 /\ toolCount[Approve] = 0 /\ published[Request] = {}
      /\ CountTypes
  BY ToolTypes DEF Init, CountTypes
<1>5. ToolsInv(<<>>)
  BY <1>2, <1>3, <1>4 DEF ToolsInv
<1> QED
  BY <1>1, <1>4, <1>5 DEF ToolsHold

LEMMA NextTools ==
  ASSUME TableTypeOK, BusInv, ToolsHold, CountTypes, [Next]_vars
  PROVE  ToolsHold' /\ CountTypes'
<1> DEFINE b == Box(ToolMetrics)
<1>1. PICK m \in Seq(Events) : m = b
  BY BoxType, MetricsSubscribe DEF BusInv
<1>2. ToolsInv(m)
  BY <1>1 DEF ToolsHold
<1>3. ASSUME b' = b, UNCHANGED <<toolCount, published>>,
             \A q \in Requests : Early(q)' => Early(q)
      PROVE  ToolsHold' /\ CountTypes'
  <2>1. ToolsInv(m)'
    BY <1>2, <1>3, QuietTools
  <2> QED
    BY <1>1, <1>3, <2>1 DEF ToolsHold, CountTypes
<1>4. ASSUME NEW r \in Requests, Silent(r) PROVE ToolsHold' /\ CountTypes'
  <2>1. b' = b
    BY <1>4, SilentBox, MetricsSubscribe
  <2>2. UNCHANGED <<toolCount, published>>
    BY <1>4 DEF Silent, metricVars
  <2>3. \A q \in Requests : Early(q)' => Early(q)
    BY <1>4 DEF Silent, Others, Early
  <2> QED
    BY <1>3, <2>1, <2>2, <2>3
<1>5. ASSUME NEW r \in Requests, NEW type \in EventTypes, Says(r, type)
      PROVE  ToolsHold' /\ CountTypes'
  <2>1. PICK e \in Events :
           /\ e.type = type /\ e.req = r
           /\ b' = IF type \in ToolMetrics.on THEN Append(b, e) ELSE b
    BY <1>5, SaysBox, MetricsSubscribe
  <2>2. UNCHANGED toolCount /\ Others(r)
    BY <1>5 DEF Says, metricVars
  <2>3. published' = IF type \in ToolEvents
                     THEN [published EXCEPT ![type] = @ \cup {r}] ELSE published
    BY <1>5 DEF Says
  <2>4. CountTypes'
    BY <2>2, <2>3 DEF CountTypes
  <2>5. CASE type = Request
    <3>1. b' = Append(m, e)
      BY <1>1, <2>1, <2>5, MetricsSubscribe DEF Request
    <3>2. ToolsInv(Append(m, e))'
      <4>1. phase[r] = "model" /\ phase'[r] \in {"pend", "record"}
        BY <1>5, <2>5 DEF Says, Request
      <4>2. published' = [published EXCEPT ![Request] = @ \cup {r}]
        BY <2>3, <2>5, ToolTypes
      <4> QED
        BY <1>2, <2>1, <2>2, <4>1, <4>2, RequestedTools
    <3> QED
      BY <2>4, <3>1, <3>2 DEF ToolsHold
  <2>6. CASE type # Request
    <3>1. b' = b
      BY <2>1, <2>6, MetricsSubscribe DEF Request
    <3>2. \A q \in Requests : Early(q)' => Early(q)
      BY <1>5, <2>6 DEF Says, Others, Early, Request
    <3>3. published'[Request] = published[Request]
      BY <2>3, <2>6, ToolTypes DEF CountTypes
    <3>4. ToolsInv(m)'
      BY <1>2, <2>2, <3>2, <3>3, QuietTools
    <3> QED
      BY <1>1, <2>4, <3>1, <3>4 DEF ToolsHold
  <2> QED
    BY <2>5, <2>6
<1>6. ASSUME FansOut \/ Idles PROVE ToolsHold' /\ CountTypes'
  <2>1. b' = b
    <3>1. CASE FansOut
      BY <3>1, FannedOutBox, MetricsSubscribe DEF FansOut, BusInv
    <3>2. CASE Idles
      BY <3>2 DEF Idles, Box
    <3> QED
      BY <1>6, <3>1, <3>2
  <2>2. UNCHANGED <<toolCount, published>> /\ \A q \in Requests : Early(q)' => Early(q)
    BY <1>6 DEF FansOut, Idles, requestVars, metricVars, Early
  <2> QED
    BY <1>3, <2>1, <2>2
<1>7. ASSUME Handle PROVE ToolsHold' /\ CountTypes'
  <2>1. UNCHANGED <<phase, published>>
    BY <1>7 DEF Handle, requestVars, historyVars
  <2>2. CASE Head(ready).handler = "tools"
    <3>1. b # <<>> /\ Head(b) = Head(ready).event /\ b' = Tail(b)
      BY <1>7, <2>2, HandlePost, MetricsSubscribe
    <3>2. CountTool(Head(m))
      BY <1>1, <1>7, <2>2, <3>1 DEF Handle
    <3>3. m # <<>> /\ b' = Tail(m)
      BY <1>1, <3>1
    <3>4. Head(m).type = Request
      <4>1. ToolMetrics.on = {Request}
        BY SubscriberFacts DEF Request
      <4>2. \A i \in 1..Len(m) : m[i].type = Request
        BY <1>1, <4>1, MetricsSubscribe DEF BusInv, Heard
      <4>3. 1 \in 1..Len(m) /\ Head(m) = m[1]
        BY <3>3, Tailed
      <4> QED
        BY <4>2, <4>3
    <3>5. ToolsInv(Tail(m))' /\ CountTypes'
      BY <1>2, <2>1, <3>2, <3>3, <3>4, TakenTools
    <3> QED
      BY <3>3, <3>5 DEF ToolsHold
  <2>3. CASE Head(ready).handler # "tools"
    <3>1. b' = b
      BY <1>7, <2>3, HandlePost, MetricsSubscribe
    <3>2. UNCHANGED toolCount
      BY <1>7, <2>3 DEF Handle
    <3>3. \A q \in Requests : Early(q)' => Early(q)
      BY <2>1 DEF Early
    <3> QED
      BY <1>3, <2>1, <3>1, <3>2, <3>3
  <2> QED
    BY <2>2, <2>3
<1>8. Effects
  BY NextEffects
<1> QED
  BY <1>4, <1>5, <1>6, <1>7, <1>8 DEF Effects

-----------------------------------------------------------------------------
(***************************************************************************)
(* The collectors agree with the turns                                     *)
(***************************************************************************)
MetricsInv == TableTypeOK /\ BusInv /\ TurnsHold /\ TurnTypes /\ ToolsHold /\ CountTypes

LEMMA MetricsHold == Spec => []MetricsInv
<1>1. Init => TurnsHold /\ TurnTypes /\ ToolsHold /\ CountTypes
  BY InitTurns, InitTools
<1>2. TableTypeOK /\ BusInv /\ (TurnsHold /\ TurnTypes /\ ToolsHold /\ CountTypes) /\ [Next]_vars
        => (TurnsHold /\ TurnTypes /\ ToolsHold /\ CountTypes)'
  BY NextTurns, NextTools
<1>3. Spec => [](TurnsHold /\ TurnTypes /\ ToolsHold /\ CountTypes)
  BY <1>1, <1>2, BusHolds, PTL DEF Spec
<1> QED
  BY <1>3, BusHolds, PTL DEF MetricsInv

LEMMA AgreeFromInv == MetricsInv => MetricsAgree
<1> SUFFICES ASSUME MetricsInv PROVE MetricsAgree
  OBVIOUS
<1>1. /\ TableTypeOK /\ BusInv /\ TurnsHold /\ TurnTypes /\ ToolsHold /\ CountTypes
      /\ ready \in Seq(Tasks)
  BY DEF MetricsInv, BusInv
<1>2. ASSUME ready = <<>>, NEW r \in Requests PROVE counted[r] = Entry(r)
  <2>1. Box(SessionMetrics) = <<>>
    BY <1>2, WaitingEmpty DEF Box
  <2>2. TurnsInv(<<>>)
    BY <1>1, <2>1, EmptySeq DEF TurnsHold
  <2>3. ~EndWaits(<<>>, r)
    BY DEF EndWaits
  <2> QED
    BY <2>2, <2>3 DEF TurnsInv, Counted
<1>3. ASSUME ready = <<>> PROVE Counts("tool.execution.requested")
  <2>1. Box(ToolMetrics) = <<>>
    BY <1>3, WaitingEmpty DEF Box
  <2>2. ToolsInv(<<>>)
    BY <1>1, <2>1, EmptySeq DEF ToolsHold
  <2>3. toolCount[Request] \in Nat /\ Len(<<>>) = 0
    BY <1>1, ToolTypes DEF CountTypes
  <2> QED
    BY <2>2, <2>3 DEF ToolsInv, Counts, Request
<1> QED
  BY <1>2, <1>3 DEF MetricsAgree, Entry

\* Once the bus has caught up, the collectors have counted every turn as its client was
\* told, with its own start, and every tool that a turn called.
THEOREM CollectorsAgree == Spec => []MetricsAgree
BY MetricsHold, AgreeFromInv, PTL

-----------------------------------------------------------------------------
(***************************************************************************)
(* Types                                                                   *)
(***************************************************************************)
LEMMA TypesFromInv == MetricsInv => TypeOK
<1> SUFFICES ASSUME MetricsInv PROVE TypeOK
  OBVIOUS
<1>1. /\ TableTypeOK /\ BusInv /\ TurnTypes /\ ToolsHold /\ CountTypes
      /\ ready \in Seq(Tasks)
      /\ outcome \in [Requests -> {"none", "told", "failed", "cancelled"}]
  BY DEF MetricsInv, BusInv
<1>2. toolCount \in [ToolEvents -> 0..Cardinality(Requests)]
  <2>1. PICK m \in Seq(Events) : m = Box(ToolMetrics)
    BY <1>1, BoxType, MetricsSubscribe
  <2>2. ToolsInv(m) /\ Len(m) \in Nat
    BY <1>1, <2>1, LenProperties DEF ToolsHold
  <2>3. /\ Cardinality(published[Request]) \in Nat /\ Cardinality(Requests) \in Nat
        /\ Cardinality(published[Request]) <= Cardinality(Requests)
        /\ toolCount[Request] \in Nat
    BY <1>1, ToolTypes, PublishedFinite DEF CountTypes
  <2>4. \A t \in ToolEvents : toolCount[t] \in 0..Cardinality(Requests)
    BY <2>2, <2>3, ToolTypes DEF ToolsInv
  <2> QED
    BY <1>1, <2>4 DEF CountTypes
<1> QED
  BY <1>1, <1>2 DEF TypeOK, TableTypeOK, TurnTypes, CountTypes

\* The types: no queue, table or counter of the model leaves its values; a tool is
\* counted at most once per request.
THEOREM TypeCorrect == Spec => []TypeOK
BY MetricsHold, TypesFromInv, PTL
=============================================================================
