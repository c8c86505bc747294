--------------------- MODULE MessageOrchestration_proofs ---------------------
(***************************************************************************)
(* Proofs about the request handling of agent-runtime, for any number of   *)
(* requests, sessions, calls and agents and for every set of failures.     *)
(*                                                                         *)
(* Type correctness and that requests work on a session one at a time are  *)
(* proved together (Control), because what a request does next has to fit  *)
(* what it was asked and told (Fits) and a request that is let in has to   *)
(* be one that waits (InLine).  On top of it:                              *)
(*   - the contexts stay consistent;                                       *)
(*   - what a conversation shows, for requests that arrive at any time: in *)
(*     a session of which no turn began before the last was committed (one *)
(*     that is not overtaken), a turn owns the messages until it commits   *)
(*     (Turns), what it has read of them is current and what it writes     *)
(*     extends them (Drafts), and a call goes its way from the model to    *)
(*     its answer in the hands of one request at a time (CallsInOrder).    *)
(***************************************************************************)
EXTENDS MessageOrchestration, FiniteSetTheorems, SequenceTheorems, WellFoundedInduction,
        TLAPS

\* Where a request is agrees with what it was asked to do and what the model
\* told it.
Fits(r) ==
  phase[r] # "new" =>
    /\ job[r] \in Jobs
    /\ job[r].kind \in {"tool", "hitl"} => job[r].call \in Calls
    /\ job[r].kind \in {"switch", "rest"} => job[r].agent \in Agents
    /\ phase[r] = "add" => job[r].kind = "user"
    /\ phase[r] \in {"decide", "result"} => job[r].kind \in {"tool", "hitl"}
    /\ phase[r] \in {"context", "queued"} => job[r].kind # "rest"
    /\ phase[r] = "explicit" => job[r].agent \in Agents
    /\ phase[r] = "pend" => told[r].kind \in {"call", "forbidden"}
    /\ phase[r] \in {"pend", "record"} =>
         \/ told[r].kind = "text"
         \/ told[r].kind \in {"call", "forbidden", "switch"} /\ told[r].call \in Calls
    /\ phase[r] = "handover" => told[r].agent \in Agents

\* The queue of a session lists requests that wait for it, each once, and who
\* works on a session holds its lock.
Waiting ==
  \A s \in Sessions : \A i \in 1..Len(queue[s]) :
     phase[queue[s][i]] = "queued" /\ S(queue[s][i]) = s
Once ==
  \A s \in Sessions : \A i, j \in 1..Len(queue[s]) :
     queue[s][i] = queue[s][j] => i = j
WorkersHold == \A r \in Requests : Works(r) => holder[S(r)] = r

InLine == Waiting /\ Once /\ WorkersHold

Control ==
  /\ TypeOK
  /\ \A r \in Requests : Fits(r)
  /\ InLine

-----------------------------------------------------------------------------
(***************************************************************************)
(* Positions in sequences                                                  *)
(***************************************************************************)
\* Removing the i-th element shifts the later ones down by one.
LEMMA RemoveAtFacts ==
  ASSUME NEW X, NEW q \in Seq(X), NEW i \in 1..Len(q)
  PROVE  /\ RemoveAt(q, i) \in Seq(X)
         /\ Len(RemoveAt(q, i)) = Len(q) - 1
         /\ \A j \in 1..(Len(q) - 1) :
               RemoveAt(q, i)[j] = IF j < i THEN q[j] ELSE q[j + 1]
<1> DEFINE left  == SubSeq(q, 1, i - 1)
           right == SubSeq(q, i + 1, Len(q))
<1>1. Len(q) \in Nat /\ \A k \in 1..Len(q) : q[k] \in X
  BY ElementOfSeq, LenProperties
<1>2. /\ left \in Seq(X)
      /\ Len(left) = i - 1
      /\ \A k \in 1..(i - 1) : left[k] = q[k]
  <2>1. \A k \in 1..(i - 1) : q[k] \in X
    BY <1>1
  <2>2. 1 \in Int /\ i - 1 \in Int
    BY <1>1
  <2> QED
    BY <1>1, <2>1, <2>2, SubSeqProperties
<1>3. /\ right \in Seq(X)
      /\ Len(right) = Len(q) - i
      /\ \A k \in 1..(Len(q) - i) : right[k] = q[i + k]
  <2>1. \A k \in (i + 1)..Len(q) : q[k] \in X
    BY <1>1
  <2>2. i + 1 \in Int /\ Len(q) \in Int
    BY <1>1
  <2> HIDE DEF right
  <2>3. /\ right \in Seq(X)
        /\ Len(right) = IF i + 1 <= Len(q) THEN Len(q) - (i + 1) + 1 ELSE 0
        /\ \A k \in 1..(Len(q) - (i + 1) + 1) : right[k] = q[i + 1 + k - 1]
    BY <2>1, <2>2, SubSeqProperties DEF right
  <2> QED
    BY <1>1, <2>3
<1>4. RemoveAt(q, i) = left \o right
  BY DEF RemoveAt
<1> HIDE DEF left, right
<1>5. /\ left \o right \in Seq(X)
      /\ Len(left \o right) = Len(left) + Len(right)
      /\ \A k \in 1..(Len(left) + Len(right)) :
            (left \o right)[k] = IF k <= Len(left) THEN left[k] ELSE right[k - Len(left)]
  BY <1>2, <1>3, ConcatProperties
<1>6. RemoveAt(q, i) \in Seq(X) /\ Len(RemoveAt(q, i)) = Len(q) - 1
  BY <1>1, <1>2, <1>3, <1>4, <1>5
<1>7. ASSUME NEW j \in 1..(Len(q) - 1)
      PROVE  RemoveAt(q, i)[j] = IF j < i THEN q[j] ELSE q[j + 1]
  <2>1. RemoveAt(q, i)[j] = IF j <= i - 1 THEN left[j] ELSE right[j - (i - 1)]
    BY <1>1, <1>2, <1>3, <1>4, <1>5
  <2>2. CASE j < i
    BY <1>1, <1>2, <2>1, <2>2
  <2>3. CASE ~(j < i)
    BY <1>1, <1>3, <2>1, <2>3
  <2> QED
    BY <2>2, <2>3
<1> QED
  BY <1>6, <1>7

\* A nonempty set of positions has a last one.
LEMMA HasMaximum ==
  ASSUME NEW n \in Nat, NEW I \in SUBSET (1..n), I # {}
  PROVE  \E i \in I : \A j \in I : j <= i
<1> DEFINE Above(i) == {j \in I : j > i}
           T == {Above(i) : i \in I}
<1>1. IsFiniteSet(I)
  <2>1. IsFiniteSet(1..n)
    BY FS_Interval
  <2> QED BY <2>1, FS_Subset
<1>2. IsWellFoundedOn(StrictSubsetOrdering(I), FiniteSubsetsOf(I))
  BY FS_StrictSubsetOrderingWellFounded
<1>3. T \subseteq FiniteSubsetsOf(I)
  BY <1>1, FS_Subset DEF FiniteSubsetsOf
<1>4. T # {}
  OBVIOUS
<1>5. PICK x \in T : \A y \in T : ~ (<<y, x>> \in StrictSubsetOrdering(I))
  <2> HIDE DEF T
  <2> QED BY <1>2, <1>3, <1>4, WFMin
<1>6. PICK i \in I : x = Above(i)
  OBVIOUS
<1>7. ASSUME NEW j \in I, ~(j <= i) PROVE FALSE
  <2>1. j > i /\ i \in Nat /\ j \in Nat
    BY <1>7
  <2>2. Above(j) \subseteq Above(i)
    <3>1. \A k \in I : k > j => k > i
      BY <2>1
    <3> QED BY <3>1
  <2>3. j \in Above(i) /\ j \notin Above(j)
    BY <2>1
  <2>4. Above(j) \in T
    OBVIOUS
  <2>5. <<Above(j), x>> \in StrictSubsetOrdering(I)
    BY <1>6, <2>2, <2>3 DEF StrictSubsetOrdering
  <2> QED BY <1>5, <2>4, <2>5
<1> QED BY <1>7

-----------------------------------------------------------------------------
(***************************************************************************)
(* Types of the parts                                                      *)
(***************************************************************************)
DbTypeOK ==
  /\ db \in Images
  /\ writer \in Requests \cup {NoRequest}
  /\ writer # NoRequest => work \in Images
  /\ seen \in [Requests -> Images \cup {NoImage}]

RequestTypeOK ==
  /\ phase \in [Requests -> Phases]
  /\ job \in [Requests -> Jobs \cup {NoJob}]
  /\ hop \in [Requests -> {"route", "first", "second"}]
  /\ actor \in [Requests -> Agents]
  /\ told \in [Requests -> Answers]
  /\ outcome \in [Requests -> {"none", "ok", "error", "aborted"}]
  /\ issued \subseteq Sessions \X Calls
  /\ delivered \subseteq Sessions \X Calls
  /\ overtaken \subseteq Sessions
  /\ forgotten \subseteq Sessions \X Calls

LEMMA TypeParts ==
  /\ Control <=> /\ MutexTypeOK /\ DbTypeOK /\ RequestTypeOK
                 /\ \A r \in Requests : Fits(r)
                 /\ InLine
<1> QED
  BY DEF Control, TypeOK, DbTypeOK, RequestTypeOK, Fits

\* What an operation works from and where it writes are images.
LEMMA ImageTypes ==
  ASSUME DbTypeOK, NEW r \in Requests
  PROVE  /\ Target(r) \in Images
         /\ HasRead(r) => Source(r) \in Images
<1> QED
  BY NoRequestAssumption DEF DbTypeOK, Target, Source, HasRead

LEMMA WriteTypes ==
  ASSUME DbTypeOK, NEW r \in Requests, NEW img \in Images, Write(r, img)
  PROVE  DbTypeOK'
<1> QED
  BY DEF DbTypeOK, Write

LEMMA ReadOnlyTypes ==
  ASSUME DbTypeOK, NEW r \in Requests, ReadOnly(r)
  PROVE  DbTypeOK'
<1> QED
  BY DEF DbTypeOK, ReadOnly

LEMMA RollBackTypes ==
  ASSUME DbTypeOK, NEW r \in Requests, RollBack(r)
  PROVE  DbTypeOK'
<1> QED
  BY DEF DbTypeOK, RollBack

LEMMA UnchangedTypes ==
  ASSUME DbTypeOK, UNCHANGED dbVars
  PROVE  DbTypeOK'
<1> QED
  BY DEF DbTypeOK, dbVars

\* The three ways of changing an image give an image.
LEMMA MessageTypes ==
  ASSUME DbTypeOK, NEW r \in Requests, S(r) \in Sessions, HasRead(r),
         NEW e \in Entries
  PROVE  WithMessage(r, e) \in Images
<1>1. Target(r) \in Images /\ Source(r) \in Images
  BY ImageTypes
<1>2. Append(Source(r).msgs[S(r)], e) \in Seq(Entries)
  <2>1. Source(r).msgs[S(r)] \in Seq(Entries)
    BY <1>1 DEF Images
  <2> QED
    BY <2>1, AppendProperties
<1> QED
  BY <1>1, <1>2 DEF WithMessage, Images

LEMMA ContextTypes ==
  ASSUME DbTypeOK, NEW r \in Requests, S(r) \in Sessions, NEW c \in Contexts
  PROVE  WithContext(r, c) \in Images
<1>1. Target(r) \in Images
  BY ImageTypes
<1> QED
  BY <1>1 DEF WithContext, Images

LEMMA ApprovalTypes ==
  ASSUME DbTypeOK, NEW r \in Requests, NEW c, NEW status \in Statuses
  PROVE  WithApproval(r, c, status) \in Images
<1>1. Target(r) \in Images
  BY ImageTypes
<1> QED
  BY <1>1 DEF WithApproval, Images

LEMMA NewContextTypes ==
  ASSUME NEW a \in Agents
  PROVE  NewContext(a) \in Contexts
<1>1. <<>> \in Seq(Switches)
  BY EmptySeq
<1> QED
  BY <1>1 DEF NewContext, Contexts

LEMMA SwitchTypes ==
  ASSUME NEW c \in Contexts, NEW a \in Agents
  PROVE  SwitchTo(c, a) \in Contexts
<1>1. c.agent \in Agents /\ c.count \in Nat /\ c.hist \in Seq(Switches)
  BY DEF Contexts
<1>2. [from |-> c.agent, to |-> a] \in Switches
  BY <1>1 DEF Switches
<1>3. Append(c.hist, [from |-> c.agent, to |-> a]) \in Seq(Switches)
  BY <1>1, <1>2, AppendProperties
<1> QED
  BY <1>1, <1>3 DEF SwitchTo, Contexts

\* find_switch_mode_call_id returns a call that the conversation shows.
LEMMA LastSwitchCallFound ==
  ASSUME NEW q \in Seq(Entries), SwitchCallsIn(q) # {}
  PROVE  \E i \in 1..Len(q) : q[i] = Entry("switch", LastSwitchCall(q))
<1> DEFINE I == SwitchCallsIn(q)
           last == CHOOSE i \in I : \A j \in I : j <= i
<1>1. Len(q) \in Nat /\ I \in SUBSET (1..Len(q))
  BY LenProperties DEF SwitchCallsIn
<1>2. \E i \in I : \A j \in I : j <= i
  BY <1>1, HasMaximum
<1>3. last \in I
  BY <1>2
<1>4. last \in 1..Len(q) /\ q[last] \in Entries /\ q[last].kind = "switch"
  BY <1>1, <1>3, ElementOfSeq DEF SwitchCallsIn
<1>5. LastSwitchCall(q) = q[last].ref
  BY DEF LastSwitchCall
<1> HIDE DEF last
<1>6. q[last] = Entry("switch", q[last].ref)
  BY <1>4 DEF Entries, Entry
<1> QED
  BY <1>4, <1>5, <1>6

LEMMA LastSwitchCallTypes ==
  ASSUME NEW q \in Seq(Entries), SwitchCallsIn(q) # {}
  PROVE  LastSwitchCall(q) \in Calls
<1>1. PICK i \in 1..Len(q) : q[i] = Entry("switch", LastSwitchCall(q))
  BY LastSwitchCallFound
<1>2. q[i] \in Entries
  BY ElementOfSeq
<1> QED
  BY <1>1, <1>2 DEF Entries, Entry

-----------------------------------------------------------------------------
(***************************************************************************)
(* A step of one request that does not touch the session locks             *)
(***************************************************************************)
\* While the queues stay as they are, so does what they say.
LEMMA WaitersKept ==
  ASSUME Waiting, Once, MutexTypeOK, NEW r \in Requests,
         UNCHANGED queue,
         phase[r] # "queued",
         \A q \in Requests \ {r} : phase'[q] = phase[q] /\ job'[q] = job[q]
  PROVE  Waiting' /\ Once'
<1>1. ASSUME NEW s \in Sessions, NEW i \in 1..Len(queue[s])
      PROVE  phase'[queue[s][i]] = "queued" /\ S(queue[s][i])' = s
  <2>1. queue[s] \in Seq(Requests) /\ queue[s][i] \in Requests
    BY ElementOfSeq DEF MutexTypeOK
  <2>2. phase[queue[s][i]] = "queued" /\ S(queue[s][i]) = s
    BY DEF Waiting
  <2> QED
    BY <2>1, <2>2 DEF S
<1> QED
  BY <1>1 DEF Waiting, Once, S

LEMMA OwnStepInLine ==
  ASSUME InLine, MutexTypeOK, NEW r \in Requests,
         UNCHANGED mutexVars, UNCHANGED job,
         phase[r] # "queued",
         phase'[r] \in Active => phase[r] \in Active,
         \A q \in Requests \ {r} : phase'[q] = phase[q]
  PROVE  InLine'
<1>1. holder' = holder /\ queue' = queue /\ job' = job
  BY DEF mutexVars
<1>2. Waiting' /\ Once'
  BY <1>1, WaitersKept DEF InLine
<1>3. ASSUME NEW q \in Requests, Works(q)'
      PROVE  holder'[S(q)'] = q
  <2>1. Works(q)
    BY <1>1, <1>3 DEF Works
  <2> QED
    BY <1>1, <2>1 DEF InLine, WorkersHold, S
<1> QED
  BY <1>2, <1>3 DEF InLine, WorkersHold, S

LEMMA OwnStepControl ==
  ASSUME Control, NEW r \in Requests,
         UNCHANGED mutexVars, UNCHANGED job,
         phase[r] \in Active \cup {"commit"},
         NEW p \in Active \cup {"commit", "done"},
         p \in Active => phase[r] \in Active,
         phase' = [phase EXCEPT ![r] = p],
         told' \in [Requests -> Answers],
         \A q \in Requests \ {r} : told'[q] = told[q],
         Fits(r)', DbTypeOK',
         hop' \in [Requests -> {"route", "first", "second"}],
         actor' \in [Requests -> Agents],
         outcome' \in [Requests -> {"none", "ok", "error", "aborted"}],
         issued' \subseteq Sessions \X Calls,
         delivered' \subseteq Sessions \X Calls,
         UNCHANGED historyVars
  PROVE  Control'
<1>1. MutexTypeOK /\ RequestTypeOK /\ InLine /\ \A q \in Requests : Fits(q)
  BY TypeParts
<1>2. phase' \in [Requests -> Phases] /\ phase'[r] = p
      /\ \A q \in Requests \ {r} : phase'[q] = phase[q]
  BY <1>1 DEF RequestTypeOK, Phases
<1>3. phase[r] # "queued"
  BY DEF Active, DbPhases
<1>4. RequestTypeOK'
  BY <1>1, <1>2 DEF RequestTypeOK, historyVars
<1>5. MutexTypeOK'
  BY <1>1 DEF MutexTypeOK, mutexVars
<1>6. InLine'
  BY <1>1, <1>2, <1>3, OwnStepInLine
<1>7. ASSUME NEW q \in Requests PROVE Fits(q)'
  <2>1. CASE q = r
    BY <2>1
  <2>2. CASE q # r
    BY <1>1, <1>2, <2>2 DEF Fits
  <2> QED
    BY <2>1, <2>2
<1>8. \A q \in Requests : phase'[q] # "new" => job'[q] \in Jobs
  BY <1>7 DEF Fits
<1> QED
  BY <1>4, <1>5, <1>6, <1>7, <1>8 DEF Control, TypeOK, DbTypeOK, RequestTypeOK

\* What is known of a request in the middle of its work.
LEMMA AtWork ==
  ASSUME Control, NEW r \in Requests, phase[r] # "new"
  PROVE  /\ MutexTypeOK /\ DbTypeOK /\ RequestTypeOK /\ Fits(r)
         /\ job[r] \in Jobs /\ S(r) \in Sessions
<1>1. MutexTypeOK /\ DbTypeOK /\ RequestTypeOK /\ Fits(r)
  BY TypeParts
<1>2. job[r] \in Jobs
  BY <1>1 DEF Fits
<1> QED
  BY <1>1, <1>2 DEF Jobs, S

LEMMA LoadControl ==
  ASSUME Control, NEW r \in Requests, Load(r)
  PROVE  Control'
<1>1. phase[r] \in DbPhases
  BY DEF Load
<1>2. MutexTypeOK /\ DbTypeOK /\ RequestTypeOK /\ InLine /\ \A q \in Requests : Fits(q)
  BY TypeParts
<1>3. DbTypeOK'
  BY <1>2 DEF DbTypeOK, Load
<1>4. UNCHANGED <<mutexVars, phase, outcome, localVars, clientVars>>
  BY DEF Load
<1>5. RequestTypeOK' /\ MutexTypeOK' /\ \A q \in Requests : Fits(q)'
  BY <1>2, <1>4 DEF RequestTypeOK, MutexTypeOK, Fits, mutexVars, localVars, clientVars, historyVars
<1>6. InLine'
  BY <1>2, <1>4, OwnStepInLine, <1>1 DEF DbPhases, Active, localVars
<1> QED
  BY <1>2, <1>3, <1>4, <1>5, <1>6 DEF Control, TypeOK, DbTypeOK, RequestTypeOK, localVars

LEMMA AddUserMessageControl ==
  ASSUME Control, NEW r \in Requests, AddUserMessage(r)
  PROVE  Control'
<1>1. /\ phase[r] = "add" /\ HasRead(r)
      /\ UNCHANGED <<mutexVars, localVars, clientVars>>
  BY DEF AddUserMessage
<1>2. /\ DbTypeOK /\ RequestTypeOK /\ Fits(r) /\ S(r) \in Sessions
      /\ job[r].kind = "user"
  BY <1>1, AtWork DEF Fits
<1>3. PICK p \in {"context", "leave"} :
        /\ phase' = [phase EXCEPT ![r] = p]
        /\ outcome' \in [Requests -> {"none", "ok", "error", "aborted"}]
        /\ DbTypeOK'
  <2>1. CASE Write(r, WithMessage(r, Entry("user", r))) /\ Goto(r, "context")
    <3>1. Entry("user", r) \in Entries
      BY DEF Entry, Entries
    <3>2. DbTypeOK'
      BY <1>1, <1>2, <2>1, <3>1, MessageTypes, WriteTypes
    <3> QED
      BY <1>2, <2>1, <3>2 DEF Goto, RequestTypeOK
  <2>2. CASE ReadOnly(r) /\ Finish(r, "error")
    BY <1>2, <2>2, ReadOnlyTypes DEF Finish, RequestTypeOK
  <2> QED
    BY <2>1, <2>2 DEF AddUserMessage
<1>4. Fits(r)'
  BY <1>1, <1>2, <1>3 DEF Fits, RequestTypeOK, localVars
<1> QED
  BY <1>1, <1>2, <1>3, <1>4, OwnStepControl
  DEF RequestTypeOK, localVars, clientVars, historyVars, Active, DbPhases

LEMMA DecideControl ==
  ASSUME Control, NEW r \in Requests, Decide(r)
  PROVE  Control'
<1>1. /\ phase[r] = "decide" /\ HasRead(r)
      /\ UNCHANGED <<mutexVars, localVars, clientVars>>
  BY DEF Decide
<1>2. /\ DbTypeOK /\ RequestTypeOK /\ Fits(r) /\ job[r] \in Jobs
      /\ job[r].kind \in {"tool", "hitl"}
  BY <1>1, AtWork DEF Fits
<1>3. PICK p \in {"result", "context", "leave"} :
        /\ phase' = [phase EXCEPT ![r] = p]
        /\ outcome' \in [Requests -> {"none", "ok", "error", "aborted"}]
        /\ DbTypeOK'
  <2>1. CASE /\ Write(r, WithApproval(r, job[r].call, job[r].verdict))
             /\ Goto(r, IF job[r].kind = "hitl" THEN "result" ELSE "context")
    <3>1. job[r].verdict \in Statuses
      BY <1>2 DEF Jobs, Statuses
    <3>2. DbTypeOK'
      BY <1>2, <2>1, <3>1, ApprovalTypes, WriteTypes
    <3> QED
      BY <1>2, <2>1, <3>2 DEF Goto, RequestTypeOK
  <2>2. CASE ReadOnly(r) /\ Goto(r, "context")
    BY <1>2, <2>2, ReadOnlyTypes DEF Goto, RequestTypeOK
  <2>3. CASE ReadOnly(r) /\ Finish(r, "error")
    BY <1>2, <2>3, ReadOnlyTypes DEF Finish, RequestTypeOK
  <2> QED
    BY <2>1, <2>2, <2>3 DEF Decide
<1>4. Fits(r)'
  BY <1>1, <1>2, <1>3 DEF Fits, RequestTypeOK, localVars
<1> QED
  BY <1>1, <1>2, <1>3, <1>4, OwnStepControl
  DEF RequestTypeOK, localVars, clientVars, historyVars, Active, DbPhases

LEMMA AddResultControl ==
  ASSUME Control, NEW r \in Requests, AddResult(r)
  PROVE  Control'
<1>1. /\ phase[r] = "result" /\ HasRead(r)
      /\ UNCHANGED <<mutexVars, job, actor, told, clientVars>>
  BY DEF AddResult
<1>2. /\ DbTypeOK /\ RequestTypeOK /\ Fits(r) /\ S(r) \in Sessions
      /\ job[r].kind \in {"tool", "hitl"} /\ job[r].call \in Calls
  BY <1>1, AtWork DEF Fits
<1>3. PICK p \in {"context", "agent", "leave"} :
        /\ phase' = [phase EXCEPT ![r] = p]
        /\ outcome' \in [Requests -> {"none", "ok", "error", "aborted"}]
        /\ hop' \in [Requests -> {"route", "first", "second"}]
        /\ DbTypeOK'
  <2>1. CASE /\ Write(r, WithMessage(r, Entry("result", job[r].call)))
             /\ IF job[r].kind = "hitl"
                  THEN Goto(r, "context") /\ UNCHANGED hop
                  ELSE Goto(r, "agent") /\ hop' = [hop EXCEPT ![r] = "first"]
    <3>1. Entry("result", job[r].call) \in Entries
      BY <1>2 DEF Entry, Entries
    <3>2. DbTypeOK'
      BY <1>1, <1>2, <2>1, <3>1, MessageTypes, WriteTypes
    <3> QED
      BY <1>2, <2>1, <3>2 DEF Goto, RequestTypeOK
  <2>2. CASE ReadOnly(r) /\ Finish(r, "error") /\ UNCHANGED hop
    BY <1>2, <2>2, ReadOnlyTypes DEF Finish, RequestTypeOK
  <2> QED
    BY <2>1, <2>2 DEF AddResult
<1>4. Fits(r)'
  BY <1>1, <1>2, <1>3 DEF Fits, RequestTypeOK
<1> QED
  BY <1>1, <1>2, <1>3, <1>4, OwnStepControl
  DEF RequestTypeOK, clientVars, historyVars, Active, DbPhases

\* Where a request goes once its context, with agent a, is known.
LEMMA AfterContextFacts ==
  ASSUME RequestTypeOK, NEW r \in Requests, phase[r] = "context", Fits(r),
         NEW a \in Agents, AfterContext(r, a)
  PROVE  \E p \in {"result", "agent", "explicit", "leave"} :
           /\ phase' = [phase EXCEPT ![r] = p]
           /\ outcome' \in [Requests -> {"none", "ok", "error", "aborted"}]
           /\ hop' \in [Requests -> {"route", "first", "second"}]
           /\ actor' \in [Requests -> Agents]
           /\ p = "explicit" => job[r].agent \in Agents
           /\ p = "result" => job[r].kind = "tool"
<1>1. /\ job[r] \in Jobs /\ job[r].kind \in {"user", "tool", "hitl", "switch"}
      /\ job[r].agent \in Agents \cup {NoAgent}
      /\ job[r].kind = "switch" => job[r].agent \in Agents
  BY DEF Fits, Jobs, Kinds
<1>2. actor' \in [Requests -> Agents]
  BY DEF AfterContext, RequestTypeOK
<1>3. CASE job[r].kind = "tool"
  BY <1>2, <1>3 DEF AfterContext, Goto, RequestTypeOK
<1>4. CASE job[r].kind = "hitl"
  BY <1>2, <1>4 DEF AfterContext, StartAgent, Goto, RequestTypeOK
<1>5. CASE job[r].kind = "user"
  BY <1>1, <1>2, <1>5 DEF AfterContext, StartAgent, Goto, RequestTypeOK
<1>6. CASE job[r].kind = "switch"
  BY <1>1, <1>2, <1>6 DEF AfterContext, Finish, Goto, RequestTypeOK
<1> QED
  BY <1>1, <1>3, <1>4, <1>5, <1>6

\* A known context is a context.
LEMMA KnownContextTypes ==
  ASSUME DbTypeOK, NEW r \in Requests, S(r) \in Sessions, HasRead(r), KnownContext(r)
  PROVE  Source(r).ctx[S(r)] \in Contexts
<1>1. Source(r) \in Images
  BY ImageTypes
<1> QED
  BY <1>1 DEF KnownContext, Images

LEMMA GetContextControl ==
  ASSUME Control, NEW r \in Requests, GetContext(r)
  PROVE  Control'
<1>1. /\ phase[r] = "context" /\ HasRead(r)
      /\ UNCHANGED <<mutexVars, job, told, clientVars>>
  BY DEF GetContext
<1>2. /\ DbTypeOK /\ RequestTypeOK /\ Fits(r) /\ job[r] \in Jobs /\ S(r) \in Sessions
  BY <1>1, AtWork
<1>3. InitialAgent(r) \in Agents
  BY <1>2, MessageOrchestrationAssumption DEF InitialAgent, Jobs
<1>4. PICK a \in Agents : AfterContext(r, a) /\ DbTypeOK'
  <2>1. CASE KnownContext(r) /\ ReadOnly(r) /\ AfterContext(r, Source(r).ctx[S(r)].agent)
    <3>1. Source(r).ctx[S(r)].agent \in Agents
      BY <1>1, <1>2, <2>1, KnownContextTypes DEF Contexts
    <3> QED
      BY <1>2, <2>1, <3>1, ReadOnlyTypes
  <2>2. CASE /\ Write(r, WithContext(r, NewContext(InitialAgent(r))))
             /\ AfterContext(r, InitialAgent(r))
    <3>1. WithContext(r, NewContext(InitialAgent(r))) \in Images
      BY <1>2, <1>3, NewContextTypes, ContextTypes
    <3> QED
      BY <1>2, <1>3, <2>2, <3>1, WriteTypes
  <2> QED
    BY <2>1, <2>2 DEF GetContext
<1>5. PICK p \in {"result", "agent", "explicit", "leave"} :
        /\ phase' = [phase EXCEPT ![r] = p]
        /\ outcome' \in [Requests -> {"none", "ok", "error", "aborted"}]
        /\ hop' \in [Requests -> {"route", "first", "second"}]
        /\ actor' \in [Requests -> Agents]
        /\ p = "explicit" => job[r].agent \in Agents
        /\ p = "result" => job[r].kind = "tool"
  BY <1>1, <1>2, <1>4, AfterContextFacts
<1>6. Fits(r)'
  BY <1>1, <1>2, <1>5 DEF Fits, RequestTypeOK
<1> QED
  BY <1>1, <1>2, <1>4, <1>5, <1>6, OwnStepControl
  DEF RequestTypeOK, clientVars, historyVars, Active, DbPhases

LEMMA SwitchSaveTypes ==
  ASSUME DbTypeOK, NEW r \in Requests, S(r) \in Sessions, HasRead(r),
         NEW a \in Agents, SavesSwitch(r, a)
  PROVE  DbTypeOK'
<1>1. CASE KnownContext(r)
  <2>1. SwitchTo(Source(r).ctx[S(r)], a) \in Contexts
    BY <1>1, KnownContextTypes, SwitchTypes
  <2>2. WithContext(r, SwitchTo(Source(r).ctx[S(r)], a)) \in Images
    BY <2>1, ContextTypes
  <2> QED
    BY <1>1, <2>2, WriteTypes DEF SavesSwitch
<1>2. CASE ~KnownContext(r)
  <2>1. WithContext(r, NewContext(a)) \in Images
    BY NewContextTypes, ContextTypes
  <2> QED
    BY <1>2, <2>1, WriteTypes DEF SavesSwitch
<1> QED
  BY <1>1, <1>2

LEMMA ExplicitSwitchControl ==
  ASSUME Control, NEW r \in Requests, ExplicitSwitch(r)
  PROVE  Control'
<1>1. /\ phase[r] = "explicit" /\ HasRead(r)
      /\ UNCHANGED <<mutexVars, job, told, clientVars>>
  BY DEF ExplicitSwitch
<1>2. /\ DbTypeOK /\ RequestTypeOK /\ Fits(r) /\ S(r) \in Sessions
      /\ job[r].agent \in Agents
  BY <1>1, AtWork DEF Fits
<1>3. PICK p \in {"agent", "leave"} :
        /\ phase' = [phase EXCEPT ![r] = p]
        /\ outcome' \in [Requests -> {"none", "ok", "error", "aborted"}]
        /\ hop' \in [Requests -> {"route", "first", "second"}]
        /\ actor' \in [Requests -> Agents]
        /\ DbTypeOK'
  <2>1. CASE /\ SavesSwitch(r, job[r].agent)
             /\ actor' = [actor EXCEPT ![r] = job[r].agent]
             /\ IF job[r].kind = "user"
                  THEN StartAgent(r, job[r].agent)
                  ELSE Finish(r, "ok") /\ UNCHANGED hop
    <3>1. DbTypeOK'
      BY <1>1, <1>2, <2>1, SwitchSaveTypes
    <3> QED
      BY <1>2, <2>1, <3>1 DEF StartAgent, Finish, Goto, RequestTypeOK
  <2>2. CASE ReadOnly(r) /\ Finish(r, "error") /\ UNCHANGED <<actor, hop>>
    BY <1>2, <2>2, ReadOnlyTypes DEF Finish, RequestTypeOK
  <2> QED
    BY <2>1, <2>2 DEF ExplicitSwitch
<1>4. Fits(r)'
  BY <1>1, <1>2, <1>3 DEF Fits, RequestTypeOK
<1> QED
  BY <1>1, <1>2, <1>3, <1>4, OwnStepControl
  DEF RequestTypeOK, clientVars, historyVars, Active, DbPhases

LEMMA InsertConflictControl ==
  ASSUME Control, NEW r \in Requests, InsertConflict(r)
  PROVE  Control'
<1>1. /\ phase[r] \in {"context", "explicit"} /\ RollBack(r) /\ Finish(r, "aborted")
      /\ UNCHANGED <<mutexVars, localVars, clientVars>>
  BY DEF InsertConflict
<1>2. DbTypeOK /\ RequestTypeOK /\ Fits(r)
  BY <1>1, AtWork
<1>3. DbTypeOK'
  BY <1>1, <1>2, RollBackTypes
<1>4. Fits(r)'
  BY <1>1, <1>2 DEF Fits, Finish, RequestTypeOK, localVars
<1> QED
  BY <1>1, <1>2, <1>3, <1>4, OwnStepControl
  DEF Finish, RequestTypeOK, localVars, clientVars, historyVars, Active, DbPhases

LEMMA MissingAgentControl ==
  ASSUME Control, NEW r \in Requests, MissingAgent(r)
  PROVE  Control'
<1>1. /\ phase[r] = "agent" /\ Finish(r, "error")
      /\ UNCHANGED <<mutexVars, dbVars, localVars, clientVars>>
  BY DEF MissingAgent
<1>2. DbTypeOK /\ RequestTypeOK /\ Fits(r)
  BY <1>1, AtWork
<1>3. DbTypeOK'
  BY <1>1, <1>2, UnchangedTypes
<1>4. Fits(r)'
  BY <1>1, <1>2 DEF Fits, Finish, RequestTypeOK, localVars
<1> QED
  BY <1>1, <1>2, <1>3, <1>4, OwnStepControl
  DEF Finish, RequestTypeOK, localVars, clientVars, historyVars, Active, DbPhases

\* After a switch chunk a request answers the call or ends.
LEMMA AfterSwitchChunkFacts ==
  ASSUME RequestTypeOK, NEW r \in Requests, AfterSwitchChunk(r)
  PROVE  \E p \in {"answer", "leave"} :
           /\ phase' = [phase EXCEPT ![r] = p]
           /\ outcome' \in [Requests -> {"none", "ok", "error", "aborted"}]
<1> QED
  BY DEF AfterSwitchChunk, Finish, Goto, RequestTypeOK

LEMMA ClassifyControl ==
  ASSUME Control, NEW r \in Requests, Classify(r)
  PROVE  Control'
<1>1. /\ phase[r] = "agent" /\ AfterSwitchChunk(r)
      /\ UNCHANGED <<mutexVars, dbVars, job, hop, actor, clientVars>>
  BY DEF Classify
<1>2. DbTypeOK /\ RequestTypeOK /\ Fits(r)
  BY <1>1, AtWork
<1>3. DbTypeOK'
  BY <1>1, <1>2, UnchangedTypes
<1>4. PICK a \in RouteTargets :
        told' = [told EXCEPT ![r] = [kind |-> "switch", call |-> NoCall, agent |-> a]]
  BY DEF Classify
<1>5. told' \in [Requests -> Answers] /\ \A q \in Requests \ {r} : told'[q] = told[q]
  <2>1. a \in Agents
    BY <1>4, MessageOrchestrationAssumption DEF RouteTargets
  <2> QED
    BY <1>2, <1>4, <2>1 DEF RequestTypeOK, Answers
<1>6. PICK p \in {"answer", "leave"} :
        /\ phase' = [phase EXCEPT ![r] = p]
        /\ outcome' \in [Requests -> {"none", "ok", "error", "aborted"}]
  BY <1>1, <1>2, AfterSwitchChunkFacts
<1>7. Fits(r)'
  BY <1>1, <1>2, <1>6 DEF Fits, RequestTypeOK
<1> QED
  BY <1>1, <1>2, <1>3, <1>5, <1>6, <1>7, OwnStepControl
  DEF RequestTypeOK, clientVars, historyVars, Active, DbPhases

LEMMA NewIssue ==
  ASSUME RequestTypeOK, NEW s \in Sessions, NEW c \in Calls, issued' = issued \cup {<<s, c>>}
  PROVE  issued' \subseteq Sessions \X Calls
<1>1. issued \subseteq Sessions \X Calls
  BY DEF RequestTypeOK
<1>2. <<s, c>> \in Sessions \X Calls
  OBVIOUS
<1> QED
  BY <1>1, <1>2

LEMMA ConsultControl ==
  ASSUME Control, NEW r \in Requests, Consult(r)
  PROVE  Control'
<1>1. /\ phase[r] = "agent"
      /\ UNCHANGED <<mutexVars, dbVars, job, hop, actor, delivered, historyVars>>
  BY DEF Consult
<1>2. DbTypeOK /\ RequestTypeOK /\ Fits(r) /\ S(r) \in Sessions
  BY <1>1, AtWork
<1>3. DbTypeOK'
  BY <1>1, <1>2, UnchangedTypes
<1> DEFINE Heard(p, t) ==
             /\ phase' = [phase EXCEPT ![r] = p]
             /\ told' = [told EXCEPT ![r] = t]
             /\ outcome' \in [Requests -> {"none", "ok", "error", "aborted"}]
             /\ issued' \subseteq Sessions \X Calls
             /\ p \in {"pend", "record"} =>
                  \/ t.kind = "text"
                  \/ t.kind \in {"call", "forbidden", "switch"} /\ t.call \in Calls
             /\ p = "pend" => t.kind \in {"call", "forbidden"}
<1>4. PICK p \in {"record", "pend", "leave"}, t \in Answers : Heard(p, t)
  <2>1. CASE Finish(r, "error") /\ UNCHANGED <<told, issued>>
    <3>1. told' = [told EXCEPT ![r] = told[r]] /\ told[r] \in Answers
      BY <1>2, <2>1 DEF RequestTypeOK
    <3> QED
      BY <1>2, <2>1, <3>1 DEF Finish, RequestTypeOK
  <2>2. CASE /\ told' = [told EXCEPT ![r] = [Silence EXCEPT !.kind = "text"]]
             /\ Goto(r, "record") /\ UNCHANGED issued
    <3>1. [Silence EXCEPT !.kind = "text"] \in Answers
      BY DEF Silence, Answers
    <3>2. [Silence EXCEPT !.kind = "text"].kind = "text"
      BY DEF Silence
    <3> QED
      BY <1>2, <2>2, <3>1, <3>2 DEF Goto, RequestTypeOK
  <2>3. ASSUME NEW c \in Calls \ Issued, issued' = issued \cup {<<S(r), c>>},
               NEW k \in {"call", "forbidden"},
               told' = [told EXCEPT ![r] = [kind |-> k, call |-> c, agent |-> NoAgent]],
               Goto(r, IF c \in Guarded THEN "pend" ELSE "record")
        PROVE  \E p \in {"record", "pend", "leave"}, t \in Answers : Heard(p, t)
    <3>1. [kind |-> k, call |-> c, agent |-> NoAgent] \in Answers
      BY DEF Answers
    <3>2. issued' \subseteq Sessions \X Calls
      BY <1>2, <2>3, NewIssue
    <3> QED
      BY <1>2, <2>3, <3>1, <3>2 DEF Goto, RequestTypeOK
  <2>4. ASSUME NEW c \in Calls \ Issued, issued' = issued \cup {<<S(r), c>>},
               NEW a \in Agents \cup {NoAgent},
               told' = [told EXCEPT ![r] = [kind |-> "switch", call |-> c, agent |-> a]],
               Goto(r, "record")
        PROVE  \E p \in {"record", "pend", "leave"}, t \in Answers : Heard(p, t)
    <3>1. [kind |-> "switch", call |-> c, agent |-> a] \in Answers
      BY DEF Answers
    <3>2. issued' \subseteq Sessions \X Calls
      BY <1>2, <2>4, NewIssue
    <3> QED
      BY <1>2, <2>4, <3>1, <3>2 DEF Goto, RequestTypeOK
  <2> QED
    BY <2>1, <2>2, <2>3, <2>4 DEF Consult, ModelFails, AnswerText, CallTool, CallSwitchMode
<1>5. told' \in [Requests -> Answers] /\ \A q \in Requests \ {r} : told'[q] = told[q]
  BY <1>2, <1>4 DEF RequestTypeOK
<1>6. Fits(r)'
  BY <1>1, <1>2, <1>4 DEF Fits, RequestTypeOK
<1> QED
  BY <1>1, <1>2, <1>3, <1>4, <1>5, <1>6, OwnStepControl
  DEF RequestTypeOK, Active, DbPhases

LEMMA AddPendingControl ==
  ASSUME Control, NEW r \in Requests, AddPending(r)
  PROVE  Control'
<1>1. /\ phase[r] = "pend" /\ Goto(r, "record")
      /\ Write(r, WithApproval(r, told[r].call, "pending"))
      /\ UNCHANGED <<mutexVars, localVars, clientVars>>
  BY DEF AddPending
<1>2. DbTypeOK /\ RequestTypeOK /\ Fits(r)
  BY <1>1, AtWork
<1>3. DbTypeOK'
  <2>1. "pending" \in Statuses
    BY DEF Statuses
  <2> QED
    BY <1>1, <1>2, <2>1, ApprovalTypes, WriteTypes
<1>4. Fits(r)'
  BY <1>1, <1>2 DEF Fits, Goto, RequestTypeOK, localVars
<1> QED
  BY <1>1, <1>2, <1>3, <1>4, OwnStepControl
  DEF Goto, RequestTypeOK, localVars, clientVars, historyVars, Active, DbPhases

LEMMA RecordControl ==
  ASSUME Control, NEW r \in Requests, Record(r)
  PROVE  Control'
<1>1. /\ phase[r] = "record" /\ HasRead(r)
      /\ UNCHANGED <<mutexVars, localVars, issued, historyVars>>
  BY DEF Record
<1>2. /\ DbTypeOK /\ RequestTypeOK /\ Fits(r) /\ S(r) \in Sessions
      /\ \/ told[r].kind = "text"
         \/ told[r].kind \in {"call", "forbidden", "switch"} /\ told[r].call \in Calls
  BY <1>1, AtWork DEF Fits
<1>3. PICK p \in {"answer", "leave"} :
        /\ phase' = [phase EXCEPT ![r] = p]
        /\ outcome' \in [Requests -> {"none", "ok", "error", "aborted"}]
        /\ delivered' \subseteq Sessions \X Calls
        /\ DbTypeOK'
  <2>1. CASE /\ Write(r, WithMessage(r, AnswerEntry(r)))
             /\ CASE told[r].kind = "switch" -> AfterSwitchChunk(r)
                  [] told[r].kind = "forbidden" -> Finish(r, "error")
                  [] OTHER -> Finish(r, "ok")
             /\ delivered' = IF told[r].kind = "call"
                               THEN delivered \cup {<<S(r), told[r].call>>}
                               ELSE delivered
    <3>1. AnswerEntry(r) \in Entries
      BY <1>2 DEF AnswerEntry, Entry, Entries
    <3>2. DbTypeOK'
      BY <1>1, <1>2, <2>1, <3>1, MessageTypes, WriteTypes
    <3>3. delivered' \subseteq Sessions \X Calls
      BY <1>2, <2>1 DEF RequestTypeOK
    <3>4. CASE told[r].kind = "switch"
      BY <1>2, <2>1, <3>2, <3>3, <3>4, AfterSwitchChunkFacts
    <3>5. CASE told[r].kind # "switch"
      <4>1. Finish(r, "error") \/ Finish(r, "ok")
        BY <2>1, <3>5
      <4> QED
        BY <1>2, <3>2, <3>3, <4>1 DEF Finish, RequestTypeOK
    <3> QED
      BY <3>4, <3>5
  <2>2. CASE ReadOnly(r) /\ Finish(r, "error") /\ UNCHANGED delivered
    BY <1>2, <2>2, ReadOnlyTypes DEF Finish, RequestTypeOK
  <2> QED
    BY <2>1, <2>2 DEF Record
<1>4. Fits(r)'
  BY <1>1, <1>2, <1>3 DEF Fits, RequestTypeOK, localVars
<1> QED
  BY <1>1, <1>2, <1>3, <1>4, OwnStepControl
  DEF RequestTypeOK, localVars, Active, DbPhases

LEMMA AnswerSwitchControl ==
  ASSUME Control, NEW r \in Requests, AnswerSwitch(r)
  PROVE  Control'
<1>1. /\ phase[r] = "answer" /\ HasRead(r)
      /\ UNCHANGED <<mutexVars, localVars, clientVars>>
  BY DEF AnswerSwitch
<1>2. DbTypeOK /\ RequestTypeOK /\ Fits(r) /\ S(r) \in Sessions
  BY <1>1, AtWork
<1>3. PICK p \in {"handover", "leave"} :
        /\ phase' = [phase EXCEPT ![r] = p]
        /\ outcome' \in [Requests -> {"none", "ok", "error", "aborted"}]
        /\ p = "handover" => told[r].agent # NoAgent
        /\ DbTypeOK'
  <2>1. CASE /\ told[r].agent # NoAgent /\ OpenSwitchCall(r)
             /\ Write(r, WithMessage(r, Entry("result", LastSwitchCall(Source(r).msgs[S(r)]))))
             /\ Goto(r, "handover")
    <3>1. Source(r).msgs[S(r)] \in Seq(Entries)
      BY <1>1, <1>2, ImageTypes DEF Images
    <3>2. LastSwitchCall(Source(r).msgs[S(r)]) \in Calls
      BY <2>1, <3>1, LastSwitchCallTypes DEF OpenSwitchCall
    <3>3. Entry("result", LastSwitchCall(Source(r).msgs[S(r)])) \in Entries
      BY <3>2 DEF Entry, Entries
    <3>4. DbTypeOK'
      BY <1>1, <1>2, <2>1, <3>3, MessageTypes, WriteTypes
    <3> QED
      BY <1>2, <2>1, <3>4 DEF Goto, RequestTypeOK
  <2>2. CASE told[r].agent # NoAgent /\ ReadOnly(r) /\ Goto(r, "handover")
    BY <1>2, <2>2, ReadOnlyTypes DEF Goto, RequestTypeOK
  <2>3. CASE ReadOnly(r) /\ Finish(r, "error")
    BY <1>2, <2>3, ReadOnlyTypes DEF Finish, RequestTypeOK
  <2> QED
    BY <2>1, <2>2, <2>3 DEF AnswerSwitch
<1>4. Fits(r)'
  <2>1. told[r].agent \in Agents \cup {NoAgent}
    BY <1>2 DEF RequestTypeOK, Answers
  <2> QED
    BY <1>1, <1>2, <1>3, <2>1 DEF Fits, RequestTypeOK, localVars
<1> QED
  BY <1>1, <1>2, <1>3, <1>4, OwnStepControl
  DEF RequestTypeOK, localVars, clientVars, historyVars, Active, DbPhases

LEMMA HandoverControl ==
  ASSUME Control, NEW r \in Requests, Handover(r)
  PROVE  Control'
<1>1. /\ phase[r] = "handover" /\ HasRead(r)
      /\ UNCHANGED <<mutexVars, job, told, clientVars>>
  BY DEF Handover
<1>2. /\ DbTypeOK /\ RequestTypeOK /\ Fits(r) /\ S(r) \in Sessions
      /\ told[r].agent \in Agents
  BY <1>1, AtWork DEF Fits
<1>3. PICK p \in {"agent", "leave"} :
        /\ phase' = [phase EXCEPT ![r] = p]
        /\ outcome' \in [Requests -> {"none", "ok", "error", "aborted"}]
        /\ hop' \in [Requests -> {"route", "first", "second"}]
        /\ actor' \in [Requests -> Agents]
        /\ DbTypeOK'
  <2>1. CASE /\ SavesSwitch(r, told[r].agent)
             /\ actor' = [actor EXCEPT ![r] = told[r].agent]
             /\ hop' = [hop EXCEPT ![r] = IF @ = "route" THEN "first" ELSE "second"]
             /\ Goto(r, "agent")
    <3>1. DbTypeOK'
      BY <1>1, <1>2, <2>1, SwitchSaveTypes
    <3> QED
      BY <1>2, <2>1, <3>1 DEF Goto, RequestTypeOK
  <2>2. CASE ReadOnly(r) /\ Finish(r, "error") /\ UNCHANGED <<actor, hop>>
    BY <1>2, <2>2, ReadOnlyTypes DEF Finish, RequestTypeOK
  <2> QED
    BY <2>1, <2>2 DEF Handover
<1>4. Fits(r)'
  BY <1>1, <1>2, <1>3 DEF Fits, RequestTypeOK
<1> QED
  BY <1>1, <1>2, <1>3, <1>4, OwnStepControl
  DEF RequestTypeOK, clientVars, historyVars, Active, DbPhases

LEMMA CommitControl ==
  ASSUME Control, NEW r \in Requests, Commit(r)
  PROVE  Control'
<1>1. /\ phase[r] = "commit" /\ phase' = [phase EXCEPT ![r] = "done"]
      /\ UNCHANGED <<mutexVars, seen, outcome, localVars, clientVars>>
  BY DEF Commit
<1>2. DbTypeOK /\ RequestTypeOK /\ Fits(r)
  BY <1>1, AtWork
<1>3. DbTypeOK'
  BY <1>2, NoRequestAssumption DEF DbTypeOK, Commit
<1>4. Fits(r)'
  BY <1>1, <1>2 DEF Fits, RequestTypeOK, localVars
<1> QED
  BY <1>1, <1>2, <1>3, <1>4, OwnStepControl
  DEF RequestTypeOK, localVars, clientVars, historyVars, Active, DbPhases

LEMMA BusyTimeoutControl ==
  ASSUME Control, NEW r \in Requests, BusyTimeout(r)
  PROVE  Control'
<1>1. /\ phase[r] \in DbPhases /\ RollBack(r) /\ Finish(r, "aborted")
      /\ UNCHANGED <<mutexVars, localVars, clientVars>>
  BY DEF BusyTimeout
<1>2. DbTypeOK /\ RequestTypeOK /\ Fits(r)
  BY <1>1, AtWork DEF DbPhases
<1>3. DbTypeOK'
  BY <1>1, <1>2, RollBackTypes
<1>4. Fits(r)'
  BY <1>1, <1>2 DEF Fits, Finish, RequestTypeOK, localVars, DbPhases
<1> QED
  BY <1>1, <1>2, <1>3, <1>4, OwnStepControl
  DEF Finish, RequestTypeOK, localVars, clientVars, historyVars, Active, DbPhases

-----------------------------------------------------------------------------
(***************************************************************************)
(* Steps that touch the session locks                                      *)
(***************************************************************************)
\* What remains to be shown of a step of r once its lock part is done.
LEMMA LockStepControl ==
  ASSUME Control, NEW r \in Requests,
         MutexTypeOK', InLine', DbTypeOK', RequestTypeOK', Fits(r)',
         \A q \in Requests \ {r} :
            phase'[q] = phase[q] /\ job'[q] = job[q] /\ told'[q] = told[q]
  PROVE  Control'
<1>1. ASSUME NEW q \in Requests PROVE Fits(q)'
  <2>1. CASE q = r
    BY <2>1
  <2>2. CASE q # r
    <3>1. Fits(q)
      BY TypeParts
    <3> QED
      BY <3>1, <2>2 DEF Fits
  <2> QED
    BY <2>1, <2>2
<1>2. \A q \in Requests : phase'[q] # "new" => job'[q] \in Jobs
  BY <1>1 DEF Fits
<1> QED
  BY <1>1, <1>2 DEF Control, TypeOK, DbTypeOK, RequestTypeOK

LEMMA ReleaseControl ==
  ASSUME Control, NEW r \in Requests, Release(r)
  PROVE  Control'
<1>1. /\ phase[r] = "leave" /\ Goto(r, "commit")
      /\ hop' = [hop EXCEPT ![r] = "first"]
      /\ actor' = [actor EXCEPT ![r] = Orchestrator]
      /\ told' = [told EXCEPT ![r] = Silence]
      /\ UNCHANGED <<dbVars, job, clientVars>>
  BY DEF Release
<1>2. /\ MutexTypeOK /\ DbTypeOK /\ RequestTypeOK /\ Fits(r) /\ InLine
      /\ S(r) \in Sessions
  BY <1>1, AtWork, TypeParts
<1>3. DbTypeOK'
  BY <1>1, <1>2, UnchangedTypes
<1>4. RequestTypeOK'
  BY <1>1, <1>2, MessageOrchestrationAssumption
  DEF RequestTypeOK, Goto, Phases, Silence, Answers, clientVars, historyVars
<1>5. Fits(r)'
  BY <1>1, <1>2 DEF Fits, Goto, RequestTypeOK
<1>6. /\ phase'[r] = "commit"
      /\ \A q \in Requests \ {r} :
            phase'[q] = phase[q] /\ job'[q] = job[q] /\ told'[q] = told[q]
  BY <1>1, <1>2 DEF Goto, RequestTypeOK
<1>7. InLine' /\ MutexTypeOK'
  <2>1. CASE UNCHANGED mutexVars
    <3>1. MutexTypeOK'
      BY <1>2, <2>1 DEF MutexTypeOK, mutexVars
    <3> QED
      BY <1>1, <1>2, <1>6, <2>1, <3>1, OwnStepInLine DEF Active, DbPhases
  <2>2. CASE job[r].kind # "rest" /\ Exit(S(r))
    <3>1. queue' = queue /\ holder' = [holder EXCEPT ![S(r)] = NoRequest]
      BY <2>2 DEF Exit
    <3>2. MutexTypeOK'
      BY <1>2, <3>1 DEF MutexTypeOK
    <3>3. Waiting' /\ Once'
      BY <1>1, <1>2, <1>6, <3>1, WaitersKept DEF InLine
    <3>4. ASSUME NEW q \in Requests, Works(q)'
          PROVE  holder'[S(q)] = q
      <4>1. q # r /\ Works(q)
        BY <1>1, <1>6, <3>4 DEF Works, Active, DbPhases
      <4>2. holder[S(q)] = q /\ holder[S(r)] = r
        BY <1>1, <1>2, <2>2, <4>1 DEF InLine, WorkersHold, Works, Active
      <4> QED
        BY <1>2, <3>1, <4>1, <4>2 DEF MutexTypeOK
    <3> QED
      BY <1>1, <3>2, <3>3, <3>4 DEF InLine, WorkersHold, S
  <2> QED
    BY <2>1, <2>2 DEF Release
<1> QED
  BY <1>3, <1>4, <1>5, <1>6, <1>7, LockStepControl

\* A request that leaves the queue of its session leaves no trace in it.
LEMMA WaitersLeft ==
  ASSUME Waiting, Once, MutexTypeOK, NEW r \in Requests,
         NEW s \in Sessions, NEW k \in 1..Len(queue[s]), queue[s][k] = r,
         NEW rest \in Seq(Requests), Len(rest) = Len(queue[s]) - 1,
         \A j \in 1..(Len(queue[s]) - 1) :
            rest[j] = IF j < k THEN queue[s][j] ELSE queue[s][j + 1],
         queue' = [queue EXCEPT ![s] = rest],
         UNCHANGED job,
         \A q \in Requests \ {r} : phase'[q] = phase[q]
  PROVE  Waiting' /\ Once'
<1> DEFINE shift(j) == IF j < k THEN j ELSE j + 1
<1>1. Len(queue[s]) \in Nat /\ queue'[s] = rest
  BY LenProperties DEF MutexTypeOK
<1>2. ASSUME NEW j \in 1..Len(rest)
      PROVE  /\ shift(j) \in 1..Len(queue[s]) /\ shift(j) # k
             /\ rest[j] = queue[s][shift(j)]
  <2>1. j \in 1..(Len(queue[s]) - 1)
    OBVIOUS
  <2>2. CASE j < k
    BY <1>1, <2>1, <2>2
  <2>3. CASE ~(j < k)
    BY <1>1, <2>1, <2>3
  <2> QED
    BY <2>2, <2>3
<1>3. ASSUME NEW j \in 1..Len(rest)
      PROVE  rest[j] \in Requests \ {r} /\ phase[rest[j]] = "queued" /\ S(rest[j]) = s
  <2>1. rest[j] \in Requests
    BY ElementOfSeq
  <2>2. rest[j] # queue[s][k]
    BY <1>2 DEF Once
  <2>3. phase[rest[j]] = "queued" /\ S(rest[j]) = s
    BY <1>2 DEF Waiting
  <2> QED
    BY <2>1, <2>2, <2>3
<1>4. ASSUME NEW t \in Sessions, t # s, NEW i \in 1..Len(queue[t])
      PROVE  queue[t][i] \in Requests \ {r} /\ phase[queue[t][i]] = "queued"
             /\ S(queue[t][i]) = t
  <2>1. queue[t][i] \in Requests
    BY ElementOfSeq DEF MutexTypeOK
  <2>2. S(queue[t][i]) = t /\ S(queue[s][k]) = s /\ phase[queue[t][i]] = "queued"
    BY DEF Waiting
  <2> QED
    BY <1>4, <2>1, <2>2
<1>5. ASSUME NEW t \in Sessions, NEW i \in 1..Len(queue'[t])
      PROVE  phase'[queue'[t][i]] = "queued" /\ job'[queue'[t][i]].sess = t
  <2>1. CASE t = s
    <3>1. i \in 1..Len(rest) /\ queue'[t][i] = rest[i]
      BY <1>1, <2>1
    <3> QED
      BY <1>3, <2>1, <3>1 DEF S
  <2>2. CASE t # s
    <3>1. queue'[t] = queue[t]
      BY <2>2 DEF MutexTypeOK
    <3> QED
      BY <1>4, <2>2, <3>1 DEF S
  <2> QED
    BY <2>1, <2>2
<1>6. ASSUME NEW t \in Sessions, NEW i \in 1..Len(queue'[t]), NEW j \in 1..Len(queue'[t]),
             queue'[t][i] = queue'[t][j]
      PROVE  i = j
  <2>1. CASE t = s
    <3>1. /\ i \in 1..Len(rest) /\ j \in 1..Len(rest)
          /\ rest[i] = rest[j]
      BY <1>1, <1>6, <2>1
    <3>2. shift(i) = shift(j)
      BY <1>2, <3>1 DEF Once
    <3> QED
      BY <1>1, <3>1, <3>2
  <2>2. CASE t # s
    <3>1. queue'[t] = queue[t]
      BY <2>2 DEF MutexTypeOK
    <3> QED
      BY <1>6, <3>1 DEF Once
  <2> QED
    BY <2>1, <2>2
<1> QED
  BY <1>5, <1>6 DEF Waiting, Once, S

LEMMA DisconnectControl ==
  ASSUME Control, NEW r \in Requests, Disconnect(r)
  PROVE  Control'
<1>1. phase[r] # "new" /\ UNCHANGED <<localVars, clientVars>>
  BY DEF Disconnect, DbPhases
<1>2. /\ MutexTypeOK /\ DbTypeOK /\ RequestTypeOK /\ Fits(r) /\ InLine
      /\ S(r) \in Sessions
  BY <1>1, AtWork, TypeParts
<1>3. CASE /\ phase[r] = "queued" /\ Leave(r, S(r))
           /\ phase' = [phase EXCEPT ![r] = "commit"]
           /\ outcome' = [outcome EXCEPT ![r] = "aborted"]
           /\ UNCHANGED dbVars
  <2>1. DbTypeOK'
    BY <1>2, <1>3, UnchangedTypes
  <2>2. RequestTypeOK'
    BY <1>1, <1>2, <1>3 DEF RequestTypeOK, Phases, localVars, clientVars, historyVars
  <2>3. /\ phase'[r] = "commit" /\ job' = job
        /\ \A q \in Requests \ {r} :
              phase'[q] = phase[q] /\ job'[q] = job[q] /\ told'[q] = told[q]
    BY <1>1, <1>2, <1>3 DEF RequestTypeOK, localVars
  <2>4. Fits(r)'
    BY <1>1, <1>2, <2>3 DEF Fits, localVars
  <2>5. /\ queue[S(r)] \in Seq(Requests)
        /\ DOMAIN queue[S(r)] = 1..Len(queue[S(r)])
    BY <1>2, LenProperties DEF MutexTypeOK
  <2>6. PICK i \in 1..Len(queue[S(r)]) :
          /\ queue[S(r)][i] = r
          /\ queue' = [queue EXCEPT ![S(r)] = RemoveAt(queue[S(r)], i)]
          /\ holder' = holder
    BY <1>3, <2>5 DEF Leave
  <2>7. /\ RemoveAt(queue[S(r)], i) \in Seq(Requests)
        /\ Len(RemoveAt(queue[S(r)], i)) = Len(queue[S(r)]) - 1
        /\ \A j \in 1..(Len(queue[S(r)]) - 1) :
              RemoveAt(queue[S(r)], i)[j]
                 = IF j < i THEN queue[S(r)][j] ELSE queue[S(r)][j + 1]
    BY <2>5, RemoveAtFacts
  <2>8. Waiting /\ Once
    BY <1>2 DEF InLine
  <2>9. Waiting' /\ Once'
    BY <1>2, <2>3, <2>6, <2>7, <2>8, WaitersLeft
  <2>10. MutexTypeOK'
    BY <1>2, <2>6, <2>7 DEF MutexTypeOK
  <2>11. WorkersHold'
    <3>1. ASSUME NEW q \in Requests, Works(q)'
          PROVE  holder[S(q)] = q
      <4>1. Works(q)
        BY <2>3, <3>1 DEF Works, Active, DbPhases
      <4> QED
        BY <1>2, <4>1 DEF InLine, WorkersHold
    <3> QED
      BY <2>3, <2>6, <3>1 DEF WorkersHold, S
  <2>12. InLine'
    BY <2>9, <2>11 DEF InLine
  <2> QED
    BY <2>1, <2>2, <2>3, <2>4, <2>10, <2>12, LockStepControl
<1>4. CASE /\ phase[r] \in DbPhases \cup {"agent"} /\ DbTypeOK' /\ UNCHANGED mutexVars
           /\ \E o \in {"error", "aborted"} : Finish(r, o)
  <2>1. /\ phase' = [phase EXCEPT ![r] = "leave"]
        /\ outcome' \in [Requests -> {"none", "ok", "error", "aborted"}]
    BY <1>2, <1>4 DEF Finish, RequestTypeOK
  <2>2. Fits(r)'
    BY <1>1, <1>2, <2>1 DEF Fits, RequestTypeOK, localVars
  <2> QED
    BY <1>1, <1>2, <1>4, <2>1, <2>2, OwnStepControl
    DEF RequestTypeOK, localVars, clientVars, historyVars, Active
<1>5. CASE phase[r] \in DbPhases /\ RollBack(r) /\ Finish(r, "aborted") /\ UNCHANGED mutexVars
  BY <1>2, <1>4, <1>5, RollBackTypes
<1>6. CASE phase[r] = "agent" /\ Finish(r, "error") /\ UNCHANGED <<mutexVars, dbVars>>
  BY <1>2, <1>4, <1>6, UnchangedTypes
<1> QED
  BY <1>3, <1>5, <1>6 DEF Disconnect

\* A request that takes a free lock is the only one that works on the session.
LEMMA TakesLock ==
  ASSUME WorkersHold, MutexTypeOK, NEW r \in Requests, NEW s \in Sessions,
         holder[s] = NoRequest, holder' = [holder EXCEPT ![s] = r],
         job'[r].sess = s,
         \A q \in Requests \ {r} : phase'[q] = phase[q] /\ job'[q] = job[q]
  PROVE  WorkersHold'
<1>1. ASSUME NEW q \in Requests, q # r, Works(q)'
      PROVE  holder'[job'[q].sess] = q
  <2>1. Works(q) /\ job'[q] = job[q]
    BY <1>1 DEF Works
  <2>2. holder[job[q].sess] = q /\ q # NoRequest
    BY <2>1, NoRequestAssumption DEF WorkersHold, S
  <2> QED
    BY <2>1, <2>2 DEF MutexTypeOK
<1>2. holder'[job'[r].sess] = r
  BY DEF MutexTypeOK
<1> QED
  BY <1>1, <1>2 DEF WorkersHold, S

LEMMA EnterControl ==
  ASSUME Control, NEW s \in Sessions, Enter(s)
  PROVE  Control'
<1>1. holder[s] = NoRequest /\ queue[s] # <<>>
  BY DEF Enter, Grant
<1>2. MutexTypeOK /\ Waiting /\ Once /\ WorkersHold
  BY TypeParts DEF InLine
<1>3. queue[s] \in Seq(Requests)
  BY <1>2 DEF MutexTypeOK
<1>4. PICK r \in Requests :
        /\ r = Head(queue[s])
        /\ Tail(queue[s]) \in Seq(Requests)
        /\ Len(Tail(queue[s])) = Len(queue[s]) - 1
        /\ \A j \in 1..Len(Tail(queue[s])) : Tail(queue[s])[j] = queue[s][j + 1]
        /\ holder' = [holder EXCEPT ![s] = r]
        /\ queue' = [queue EXCEPT ![s] = Tail(queue[s])]
        /\ Goto(r, FirstPhase(job[r].kind))
        /\ UNCHANGED <<dbVars, localVars, issued, delivered, forgotten>>
  <2>1. /\ Head(queue[s]) \in Requests
        /\ Tail(queue[s]) \in Seq(Requests)
        /\ Len(Tail(queue[s])) = Len(queue[s]) - 1
        /\ \A j \in 1..Len(Tail(queue[s])) : Tail(queue[s])[j] = queue[s][j + 1]
    BY <1>1, <1>3, HeadTailProperties
  <2> QED
    BY <2>1 DEF Enter, Grant
<1>5. Len(queue[s]) \in Nat \ {0} /\ queue[s][1] = r
  BY <1>1, <1>3, <1>4, EmptySeq
<1>6. phase[r] = "queued" /\ S(r) = s
  BY <1>2, <1>5 DEF Waiting
<1>7. DbTypeOK /\ RequestTypeOK /\ Fits(r) /\ job[r] \in Jobs
  BY <1>4, <1>6, AtWork
<1>8. /\ job[r].kind \in {"user", "tool", "hitl", "switch"}
      /\ phase' = [phase EXCEPT ![r] = FirstPhase(job[r].kind)]
      /\ FirstPhase(job[r].kind) \in {"add", "decide", "context"}
      /\ FirstPhase(job[r].kind) = "add" => job[r].kind = "user"
      /\ FirstPhase(job[r].kind) = "decide" => job[r].kind \in {"tool", "hitl"}
  BY <1>4, <1>6, <1>7 DEF Fits, Jobs, Kinds, FirstPhase, Goto
<1>9. /\ phase'[r] = FirstPhase(job[r].kind) /\ job' = job
      /\ \A q \in Requests \ {r} :
            phase'[q] = phase[q] /\ job'[q] = job[q] /\ told'[q] = told[q]
  BY <1>4, <1>7, <1>8 DEF RequestTypeOK, localVars
<1>10. Fits(r)'
  BY <1>6, <1>7, <1>8, <1>9 DEF Fits
<1>11. DbTypeOK'
  BY <1>4, <1>7, UnchangedTypes
<1>12. RequestTypeOK'
  <2>1. overtaken' \subseteq Sessions
    BY <1>7 DEF Enter, NotesTurn, RequestTypeOK
  <2> QED
    BY <1>4, <1>7, <1>8, <2>1 DEF RequestTypeOK, Goto, Phases, Active, DbPhases, localVars
<1>13. MutexTypeOK'
  BY <1>2, <1>4 DEF MutexTypeOK
<1>14. Waiting' /\ Once'
  <2>1. 1 \in 1..Len(queue[s])
    BY <1>5
  <2>2. PICK rest \in Seq(Requests) :
          /\ Len(rest) = Len(queue[s]) - 1
          /\ \A j \in 1..(Len(queue[s]) - 1) : rest[j] = queue[s][j + 1]
          /\ queue' = [queue EXCEPT ![s] = rest]
    BY <1>4
  <2>3. \A j \in 1..(Len(queue[s]) - 1) :
          rest[j] = IF j < 1 THEN queue[s][j] ELSE queue[s][j + 1]
    BY <1>5, <2>2
  <2>4. job' = job /\ \A p \in Requests \ {r} : phase'[p] = phase[p]
    BY <1>9
  <2> QED
    BY <1>2, <1>5, <2>1, <2>2, <2>3, <2>4, WaitersLeft
<1>15. WorkersHold'
  BY <1>1, <1>2, <1>4, <1>6, <1>9, TakesLock DEF S
<1>16. InLine'
  BY <1>14, <1>15 DEF InLine
<1> QED
  BY <1>4, <1>9, <1>10, <1>11, <1>12, <1>13, <1>16, LockStepControl

\* A request that asks for a lock it has to wait for joins the queue.
LEMMA WaitersJoined ==
  ASSUME Waiting, Once, MutexTypeOK, NEW r \in Requests, NEW s \in Sessions,
         Outside(r), queue' = [queue EXCEPT ![s] = Append(queue[s], r)],
         phase'[r] = "queued", job'[r].sess = s,
         \A q \in Requests \ {r} : phase'[q] = phase[q] /\ job'[q] = job[q]
  PROVE  Waiting' /\ Once'
<1>1. /\ queue[s] \in Seq(Requests) /\ Len(queue[s]) \in Nat
      /\ queue'[s] = Append(queue[s], r)
      /\ Len(queue'[s]) = Len(queue[s]) + 1
      /\ \A i \in 1..Len(queue[s]) : queue'[s][i] = queue[s][i]
      /\ queue'[s][Len(queue[s]) + 1] = r
  BY LenProperties, AppendProperties DEF MutexTypeOK
<1>2. ASSUME NEW t \in Sessions, NEW i \in 1..Len(queue[t])
      PROVE  /\ queue[t][i] \in Requests \ {r}
             /\ phase'[queue[t][i]] = "queued" /\ job'[queue[t][i]].sess = t
  <2>1. queue[t] \in Seq(Requests) /\ queue[t][i] \in Requests
    BY ElementOfSeq DEF MutexTypeOK
  <2>2. queue[t][i] # r
    BY <2>1, LenProperties DEF Outside
  <2>3. phase[queue[t][i]] = "queued" /\ S(queue[t][i]) = t
    BY DEF Waiting
  <2> QED
    BY <2>1, <2>2, <2>3 DEF S
<1>3. ASSUME NEW t \in Sessions, NEW i \in 1..Len(queue'[t])
      PROVE  phase'[queue'[t][i]] = "queued" /\ job'[queue'[t][i]].sess = t
  <2>1. CASE t # s
    <3>1. queue'[t] = queue[t]
      BY <2>1 DEF MutexTypeOK
    <3> QED
      BY <1>2, <3>1
  <2>2. CASE t = s /\ i = Len(queue[s]) + 1
    BY <1>1, <2>2
  <2>3. CASE t = s /\ i # Len(queue[s]) + 1
    <3>1. i \in 1..Len(queue[s])
      BY <1>1, <2>3
    <3> QED
      BY <1>1, <1>2, <2>3, <3>1
  <2> QED
    BY <2>1, <2>2, <2>3
<1>4. ASSUME NEW t \in Sessions, NEW i \in 1..Len(queue'[t]), NEW j \in 1..Len(queue'[t]),
             queue'[t][i] = queue'[t][j]
      PROVE  i = j
  <2>1. CASE t # s
    <3>1. queue'[t] = queue[t]
      BY <2>1 DEF MutexTypeOK
    <3> QED
      BY <1>4, <3>1 DEF Once
  <2>2. CASE t = s
    <3>1. /\ i \in 1..Len(queue[s]) \/ i = Len(queue[s]) + 1
          /\ j \in 1..Len(queue[s]) \/ j = Len(queue[s]) + 1
      BY <1>1, <2>2
    <3>2. CASE i \in 1..Len(queue[s]) /\ j \in 1..Len(queue[s])
      BY <1>1, <1>4, <2>2, <3>2 DEF Once
    <3>3. CASE i \in 1..Len(queue[s]) /\ j = Len(queue[s]) + 1
      BY <1>1, <1>2, <1>4, <2>2, <3>3
    <3>4. CASE i = Len(queue[s]) + 1 /\ j \in 1..Len(queue[s])
      BY <1>1, <1>2, <1>4, <2>2, <3>4
    <3> QED
      BY <3>1, <3>2, <3>3, <3>4
  <2> QED
    BY <2>1, <2>2
<1> QED
  BY <1>3, <1>4 DEF Waiting, Once, S

LEMMA SubmitControl ==
  ASSUME Control, NEW r \in Requests, NEW j \in Jobs, Submit(r, j)
  PROVE  Control'
<1>1. /\ phase[r] = "new" /\ Requested(j)
      /\ job' = [job EXCEPT ![r] = j]
      /\ UNCHANGED <<dbVars, hop, actor, told, issued, delivered, forgotten>>
  BY DEF Submit
<1>2. /\ MutexTypeOK /\ DbTypeOK /\ RequestTypeOK
      /\ Waiting /\ Once /\ WorkersHold
  BY TypeParts DEF InLine
<1>3. /\ j.sess \in Sessions
      /\ j.kind \in {"tool", "hitl"} => j.call \in Calls
      /\ j.kind \in {"switch", "rest"} => j.agent \in Agents
      /\ j.kind \in Kinds
  BY <1>1, <1>2 DEF Requested, Jobs, RequestTypeOK
<1>4. PICK p \in {"explicit", "add", "decide", "context", "queued"} :
        /\ Goto(r, p)
        /\ p = "explicit" => j.kind \in {"rest", "switch"}
        /\ p = "add" => j.kind = "user"
        /\ p = "decide" => j.kind \in {"tool", "hitl"}
        /\ p \in {"context", "queued"} => j.kind # "rest"
        /\ \/ p = "explicit" /\ j.kind = "rest" /\ UNCHANGED mutexVars
           \/ p # "queued" /\ j.kind # "rest" /\ EnterNow(r, j.sess)
           \/ p = "queued" /\ EnterQueue(r, j.sess)
        /\ NotesTurn(j.sess) \/ UNCHANGED overtaken
  BY <1>3 DEF Submit, BeginRest, BeginStream, FirstPhase, Kinds
<1>5. /\ phase' = [phase EXCEPT ![r] = p] /\ outcome' = outcome
      /\ phase'[r] = p /\ job'[r] = j
      /\ \A q \in Requests \ {r} :
            phase'[q] = phase[q] /\ job'[q] = job[q] /\ told'[q] = told[q]
  BY <1>1, <1>2, <1>4 DEF Goto, RequestTypeOK
<1>6. Fits(r)'
  BY <1>3, <1>4, <1>5 DEF Fits
<1>7. DbTypeOK'
  BY <1>1, <1>2, UnchangedTypes
<1>8. RequestTypeOK'
  <2>1. overtaken' \subseteq Sessions
    BY <1>2, <1>3, <1>4 DEF NotesTurn, RequestTypeOK
  <2> QED
    BY <1>1, <1>2, <1>5, <2>1 DEF RequestTypeOK, Phases, Active, DbPhases
<1>9. MutexTypeOK' /\ InLine'
  <2>1. CASE j.kind = "rest" /\ UNCHANGED mutexVars
    <3>1. queue' = queue /\ holder' = holder
      BY <2>1 DEF mutexVars
    <3>2. Waiting' /\ Once'
      BY <1>1, <1>2, <1>5, <3>1, WaitersKept
    <3>3. ASSUME NEW q \in Requests, Works(q)'
          PROVE  holder'[job'[q].sess] = q
      <4>1. q # r
        BY <1>5, <2>1, <3>3 DEF Works
      <4>2. Works(q)
        BY <1>5, <3>3, <4>1 DEF Works
      <4> QED
        BY <1>2, <1>5, <3>1, <4>1, <4>2 DEF WorkersHold, S
    <3> QED
      BY <1>2, <3>1, <3>2, <3>3 DEF MutexTypeOK, InLine, WorkersHold, S
  <2>2. CASE EnterNow(r, j.sess)
    <3>1. queue' = queue /\ holder[j.sess] = NoRequest /\ holder' = [holder EXCEPT ![j.sess] = r]
      BY <2>2 DEF EnterNow
    <3>2. Waiting' /\ Once'
      BY <1>1, <1>2, <1>5, <3>1, WaitersKept
    <3>3. WorkersHold'
      BY <1>2, <1>3, <1>5, <3>1, TakesLock
    <3> QED
      BY <1>2, <3>1, <3>2, <3>3 DEF MutexTypeOK, InLine
  <2>3. CASE p = "queued" /\ EnterQueue(r, j.sess)
    <3>1. /\ Outside(r) /\ holder' = holder
          /\ queue' = [queue EXCEPT ![j.sess] = Append(queue[j.sess], r)]
      BY <2>3 DEF EnterQueue
    <3>2. Waiting' /\ Once'
      BY <1>2, <1>3, <1>5, <2>3, <3>1, WaitersJoined
    <3>3. ASSUME NEW q \in Requests, Works(q)'
          PROVE  holder'[job'[q].sess] = q
      <4>1. q # r
        BY <1>5, <2>3, <3>3 DEF Works, Active, DbPhases
      <4>2. Works(q)
        BY <1>5, <3>3, <4>1 DEF Works
      <4> QED
        BY <1>2, <1>5, <3>1, <4>1, <4>2 DEF WorkersHold, S
    <3>4. queue' \in [Sessions -> Seq(Requests)]
      <4>1. queue[j.sess] \in Seq(Requests)
        BY <1>2, <1>3 DEF MutexTypeOK
      <4>2. Append(queue[j.sess], r) \in Seq(Requests)
        BY <4>1, AppendProperties
      <4> QED
        BY <1>2, <3>1, <4>2 DEF MutexTypeOK
    <3> QED
      BY <1>2, <3>1, <3>2, <3>3, <3>4 DEF MutexTypeOK, InLine, WorkersHold, S
  <2> QED
    BY <1>4, <2>1, <2>2, <2>3
<1> QED
  BY <1>5, <1>6, <1>7, <1>8, <1>9, LockStepControl

LEMMA CrashControl ==
  ASSUME Control, Crash
  PROVE  Control'
<1>1. /\ MutexTypeOK /\ DbTypeOK /\ RequestTypeOK
      /\ \A r \in Requests : Fits(r)
  BY TypeParts
<1>2. MutexTypeOK'
  BY EmptySeq DEF Crash, MutexTypeOK
<1>3. DbTypeOK'
  BY <1>1 DEF Crash, DbTypeOK
<1>4. RequestTypeOK'
  BY <1>1, MessageOrchestrationAssumption
  DEF Crash, RequestTypeOK, Phases, Silence, Answers, clientVars, historyVars
<1>5. \A r \in Requests : /\ phase'[r] \in {"new", "done", "lost"} /\ job'[r] = job[r]
                          /\ phase'[r] # "new" => phase[r] # "new"
  BY DEF Crash, Unfinished
<1>6. \A r \in Requests : Fits(r)'
  BY <1>1, <1>5 DEF Fits
<1>7. InLine'
  <2>1. \A s \in Sessions : Len(queue'[s]) = 0
    BY EmptySeq DEF Crash
  <2>2. Waiting' /\ Once'
    BY <2>1 DEF Waiting, Once
  <2>3. \A r \in Requests : phase'[r] \notin Active
    BY <1>5 DEF Active, DbPhases
  <2> QED
    BY <2>2, <2>3 DEF InLine, WorkersHold, Works
<1>8. \A r \in Requests : phase'[r] # "new" => job'[r] \in Jobs
  BY <1>6 DEF Fits
<1> QED
  BY <1>2, <1>3, <1>4, <1>6, <1>7, <1>8 DEF Control, TypeOK, DbTypeOK, RequestTypeOK

\* No request has arrived: nothing is locked, read or written.
LEMMA InitControl == Init => Control
<1> SUFFICES ASSUME Init PROVE Control
  OBVIOUS
<1>1. MutexTypeOK /\ \A s \in Sessions : Len(queue[s]) = 0
  BY EmptySeq DEF Init, MutexInit, MutexTypeOK
<1>2. DbTypeOK
  <2>1. <<>> \in Seq(Entries)
    BY EmptySeq
  <2> QED
    BY <2>1 DEF Init, DbTypeOK, Images, Statuses
<1>3. RequestTypeOK
  BY MessageOrchestrationAssumption DEF Init, RequestTypeOK, Phases, Silence, Answers
<1>4. \A r \in Requests : phase[r] = "new"
  BY DEF Init
<1> QED
  BY <1>1, <1>2, <1>3, <1>4, TypeParts
  DEF Fits, InLine, Waiting, Once, WorkersHold, Works, Active, DbPhases

LEMMA NextControl == Control /\ [Next]_vars => Control'
<1> SUFFICES ASSUME Control, [Next]_vars PROVE Control'
  OBVIOUS
<1>1. ASSUME NEW r \in Requests, NEW j \in Jobs, Submit(r, j) PROVE Control'
  BY <1>1, SubmitControl
<1>2. ASSUME NEW r \in Requests, Step(r) PROVE Control'
  BY <1>2, LoadControl, AddUserMessageControl, DecideControl, AddResultControl,
     GetContextControl, InsertConflictControl, ExplicitSwitchControl,
     MissingAgentControl, ClassifyControl, ConsultControl, AddPendingControl,
     RecordControl, AnswerSwitchControl, HandoverControl, ReleaseControl,
     CommitControl
  DEF Step
<1>3. ASSUME NEW r \in Requests, BusyTimeout(r) \/ Disconnect(r) PROVE Control'
  BY <1>3, BusyTimeoutControl, DisconnectControl
<1>4. ASSUME NEW s \in Sessions, Enter(s) PROVE Control'
  BY <1>4, EnterControl
<1>5. CASE Crash
  BY <1>5, CrashControl
<1>6. CASE UNCHANGED vars
  <2>1. UNCHANGED <<mutexVars, dbVars, phase, outcome, localVars, clientVars>>
    BY <1>6 DEF vars
  <2>2. /\ holder' = holder /\ queue' = queue /\ db' = db /\ writer' = writer
        /\ work' = work /\ seen' = seen /\ phase' = phase /\ outcome' = outcome
        /\ job' = job /\ hop' = hop /\ actor' = actor /\ told' = told
        /\ issued' = issued /\ delivered' = delivered
        /\ overtaken' = overtaken /\ forgotten' = forgotten
    BY <2>1 DEF mutexVars, dbVars, localVars, clientVars, historyVars
  <2>3. TypeOK' /\ \A r \in Requests : Fits(r)'
    BY <2>2 DEF Control, TypeOK, MutexTypeOK, Fits
  <2>4. InLine'
    BY <2>2 DEF Control, InLine, Waiting, Once, WorkersHold, Works, S
  <2> QED
    BY <2>3, <2>4 DEF Control
<1> QED
  BY <1>1, <1>2, <1>3, <1>4, <1>5, <1>6 DEF Next

\* The variables keep their types: every message, context, approval status and
\* phase the handlers compute is one of those the data model knows.
THEOREM TypeCorrect == Spec => []TypeOK
<1>1. Control => TypeOK
  BY DEF Control
<1> QED
  BY InitControl, NextControl, <1>1, PTL DEF Spec

\* Requests of the stream endpoint work on a session one at a time, under every
\* schedule, cancellation, time-out and restart.
THEOREM WorkingAlone == Spec => []OneAtATime
<1>1. Control => OneAtATime
  <2> SUFFICES ASSUME Control, NEW q \in Requests, NEW r \in Requests,
                      Works(q), Works(r), S(q) = S(r)
               PROVE  q = r
    BY DEF OneAtATime
  <2> QED
    BY DEF Control, InLine, WorkersHold
<1> QED
  BY InitControl, NextControl, <1>1, PTL DEF Spec

-----------------------------------------------------------------------------
(***************************************************************************)
(* Contexts                                                                *)
(***************************************************************************)
LEMMA NewContextConsistent ==
  ASSUME NEW a \in Agents
  PROVE  Consistent(NewContext(a))
<1>1. Len(<<>>) = 0
  BY EmptySeq
<1> QED
  BY <1>1, MessageOrchestrationAssumption DEF Consistent, NewContext

\* A switch that is allowed extends the history by a link of the chain.
LEMMA SwitchConsistent ==
  ASSUME NEW c \in Contexts, Consistent(c), NEW a \in Agents, CanSwitch(c, a)
  PROVE  Consistent(SwitchTo(c, a))
<1> DEFINE e == [from |-> c.agent, to |-> a]
           h == Append(c.hist, e)
           n == Len(c.hist)
<1>1. c.hist \in Seq(Switches) /\ n \in Nat /\ c.agent \in Agents /\ c.count \in Nat
  BY LenProperties DEF Contexts
<1>2. e \in Switches
  BY <1>1 DEF Switches
<1>3. /\ Len(h) = n + 1
      /\ \A i \in 1..n : h[i] = c.hist[i]
      /\ h[n + 1] = e
  BY <1>1, <1>2, AppendProperties
<1>4. /\ SwitchTo(c, a).hist = h /\ SwitchTo(c, a).agent = a
      /\ SwitchTo(c, a).count = c.count + 1
  BY DEF SwitchTo
<1>5. /\ c.count = n /\ c.count < MaxSwitches /\ c.agent # a
      /\ \A i \in 1..n : c.hist[i].from # c.hist[i].to
      /\ \A i \in 1..n : i > 1 => c.hist[i].from = c.hist[i - 1].to
      /\ n > 0 => c.hist[n].to = c.agent
  BY DEF Consistent, CanSwitch
<1>6. e.from = c.agent /\ e.to = a
  OBVIOUS
<1> HIDE DEF e, h, n
<1>7. \A i \in 1..(n + 1) : h[i].from # h[i].to
  <2> SUFFICES ASSUME NEW i \in 1..(n + 1) PROVE h[i].from # h[i].to
    OBVIOUS
  <2>1. CASE i = n + 1
    BY <1>3, <1>5, <1>6, <2>1
  <2>2. CASE i # n + 1
    <3>1. i \in 1..n
      BY <1>1, <2>2
    <3> QED
      BY <1>3, <1>5, <3>1
  <2> QED
    BY <2>1, <2>2
<1>8. \A i \in 1..(n + 1) : i > 1 => h[i].from = h[i - 1].to
  <2> SUFFICES ASSUME NEW i \in 1..(n + 1), i > 1 PROVE h[i].from = h[i - 1].to
    OBVIOUS
  <2>1. CASE i = n + 1
    <3>1. i - 1 = n /\ n \in 1..n
      BY <1>1, <2>1
    <3> QED
      BY <1>3, <1>5, <1>6, <2>1, <3>1
  <2>2. CASE i # n + 1
    <3>1. i \in 1..n /\ i - 1 \in 1..n
      BY <1>1, <2>2
    <3>2. c.hist[i].from = c.hist[i - 1].to
      BY <1>5, <3>1
    <3> QED
      BY <1>3, <3>1, <3>2
  <2> QED
    BY <2>1, <2>2
<1>9. c.count + 1 = n + 1 /\ c.count + 1 <= MaxSwitches
  BY <1>1, <1>5, MessageOrchestrationAssumption
<1> QED
  BY <1>3, <1>4, <1>6, <1>7, <1>8, <1>9 DEF Consistent

LEMMA SourceContexts ==
  ASSUME ContextConsistent, NEW r \in Requests
  PROVE  /\ ContextsOf(Target(r))
         /\ HasRead(r) => ContextsOf(Source(r))
<1> QED
  BY NoRequestAssumption DEF ContextConsistent, Target, Source, HasRead

LEMMA WriteContexts ==
  ASSUME ContextConsistent, DbTypeOK, NEW r \in Requests, NEW img,
         ContextsOf(img), Write(r, img)
  PROVE  ContextConsistent'
<1>1. db' = db /\ work' = img /\ writer' = r /\ seen' = [seen EXCEPT ![r] = NoImage]
  BY DEF Write
<1>2. ContextsOf(db') /\ ContextsOf(work')
  BY <1>1 DEF ContextConsistent
<1>3. ASSUME NEW q \in Requests, seen'[q] # NoImage
      PROVE  ContextsOf(seen'[q])
  <2>1. seen'[q] = seen[q]
    BY <1>1, <1>3 DEF DbTypeOK
  <2> QED
    BY <1>3, <2>1 DEF ContextConsistent
<1> QED
  BY <1>2, <1>3 DEF ContextConsistent, ContextsOf, Consistent

\* An operation that writes nothing, or loses what was written, leaves the
\* committed image alone.
LEMMA NoWriteContexts ==
  ASSUME ContextConsistent, DbTypeOK, NEW r \in Requests,
         ReadOnly(r) \/ RollBack(r)
  PROVE  ContextConsistent'
<1>1. /\ db' = db /\ seen' = [seen EXCEPT ![r] = NoImage]
      /\ writer' # NoRequest => writer # NoRequest /\ work' = work
  BY DEF ReadOnly, RollBack
<1>2. ContextsOf(db') /\ (writer' # NoRequest => ContextsOf(work'))
  BY <1>1 DEF ContextConsistent
<1>3. ASSUME NEW q \in Requests, seen'[q] # NoImage
      PROVE  ContextsOf(seen'[q])
  <2>1. seen'[q] = seen[q]
    BY <1>1, <1>3 DEF DbTypeOK
  <2> QED
    BY <1>3, <2>1 DEF ContextConsistent
<1> QED
  BY <1>2, <1>3 DEF ContextConsistent, ContextsOf, Consistent

LEMMA UnchangedContexts ==
  ASSUME ContextConsistent, UNCHANGED dbVars
  PROVE  ContextConsistent'
<1> QED
  BY DEF ContextConsistent, ContextsOf, Consistent, dbVars

\* Messages and approvals are written beside the contexts.
LEMMA OtherContexts ==
  ASSUME ContextConsistent, DbTypeOK, NEW r \in Requests,
         NEW e, NEW c, NEW status
  PROVE  /\ ContextsOf(WithMessage(r, e))
         /\ ContextsOf(WithApproval(r, c, status))
<1>1. Target(r) \in Images /\ ContextsOf(Target(r))
  BY ImageTypes, SourceContexts
<1>2. /\ WithMessage(r, e).ctx = Target(r).ctx
      /\ WithApproval(r, c, status).ctx = Target(r).ctx
  BY <1>1 DEF WithMessage, WithApproval, Images
<1> QED
  BY <1>1, <1>2 DEF ContextsOf

LEMMA OwnContext ==
  ASSUME ContextConsistent, DbTypeOK, NEW r \in Requests, NEW c, Consistent(c)
  PROVE  ContextsOf(WithContext(r, c))
<1>1. Target(r) \in Images /\ ContextsOf(Target(r))
  BY ImageTypes, SourceContexts
<1>2. ASSUME NEW s \in Sessions, WithContext(r, c).ctx[s] # NoContext
      PROVE  Consistent(WithContext(r, c).ctx[s])
  <2>1. WithContext(r, c).ctx[s] = IF s = S(r) THEN c ELSE Target(r).ctx[s]
    BY <1>1 DEF WithContext, Images
  <2> QED
    BY <1>1, <1>2, <2>1 DEF ContextsOf
<1> QED
  BY <1>2 DEF ContextsOf

LEMMA SwitchSaveContexts ==
  ASSUME ContextConsistent, DbTypeOK, NEW r \in Requests, S(r) \in Sessions,
         HasRead(r), NEW a \in Agents, CanChange(r, a), SavesSwitch(r, a)
  PROVE  ContextConsistent'
<1>1. CASE KnownContext(r)
  <2>1. /\ Source(r).ctx[S(r)] \in Contexts
        /\ Consistent(Source(r).ctx[S(r)])
        /\ CanSwitch(Source(r).ctx[S(r)], a)
    BY <1>1, KnownContextTypes, SourceContexts DEF ContextsOf, KnownContext, CanChange
  <2>2. Consistent(SwitchTo(Source(r).ctx[S(r)], a))
    BY <2>1, SwitchConsistent
  <2>3. ContextsOf(WithContext(r, SwitchTo(Source(r).ctx[S(r)], a)))
    BY <2>2, OwnContext
  <2> QED
    BY <1>1, <2>3, WriteContexts DEF SavesSwitch
<1>2. CASE ~KnownContext(r)
  <2>1. ContextsOf(WithContext(r, NewContext(a)))
    BY NewContextConsistent, OwnContext
  <2> QED
    BY <1>2, <2>1, WriteContexts DEF SavesSwitch
<1> QED
  BY <1>1, <1>2

\* No step of a request disturbs a context.
LEMMA StepContexts ==
  ASSUME Control, ContextConsistent, NEW r \in Requests, Step(r)
  PROVE  ContextConsistent'
<1>1. DbTypeOK
  BY TypeParts
<1>2. CASE Load(r)
  <2>1. /\ db' = db /\ writer' = writer /\ work' = work
        /\ seen' = [seen EXCEPT ![r] = db]
    BY <1>2 DEF Load
  <2>2. ASSUME NEW q \in Requests, seen'[q] # NoImage
        PROVE  ContextsOf(seen'[q])
    <3>1. seen'[q] = db \/ seen'[q] = seen[q]
      BY <1>1, <2>1 DEF DbTypeOK
    <3> QED
      BY <2>2, <3>1 DEF ContextConsistent
  <2>3. ContextsOf(db') /\ (writer' # NoRequest => ContextsOf(work'))
    BY <2>1 DEF ContextConsistent
  <2> QED
    BY <2>2, <2>3 DEF ContextConsistent, ContextsOf, Consistent
<1>3. CASE AddUserMessage(r)
  BY <1>1, <1>3, OtherContexts, WriteContexts, NoWriteContexts DEF AddUserMessage
<1>4. CASE Decide(r)
  BY <1>1, <1>4, OtherContexts, WriteContexts, NoWriteContexts DEF Decide
<1>5. CASE AddResult(r)
  BY <1>1, <1>5, OtherContexts, WriteContexts, NoWriteContexts DEF AddResult
<1>6. CASE GetContext(r)
  <2>1. phase[r] = "context" /\ job[r] \in Jobs
    BY <1>6, AtWork DEF GetContext
  <2>2. InitialAgent(r) \in Agents
    BY <2>1, MessageOrchestrationAssumption DEF InitialAgent, Jobs
  <2>3. ContextsOf(WithContext(r, NewContext(InitialAgent(r))))
    BY <1>1, <2>2, NewContextConsistent, OwnContext
  <2> QED
    BY <1>1, <1>6, <2>3, WriteContexts, NoWriteContexts DEF GetContext
<1>7. CASE InsertConflict(r)
  BY <1>1, <1>7, NoWriteContexts DEF InsertConflict
<1>8. CASE ExplicitSwitch(r)
  <2>1. /\ phase[r] = "explicit" /\ HasRead(r)
        /\ S(r) \in Sessions /\ job[r].agent \in Agents
    BY <1>8, AtWork DEF ExplicitSwitch, Fits
  <2>2. CASE CanChange(r, job[r].agent) /\ SavesSwitch(r, job[r].agent)
    BY <1>1, <2>1, <2>2, SwitchSaveContexts
  <2>3. CASE ReadOnly(r)
    BY <1>1, <2>3, NoWriteContexts
  <2> QED
    BY <1>8, <2>2, <2>3 DEF ExplicitSwitch
<1>9. CASE MissingAgent(r)
  BY <1>9, UnchangedContexts DEF MissingAgent
<1>10. CASE Classify(r)
  BY <1>10, UnchangedContexts DEF Classify
<1>11. CASE Consult(r)
  BY <1>11, UnchangedContexts DEF Consult
<1>12. CASE AddPending(r)
  BY <1>1, <1>12, OtherContexts, WriteContexts DEF AddPending
<1>13. CASE Record(r)
  BY <1>1, <1>13, OtherContexts, WriteContexts, NoWriteContexts DEF Record
<1>14. CASE AnswerSwitch(r)
  BY <1>1, <1>14, OtherContexts, WriteContexts, NoWriteContexts DEF AnswerSwitch
<1>15. CASE Handover(r)
  <2>1. /\ phase[r] = "handover" /\ HasRead(r)
        /\ S(r) \in Sessions /\ told[r].agent \in Agents
    BY <1>15, AtWork DEF Handover, Fits
  <2>2. CASE CanChange(r, told[r].agent) /\ SavesSwitch(r, told[r].agent)
    BY <1>1, <2>1, <2>2, SwitchSaveContexts
  <2>3. CASE ReadOnly(r)
    BY <1>1, <2>3, NoWriteContexts
  <2> QED
    BY <1>15, <2>2, <2>3 DEF Handover
<1>16. CASE Release(r)
  BY <1>16, UnchangedContexts DEF Release
<1>17. CASE Commit(r)
  <2>1. /\ seen' = seen
        /\ \/ writer = r /\ db' = work /\ writer' = NoRequest
           \/ db' = db /\ writer' = writer /\ work' = work
    BY <1>17 DEF Commit
  <2>2. ContextsOf(db') /\ (writer' # NoRequest => ContextsOf(work'))
    BY <2>1, NoRequestAssumption DEF ContextConsistent
  <2>3. \A q \in Requests : seen'[q] # NoImage => ContextsOf(seen'[q])
    BY <2>1 DEF ContextConsistent
  <2> QED
    BY <2>2, <2>3 DEF ContextConsistent, ContextsOf, Consistent
<1> QED
  BY <1>2, <1>3, <1>4, <1>5, <1>6, <1>7, <1>8, <1>9, <1>10, <1>11, <1>12, <1>13,
     <1>14, <1>15, <1>16, <1>17
  DEF Step

LEMMA NextContexts ==
  ASSUME Control, ContextConsistent, [Next]_vars
  PROVE  ContextConsistent'
<1>1. DbTypeOK
  BY TypeParts
<1>2. ASSUME NEW r \in Requests, NEW j \in Jobs, Submit(r, j) PROVE ContextConsistent'
  BY <1>2, UnchangedContexts DEF Submit
<1>3. ASSUME NEW r \in Requests, Step(r) PROVE ContextConsistent'
  BY <1>3, StepContexts
<1>4. ASSUME NEW r \in Requests, BusyTimeout(r) PROVE ContextConsistent'
  BY <1>1, <1>4, NoWriteContexts DEF BusyTimeout
<1>5. ASSUME NEW r \in Requests, Disconnect(r) PROVE ContextConsistent'
  BY <1>1, <1>5, NoWriteContexts, UnchangedContexts DEF Disconnect
<1>6. ASSUME NEW s \in Sessions, Enter(s) PROVE ContextConsistent'
  BY <1>6, UnchangedContexts DEF Enter
<1>7. CASE Crash
  <2>1. /\ db' = db /\ writer' = NoRequest
        /\ \A r \in Requests : seen'[r] = NoImage
    BY <1>7 DEF Crash
  <2>2. ContextsOf(db')
    BY <2>1 DEF ContextConsistent
  <2> QED
    BY <2>1, <2>2 DEF ContextConsistent, ContextsOf, Consistent
<1>8. CASE UNCHANGED vars
  <2>1. UNCHANGED dbVars
    BY <1>8 DEF vars
  <2> QED
    BY <2>1, UnchangedContexts
<1> QED
  BY <1>2, <1>3, <1>4, <1>5, <1>6, <1>7, <1>8 DEF Next

\* The switch count, the history and the current agent of every context agree,
\* in the database and in what any request works from, however the requests
\* interleave and whatever fails.
THEOREM ContextsStayConsistent == Spec => []ContextConsistent
<1>1. Init => ContextConsistent
  BY DEF Init, ContextConsistent, ContextsOf
<1>2. Control /\ ContextConsistent /\ [Next]_vars => Control' /\ ContextConsistent'
  BY NextControl, NextContexts
<1> QED
  BY InitControl, <1>1, <1>2, PTL DEF Spec

-----------------------------------------------------------------------------
(***************************************************************************)
(* What a step of a request does                                           *)
(***************************************************************************)
\* The message an operation adds, and what the client gets with it.
Says(r, e) ==
  /\ HasRead(r) /\ e \in Entries
  /\ \/ phase[r] = "add" /\ e = Entry("user", r) /\ UNCHANGED delivered
     \/ phase[r] = "result" /\ e = Entry("result", job[r].call) /\ UNCHANGED delivered
     \/ /\ phase[r] = "answer" /\ OpenSwitchCall(r)
        /\ e = Entry("result", LastSwitchCall(Source(r).msgs[S(r)]))
        /\ UNCHANGED delivered
     \/ /\ phase[r] = "record" /\ e = AnswerEntry(r)
        /\ phase'[r] \in {"leave", "answer"}
        /\ \/ UNCHANGED delivered
           \/ /\ told[r].kind = "call" /\ phase'[r] = "leave"
              /\ delivered' = delivered \cup {<<S(r), told[r].call>>}

\* The approval an operation sets.
Settles(r, c, status) ==
  /\ HasRead(r)
  /\ \/ /\ phase[r] = "decide" /\ Undecided(r)
        /\ c = job[r].call /\ status \in {"approved", "rejected"}
     \/ /\ phase[r] = "pend" /\ c = told[r].call /\ status = "pending"
        /\ phase'[r] = "record" /\ UNCHANGED told

\* No operation wrote: r read only, lost its transaction or did something else.
Quiet(r) ==
  /\ db' = db
  /\ \/ writer' = writer /\ work' = work
     \/ writer = r /\ writer' = NoRequest
  /\ seen' \in {seen, [seen EXCEPT ![r] = NoImage]}

Effect(r) ==
  \/ Quiet(r) /\ UNCHANGED delivered
  \/ Load(r)
  \/ Commit(r)
  \/ \E e : Says(r, e) /\ Write(r, WithMessage(r, e))
  \/ \E c, status : Settles(r, c, status) /\ Write(r, WithApproval(r, c, status))
                    /\ UNCHANGED delivered
  \/ /\ phase[r] \in {"context", "explicit", "handover"}
     /\ \E c : Write(r, WithContext(r, c)) /\ UNCHANGED delivered

Acts(r) == Step(r) \/ BusyTimeout(r) \/ Disconnect(r)

LEMMA Quietly ==
  ASSUME NEW r \in Requests, ReadOnly(r) \/ RollBack(r) \/ UNCHANGED dbVars
  PROVE  Quiet(r)
<1> QED
  BY DEF Quiet, ReadOnly, RollBack, dbVars

LEMMA StepEffects ==
  ASSUME Control, NEW r \in Requests, Acts(r)
  PROVE  Effect(r)
<1> USE DEF clientVars, historyVars
<1>1. CASE Load(r) \/ Commit(r)
  BY <1>1 DEF Effect
<1>2. CASE MissingAgent(r) \/ Classify(r) \/ Consult(r) \/ Release(r)
  BY <1>2, Quietly DEF Effect, MissingAgent, Classify, Consult, Release
<1>3. CASE InsertConflict(r) \/ BusyTimeout(r) \/ Disconnect(r)
  BY <1>3, Quietly DEF Effect, InsertConflict, BusyTimeout, Disconnect
<1>4. CASE AddUserMessage(r)
  <2>1. Entry("user", r) \in Entries
    BY DEF Entry, Entries
  <2> QED
    BY <1>4, <2>1, Quietly DEF Effect, AddUserMessage, Says
<1>5. CASE Decide(r)
  <2>1. job[r].verdict \in {"approved", "rejected"}
    BY <1>5, AtWork DEF Decide, Jobs
  <2> QED
    BY <1>5, <2>1, Quietly DEF Effect, Decide, Settles
<1>6. CASE AddResult(r)
  <2>1. job[r].call \in Calls
    BY <1>6, AtWork DEF AddResult, Fits
  <2>2. Entry("result", job[r].call) \in Entries
    BY <2>1 DEF Entry, Entries
  <2> QED
    BY <1>6, <2>2, Quietly DEF Effect, AddResult, Says
<1>7. CASE GetContext(r) \/ ExplicitSwitch(r) \/ Handover(r)
  BY <1>7, Quietly DEF Effect, GetContext, ExplicitSwitch, Handover, SavesSwitch
<1>8. CASE AddPending(r)
  <2>1. phase'[r] = "record"
    BY <1>8, TypeParts DEF AddPending, Goto, RequestTypeOK
  <2> QED
    BY <1>8, <2>1 DEF Effect, AddPending, Settles, localVars
<1>9. CASE Record(r)
  <2>1. Fits(r) /\ phase[r] = "record" /\ phase \in [Requests -> Phases] /\ HasRead(r)
    BY <1>9, AtWork DEF Record, RequestTypeOK
  <2>2. AnswerEntry(r) \in Entries
    BY <2>1 DEF Fits, AnswerEntry, Entry, Entries
  <2>3. CASE ReadOnly(r) /\ UNCHANGED delivered
    BY <2>3, Quietly DEF Effect
  <2>4. CASE /\ Write(r, WithMessage(r, AnswerEntry(r)))
             /\ CASE told[r].kind = "switch" -> AfterSwitchChunk(r)
                  [] told[r].kind = "forbidden" -> Finish(r, "error")
                  [] OTHER -> Finish(r, "ok")
             /\ delivered' = IF told[r].kind = "call" THEN delivered \cup {<<S(r), told[r].call>>}
                                                      ELSE delivered
    <3>1. CASE told[r].kind = "switch"
      BY <2>1, <2>2, <2>4, <3>1 DEF Effect, Says, AfterSwitchChunk, Goto, Finish
    <3>2. CASE told[r].kind = "forbidden"
      BY <2>1, <2>2, <2>4, <3>2 DEF Effect, Says, Finish
    <3>3. CASE told[r].kind \notin {"switch", "forbidden"}
      BY <2>1, <2>2, <2>4, <3>3 DEF Effect, Says, Finish
    <3> QED
      BY <3>1, <3>2, <3>3
  <2> QED
    BY <1>9, <2>3, <2>4 DEF Record
<1>10. CASE AnswerSwitch(r)
  <2>1. DbTypeOK /\ S(r) \in Sessions /\ HasRead(r)
    BY <1>10, AtWork DEF AnswerSwitch
  <2>2. Source(r).msgs[S(r)] \in Seq(Entries)
    BY <2>1, ImageTypes DEF Images
  <2>3. OpenSwitchCall(r) =>
          Entry("result", LastSwitchCall(Source(r).msgs[S(r)])) \in Entries
    BY <2>2, LastSwitchCallTypes DEF OpenSwitchCall, Entry, Entries
  <2> QED
    BY <1>10, <2>3, Quietly DEF Effect, AnswerSwitch, Says
<1> QED
  BY <1>1, <1>2, <1>3, <1>4, <1>5, <1>6, <1>7, <1>8, <1>9, <1>10 DEF Acts, Step

\* A call id is new when the model uses it.
Issues(r) ==
  /\ UNCHANGED historyVars
  /\ \/ issued' = issued
     \/ \E c \in Calls \ Issued : issued' = issued \cup {<<S(r), c>>}

\* Only r moves, and only along the paths of its kind of request.
Paths(r) ==
  /\ job' = job
  /\ Unfinished(r) /\ phase' = [phase EXCEPT ![r] = phase'[r]]
  /\ \A q \in Requests \ {r} : told'[q] = told[q]
  /\ phase'[r] \notin {"new", "queued", "lost"}
  /\ phase'[r] = "done" => Commit(r)
  /\ phase'[r] = "decide" => Load(r)
  /\ phase'[r] \in {"pend", "record"} => Load(r) \/ AddPending(r) \/ Consult(r)
  /\ phase'[r] \in {"context", "result"} /\ job[r].kind \in {"tool", "hitl"} =>
       Load(r) \/ Decide(r) \/ AddResult(r) \/ GetContext(r)
  /\ job[r].kind = "rest" /\ phase[r] \in {"explicit", "leave", "commit"} =>
       phase'[r] \in {"explicit", "leave", "commit", "done"}

LEMMA StepMoves ==
  ASSUME Control, NEW r \in Requests, Acts(r)
  PROVE  Paths(r) /\ Issues(r)
<1>1. RequestTypeOK /\ \A q \in Requests : Fits(q)
  BY TypeParts
<1> USE DEF Paths, Issues, Unfinished, localVars, clientVars, historyVars, DbPhases, Goto, Finish
<1>2. CASE Load(r)
  BY <1>1, <1>2 DEF Load, RequestTypeOK
<1>3. CASE AddUserMessage(r)
  BY <1>1, <1>3 DEF AddUserMessage, RequestTypeOK, Fits
<1>4. CASE Decide(r)
  BY <1>1, <1>4 DEF Decide, RequestTypeOK
<1>5. CASE AddResult(r)
  BY <1>1, <1>5 DEF AddResult, RequestTypeOK
<1>6. CASE GetContext(r)
  <2>1. PICK a : AfterContext(r, a)
    BY <1>6 DEF GetContext
  <2>2. /\ job[r].kind \in {"user", "tool", "hitl", "switch"}
        /\ phase[r] = "context"
    BY <1>1, <1>6 DEF GetContext, Fits, Jobs, Kinds
  <2>3. CASE job[r].kind = "tool"
    BY <1>1, <1>6, <2>1, <2>2, <2>3 DEF GetContext, AfterContext, RequestTypeOK
  <2>4. CASE job[r].kind = "hitl"
    BY <1>1, <1>6, <2>1, <2>2, <2>4 DEF GetContext, AfterContext, StartAgent, RequestTypeOK
  <2>5. CASE job[r].kind = "user"
    BY <1>1, <1>6, <2>1, <2>2, <2>5 DEF GetContext, AfterContext, StartAgent, RequestTypeOK
  <2>6. CASE job[r].kind = "switch"
    BY <1>1, <1>6, <2>1, <2>2, <2>6 DEF GetContext, AfterContext, RequestTypeOK
  <2> QED
    BY <2>2, <2>3, <2>4, <2>5, <2>6
<1>7. CASE InsertConflict(r)
  BY <1>1, <1>7 DEF InsertConflict, RequestTypeOK
<1>8. CASE ExplicitSwitch(r)
  BY <1>1, <1>8 DEF ExplicitSwitch, StartAgent, RequestTypeOK
<1>9. CASE MissingAgent(r)
  BY <1>1, <1>9 DEF MissingAgent, RequestTypeOK
<1>10. CASE Classify(r)
  BY <1>1, <1>10 DEF Classify, AfterSwitchChunk, RequestTypeOK
<1>11. CASE Consult(r)
  <2>1. ASSUME ModelFails(r) PROVE Paths(r) /\ Issues(r)
    BY <1>1, <1>11, <2>1 DEF Consult, ModelFails, RequestTypeOK
  <2>2. ASSUME AnswerText(r) PROVE Paths(r) /\ Issues(r)
    BY <1>1, <1>11, <2>2 DEF Consult, AnswerText, RequestTypeOK
  <2>3. ASSUME NEW c \in Calls \ Issued, issued' = issued \cup {<<S(r), c>>},
               CallTool(r, c)
        PROVE  Paths(r) /\ Issues(r)
    BY <1>1, <1>11, <2>3 DEF Consult, CallTool, RequestTypeOK
  <2>4. ASSUME NEW c \in Calls \ Issued, issued' = issued \cup {<<S(r), c>>},
               CallSwitchMode(r, c)
        PROVE  Paths(r) /\ Issues(r)
    BY <1>1, <1>11, <2>4 DEF Consult, CallSwitchMode, RequestTypeOK
  <2> QED
    BY <1>11, <2>1, <2>2, <2>3, <2>4 DEF Consult
<1>12. CASE AddPending(r)
  BY <1>1, <1>12 DEF AddPending, RequestTypeOK
<1>13. CASE Record(r)
  BY <1>1, <1>13 DEF Record, AfterSwitchChunk, RequestTypeOK
<1>14. CASE AnswerSwitch(r)
  BY <1>1, <1>14 DEF AnswerSwitch, RequestTypeOK
<1>15. CASE Handover(r)
  BY <1>1, <1>15 DEF Handover, RequestTypeOK
<1>16. CASE Release(r)
  BY <1>1, <1>16 DEF Release, RequestTypeOK
<1>17. CASE Commit(r)
  BY <1>1, <1>17 DEF Commit, RequestTypeOK
<1>18. CASE BusyTimeout(r)
  BY <1>1, <1>18 DEF BusyTimeout, RequestTypeOK
<1>19. CASE Disconnect(r)
  BY <1>1, <1>19 DEF Disconnect, RequestTypeOK
<1> QED
  BY <1>2, <1>3, <1>4, <1>5, <1>6, <1>7, <1>8, <1>9, <1>10, <1>11, <1>12, <1>13,
     <1>14, <1>15, <1>16, <1>17, <1>18, <1>19
  DEF Acts, Step

\* How the other steps move the requests.
LEMMA OtherMoves ==
  ASSUME Control
  PROVE  /\ \A r \in Requests, j \in Jobs : Submit(r, j) =>
              /\ UNCHANGED <<db, writer, work, seen, issued, delivered, told>>
              /\ phase[r] = "new" /\ job' = [job EXCEPT ![r] = j]
              /\ job'[r] = j /\ Requested(j)
              /\ phase'[r] \in {"queued", "add", "decide", "context", "explicit"}
              /\ phase'[r] = "context" => j.kind \notin {"tool", "hitl"}
              /\ j.kind = "rest" <=> phase'[r] = "explicit"
              /\ \A q \in Requests \ {r} : phase'[q] = phase[q] /\ job'[q] = job[q]
              /\ forgotten' = forgotten
              /\ \/ phase'[r] \notin {"add", "decide", "context"} /\ overtaken' = overtaken
                 \/ NotesTurn(j.sess) /\ holder[j.sess] = NoRequest
         /\ \A s \in Sessions : Enter(s) => \E r \in Requests :
              /\ UNCHANGED <<db, writer, work, seen, issued, delivered, told, job>>
              /\ phase[r] = "queued" /\ phase'[r] \in {"add", "decide", "context"}
              /\ phase'[r] = "context" => job[r].kind \notin {"tool", "hitl"}
              /\ \A q \in Requests \ {r} : phase'[q] = phase[q]
              /\ S(r) = s /\ forgotten' = forgotten
              /\ NotesTurn(s) /\ holder[s] = NoRequest
         /\ Crash =>
              /\ UNCHANGED <<db, job, issued, delivered, overtaken>> /\ writer' = NoRequest
              /\ \A r \in Requests : seen'[r] = NoImage /\ phase'[r] \in {"new", "done", "lost"}
<1>1. RequestTypeOK /\ MutexTypeOK /\ Waiting /\ \A q \in Requests : Fits(q)
  BY TypeParts DEF InLine
<1>2. ASSUME NEW r \in Requests, NEW j \in Jobs, Submit(r, j)
      PROVE  /\ UNCHANGED <<db, writer, work, seen, issued, delivered, told>>
             /\ phase[r] = "new" /\ job' = [job EXCEPT ![r] = j]
             /\ job'[r] = j /\ Requested(j)
             /\ phase'[r] \in {"queued", "add", "decide", "context", "explicit"}
             /\ phase'[r] = "context" => j.kind \notin {"tool", "hitl"}
             /\ j.kind = "rest" <=> phase'[r] = "explicit"
             /\ \A q \in Requests \ {r} : phase'[q] = phase[q] /\ job'[q] = job[q]
             /\ forgotten' = forgotten
             /\ \/ phase'[r] \notin {"add", "decide", "context"} /\ overtaken' = overtaken
                \/ NotesTurn(j.sess) /\ holder[j.sess] = NoRequest
  <2>1. /\ UNCHANGED <<dbVars, told, issued, delivered, forgotten>> /\ phase[r] = "new"
        /\ job' = [job EXCEPT ![r] = j] /\ Requested(j)
    BY <1>2 DEF Submit
  <2>2. \E p \in {"queued", "add", "decide", "context", "explicit"} :
          /\ phase' = [phase EXCEPT ![r] = p]
          /\ p = "context" => j.kind \notin {"tool", "hitl"}
          /\ j.kind = "rest" <=> p = "explicit"
          /\ \/ p \in {"queued", "explicit"} /\ overtaken' = overtaken
             \/ NotesTurn(j.sess) /\ holder[j.sess] = NoRequest
    <3>1. CASE j.kind = "rest"
      BY <1>2, <3>1 DEF Submit, BeginRest, Goto
    <3>2. CASE j.kind # "rest"
      <4>1. j.kind \in {"user", "tool", "hitl", "switch"}
        BY <3>2 DEF Jobs, Kinds
      <4>2. /\ FirstPhase(j.kind) \in {"add", "decide", "context"}
            /\ FirstPhase(j.kind) = "context" => j.kind \notin {"tool", "hitl"}
        BY <4>1 DEF FirstPhase
      <4> QED
        BY <1>2, <3>2, <4>2 DEF Submit, BeginStream, EnterNow, Goto
    <3> QED
      BY <3>1, <3>2
  <2> QED
    BY <1>1, <2>1, <2>2 DEF RequestTypeOK, dbVars
<1>3. ASSUME NEW s \in Sessions, Enter(s)
      PROVE  \E r \in Requests :
              /\ UNCHANGED <<db, writer, work, seen, issued, delivered, told, job>>
              /\ phase[r] = "queued" /\ phase'[r] \in {"add", "decide", "context"}
              /\ phase'[r] = "context" => job[r].kind \notin {"tool", "hitl"}
              /\ \A q \in Requests \ {r} : phase'[q] = phase[q]
              /\ S(r) = s /\ forgotten' = forgotten
              /\ NotesTurn(s) /\ holder[s] = NoRequest
  <2>1. /\ queue[s] # <<>> /\ queue[s] \in Seq(Requests)
        /\ UNCHANGED <<db, writer, work, seen, issued, delivered, told, job, forgotten>>
        /\ NotesTurn(s) /\ holder[s] = NoRequest
    BY <1>1, <1>3 DEF Enter, Grant, MutexTypeOK, dbVars, localVars
  <2>2. PICK r \in Requests :
          r = Head(queue[s]) /\ r = queue[s][1] /\ Len(queue[s]) \in Nat \ {0}
    BY <2>1, HeadTailProperties, EmptySeq
  <2>3. phase[r] = "queued" /\ S(r) = s /\ Goto(r, FirstPhase(job[r].kind))
    BY <1>1, <1>3, <2>2 DEF Waiting, Enter
  <2>4. job[r].kind \in {"user", "tool", "hitl", "switch"}
    BY <1>1, <2>3 DEF Fits, Jobs, Kinds
  <2>5. /\ FirstPhase(job[r].kind) \in {"add", "decide", "context"}
        /\ FirstPhase(job[r].kind) = "context" => job[r].kind \notin {"tool", "hitl"}
    BY <2>4 DEF FirstPhase
  <2>6. /\ phase'[r] = FirstPhase(job[r].kind)
        /\ \A q \in Requests \ {r} : phase'[q] = phase[q]
    BY <1>1, <2>3 DEF Goto, RequestTypeOK
  <2> QED
    BY <2>1, <2>3, <2>5, <2>6
<1>4. Crash => /\ UNCHANGED <<db, job, issued, delivered, overtaken>> /\ writer' = NoRequest
               /\ \A r \in Requests : seen'[r] = NoImage /\ phase'[r] \in {"new", "done", "lost"}
  BY DEF Crash, Unfinished
<1> QED
  BY <1>2, <1>3, <1>4

-----------------------------------------------------------------------------
(***************************************************************************)
(* Turns: who works on a session, and until when                           *)
(***************************************************************************)
\* r's turn on its session has begun, and some of it may still be uncommitted.
Busy(r) ==
  /\ job[r].kind # "rest"
  /\ phase[r] \in Active \/ (phase[r] = "commit" /\ writer = r)

\* A session that is not overtaken has one turn at a time.
TurnsAlone ==
  \A q, r \in Requests :
     Busy(q) /\ Busy(r) /\ S(q) = S(r) /\ S(r) \notin overtaken => q = r
RestOnlySwitches ==
  \A r \in Requests : Unfinished(r) /\ job[r].kind = "rest" =>
     phase[r] \in {"explicit", "leave", "commit"}
StartsClean ==
  \A r \in Requests : /\ phase[r] \in {"new", "queued", "decide"} => writer # r
                      /\ phase[r] \in {"new", "queued"} => seen[r] = NoImage
WriterUnfinished == writer # NoRequest => Unfinished(writer)

Turns == TurnsAlone /\ RestOnlySwitches /\ StartsClean /\ WriterUnfinished

\* Operations on messages, approvals and calls belong to a turn.
LEMMA InTurn ==
  ASSUME Turns, NEW r \in Requests, Unfinished(r),
         phase[r] \in Phases \ {"queued", "explicit", "leave", "commit"}
  PROVE  Busy(r)
<1>1. phase[r] \in Active
  BY DEF Unfinished, Phases
<1> QED
  BY <1>1 DEF Turns, RestOnlySwitches, Busy

\* Whoever is busy has arrived, and is at work if it is not committing.
LEMMA BusyUnfinished ==
  ASSUME NEW r, Busy(r)
  PROVE  Unfinished(r) /\ phase[r] # "new"
<1> QED
  BY DEF Busy, Unfinished, Active, DbPhases

\* A step of a request begins no turn.
LEMMA StepBusy ==
  ASSUME Control, Turns, NEW r \in Requests, Acts(r)
  PROVE  \A q \in Requests : Busy(q)' => Busy(q)
<1>1. /\ job' = job
      /\ Unfinished(r) /\ phase' = [phase EXCEPT ![r] = phase'[r]]
  BY StepMoves DEF Paths
<1>2. RequestTypeOK /\ DbTypeOK
  BY TypeParts
<1>3. \A q \in Requests \ {r} : phase'[q] = phase[q]
  BY <1>1, <1>2 DEF RequestTypeOK
<1>4. writer' \in {writer, r, NoRequest}
  <2>1. Effect(r)
    BY StepEffects
  <2> QED
    BY <2>1 DEF Effect, Load, Commit, Quiet, Write
<1>5. ASSUME NEW q \in Requests, q # r, Busy(q)' PROVE Busy(q)
  BY <1>1, <1>3, <1>4, <1>5, NoRequestAssumption DEF Busy
<1>6. ASSUME Busy(r)' PROVE Busy(r)
  <2>1. job[r].kind # "rest" /\ phase'[r] # "done"
    BY <1>1, <1>6 DEF Busy, Active, DbPhases
  <2>2. CASE phase[r] = "queued"
    <3>1. writer # r /\ seen[r] = NoImage
      BY <2>2 DEF Turns, StartsClean
    <3>2. Disconnect(r) /\ phase'[r] = "commit" /\ writer' = writer
      BY <1>2, <2>2
      DEF Acts, Step, Load, AddUserMessage, Decide, AddResult, GetContext, InsertConflict,
          ExplicitSwitch, MissingAgent, Classify, Consult, AddPending, Record, AnswerSwitch,
          Handover, Release, Commit, BusyTimeout, Disconnect, DbPhases, dbVars, RequestTypeOK
    <3> QED
      BY <1>6, <3>1, <3>2 DEF Busy, Active, DbPhases
  <2>3. CASE phase[r] = "commit"
    <3>1. Commit(r)
      BY <2>3
      DEF Acts, Step, Load, AddUserMessage, Decide, AddResult, GetContext, InsertConflict,
          ExplicitSwitch, MissingAgent, Classify, Consult, AddPending, Record, AnswerSwitch,
          Handover, Release, BusyTimeout, Disconnect, DbPhases
    <3>2. phase'[r] = "done"
      BY <1>2, <3>1 DEF Commit, RequestTypeOK
    <3> QED
      BY <2>1, <3>2
  <2>4. CASE phase[r] \notin {"queued", "commit"}
    <3>1. phase[r] \in Active
      BY <1>1, <1>2, <2>4 DEF RequestTypeOK, Phases, Unfinished
    <3> QED
      BY <2>1, <3>1 DEF Busy
  <2> QED
    BY <2>2, <2>3, <2>4
<1> QED
  BY <1>5, <1>6

LEMMA StepTurns ==
  ASSUME Control, Turns, NEW r \in Requests, Acts(r)
  PROVE  Turns'
<1>1. /\ job' = job
      /\ Unfinished(r) /\ phase' = [phase EXCEPT ![r] = phase'[r]]
      /\ phase'[r] \notin {"new", "queued", "lost"}
      /\ phase'[r] = "done" => Commit(r)
      /\ phase'[r] = "decide" => Load(r)
      /\ job[r].kind = "rest" /\ phase[r] \in {"explicit", "leave", "commit"} =>
           phase'[r] \in {"explicit", "leave", "commit", "done"}
  BY StepMoves DEF Paths
<1>2. RequestTypeOK /\ DbTypeOK /\ writer \in Requests \cup {NoRequest}
  BY TypeParts DEF DbTypeOK
<1>3. \A q \in Requests \ {r} : phase'[q] = phase[q]
  BY <1>1, <1>2 DEF RequestTypeOK
<1>4. \A q \in Requests : Busy(q)' => Busy(q) /\ S(q)' = S(q)
  BY <1>1, StepBusy DEF S
<1>5. TurnsAlone'
  <2>1. overtaken' = overtaken
    BY StepMoves DEF Paths, Issues, historyVars
  <2> QED
    BY <1>4, <2>1 DEF Turns, TurnsAlone
<1>6. RestOnlySwitches'
  <2> SUFFICES ASSUME NEW q \in Requests, Unfinished(q)', job'[q].kind = "rest"
               PROVE  phase'[q] \in {"explicit", "leave", "commit"}
    BY DEF RestOnlySwitches
  <2>1. Unfinished(q) /\ job[q].kind = "rest"
    BY <1>1, <1>3 DEF Unfinished
  <2>2. phase[q] \in {"explicit", "leave", "commit"}
    BY <2>1 DEF Turns, RestOnlySwitches
  <2> QED
    BY <1>1, <1>3, <2>2 DEF Unfinished
<1>7. /\ \A q \in Requests \ {r} : seen'[q] = seen[q]
      /\ writer' # writer => writer' = r \/ writer' = NoRequest
      /\ Load(r) => writer' = writer /\ phase'[r] = phase[r]
      /\ Commit(r) => writer' # r
  <2>1. Effect(r)
    BY StepEffects
  <2>2. Load(r) \/ Commit(r) \/ Quiet(r) \/ \E img : Write(r, img)
    BY <2>1 DEF Effect
  <2> QED
    BY <1>2, <2>2, NoRequestAssumption DEF DbTypeOK, Load, Commit, Quiet, Write
<1>8. StartsClean'
  <2> SUFFICES ASSUME NEW q \in Requests
               PROVE  /\ phase'[q] \in {"new", "queued", "decide"} => writer' # q
                      /\ phase'[q] \in {"new", "queued"} => seen'[q] = NoImage
    BY DEF StartsClean
  <2>1. CASE q = r
    BY <1>1, <1>7, <2>1 DEF Turns, StartsClean
  <2>2. CASE q # r
    BY <1>3, <1>7, <2>2, NoRequestAssumption DEF Turns, StartsClean
  <2> QED
    BY <2>1, <2>2
<1>9. WriterUnfinished'
  <2>1. writer' = NoRequest \/ writer' = r \/ (writer' = writer /\ writer # r /\ Unfinished(writer))
    BY <1>7 DEF Turns, WriterUnfinished
  <2>2. writer' = r => Unfinished(r)'
    BY <1>1, <1>7, NoRequestAssumption DEF Unfinished
  <2> QED
    BY <1>2, <1>3, <2>1, <2>2 DEF WriterUnfinished, Unfinished
<1> QED
  BY <1>5, <1>6, <1>8, <1>9 DEF Turns

\* A turn that begins on a session it does not overtake begins when there is no
\* other: a turn at work holds the lock, one that is left is about to commit.
LEMMA TurnBegins ==
  ASSUME Control, Turns, NEW s \in Sessions, NotesTurn(s), holder[s] = NoRequest
  PROVE  /\ overtaken \subseteq overtaken'
         /\ s \notin overtaken' => \A q \in Requests : Busy(q) => S(q) # s
<1>1. overtaken \subseteq overtaken'
  BY DEF NotesTurn
<1>2. ASSUME NEW q \in Requests, Busy(q), S(q) = s PROVE s \in overtaken'
  <2>1. ~Works(q)
    BY <1>2, TypeParts, NoRequestAssumption DEF InLine, WorkersHold
  <2>2. phase[q] = "commit" /\ writer = q /\ job[q].kind # "rest"
    BY <1>2, <2>1 DEF Works, Busy
  <2> QED
    BY <1>2, <2>2, NoRequestAssumption DEF NotesTurn
<1> QED
  BY <1>1, <1>2

\* What begins is alone on a session that is not overtaken.
LEMMA BeginsAlone ==
  ASSUME Control, Turns, NEW r \in Requests, S(r)' \in Sessions,
         \A q \in Requests \ {r} : Busy(q)' => Busy(q) /\ S(q)' = S(q),
         \/ ~Busy(r)' /\ overtaken' = overtaken
         \/ NotesTurn(S(r)') /\ holder[S(r)'] = NoRequest
  PROVE  TurnsAlone'
<1>1. overtaken \subseteq overtaken'
  BY TurnBegins
<1>2. ASSUME NEW q \in Requests \ {r}, Busy(q)', Busy(r)', S(q)' = S(r)',
             S(r)' \notin overtaken'
      PROVE  FALSE
  BY <1>2, TurnBegins
<1> QED
  BY <1>1, <1>2 DEF Turns, TurnsAlone

LEMMA SubmitTurns ==
  ASSUME Control, Turns, NEW r \in Requests, NEW j \in Jobs, Submit(r, j)
  PROVE  Turns'
<1>1. /\ writer' = writer /\ seen' = seen /\ phase[r] = "new" /\ job'[r] = j
      /\ phase'[r] \in {"queued", "add", "decide", "context", "explicit"}
      /\ j.kind = "rest" <=> phase'[r] = "explicit"
      /\ \A q \in Requests \ {r} : phase'[q] = phase[q] /\ job'[q] = job[q]
      /\ \/ phase'[r] \notin {"add", "decide", "context"} /\ overtaken' = overtaken
         \/ NotesTurn(j.sess) /\ holder[j.sess] = NoRequest
  BY OtherMoves
<1>2. j.sess \in Sessions /\ S(r)' = j.sess
  BY <1>1 DEF Jobs, S
<1>3. \A q \in Requests \ {r} : Busy(q)' => Busy(q) /\ S(q)' = S(q)
  BY <1>1 DEF Busy, S
<1>4. TurnsAlone'
  <2>1. CASE NotesTurn(j.sess) /\ holder[j.sess] = NoRequest
    BY <1>2, <1>3, <2>1, BeginsAlone
  <2>2. CASE phase'[r] \notin {"add", "decide", "context"} /\ overtaken' = overtaken
    <3>1. CASE phase'[r] = "queued"
      <4>1. ~Busy(r)'
        BY <3>1 DEF Busy, Active, DbPhases
      <4> QED
        BY <1>2, <1>3, <2>2, <4>1, BeginsAlone
    <3>2. CASE phase'[r] = "explicit" /\ j.kind = "rest"
      <4>1. ~Busy(r)'
        BY <1>1, <3>2 DEF Busy
      <4> QED
        BY <1>2, <1>3, <2>2, <4>1, BeginsAlone
    <3> QED
      BY <1>1, <2>2, <3>1, <3>2
  <2> QED
    BY <1>1, <2>1, <2>2
<1>5. RestOnlySwitches'
  BY <1>1 DEF Turns, RestOnlySwitches, Unfinished
<1>6. writer # r /\ seen[r] = NoImage
  BY <1>1 DEF Turns, StartsClean
<1>7. StartsClean'
  BY <1>1, <1>6 DEF Turns, StartsClean
<1>8. WriterUnfinished'
  <2>1. writer = NoRequest \/ (writer \in Requests \ {r} /\ Unfinished(writer))
    BY <1>6, TypeParts DEF Turns, WriterUnfinished, DbTypeOK
  <2> QED
    BY <1>1, <2>1 DEF WriterUnfinished, Unfinished
<1> QED
  BY <1>4, <1>5, <1>7, <1>8 DEF Turns

LEMMA EnterTurns ==
  ASSUME Control, Turns, NEW s \in Sessions, Enter(s)
  PROVE  Turns'
<1>1. PICK r \in Requests :
        /\ UNCHANGED <<writer, seen, job>>
        /\ phase[r] = "queued" /\ phase'[r] \in {"add", "decide", "context"}
        /\ \A q \in Requests \ {r} : phase'[q] = phase[q]
        /\ S(r) = s /\ NotesTurn(s) /\ holder[s] = NoRequest
  BY OtherMoves
<1>2. job[r].kind # "rest"
  BY <1>1, TypeParts DEF Fits
<1>3. \A q \in Requests : (Unfinished(q)' <=> Unfinished(q)) /\ S(q)' = S(q)
  BY <1>1 DEF Unfinished, S
<1>4. TurnsAlone'
  <2>1. \A q \in Requests \ {r} : Busy(q)' => Busy(q) /\ S(q)' = S(q)
    BY <1>1, <1>3 DEF Busy
  <2> QED
    BY <1>1, <1>3, <2>1, BeginsAlone
<1>5. RestOnlySwitches'
  BY <1>1, <1>2, <1>3 DEF Turns, RestOnlySwitches
<1>6. StartsClean'
  BY <1>1 DEF Turns, StartsClean
<1>7. WriterUnfinished'
  BY <1>1, <1>3, TypeParts DEF Turns, WriterUnfinished, DbTypeOK
<1> QED
  BY <1>4, <1>5, <1>6, <1>7 DEF Turns

LEMMA CrashTurns ==
  ASSUME Control, Turns, Crash
  PROVE  Turns'
<1>1. /\ \A r \in Requests : ~Unfinished(r)'
      /\ \A r \in Requests : phase'[r] \notin {"queued", "decide"} /\ ~Busy(r)'
  BY DEF Crash, Unfinished, Busy, Active, DbPhases
<1>2. writer' = NoRequest /\ \A r \in Requests : seen'[r] = NoImage
  BY DEF Crash
<1> QED
  BY <1>1, <1>2, NoRequestAssumption
  DEF Turns, TurnsAlone, RestOnlySwitches, StartsClean, WriterUnfinished

LEMMA SameTurns ==
  ASSUME Turns, UNCHANGED vars
  PROVE  Turns'
<1>1. UNCHANGED <<phase, job, writer, seen, overtaken>>
  BY DEF vars, dbVars, localVars, clientVars, historyVars
<1> QED
  BY <1>1
  DEF Turns, TurnsAlone, RestOnlySwitches, StartsClean, WriterUnfinished, Busy, Unfinished, S

LEMMA NextTurns ==
  ASSUME Control, Turns, [Next]_vars
  PROVE  Turns'
<1> QED
  BY StepTurns, SubmitTurns, EnterTurns, CrashTurns, SameTurns DEF Next, Acts

-----------------------------------------------------------------------------
(***************************************************************************)
(* Drafts: what a turn reads and writes of the messages of its session     *)
(***************************************************************************)
Extends(img, old, s) ==
  /\ Len(old.msgs[s]) <= Len(img.msgs[s])
  /\ \A i \in 1..Len(old.msgs[s]) : img.msgs[s][i] = old.msgs[s][i]

\* The uncommitted image differs from the committed one only in messages of the
\* writer's session.  If that session is not overtaken they are only added, and
\* what a turn has read of them is current.
OnlyOwnMessages ==
  writer # NoRequest =>
    \A s \in Sessions : s # S(writer) \/ job[writer].kind = "rest" => work.msgs[s] = db.msgs[s]
DraftExtends ==
  writer # NoRequest => \A s \in Sessions \ overtaken : Extends(work, db, s)
ReadsCurrent ==
  \A r \in Requests : Busy(r) /\ S(r) \notin overtaken /\ seen[r] # NoImage =>
     seen[r].msgs[S(r)] = db.msgs[S(r)]

Drafts == OnlyOwnMessages /\ DraftExtends /\ ReadsCurrent

LEMMA LengthsOfMessages ==
  ASSUME NEW img \in Images, NEW s \in Sessions
  PROVE  img.msgs[s] \in Seq(Entries) /\ Len(img.msgs[s]) \in Nat
<1>1. img.msgs[s] \in Seq(Entries)
  BY DEF Images
<1> QED
  BY <1>1, LenProperties

LEMMA ExtendsItself ==
  ASSUME NEW img \in Images, NEW s \in Sessions
  PROVE  Extends(img, img, s)
<1> QED
  BY LengthsOfMessages DEF Extends

LEMMA ExtendsOn ==
  ASSUME NEW a \in Images, NEW b \in Images, NEW c \in Images, NEW s \in Sessions,
         Extends(a, b, s), Extends(b, c, s)
  PROVE  Extends(a, c, s)
<1>1. Len(a.msgs[s]) \in Nat /\ Len(b.msgs[s]) \in Nat /\ Len(c.msgs[s]) \in Nat
  BY LengthsOfMessages
<1> QED
  BY <1>1 DEF Extends

LEMMA CurrentMessages ==
  ASSUME Drafts, NEW r \in Requests, Busy(r), HasRead(r), S(r) \notin overtaken
  PROVE  Source(r).msgs[S(r)] = Target(r).msgs[S(r)]
<1> QED
  BY DEF Drafts, ReadsCurrent, HasRead, Source, Target

\* A message is added at the end of the conversation that r has read, which is
\* the current one unless the session is overtaken.
LEMMA MessageAdded ==
  ASSUME Control, Drafts, NEW r \in Requests, Busy(r), HasRead(r), NEW e \in Entries,
         NEW img, img = WithMessage(r, e)
  PROVE  /\ img \in Images /\ Target(r) \in Images /\ Source(r) \in Images
         /\ S(r) \in Sessions
         /\ img.appr = Target(r).appr
         /\ \A s \in Sessions \ {S(r)} : img.msgs[s] = Target(r).msgs[s]
         /\ Len(Source(r).msgs[S(r)]) \in Nat
         /\ Len(img.msgs[S(r)]) = Len(Source(r).msgs[S(r)]) + 1
         /\ \A i \in 1..Len(Source(r).msgs[S(r)]) : img.msgs[S(r)][i] = Source(r).msgs[S(r)][i]
         /\ img.msgs[S(r)][Len(Source(r).msgs[S(r)]) + 1] = e
         /\ \A s \in Sessions \ overtaken : Extends(img, Target(r), s)
<1>1. DbTypeOK /\ S(r) \in Sessions
  BY AtWork, BusyUnfinished
<1>2. Target(r) \in Images /\ Source(r) \in Images /\ WithMessage(r, e) \in Images
  BY <1>1, ImageTypes, MessageTypes
<1>3. Source(r).msgs[S(r)] \in Seq(Entries) /\ Len(Source(r).msgs[S(r)]) \in Nat
  BY <1>1, <1>2, LengthsOfMessages
<1>4. /\ img.appr = Target(r).appr
      /\ img.msgs[S(r)] = Append(Source(r).msgs[S(r)], e)
      /\ \A s \in Sessions \ {S(r)} : img.msgs[s] = Target(r).msgs[s]
  BY <1>1, <1>2 DEF Images, WithMessage
<1>5. /\ Len(img.msgs[S(r)]) = Len(Source(r).msgs[S(r)]) + 1
      /\ \A i \in 1..Len(Source(r).msgs[S(r)]) : img.msgs[S(r)][i] = Source(r).msgs[S(r)][i]
      /\ img.msgs[S(r)][Len(Source(r).msgs[S(r)]) + 1] = e
  BY <1>3, <1>4, AppendProperties
<1>6. ASSUME NEW s \in Sessions \ overtaken
      PROVE  Extends(img, Target(r), s)
  <2>1. CASE s = S(r)
    <3>1. Source(r).msgs[s] = Target(r).msgs[s]
      BY <2>1, CurrentMessages
    <3> QED
      BY <1>3, <1>5, <2>1, <3>1 DEF Extends
  <2>2. CASE s # S(r)
    BY <1>2, <1>4, <2>2, ExtendsItself DEF Extends
  <2> QED
    BY <2>1, <2>2
<1> QED
  BY <1>1, <1>2, <1>3, <1>4, <1>5, <1>6

\* Approvals and contexts are written beside the messages.
LEMMA ApprovalSet ==
  ASSUME Control, NEW r \in Requests, NEW c, NEW status
  PROVE  /\ WithApproval(r, c, status).msgs = Target(r).msgs
         /\ WithApproval(r, c, status).appr = [Target(r).appr EXCEPT ![c] = status]
<1>1. Target(r) \in Images
  BY TypeParts, ImageTypes
<1> QED
  BY <1>1 DEF WithApproval, Images

LEMMA ContextSet ==
  ASSUME Control, NEW r \in Requests, NEW ctx
  PROVE  /\ WithContext(r, ctx).msgs = Target(r).msgs
         /\ WithContext(r, ctx).appr = Target(r).appr
<1>1. Target(r) \in Images
  BY TypeParts, ImageTypes
<1> QED
  BY <1>1 DEF WithContext, Images

\* The message operations of r belong to a turn.
LEMMA SaysInTurn ==
  ASSUME Control, Turns, NEW r \in Requests, NEW e, Says(r, e)
  PROVE  Busy(r) /\ HasRead(r) /\ e \in Entries
<1>1. phase[r] \in {"add", "result", "answer", "record"} /\ phase[r] \in Phases
  BY TypeParts DEF Says, RequestTypeOK
<1> QED
  BY <1>1, InTurn DEF Says, Unfinished

LEMMA TargetExtends ==
  ASSUME Control, Drafts, NEW r \in Requests
  PROVE  /\ \A s \in Sessions \ overtaken : Extends(Target(r), db, s)
         /\ \A s \in Sessions : s # S(r) \/ job[r].kind = "rest" => Target(r).msgs[s] = db.msgs[s]
<1>1. db \in Images
  BY TypeParts DEF DbTypeOK
<1> QED
  BY <1>1, ExtendsItself, NoRequestAssumption DEF Drafts, OnlyOwnMessages, DraftExtends, Target

\* r has written img, which changes at most the messages of its own turn.
LEMMA WriteDrafts ==
  ASSUME Control, Turns, Drafts, NEW r \in Requests, NEW img, Write(r, img), job' = job,
         \A q \in Requests : Busy(q)' => Busy(q), overtaken' = overtaken,
         \A s \in Sessions \ overtaken : Extends(img, db, s),
         \A s \in Sessions : s # S(r) \/ job[r].kind = "rest" => img.msgs[s] = db.msgs[s]
  PROVE  Drafts'
<1>1. db' = db /\ work' = img /\ writer' = r /\ seen' = [seen EXCEPT ![r] = NoImage]
  BY DEF Write
<1>2. OnlyOwnMessages'
  BY <1>1 DEF OnlyOwnMessages, S
<1>3. DraftExtends'
  BY <1>1 DEF DraftExtends, Extends
<1>4. ASSUME NEW q \in Requests, Busy(q)', S(q)' \notin overtaken', seen'[q] # NoImage
      PROVE  seen'[q].msgs[S(q)'] = db'.msgs[S(q)']
  <2>1. seen'[q] = seen[q]
    BY <1>1, <1>4, TypeParts DEF DbTypeOK
  <2> QED
    BY <1>1, <1>4, <2>1 DEF Drafts, ReadsCurrent, S
<1> QED
  BY <1>2, <1>3, <1>4 DEF Drafts, ReadsCurrent

LEMMA StepDrafts ==
  ASSUME Control, Turns, Drafts, NEW r \in Requests, Acts(r)
  PROVE  Drafts'
<1>1. /\ job' = job /\ Unfinished(r) /\ phase' = [phase EXCEPT ![r] = phase'[r]]
      /\ overtaken' = overtaken
  BY StepMoves DEF Paths, Issues, historyVars
<1>2. RequestTypeOK /\ DbTypeOK
  BY TypeParts
<1>3. \A q \in Requests : Busy(q)' => Busy(q)
  BY StepBusy
<1>4. Effect(r)
  BY StepEffects
<1>5. CASE Quiet(r)
  <2>1. /\ db' = db
        /\ writer' # NoRequest => writer' = writer /\ work' = work
        /\ \A q \in Requests : seen'[q] # NoImage => seen'[q] = seen[q]
    BY <1>2, <1>5 DEF Quiet, DbTypeOK
  <2>2. OnlyOwnMessages' /\ DraftExtends'
    BY <1>1, <2>1 DEF Drafts, OnlyOwnMessages, DraftExtends, Extends, S
  <2>3. ReadsCurrent'
    BY <1>1, <1>3, <2>1 DEF Drafts, ReadsCurrent, S
  <2> QED
    BY <2>2, <2>3 DEF Drafts
<1>6. CASE Load(r)
  <2>1. /\ db' = db /\ writer' = writer /\ work' = work
        /\ \A q \in Requests : seen'[q] = seen[q] \/ seen'[q] = db
    BY <1>2, <1>6 DEF Load, DbTypeOK
  <2>2. OnlyOwnMessages' /\ DraftExtends'
    BY <1>1, <2>1 DEF Drafts, OnlyOwnMessages, DraftExtends, Extends, S
  <2>3. ReadsCurrent'
    BY <1>1, <1>3, <2>1 DEF Drafts, ReadsCurrent, S
  <2> QED
    BY <2>2, <2>3 DEF Drafts
<1>7. CASE Commit(r)
  <2>1. CASE writer # r
    <3>1. db' = db /\ writer' = writer /\ work' = work /\ seen' = seen
      BY <1>7, <2>1 DEF Commit
    <3>2. OnlyOwnMessages' /\ DraftExtends'
      BY <1>1, <3>1 DEF Drafts, OnlyOwnMessages, DraftExtends, Extends, S
    <3>3. ReadsCurrent'
      BY <1>1, <1>3, <3>1 DEF Drafts, ReadsCurrent, S
    <3> QED
      BY <3>2, <3>3 DEF Drafts
  <2>2. CASE writer = r
    <3>1. db' = work /\ writer' = NoRequest /\ seen' = seen
      BY <1>7, <2>2 DEF Commit
    <3>2. OnlyOwnMessages' /\ DraftExtends'
      BY <3>1 DEF OnlyOwnMessages, DraftExtends
    <3>3. ASSUME NEW q \in Requests, Busy(q)', S(q)' \notin overtaken', seen'[q] # NoImage
          PROVE  seen'[q].msgs[S(q)'] = db'.msgs[S(q)']
      <4>1. q # r
        BY <1>2, <1>7, <3>3 DEF Commit, Busy, Active, DbPhases, RequestTypeOK
      <4>2. Busy(q) /\ S(q) \in Sessions /\ S(q) \notin overtaken
        BY <1>1, <1>3, <3>3, AtWork, BusyUnfinished DEF S
      <4>3. S(q) # S(r) \/ job[r].kind = "rest"
        BY <1>7, <2>2, <4>1, <4>2 DEF Turns, TurnsAlone, Busy, Commit
      <4>4. work.msgs[S(q)] = db.msgs[S(q)]
        BY <2>2, <4>2, <4>3, NoRequestAssumption DEF Drafts, OnlyOwnMessages
      <4> QED
        BY <1>1, <3>1, <3>3, <4>2, <4>4 DEF Drafts, ReadsCurrent, S
    <3> QED
      BY <3>2, <3>3 DEF Drafts, ReadsCurrent
  <2> QED
    BY <2>1, <2>2
<1>8. ASSUME NEW e, Says(r, e), Write(r, WithMessage(r, e)) PROVE Drafts'
  <2> DEFINE img == WithMessage(r, e)
  <2>1. Busy(r) /\ HasRead(r) /\ e \in Entries
    BY <1>8, SaysInTurn
  <2>2. /\ img \in Images /\ Target(r) \in Images
        /\ \A s \in Sessions \ overtaken : Extends(img, Target(r), s)
        /\ \A s \in Sessions \ {S(r)} : img.msgs[s] = Target(r).msgs[s]
    BY <2>1, MessageAdded
  <2>3. /\ \A s \in Sessions \ overtaken : Extends(img, db, s)
        /\ \A s \in Sessions \ {S(r)} : img.msgs[s] = db.msgs[s]
    <3> HIDE DEF img
    <3>1. db \in Images
      BY <1>2 DEF DbTypeOK
    <3>2. /\ \A s \in Sessions \ overtaken : Extends(Target(r), db, s)
          /\ \A s \in Sessions \ {S(r)} : Target(r).msgs[s] = db.msgs[s]
      BY TargetExtends
    <3> QED
      BY <2>2, <3>1, <3>2, ExtendsOn
  <2> HIDE DEF img
  <2>4. Write(r, img)
    BY <1>8 DEF img
  <2> QED
    BY <1>1, <1>3, <2>1, <2>3, <2>4, WriteDrafts DEF Busy
<1>9. ASSUME NEW img, Write(r, img), img.msgs = Target(r).msgs PROVE Drafts'
  <2>1. \A s \in Sessions \ overtaken : Extends(img, db, s)
    BY <1>9, TargetExtends DEF Extends
  <2> QED
    BY <1>1, <1>3, <1>9, <2>1, TargetExtends, WriteDrafts
<1>10. ASSUME NEW c, NEW status, Write(r, WithApproval(r, c, status)) PROVE Drafts'
  BY <1>9, <1>10, ApprovalSet
<1>11. ASSUME NEW c, Write(r, WithContext(r, c)) PROVE Drafts'
  BY <1>9, <1>11, ContextSet
<1> QED
  BY <1>4, <1>5, <1>6, <1>7, <1>8, <1>10, <1>11 DEF Effect

\* Steps of the lock, of the client and of the process change no image.
LEMMA OtherDrafts ==
  ASSUME Control, Turns, Drafts, UNCHANGED <<db, writer, work, seen>>,
         overtaken \subseteq overtaken',
         \A q \in Requests : phase[q] # "new" => job'[q] = job[q],
         \A q \in Requests : Busy(q)' => Busy(q) \/ phase[q] \in {"new", "queued"}
  PROVE  Drafts'
<1>1. writer # NoRequest => writer \in Requests /\ phase[writer] # "new"
  BY TypeParts DEF DbTypeOK, Turns, WriterUnfinished, Unfinished
<1>2. OnlyOwnMessages' /\ DraftExtends'
  BY <1>1 DEF Drafts, OnlyOwnMessages, DraftExtends, Extends, S
<1>3. ReadsCurrent'
  BY BusyUnfinished DEF Drafts, ReadsCurrent, Turns, StartsClean, S
<1> QED
  BY <1>2, <1>3 DEF Drafts

LEMMA NextDrafts ==
  ASSUME Control, Turns, Drafts, [Next]_vars
  PROVE  Drafts'
<1>1. ASSUME NEW r \in Requests, NEW j \in Jobs, Submit(r, j) PROVE Drafts'
  <2>1. overtaken \subseteq overtaken'
    BY <1>1, OtherMoves DEF NotesTurn
  <2>2. \A q \in Requests : Busy(q)' => Busy(q) \/ phase[q] = "new"
    BY <1>1, OtherMoves DEF Busy
  <2> QED
    BY <1>1, <2>1, <2>2, OtherMoves, OtherDrafts
<1>2. ASSUME NEW s \in Sessions, Enter(s) PROVE Drafts'
  <2>1. overtaken \subseteq overtaken'
    BY <1>2, OtherMoves DEF NotesTurn
  <2>2. \A q \in Requests : Busy(q)' => Busy(q) \/ phase[q] = "queued"
    BY <1>2, OtherMoves DEF Busy
  <2> QED
    BY <1>2, <2>1, <2>2, OtherMoves, OtherDrafts
<1>3. CASE Crash
  <2>1. writer' = NoRequest /\ \A r \in Requests : seen'[r] = NoImage
    BY <1>3, OtherMoves
  <2> QED
    BY <2>1 DEF Drafts, OnlyOwnMessages, DraftExtends, ReadsCurrent
<1>4. CASE UNCHANGED vars
  <2>1. UNCHANGED <<db, writer, work, seen, job, phase, overtaken>>
    BY <1>4 DEF vars, dbVars, localVars, clientVars, historyVars
  <2>2. \A q \in Requests : Busy(q)' => Busy(q)
    BY <2>1 DEF Busy
  <2> QED
    BY <2>1, <2>2, OtherDrafts
<1> QED
  BY <1>1, <1>2, <1>3, <1>4, StepDrafts DEF Next, Acts

-----------------------------------------------------------------------------
(***************************************************************************)
(* Calls: from the model's answer to its result                            *)
(***************************************************************************)
\* The images that an operation may start from.
InUse == {db} \cup {img \in {work} : writer # NoRequest}
              \cup {img \in {seen[q] : q \in Requests} : img # NoImage}

Shows(img, s, e) == \E i \in 1..Len(img.msgs[s]) : img.msgs[s][i] = e
CallKinds == {"call", "switch", "result"}
Mentions(img, c) == \E s \in Sessions, k \in CallKinds : Shows(img, s, Entry(k, c))

\* Only calls that were issued are mentioned or wait for an approval; only
\* guarded ones wait, switch_mode is not guarded, and none waits once answered
\* (in a session that is not lost).
Orderly(img, known, lost) ==
  /\ \A c \in Calls : Mentions(img, c) \/ img.appr[c] # "none" => c \in known
  /\ \A c \in Calls : img.appr[c] = "pending" => c \in Guarded
  /\ \A s \in Sessions, c \in Calls : Shows(img, s, Entry("switch", c)) => c \notin Guarded
  /\ \A s \in Sessions \ lost, c \in Calls :
        Shows(img, s, Entry("result", c)) => img.appr[c] # "pending"
ImagesOrderly == \A img \in InUse : Orderly(img, Issued, overtaken)

\* A call that r is about to store is known to nobody else.
Speaks(r) == phase[r] \in {"pend", "record"} /\ told[r].kind # "text"
NewCall(r, c) ==
  /\ c \in Calls /\ <<S(r), c>> \in issued
  /\ told[r].kind = "switch" => c \notin Guarded
  /\ \A s \in Sessions : <<s, c>> \notin delivered
  /\ \A q \in Requests : Speaks(q) /\ told[q].call = c => q = r
  /\ \A img \in InUse : ~Mentions(img, c)
  /\ phase[r] = "pend" => c \in Guarded /\ \A img \in InUse : img.appr[c] = "none"
NewCalls == \A r \in Requests : Speaks(r) => NewCall(r, told[r].call)

\* A call belongs to one session, and only its requests answer it.
Replies(r) == Unfinished(r) /\ job[r].kind \in {"tool", "hitl"}
OneOwner ==
  /\ delivered \subseteq issued
  /\ \A s, t \in Sessions, c \in Calls : <<s, c>> \in issued /\ <<t, c>> \in issued => t = s
OwnersAnswer == \A r \in Requests : Replies(r) => <<S(r), job[r].call>> \in delivered

\* The approval of a delivered call is in the hands of its session's turn: unless
\* another overtook it, what the turn read of it is current, and once decided it
\* stays so.
OnlyOwnApprovals ==
  writer # NoRequest =>
    \A s \in Sessions, c \in Calls : <<s, c>> \in delivered /\ work.appr[c] # db.appr[c] =>
       s = S(writer) /\ job[writer].kind # "rest"
ApprovalsCurrent ==
  \A r \in Requests : Replies(r) /\ Busy(r) /\ S(r) \notin overtaken =>
     /\ seen[r] # NoImage => seen[r].appr[job[r].call] = db.appr[job[r].call]
     /\ phase[r] \in {"context", "result"} => Target(r).appr[job[r].call] # "pending"
DraftMoves ==
  writer # NoRequest =>
    \A c \in Calls \ CallsOvertaken : <<db.appr[c], work.appr[c]>> \in Log!Moves

CallsInOrder ==
  /\ ImagesOrderly /\ NewCalls /\ OneOwner /\ OwnersAnswer
  /\ OnlyOwnApprovals /\ ApprovalsCurrent /\ DraftMoves

\* The ids of calls and the pairs of a session and a call agree.
LEMMA IssuedIds ==
  ASSUME Control
  PROVE  /\ \A s, c : <<s, c>> \in issued => s \in Sessions /\ c \in Calls /\ c \in Issued
         /\ \A s, c : <<s, c>> \in issued /\ s \in overtaken => c \in CallsOvertaken
         /\ \A c \in CallsOvertaken : \E s \in overtaken : <<s, c>> \in issued
         /\ Issued \subseteq Calls
<1>1. issued \subseteq Sessions \X Calls
  BY TypeParts DEF RequestTypeOK
<1>2. ASSUME NEW s, NEW c, <<s, c>> \in issued
      PROVE  /\ s \in Sessions /\ c \in Calls /\ c \in Issued
             /\ s \in overtaken => c \in CallsOvertaken
  <2>1. <<s, c>>[1] = s /\ <<s, c>>[2] = c
    OBVIOUS
  <2> QED
    BY <1>1, <1>2, <2>1 DEF Issued, CallsOvertaken
<1>3. ASSUME NEW c \in CallsOvertaken PROVE \E s \in overtaken : <<s, c>> \in issued
  <2>1. PICK p \in issued : p[1] \in overtaken /\ c = p[2]
    BY DEF CallsOvertaken
  <2>2. p = <<p[1], p[2]>>
    BY <1>1
  <2> QED
    BY <2>1, <2>2
<1>4. Issued \subseteq Calls
  BY <1>1 DEF Issued
<1> QED
  BY <1>2, <1>3, <1>4

LEMMA IssuedGrows ==
  ASSUME Control, NEW r \in Requests, Issues(r)
  PROVE  /\ UNCHANGED historyVars /\ overtaken' = overtaken /\ forgotten' = forgotten
         /\ issued \subseteq issued' /\ Issued \subseteq Issued'
         /\ CallsOvertaken \subseteq CallsOvertaken'
         /\ \A s, c : <<s, c>> \in issued' /\ <<s, c>> \notin issued => c \notin Issued
<1>1. UNCHANGED historyVars /\ overtaken' = overtaken /\ forgotten' = forgotten
  BY DEF Issues, historyVars
<1>2. issued \subseteq issued'
  BY DEF Issues
<1>3. Issued \subseteq Issued' /\ CallsOvertaken \subseteq CallsOvertaken'
  BY <1>1, <1>2 DEF Issued, CallsOvertaken
<1>4. ASSUME NEW s, NEW c, <<s, c>> \in issued', <<s, c>> \notin issued PROVE c \notin Issued
  <2>1. PICK d \in Calls \ Issued : issued' = issued \cup {<<S(r), d>>}
    BY <1>4 DEF Issues
  <2>2. <<s, c>> = <<S(r), d>>
    BY <1>4, <2>1
  <2> QED
    BY <2>1, <2>2
<1> QED
  BY <1>1, <1>2, <1>3, <1>4

\* What a conversation shows it goes on to show.
LEMMA ShowsStays ==
  ASSUME NEW img \in Images, NEW old \in Images, NEW s \in Sessions, Extends(img, old, s),
         NEW x, Shows(old, s, x)
  PROVE  Shows(img, s, x)
<1>1. /\ Len(old.msgs[s]) \in Nat /\ Len(img.msgs[s]) \in Nat
      /\ Len(old.msgs[s]) <= Len(img.msgs[s])
      /\ \A i \in 1..Len(old.msgs[s]) : img.msgs[s][i] = old.msgs[s][i]
  BY LengthsOfMessages DEF Extends
<1> QED
  BY <1>1 DEF Shows

LEMMA TargetInUse ==
  ASSUME NEW r \in Requests
  PROVE  Target(r) \in InUse
<1> QED
  BY NoRequestAssumption DEF Target, InUse

LEMMA SourceInUse ==
  ASSUME NEW r \in Requests, HasRead(r)
  PROVE  Source(r) \in InUse
<1> QED
  BY NoRequestAssumption DEF Source, HasRead, InUse

\* img shows what r's operation found, or in r's session what it had read and e.
SameShown(r, img) == \A s \in Sessions : \A x : Shows(img, s, x) <=> Shows(Target(r), s, x)
Added(r, img, e) ==
  /\ \A s \in Sessions \ {S(r)} : \A x : Shows(img, s, x) <=> Shows(Target(r), s, x)
  /\ \A x : Shows(img, S(r), x) <=> Shows(Source(r), S(r), x) \/ x = e

\* What r's operation made of its target.
Made(r, img) ==
  /\ \A s \in Sessions \ overtaken : Extends(img, Target(r), s)
  /\ \/ \E e : Says(r, e) /\ img.appr = Target(r).appr /\ Added(r, img, e)
     \/ \E c, status : /\ Settles(r, c, status) /\ UNCHANGED delivered
                       /\ img.appr = [Target(r).appr EXCEPT ![c] = status]
                       /\ SameShown(r, img)
     \/ /\ phase[r] # "record"
        /\ img.appr = Target(r).appr /\ UNCHANGED delivered
        /\ SameShown(r, img)

LEMMA Making ==
  ASSUME Control, Turns, Drafts, NEW r \in Requests, Acts(r)
  PROVE  \/ (Quiet(r) \/ Load(r) \/ Commit(r)) /\ UNCHANGED delivered
         \/ \E img : Write(r, img) /\ Made(r, img)
<1>0. Target(r) \in Images
  BY TypeParts, ImageTypes
<1>1. Effect(r)
  BY StepEffects
<1>2. ASSUME NEW e, Says(r, e), Write(r, WithMessage(r, e))
      PROVE  \E img : Write(r, img) /\ Made(r, img)
  <2> DEFINE img == WithMessage(r, e)
             q == Source(r).msgs[S(r)]
  <2>1. Busy(r) /\ HasRead(r) /\ e \in Entries
    BY <1>2, SaysInTurn
  <2>2. /\ img.appr = Target(r).appr /\ S(r) \in Sessions
        /\ \A s \in Sessions \ {S(r)} : img.msgs[s] = Target(r).msgs[s]
        /\ Len(q) \in Nat /\ Len(img.msgs[S(r)]) = Len(q) + 1
        /\ \A i \in 1..Len(q) : img.msgs[S(r)][i] = q[i]
        /\ img.msgs[S(r)][Len(q) + 1] = e
        /\ \A s \in Sessions \ overtaken : Extends(img, Target(r), s)
    BY <2>1, MessageAdded
  <2> HIDE DEF img
  <2>3. ASSUME NEW s \in Sessions \ {S(r)}, NEW x
        PROVE  Shows(img, s, x) <=> Shows(Target(r), s, x)
    BY <2>2 DEF Shows
  <2>4. ASSUME NEW x
        PROVE  Shows(img, S(r), x) <=> Shows(Source(r), S(r), x) \/ x = e
    <3> HIDE DEF q
    <3>1. 1..(Len(q) + 1) = (1..Len(q)) \cup {Len(q) + 1}
      BY <2>2
    <3>2. Shows(img, S(r), x) <=> (\E i \in 1..Len(q) : q[i] = x) \/ x = e
      BY <2>2, <3>1 DEF Shows
    <3> QED
      BY <3>2 DEF Shows, q
  <2> QED
    BY <1>2, <2>2, <2>3, <2>4 DEF Made, Added, img
<1>3. ASSUME NEW c, NEW status, Settles(r, c, status), UNCHANGED delivered,
             Write(r, WithApproval(r, c, status))
      PROVE  \E img : Write(r, img) /\ Made(r, img)
  <2>1. /\ WithApproval(r, c, status).msgs = Target(r).msgs
        /\ WithApproval(r, c, status).appr = [Target(r).appr EXCEPT ![c] = status]
    BY ApprovalSet
  <2>2. SameShown(r, WithApproval(r, c, status))
    BY <2>1 DEF Shows, SameShown
  <2>3. \A s \in Sessions : Extends(WithApproval(r, c, status), Target(r), s)
    BY <1>0, <2>1, ExtendsItself DEF Extends
  <2> QED
    BY <1>3, <2>1, <2>2, <2>3 DEF Made
<1>4. ASSUME NEW c, Write(r, WithContext(r, c)), UNCHANGED delivered, phase[r] # "record"
      PROVE  \E img : Write(r, img) /\ Made(r, img)
  <2>1. SameShown(r, WithContext(r, c))
    BY ContextSet DEF Shows, SameShown
  <2>2. \A s \in Sessions : Extends(WithContext(r, c), Target(r), s)
    BY <1>0, ContextSet, ExtendsItself DEF Extends
  <2> QED
    BY <1>4, <2>1, <2>2, ContextSet DEF Made
<1>5. Load(r) \/ Commit(r) => UNCHANGED delivered
  BY DEF Load, Commit, clientVars, historyVars
<1> QED
  BY <1>1, <1>2, <1>3, <1>4, <1>5 DEF Effect

\* Without a write, nothing new is in use.
LEMMA UseKept ==
  ASSUME Control, NEW r \in Requests, Quiet(r) \/ Load(r) \/ Commit(r)
  PROVE  InUse' \subseteq InUse
<1>1. seen \in [Requests -> Images \cup {NoImage}]
  BY TypeParts DEF DbTypeOK
<1>2. ASSUME NEW q \in Requests, seen'[q] # NoImage
      PROVE  seen'[q] \in {seen[q], db}
  BY <1>1, <1>2 DEF Quiet, Load, Commit
<1>3. /\ db' = db \/ (writer # NoRequest /\ db' = work)
      /\ writer' # NoRequest => writer # NoRequest /\ work' = work
  BY NoRequestAssumption DEF Quiet, Load, Commit
<1> QED
  BY <1>2, <1>3 DEF InUse

LEMMA UseWritten ==
  ASSUME Control, NEW r \in Requests, NEW img, Write(r, img)
  PROVE  InUse' \subseteq InUse \cup {img}
<1>1. seen \in [Requests -> Images \cup {NoImage}]
  BY TypeParts DEF DbTypeOK
<1>2. \A q \in Requests : seen'[q] # NoImage => seen'[q] = seen[q]
  BY <1>1 DEF Write
<1> QED
  BY <1>2 DEF InUse, Write

\* When r speaks after a step, it spoke before or has just been given a call
\* nobody knew.
GivenCall(r, c) ==
  /\ UNCHANGED <<db, writer, work, seen, delivered>>
  /\ c \in Calls \ Issued /\ issued' = issued \cup {<<S(r), c>>}
  /\ phase'[r] = "pend" => c \in Guarded
  /\ told'[r].kind = "switch" => c \notin Guarded

LEMMA SpeaksAfter ==
  ASSUME Control, NEW r \in Requests, Acts(r), Speaks(r)'
  PROVE  \/ GivenCall(r, told'[r].call)
         \/ /\ Load(r) \/ AddPending(r)
            /\ Speaks(r) /\ told'[r] = told[r]
            /\ phase'[r] = "pend" => phase[r] = "pend"
<1>1. Load(r) \/ AddPending(r) \/ Consult(r)
  BY StepMoves DEF Paths, Speaks
<1>2. RequestTypeOK
  BY TypeParts
<1>3. CASE Load(r)
  BY <1>3 DEF Load, localVars, Speaks
<1>4. CASE AddPending(r)
  BY <1>2, <1>4 DEF AddPending, localVars, Goto, Speaks, RequestTypeOK
<1>5. CASE Consult(r)
  <2>1. UNCHANGED <<db, writer, work, seen, delivered>> /\ phase[r] = "agent"
    BY <1>5 DEF Consult, dbVars
  <2>2. ASSUME ModelFails(r) PROVE FALSE
    BY <1>2, <2>2 DEF ModelFails, Finish, Speaks, RequestTypeOK
  <2>3. ASSUME AnswerText(r) PROVE FALSE
    BY <1>2, <2>3 DEF AnswerText, Speaks, RequestTypeOK
  <2>4. ASSUME NEW c \in Calls \ Issued, issued' = issued \cup {<<S(r), c>>}, CallTool(r, c)
        PROVE  GivenCall(r, told'[r].call)
    BY <1>2, <2>1, <2>4 DEF CallTool, GivenCall, Goto, RequestTypeOK
  <2>5. ASSUME NEW c \in Calls \ Issued, issued' = issued \cup {<<S(r), c>>}, CallSwitchMode(r, c)
        PROVE  GivenCall(r, told'[r].call)
    BY <1>2, <2>1, <2>5 DEF CallSwitchMode, GivenCall, Goto, RequestTypeOK
  <2> QED
    BY <1>5, <2>2, <2>3, <2>4, <2>5 DEF Consult
<1> QED
  BY <1>1, <1>3, <1>4, <1>5

\* While r adds a message it does not go on to speak.
LEMMA SaidIsSaid ==
  ASSUME Control, NEW r \in Requests, Acts(r), NEW e, Says(r, e)
  PROVE  ~Speaks(r)'
<1>1. phase[r] \in {"add", "result", "answer", "record"} /\ HasRead(r)
  BY DEF Says
<1>2. phase[r] = "record" => phase'[r] \in {"leave", "answer"}
  BY DEF Says
<1>3. phase'[r] \in {"pend", "record"} => Load(r) \/ AddPending(r) \/ Consult(r)
  BY StepMoves DEF Paths
<1> QED
  BY <1>1, <1>2, <1>3 DEF Speaks, Load, AddPending, Consult

\* The calls that r's messages are about.
LEMMA EntryAdded ==
  ASSUME Control, Turns, Drafts, CallsInOrder, NEW r \in Requests,
         NEW c \in Calls, NEW k \in CallKinds, Says(r, Entry(k, c))
  PROVE  /\ c \in Issued
         /\ k = "switch" => c \notin Guarded
         /\ k = "result" /\ S(r) \notin overtaken => Target(r).appr[c] # "pending"
         /\ \A q \in Requests \ {r} : Speaks(q) => told[q].call # c
<1>1. Busy(r) /\ HasRead(r) /\ Fits(r) /\ job[r] \in Jobs /\ S(r) \in Sessions
      /\ Target(r) \in Images
  BY SaysInTurn, AtWork, BusyUnfinished, ImageTypes
<1>2. ImagesOrderly /\ NewCalls /\ OneOwner /\ OwnersAnswer /\ ApprovalsCurrent
  BY DEF CallsInOrder
<1>3. /\ Target(r) \in InUse /\ Orderly(Target(r), Issued, overtaken)
      /\ Source(r) \in InUse /\ Orderly(Source(r), Issued, overtaken) /\ Source(r) \in Images
  BY <1>1, <1>2, TargetInUse, SourceInUse, ImageTypes, AtWork, BusyUnfinished DEF ImagesOrderly
<1>4. CASE phase[r] = "add"
  BY <1>4 DEF Says, Entry, CallKinds
<1>5. CASE phase[r] = "result" /\ Entry(k, c) = Entry("result", job[r].call)
  <2>1. k = "result" /\ c = job[r].call
    BY <1>5 DEF Entry
  <2>2. Replies(r) /\ <<S(r), c>> \in delivered
    BY <1>1, <1>2, <1>5, <2>1, BusyUnfinished DEF Replies, Fits, OwnersAnswer
  <2>3. S(r) \notin overtaken => Target(r).appr[c] # "pending"
    BY <1>1, <1>2, <1>5, <2>1, <2>2 DEF ApprovalsCurrent
  <2>4. \A q \in Requests : Speaks(q) => told[q].call # c
    BY <1>1, <1>2, <2>2 DEF NewCalls, NewCall
  <2>5. c \in Issued
    BY <1>2, <2>2, IssuedIds DEF OneOwner
  <2> QED
    BY <2>1, <2>3, <2>4, <2>5
<1>6. CASE /\ phase[r] = "answer" /\ OpenSwitchCall(r)
           /\ Entry(k, c) = Entry("result", LastSwitchCall(Source(r).msgs[S(r)]))
  <2> DEFINE q == Source(r).msgs[S(r)]
  <2>1. k = "result" /\ c = LastSwitchCall(q)
    BY <1>6 DEF Entry
  <2>2. q \in Seq(Entries)
    BY <1>1, <1>3, LengthsOfMessages
  <2>3. \E i \in 1..Len(q) : q[i] = Entry("switch", c)
    <3> HIDE DEF q
    <3>1. SwitchCallsIn(q) # {}
      BY <1>6 DEF OpenSwitchCall, q
    <3>2. \E i \in 1..Len(q) : q[i] = Entry("switch", LastSwitchCall(q))
      BY <2>2, <3>1, LastSwitchCallFound
    <3> QED
      BY <2>1, <3>2
  <2>4. Shows(Source(r), S(r), Entry("switch", c))
    BY <2>3 DEF Shows
  <2>5. Mentions(Source(r), c) /\ c \notin Guarded
    BY <1>1, <1>3, <2>4 DEF Mentions, CallKinds, Orderly
  <2>6. c \in Issued /\ Target(r).appr[c] # "pending"
    BY <1>3, <2>5 DEF Orderly
  <2>7. \A p \in Requests : Speaks(p) => told[p].call # c
    BY <1>2, <1>3, <2>5 DEF NewCalls, NewCall
  <2> QED
    BY <2>1, <2>5, <2>6, <2>7
<1>7. CASE phase[r] = "record" /\ Entry(k, c) = AnswerEntry(r)
  <2>1. /\ Speaks(r) /\ c = told[r].call /\ k # "result"
        /\ k = "switch" => told[r].kind = "switch"
    BY <1>1, <1>7 DEF Speaks, AnswerEntry, Entry, CallKinds, Fits
  <2>2. NewCall(r, c)
    BY <1>2, <2>1 DEF NewCalls
  <2> QED
    BY <2>1, <2>2, IssuedIds DEF NewCall
<1> QED
  BY <1>4, <1>5, <1>6, <1>7 DEF Says

\* What is known when r acts.
LEMMA ActorFacts ==
  ASSUME Control, Turns, Drafts, CallsInOrder, NEW r \in Requests, Acts(r)
  PROVE  /\ job' = job /\ Unfinished(r) /\ Issues(r)
         /\ issued \subseteq issued' /\ Issued \subseteq Issued' /\ overtaken' = overtaken
         /\ \A q \in Requests \ {r} : phase'[q] = phase[q] /\ told'[q] = told[q]
         /\ \A q \in Requests : Unfinished(q)' => Unfinished(q)
         /\ \A q \in Requests : Busy(q)' => Busy(q)
         /\ Target(r) \in InUse /\ Orderly(Target(r), Issued, overtaken) /\ Target(r) \in Images
         /\ HasRead(r) => /\ Source(r) \in InUse /\ Orderly(Source(r), Issued, overtaken)
                          /\ Source(r) \in Images
         /\ db \in Images /\ db \in InUse
<1>1. /\ job' = job /\ Unfinished(r) /\ phase' = [phase EXCEPT ![r] = phase'[r]]
      /\ \A q \in Requests \ {r} : told'[q] = told[q]
      /\ Issues(r)
  BY StepMoves DEF Paths
<1>2. RequestTypeOK /\ DbTypeOK
  BY TypeParts
<1>3. \A q \in Requests \ {r} : phase'[q] = phase[q]
  BY <1>1, <1>2 DEF RequestTypeOK
<1>4. \A q \in Requests : Unfinished(q)' => Unfinished(q)
  BY <1>1, <1>3 DEF Unfinished
<1>5. /\ Target(r) \in InUse /\ Orderly(Target(r), Issued, overtaken) /\ Target(r) \in Images
      /\ db \in Images
  BY <1>2, TargetInUse, ImageTypes DEF CallsInOrder, ImagesOrderly, DbTypeOK
<1>6. HasRead(r) => /\ Source(r) \in InUse /\ Orderly(Source(r), Issued, overtaken)
                    /\ Source(r) \in Images
  BY <1>2, SourceInUse, ImageTypes DEF CallsInOrder, ImagesOrderly
<1>7. db \in InUse
  BY DEF InUse
<1> QED
  BY <1>1, <1>3, <1>4, <1>5, <1>6, <1>7, StepBusy, IssuedGrows

\* The calls whose approval r may set.
LEMMA SettledCall ==
  ASSUME Control, Turns, Drafts, CallsInOrder, NEW r \in Requests,
         NEW c, NEW status, Settles(r, c, status)
  PROVE  /\ <<S(r), c>> \in issued /\ c \in Calls /\ Busy(r)
         /\ \A s \in Sessions : <<s, c>> \in delivered => s = S(r)
         /\ \A q \in Requests \ {r} : Speaks(q) => told[q].call # c
         /\ status = "pending" =>
              c \in Guarded /\ \A img \in InUse : img.appr[c] = "none" /\ ~Mentions(img, c)
         /\ status # "pending" =>
              /\ <<S(r), c>> \in delivered /\ status \in {"approved", "rejected"}
              /\ S(r) \notin overtaken => Target(r) = db /\ db.appr[c] = "pending"
<1>1. /\ Busy(r) /\ Unfinished(r) /\ Fits(r) /\ HasRead(r)
      /\ S(r) \in Sessions /\ DbTypeOK /\ RequestTypeOK
  <2>1. phase[r] \in {"decide", "pend"} /\ phase[r] \in Phases /\ HasRead(r)
    BY TypeParts DEF Settles, RequestTypeOK
  <2> QED
    BY <2>1, InTurn, AtWork DEF Unfinished
<1>2. NewCalls /\ OneOwner /\ OwnersAnswer /\ ApprovalsCurrent
  BY DEF CallsInOrder
<1>3. CASE phase[r] = "decide" /\ Undecided(r) /\ c = job[r].call
           /\ status \in {"approved", "rejected"}
  <2>1. Replies(r) /\ <<S(r), c>> \in delivered /\ c \in Calls
    BY <1>1, <1>2, <1>3 DEF Replies, Fits, OwnersAnswer
  <2>2. writer # r
    BY <1>3 DEF Turns, StartsClean
  <2>3. S(r) \notin overtaken => Target(r) = db /\ db.appr[c] = "pending"
    BY <1>1, <1>2, <1>3, <2>1, <2>2
    DEF Target, Source, HasRead, Undecided, ApprovalsCurrent
  <2>4. \A q \in Requests : Speaks(q) => told[q].call # c
    BY <1>1, <1>2, <2>1 DEF NewCalls, NewCall
  <2> QED
    BY <1>1, <1>2, <1>3, <2>1, <2>3, <2>4 DEF OneOwner
<1>4. CASE phase[r] = "pend" /\ c = told[r].call /\ status = "pending"
  <2>1. Speaks(r)
    BY <1>1, <1>4 DEF Speaks, Fits
  <2>2. NewCall(r, c)
    BY <1>2, <1>4, <2>1 DEF NewCalls
  <2> QED
    BY <1>1, <1>4, <2>2 DEF NewCall
<1> QED
  BY <1>3, <1>4 DEF Settles

LEMMA StepImages ==
  ASSUME Control, Turns, Drafts, CallsInOrder, NEW r \in Requests, Acts(r)
  PROVE  ImagesOrderly'
<1>1. /\ Issued \subseteq Issued' /\ overtaken' = overtaken
      /\ Orderly(Target(r), Issued, overtaken) /\ Target(r) \in Images
      /\ HasRead(r) => Orderly(Source(r), Issued, overtaken)
  BY ActorFacts
<1>2. \A img : Orderly(img, Issued, overtaken) => Orderly(img, Issued', overtaken')
  BY <1>1 DEF Orderly
<1>3. ImagesOrderly
  BY DEF CallsInOrder
<1>4. CASE Quiet(r) \/ Load(r) \/ Commit(r)
  <2>1. InUse' \subseteq InUse
    BY <1>4, UseKept
  <2> QED
    BY <1>2, <1>3, <2>1 DEF ImagesOrderly
<1>5. ASSUME NEW img, Write(r, img), Made(r, img) PROVE ImagesOrderly'
  <2>1. Orderly(img, Issued, overtaken)
    <3>1. CASE \E e : Says(r, e) /\ img.appr = Target(r).appr /\ Added(r, img, e)
      <4>1. PICK e : Says(r, e) /\ img.appr = Target(r).appr /\ Added(r, img, e)
        BY <3>1
      <4>2. ASSUME NEW c \in Calls, NEW k \in CallKinds, e = Entry(k, c)
            PROVE  /\ c \in Issued
                   /\ k = "switch" => c \notin Guarded
                   /\ k = "result" /\ S(r) \notin overtaken => Target(r).appr[c] # "pending"
        BY <4>1, <4>2, EntryAdded
      <4>3. HasRead(r) /\ Busy(r) /\ S(r) \in Sessions
        BY <4>1, SaysInTurn, AtWork, BusyUnfinished
      <4>4. \A c \in Calls : Mentions(img, c) =>
              Mentions(Target(r), c) \/ Mentions(Source(r), c) \/ c \in Issued
        BY <4>1, <4>2, <4>3 DEF Mentions, Added
      <4>5. "switch" \in CallKinds /\ "result" \in CallKinds
        BY DEF CallKinds
      <4>6. \A s \in Sessions, c \in Calls :
              Shows(img, s, Entry("switch", c)) => c \notin Guarded
        BY <1>1, <4>1, <4>2, <4>3, <4>5 DEF Added, Orderly
      <4>7. ASSUME NEW s \in Sessions \ overtaken, NEW c \in Calls,
                   Shows(img, s, Entry("result", c))
            PROVE  Target(r).appr[c] # "pending"
        <5>1. CASE s # S(r)
          BY <1>1, <4>1, <4>7, <5>1 DEF Added, Orderly
        <5>2. CASE s = S(r) /\ Shows(Source(r), S(r), Entry("result", c))
          <6>1. Source(r).msgs[S(r)] = Target(r).msgs[S(r)]
            BY <4>3, <5>2, CurrentMessages
          <6>2. Shows(Target(r), S(r), Entry("result", c))
            BY <5>2, <6>1 DEF Shows
          <6> QED
            BY <1>1, <5>2, <6>2 DEF Orderly
        <5>3. CASE s = S(r) /\ Entry("result", c) = e
          BY <4>2, <4>5, <5>3
        <5> QED
          BY <4>1, <4>7, <5>1, <5>2, <5>3 DEF Added
      <4>8. \A c \in Calls : Mentions(img, c) \/ img.appr[c] # "none" => c \in Issued
        BY <1>1, <4>1, <4>3, <4>4 DEF Orderly
      <4>9. \A c \in Calls : img.appr[c] = "pending" => c \in Guarded
        BY <1>1, <4>1 DEF Orderly
      <4> QED
        BY <4>1, <4>6, <4>7, <4>8, <4>9 DEF Orderly
    <3>2. ASSUME NEW c, NEW status, Settles(r, c, status),
                 img.appr = [Target(r).appr EXCEPT ![c] = status], SameShown(r, img)
          PROVE  Orderly(img, Issued, overtaken)
      <4>1. c \in Issued /\ c \in Calls
            /\ (status = "pending" => c \in Guarded /\ ~Mentions(Target(r), c))
        BY <3>2, SettledCall, TargetInUse, IssuedIds
      <4>2. \A d \in Calls : img.appr[d] = IF d = c THEN status ELSE Target(r).appr[d]
        BY <1>1, <3>2, <4>1 DEF Images
      <4>3. \A d \in Calls : Mentions(img, d) <=> Mentions(Target(r), d)
        BY <3>2 DEF Mentions, SameShown
      <4>4. \A s \in Sessions : Shows(Target(r), s, Entry("result", c)) => Mentions(Target(r), c)
        BY DEF Mentions, CallKinds
      <4> QED
        BY <1>1, <3>2, <4>1, <4>2, <4>3, <4>4 DEF Orderly, SameShown
    <3>3. CASE img.appr = Target(r).appr /\ SameShown(r, img)
      BY <1>1, <3>3 DEF Orderly, Mentions, SameShown
    <3> QED
      BY <1>5, <3>1, <3>2, <3>3 DEF Made
  <2> QED
    BY <1>2, <1>3, <1>5, <2>1, UseWritten DEF ImagesOrderly
<1> QED
  BY <1>4, <1>5, Making

LEMMA DeliveredBy ==
  ASSUME Control, Turns, Drafts, CallsInOrder, NEW r \in Requests, Acts(r)
  PROVE  \/ UNCHANGED delivered
         \/ /\ Speaks(r) /\ ~Speaks(r)' /\ Busy(r) /\ NewCall(r, told[r].call)
            /\ delivered' = delivered \cup {<<S(r), told[r].call>>}
<1>1. CASE ~ UNCHANGED delivered
  <2>1. PICK img : Made(r, img)
    BY <1>1, Making
  <2>2. PICK e : Says(r, e)
    BY <1>1, <2>1 DEF Made
  <2>3. /\ phase[r] = "record" /\ told[r].kind = "call"
        /\ delivered' = delivered \cup {<<S(r), told[r].call>>}
    BY <1>1, <2>2 DEF Says
  <2>4. Speaks(r) /\ ~Speaks(r)' /\ Busy(r)
    BY <2>2, <2>3, SaidIsSaid, SaysInTurn DEF Speaks
  <2> QED
    BY <2>3, <2>4 DEF CallsInOrder, NewCalls
<1> QED
  BY <1>1

LEMMA StepOwners ==
  ASSUME Control, Turns, Drafts, CallsInOrder, NEW r \in Requests, Acts(r)
  PROVE  OneOwner' /\ OwnersAnswer'
<1>1. /\ job' = job /\ issued \subseteq issued' /\ Issues(r)
      /\ \A q \in Requests : Unfinished(q)' => Unfinished(q)
  BY ActorFacts
<1>2. OneOwner /\ OwnersAnswer /\ delivered \subseteq delivered'
  BY DeliveredBy DEF CallsInOrder
<1>3. OneOwner'
  <2>1. delivered' \subseteq issued'
    <3>1. NewCall(r, told[r].call) => <<S(r), told[r].call>> \in issued
      BY DEF NewCall
    <3>2. delivered' \subseteq delivered \cup issued
      BY <3>1, DeliveredBy
    <3> QED
      BY <1>1, <1>2, <3>2 DEF OneOwner
  <2>2. ASSUME NEW s \in Sessions, NEW t \in Sessions, NEW c \in Calls,
               <<s, c>> \in issued', <<t, c>> \in issued'
        PROVE  s = t
    <3>1. CASE issued' = issued
      BY <1>2, <2>2, <3>1 DEF OneOwner
    <3>2. ASSUME NEW d \in Calls \ Issued, issued' = issued \cup {<<S(r), d>>} PROVE s = t
      <4>1. CASE c = d
        <5>1. <<s, c>> \notin issued /\ <<t, c>> \notin issued
          BY <3>2, <4>1, IssuedIds
        <5> QED
          BY <2>2, <3>2, <5>1
      <4>2. CASE c # d
        BY <1>2, <2>2, <3>2, <4>2 DEF OneOwner
      <4> QED
        BY <4>1, <4>2
    <3> QED
      BY <1>1, <3>1, <3>2 DEF Issues
  <2> QED
    BY <2>1, <2>2 DEF OneOwner
<1>4. OwnersAnswer'
  BY <1>1, <1>2 DEF OwnersAnswer, Replies, S
<1> QED
  BY <1>3, <1>4

LEMMA StepNewCalls ==
  ASSUME Control, Turns, Drafts, CallsInOrder, NEW r \in Requests, Acts(r)
  PROVE  NewCalls'
<1>1. /\ job' = job /\ issued \subseteq issued'
      /\ \A q \in Requests \ {r} : phase'[q] = phase[q] /\ told'[q] = told[q]
      /\ \A img \in InUse : Orderly(img, Issued, overtaken)
      /\ Target(r) \in Images /\ Target(r) \in InUse /\ db \in InUse
      /\ HasRead(r) => Source(r) \in InUse
  BY ActorFacts DEF CallsInOrder, ImagesOrderly
<1>2. NewCalls /\ OneOwner /\ delivered \subseteq Sessions \X Calls
  BY TypeParts DEF CallsInOrder, RequestTypeOK
<1>3. \A q \in Requests \ {r} : Speaks(q)' <=> Speaks(q)
  BY <1>1 DEF Speaks
\* A call that somebody else holds is left alone.
<1>4. ASSUME NEW q \in Requests, q # r, Speaks(q)
      PROVE  NewCall(q, told[q].call)'
  <2> DEFINE c == told[q].call
  <2>1. NewCall(q, c) /\ c \in Calls
    BY <1>2, <1>4 DEF NewCalls, NewCall
  <2>2. \A s \in Sessions : <<s, c>> \notin delivered'
    <3>1. told[r].call = c /\ Speaks(r) => FALSE
      BY <1>4, <2>1 DEF NewCall
    <3>2. \A s \in Sessions : <<s, c>> \notin delivered
      BY <2>1 DEF NewCall
    <3> HIDE DEF c
    <3>3. \A s : <<s, c>> = <<S(r), told[r].call>> => told[r].call = c
      OBVIOUS
    <3> QED
      BY <3>1, <3>2, <3>3, DeliveredBy
  <2>3. ASSUME NEW p \in Requests, Speaks(p)', told'[p].call = c
        PROVE  p = q
    <3>1. CASE p = r
      <4>1. CASE GivenCall(r, told'[r].call)
        BY <2>1, <2>3, <3>1, <4>1, IssuedIds DEF GivenCall, NewCall
      <4>2. CASE Speaks(r) /\ told'[r] = told[r]
        BY <2>1, <2>3, <3>1, <4>2 DEF NewCall
      <4> QED
        BY <2>3, <3>1, <4>1, <4>2, SpeaksAfter
    <3>2. CASE p # r
      BY <1>1, <1>3, <2>1, <2>3, <3>2 DEF NewCall
    <3> QED
      BY <3>1, <3>2
  <2>4. ASSUME NEW img \in InUse'
        PROVE  /\ ~Mentions(img, c)
               /\ phase[q] = "pend" => img.appr[c] = "none"
    <3>1. CASE img \in InUse
      BY <2>1, <3>1 DEF NewCall
    <3>2. CASE Write(r, img) /\ Made(r, img)
      <4>1. ~Mentions(Target(r), c) /\ (phase[q] = "pend" => Target(r).appr[c] = "none")
        BY <1>1, <2>1 DEF NewCall
      <4>2. ASSUME NEW e, Says(r, e), img.appr = Target(r).appr, Added(r, img, e)
            PROVE  /\ ~Mentions(img, c)
                   /\ phase[q] = "pend" => img.appr[c] = "none"
        <5>1. \A k \in CallKinds : e # Entry(k, c)
          BY <1>4, <2>1, <4>2, EntryAdded
        <5>2. ~Mentions(Source(r), c)
          BY <1>1, <2>1, <4>2 DEF NewCall, Says
        <5>3. S(r) \in Sessions
          BY <4>2, SaysInTurn, AtWork, BusyUnfinished
        <5> QED
          BY <4>1, <4>2, <5>1, <5>2, <5>3 DEF Mentions, Added
      <4>3. ASSUME NEW d, NEW status, Settles(r, d, status),
                   img.appr = [Target(r).appr EXCEPT ![d] = status], SameShown(r, img)
            PROVE  /\ ~Mentions(img, c)
                   /\ phase[q] = "pend" => img.appr[c] = "none"
        <5>1. d # c
          <6>1. \A p \in Requests \ {r} : Speaks(p) => told[p].call # d
            BY <4>3, SettledCall
          <6> QED
            BY <1>4, <6>1
        <5>2. img.appr[c] = Target(r).appr[c]
          BY <1>1, <2>1, <4>3, <5>1 DEF Images
        <5> QED
          BY <4>1, <4>3, <5>2 DEF Mentions, SameShown
      <4>4. CASE img.appr = Target(r).appr /\ SameShown(r, img)
        BY <4>1, <4>4 DEF Mentions, SameShown
      <4> QED
        BY <3>2, <4>2, <4>3, <4>4 DEF Made
    <3> QED
      BY <1>1, <3>1, <3>2, Making, UseKept, UseWritten
  <2>5. <<S(q)', c>> \in issued' /\ (told[q].kind = "switch" => c \notin Guarded)
        /\ (phase[q] = "pend" => c \in Guarded)
    BY <1>1, <2>1 DEF NewCall, S
  <2>6. phase'[q] = phase[q] /\ told'[q] = told[q]
    BY <1>1, <1>4
  <2> HIDE DEF c
  <2>7. told[q].call = c
    BY DEF c
  <2> QED
    BY <2>1, <2>2, <2>3, <2>4, <2>5, <2>6, <2>7 DEF NewCall
\* The call r has just been given is new to all.
<1>5. ASSUME GivenCall(r, told'[r].call), Speaks(r)'
      PROVE  NewCall(r, told[r].call)'
  <2>1. PICK c \in Calls \ Issued : c = told'[r].call /\ issued' = issued \cup {<<S(r), c>>}
    BY <1>5 DEF GivenCall
  <2>2. InUse' = InUse /\ delivered' = delivered
    BY <1>5 DEF GivenCall, InUse
  <2>3. \A s \in Sessions : <<s, c>> \notin delivered
    BY <1>2, <2>1, IssuedIds DEF OneOwner
  <2>4. \A img \in InUse : ~Mentions(img, c) /\ img.appr[c] = "none"
    BY <1>1, <2>1 DEF Orderly
  <2>5. \A q \in Requests : Speaks(q)' /\ told'[q].call = c => q = r
    BY <1>1, <1>2, <1>3, <2>1, IssuedIds DEF NewCalls, NewCall
  <2>6. /\ <<S(r)', c>> \in issued'
        /\ told'[r].kind = "switch" => c \notin Guarded
        /\ phase'[r] = "pend" => c \in Guarded
    BY <1>1, <1>5, <2>1 DEF GivenCall, S
  <2> QED
    BY <2>1, <2>2, <2>3, <2>4, <2>5, <2>6 DEF NewCall
\* r goes on with the call it has.
<1>6. ASSUME Load(r) \/ AddPending(r), Speaks(r), told'[r] = told[r],
             phase'[r] = "pend" => phase[r] = "pend"
      PROVE  NewCall(r, told[r].call)'
  <2> DEFINE c == told[r].call
  <2>1. NewCall(r, c) /\ c \in Calls
    BY <1>2, <1>6 DEF NewCalls, NewCall
  <2>2. UNCHANGED delivered
    BY <1>6 DEF Load, AddPending, clientVars, historyVars
  <2>3. \A q \in Requests : Speaks(q)' /\ told'[q].call = c => q = r
    BY <1>1, <1>3, <2>1 DEF NewCall
  <2>4. ASSUME NEW img \in InUse'
        PROVE  /\ ~Mentions(img, c)
               /\ phase'[r] = "pend" => img.appr[c] = "none"
    <3>1. CASE Load(r)
      <4>1. img \in InUse
        BY <3>1, UseKept
      <4> QED
        BY <1>6, <2>1, <4>1 DEF NewCall
    <3>2. CASE AddPending(r)
      <4>1. /\ Write(r, WithApproval(r, c, "pending")) /\ phase'[r] = "record"
        BY <3>2, TypeParts DEF AddPending, Goto, RequestTypeOK
      <4>2. img \in InUse \/ img = WithApproval(r, c, "pending")
        BY <4>1, UseWritten
      <4>3. WithApproval(r, c, "pending").msgs = Target(r).msgs
        BY <1>1 DEF WithApproval, Images
      <4>4. ~Mentions(Target(r), c) /\ (img \in InUse => ~Mentions(img, c))
        BY <1>1, <2>1 DEF NewCall
      <4>5. ~Mentions(WithApproval(r, c, "pending"), c)
        BY <4>3, <4>4 DEF Mentions, Shows
      <4> QED
        BY <4>1, <4>2, <4>4, <4>5
    <3> QED
      BY <1>6, <3>1, <3>2
  <2>5. /\ <<S(r)', c>> \in issued' /\ (told[r].kind = "switch" => c \notin Guarded)
        /\ phase'[r] = "pend" => c \in Guarded
    BY <1>1, <1>6, <2>1 DEF NewCall, S
  <2>6. \A s \in Sessions : <<s, c>> \notin delivered'
    BY <2>1, <2>2 DEF NewCall
  <2> HIDE DEF c
  <2>7. told'[r].call = c /\ told'[r].kind = told[r].kind
    BY <1>6 DEF c
  <2> QED
    BY <2>1, <2>3, <2>4, <2>5, <2>6, <2>7 DEF NewCall
<1>7. ASSUME NEW q \in Requests, Speaks(q)' PROVE NewCall(q, told[q].call)'
  <2>1. CASE q = r
    BY <1>5, <1>6, <1>7, <2>1, SpeaksAfter
  <2>2. CASE q # r
    BY <1>3, <1>4, <1>7, <2>2
  <2> QED
    BY <2>1, <2>2
<1> QED
  BY <1>7 DEF NewCalls

LEMMA StepApprovals ==
  ASSUME Control, Turns, Drafts, CallsInOrder, NEW r \in Requests, Acts(r)
  PROVE  OnlyOwnApprovals' /\ DraftMoves'
<1>1. /\ job' = job /\ Target(r) \in Images /\ db \in Images
      /\ Target(r) \in InUse /\ db \in InUse /\ Unfinished(r)
      /\ CallsOvertaken \subseteq CallsOvertaken'
  BY ActorFacts, IssuedGrows
<1>2. OnlyOwnApprovals /\ DraftMoves /\ OneOwner
  BY DEF CallsInOrder
<1>3. CASE (Quiet(r) \/ Load(r) \/ Commit(r)) /\ UNCHANGED delivered
  <2>1. writer' # NoRequest => writer' = writer /\ work' = work /\ db' = db
    BY <1>3, NoRequestAssumption DEF Quiet, Load, Commit
  <2>2. OnlyOwnApprovals'
    BY <1>1, <1>2, <1>3, <2>1 DEF OnlyOwnApprovals, S
  <2>3. DraftMoves'
    BY <1>1, <1>2, <2>1 DEF DraftMoves
  <2> QED
    BY <2>2, <2>3
<1>4. ASSUME NEW img, Write(r, img), Made(r, img)
      PROVE  OnlyOwnApprovals' /\ DraftMoves'
  <2>1. db' = db /\ writer' = r /\ work' = img
    BY <1>4 DEF Write
  <2>2. \A c \in Calls \ CallsOvertaken : <<db.appr[c], Target(r).appr[c]>> \in Log!Moves
    BY <1>1, <1>2, NoRequestAssumption DEF Images, Statuses, Log!Moves, DraftMoves, Target
  <2>3. \A s \in Sessions, c \in Calls :
          <<s, c>> \in delivered /\ Target(r).appr[c] # db.appr[c] =>
             s = S(r) /\ job[r].kind # "rest"
    BY <1>2, NoRequestAssumption DEF OnlyOwnApprovals, Target
  <2>4. CASE img.appr = Target(r).appr
    <3>1. \A s \in Sessions, c \in Calls :
            <<s, c>> \in delivered' /\ img.appr[c] # db.appr[c] =>
               s = S(r) /\ job[r].kind # "rest"
      BY <2>3, <2>4, DeliveredBy DEF Busy
    <3> QED
      BY <1>1, <2>1, <2>2, <2>4, <3>1 DEF OnlyOwnApprovals, DraftMoves, S
  <2>5. ASSUME NEW c, NEW status, Settles(r, c, status), UNCHANGED delivered,
               img.appr = [Target(r).appr EXCEPT ![c] = status]
        PROVE  OnlyOwnApprovals' /\ DraftMoves'
    <3>1. /\ c \in Calls /\ Busy(r)
          /\ \A s \in Sessions : <<s, c>> \in delivered => s = S(r)
          /\ status = "pending" => db.appr[c] = "none"
          /\ status # "pending" =>
               /\ status \in {"approved", "rejected"}
               /\ c \notin CallsOvertaken => db.appr[c] = "pending"
      BY <1>1, <2>5, SettledCall, IssuedIds
    <3>2. \A d \in Calls : img.appr[d] = IF d = c THEN status ELSE Target(r).appr[d]
      BY <1>1, <2>5, <3>1 DEF Images
    <3>3. c \notin CallsOvertaken => <<db.appr[c], status>> \in Log!Moves
      BY <3>1 DEF Log!Moves
    <3>4. DraftMoves'
      BY <1>1, <2>1, <2>2, <3>2, <3>3 DEF DraftMoves
    <3>5. \A s \in Sessions, d \in Calls :
            <<s, d>> \in delivered /\ img.appr[d] # db.appr[d] =>
               s = S(r) /\ job[r].kind # "rest"
      BY <2>3, <3>1, <3>2 DEF Busy
    <3>6. OnlyOwnApprovals'
      BY <1>1, <2>1, <2>5, <3>5 DEF OnlyOwnApprovals, S
    <3> QED
      BY <3>4, <3>6
  <2> QED
    BY <1>4, <2>4, <2>5 DEF Made
<1> QED
  BY <1>3, <1>4, Making

LEMMA StepCurrent ==
  ASSUME Control, Turns, Drafts, CallsInOrder, NEW r \in Requests, Acts(r)
  PROVE  ApprovalsCurrent'
<1>1. /\ job' = job /\ Target(r) \in Images /\ db \in Images
      /\ \A q \in Requests \ {r} : phase'[q] = phase[q] /\ told'[q] = told[q]
      /\ \A q \in Requests : Busy(q)' => Busy(q)
      /\ overtaken' = overtaken
  BY ActorFacts
<1>2. /\ OnlyOwnApprovals /\ OneOwner /\ OwnersAnswer /\ ApprovalsCurrent
      /\ DbTypeOK /\ RequestTypeOK /\ \A q \in Requests : Fits(q)
  BY TypeParts DEF CallsInOrder
<1>3. \/ (Quiet(r) \/ Load(r) \/ Commit(r)) /\ UNCHANGED delivered
      \/ \E img : Write(r, img) /\ Made(r, img)
  BY Making
\* What another turn may rely on is left alone.
<1>4. ASSUME NEW q \in Requests, q # r, Replies(q), Busy(q), S(q) \notin overtaken
      PROVE  /\ seen'[q] # NoImage => seen'[q].appr[job[q].call] = db'.appr[job[q].call]
             /\ phase'[q] \in {"context", "result"} => Target(q)'.appr[job[q].call] # "pending"
  <2>1. /\ <<S(q), job[q].call>> \in delivered /\ job[q].call \in Calls
        /\ S(q) \in Sessions
    BY <1>2, <1>4, AtWork, BusyUnfinished DEF Replies, OwnersAnswer, Fits
  <2>2. seen'[q] = seen[q] /\ phase'[q] = phase[q]
    BY <1>1, <1>2, <1>3, <1>4 DEF Quiet, Load, Commit, Write, DbTypeOK
  <2>3. CASE Commit(r) /\ writer = r
    <3>1. Busy(r) /\ job[r].kind # "rest" /\ S(r) = S(q) => FALSE
      BY <1>4, <2>1 DEF Turns, TurnsAlone
    <3>2. job[r].kind # "rest" => Busy(r)
      BY <2>3 DEF Commit, Busy
    <3>3. work.appr[job[q].call] = db.appr[job[q].call]
      BY <1>2, <2>1, <2>3, <3>1, <3>2, NoRequestAssumption DEF OnlyOwnApprovals
    <3>4. db' = work /\ writer' = NoRequest
      BY <2>3 DEF Commit
    <3>5. Target(q)' = work /\ Target(q) = db
      BY <1>4, <2>3, <3>4, NoRequestAssumption DEF Target
    <3> QED
      BY <1>2, <1>4, <2>2, <3>3, <3>4, <3>5 DEF ApprovalsCurrent
  <2>4. CASE ~(Commit(r) /\ writer = r)
    <3>1. db' = db /\ Target(q)' = Target(q)
      BY <1>3, <1>4, <2>4, NoRequestAssumption
      DEF Quiet, Load, Commit, Write, MayWrite, Target
    <3> QED
      BY <1>2, <1>4, <2>2, <3>1 DEF ApprovalsCurrent
  <2> QED
    BY <2>3, <2>4
\* r's own call.
<1>5. ASSUME Replies(r), Busy(r), S(r) \notin overtaken, Busy(r)'
      PROVE  /\ seen'[r] # NoImage => seen'[r].appr[job[r].call] = db'.appr[job[r].call]
             /\ phase'[r] \in {"context", "result"} => Target(r)'.appr[job[r].call] # "pending"
  <2> DEFINE c == job[r].call
  <2>1. /\ c \in Calls
        /\ seen[r] # NoImage => seen[r].appr[c] = db.appr[c]
        /\ phase[r] \in {"context", "result"} => Target(r).appr[c] # "pending"
    BY <1>2, <1>5, BusyUnfinished DEF Replies, Fits, ApprovalsCurrent
  <2>2. ~Commit(r)
    BY <1>2, <1>5 DEF Commit, Busy, Active, DbPhases, RequestTypeOK
  <2>3. seen'[r] # NoImage => seen'[r].appr[c] = db'.appr[c]
    BY <1>2, <1>3, <2>1, <2>2 DEF Quiet, Load, Write, DbTypeOK
  <2>4. ASSUME phase'[r] \in {"context", "result"}
        PROVE  Target(r)'.appr[c] # "pending"
    <3>1. Load(r) \/ Decide(r) \/ AddResult(r) \/ GetContext(r)
      BY <1>5, <2>4, StepMoves DEF Paths, Replies
    <3>2. ASSUME ReadOnly(r) PROVE Target(r)' = Target(r)
      BY <3>2 DEF ReadOnly, Target
    <3>3. ASSUME NEW img, Write(r, img) PROVE Target(r)' = img
      BY <3>3 DEF Write, Target
    <3>4. CASE Load(r)
      BY <2>1, <2>4, <3>4 DEF Load, Target
    <3>5. CASE Decide(r)
      <4>1. CASE Write(r, WithApproval(r, c, job[r].verdict))
        <5>1. WithApproval(r, c, job[r].verdict).appr
                = [Target(r).appr EXCEPT ![c] = job[r].verdict]
          BY ApprovalSet
        <5>2. job[r].verdict # "pending"
          BY <1>2, <1>5 DEF Fits, Replies, Unfinished, Jobs
        <5>3. WithApproval(r, c, job[r].verdict).appr[c] = job[r].verdict
          BY <1>1, <2>1, <5>1 DEF Images
        <5> QED
          BY <3>3, <4>1, <5>2, <5>3
      <4>2. CASE job[r].kind = "tool" /\ ~Undecided(r) /\ ReadOnly(r)
        <5>1. Target(r).appr[c] # "pending"
          BY <2>1, <3>5, <4>2 DEF Decide, HasRead, Undecided, Source, Target
        <5> QED
          BY <3>2, <4>2, <5>1
      <4>3. CASE Finish(r, "error")
        BY <1>2, <2>4, <4>3 DEF Finish, RequestTypeOK
      <4> QED
        BY <3>5, <4>1, <4>2, <4>3 DEF Decide
    <3>6. CASE AddResult(r)
      <4>1. CASE Write(r, WithMessage(r, Entry("result", c)))
        <5>1. WithMessage(r, Entry("result", c)).appr = Target(r).appr
          BY <1>1 DEF WithMessage, Images
        <5> QED
          BY <2>1, <3>3, <3>6, <4>1, <5>1 DEF AddResult
      <4>2. CASE ReadOnly(r)
        BY <2>1, <3>2, <3>6, <4>2 DEF AddResult
      <4> QED
        BY <3>6, <4>1, <4>2 DEF AddResult
    <3>7. CASE GetContext(r)
      <4>1. CASE ReadOnly(r)
        BY <2>1, <3>2, <3>7, <4>1 DEF GetContext
      <4>2. ASSUME NEW x, Write(r, WithContext(r, x)) PROVE Target(r)'.appr[c] # "pending"
        BY <2>1, <3>3, <3>7, <4>2, ContextSet DEF GetContext
      <4> QED
        BY <3>7, <4>1, <4>2 DEF GetContext
    <3> QED
      BY <3>1, <3>4, <3>5, <3>6, <3>7
  <2> QED
    BY <2>3, <2>4
<1>6. ASSUME NEW q \in Requests, Replies(q)', Busy(q)', S(q)' \notin overtaken'
      PROVE  /\ seen'[q] # NoImage => seen'[q].appr[job'[q].call] = db'.appr[job'[q].call]
             /\ phase'[q] \in {"context", "result"} => Target(q)'.appr[job'[q].call] # "pending"
  <2>1. Replies(q) /\ Busy(q) /\ S(q) \notin overtaken
    BY <1>1, <1>6, BusyUnfinished DEF Replies, S
  <2> QED
    BY <1>1, <1>4, <1>5, <1>6, <2>1
<1> QED
  BY <1>6 DEF ApprovalsCurrent

\* What the steps of the client, the lock and the process leave alone.
LEMMA SameImages ==
  ASSUME Control, CallsInOrder,
         UNCHANGED <<db, writer, work, seen, issued, delivered, told>>,
         overtaken \subseteq overtaken',
         \A q \in Requests : Speaks(q)' => Speaks(q) /\ phase'[q] = phase[q] /\ S(q)' = S(q)
  PROVE  ImagesOrderly' /\ NewCalls' /\ OneOwner' /\ DraftMoves'
<1>1. InUse' = InUse /\ Issued' = Issued /\ CallsOvertaken \subseteq CallsOvertaken'
  BY DEF InUse, Issued, CallsOvertaken
<1>2. ImagesOrderly' /\ OneOwner' /\ DraftMoves'
  BY <1>1 DEF CallsInOrder, ImagesOrderly, Orderly, OneOwner, DraftMoves
<1>3. NewCalls'
  <2> SUFFICES ASSUME NEW q \in Requests, Speaks(q)' PROVE NewCall(q, told[q].call)'
    BY DEF NewCalls
  <2>1. /\ Speaks(q) /\ NewCall(q, told[q].call) /\ phase'[q] = phase[q] /\ told' = told
        /\ S(q)' = S(q)
    BY DEF CallsInOrder, NewCalls
  <2> QED
    BY <1>1, <2>1 DEF NewCall
<1> QED
  BY <1>2, <1>3

LEMMA SubmitCalls ==
  ASSUME Control, Turns, CallsInOrder, NEW r \in Requests, NEW j \in Jobs, Submit(r, j)
  PROVE  CallsInOrder'
<1>1. /\ UNCHANGED <<db, writer, work, seen, issued, delivered, told>>
      /\ phase[r] = "new" /\ job'[r] = j /\ Requested(j)
      /\ phase'[r] \in {"queued", "add", "decide", "context", "explicit"}
      /\ phase'[r] = "context" => j.kind \notin {"tool", "hitl"}
      /\ \A q \in Requests \ {r} : phase'[q] = phase[q] /\ job'[q] = job[q]
      /\ overtaken \subseteq overtaken'
  BY OtherMoves DEF NotesTurn
<1>2. ImagesOrderly' /\ NewCalls' /\ OneOwner' /\ DraftMoves'
  BY <1>1, SameImages DEF Speaks, S
<1>3. writer # r /\ seen[r] = NoImage /\ writer \in Requests \cup {NoRequest}
  BY <1>1, TypeParts DEF Turns, StartsClean, DbTypeOK
<1>4. OwnersAnswer'
  <2> SUFFICES ASSUME NEW q \in Requests, Replies(q)'
               PROVE  <<job'[q].sess, job'[q].call>> \in delivered'
    BY DEF OwnersAnswer, S
  <2>1. CASE q = r
    BY <1>1, <2>1 DEF Replies, Requested
  <2>2. CASE q # r
    BY <1>1, <2>2 DEF CallsInOrder, OwnersAnswer, Replies, Unfinished, S
  <2> QED
    BY <2>1, <2>2
<1>5. OnlyOwnApprovals'
  BY <1>1, <1>3 DEF CallsInOrder, OnlyOwnApprovals, S
<1>6. ApprovalsCurrent'
  <2> SUFFICES ASSUME NEW q \in Requests, Replies(q)', Busy(q)', S(q)' \notin overtaken'
               PROVE  /\ seen'[q] # NoImage =>
                           seen'[q].appr[job'[q].call] = db'.appr[job'[q].call]
                      /\ phase'[q] \in {"context", "result"} =>
                           Target(q)'.appr[job'[q].call] # "pending"
    BY DEF ApprovalsCurrent
  <2>1. CASE q = r
    BY <1>1, <1>3, <2>1 DEF Replies
  <2>2. CASE q # r
    BY <1>1, <2>2 DEF CallsInOrder, ApprovalsCurrent, Replies, Unfinished, Busy, S, Target
  <2> QED
    BY <2>1, <2>2
<1> QED
  BY <1>2, <1>4, <1>5, <1>6 DEF CallsInOrder

\* Other steps that begin no request.
LEMMA QuietCalls ==
  ASSUME Control, Turns, CallsInOrder,
         UNCHANGED <<db, writer, work, seen, issued, delivered, told, job>>,
         overtaken \subseteq overtaken',
         \A q \in Requests :
            \/ phase'[q] = phase[q]
            \/ /\ phase[q] = "queued" /\ phase'[q] \in {"add", "decide", "context"}
               /\ phase'[q] = "context" => job[q].kind \notin {"tool", "hitl"}
  PROVE  CallsInOrder'
<1>1. ImagesOrderly' /\ NewCalls' /\ OneOwner' /\ DraftMoves'
  BY SameImages DEF Speaks, S
<1>2. \A q \in Requests : Replies(q)' => Replies(q)
  BY DEF Replies, Unfinished
<1>3. OwnersAnswer' /\ OnlyOwnApprovals'
  BY <1>2 DEF CallsInOrder, OwnersAnswer, OnlyOwnApprovals, S
<1>4. ApprovalsCurrent'
  <2> SUFFICES ASSUME NEW q \in Requests, Replies(q)', Busy(q)', S(q)' \notin overtaken'
               PROVE  /\ seen'[q] # NoImage =>
                           seen'[q].appr[job'[q].call] = db'.appr[job'[q].call]
                      /\ phase'[q] \in {"context", "result"} =>
                           Target(q)'.appr[job'[q].call] # "pending"
    BY DEF ApprovalsCurrent
  <2>1. CASE phase'[q] = phase[q]
    BY <1>2, <2>1 DEF CallsInOrder, ApprovalsCurrent, Busy, S, Target
  <2>2. CASE phase[q] = "queued" /\ phase'[q] # phase[q]
    BY <2>2 DEF Replies, Turns, StartsClean
  <2> QED
    BY <2>1, <2>2
<1> QED
  BY <1>1, <1>3, <1>4 DEF CallsInOrder

LEMMA CrashCalls ==
  ASSUME CallsInOrder, Control, Crash
  PROVE  CallsInOrder'
<1>1. /\ UNCHANGED <<db, issued, delivered, overtaken>> /\ writer' = NoRequest
      /\ \A r \in Requests : seen'[r] = NoImage /\ phase'[r] \in {"new", "done", "lost"}
  BY OtherMoves
<1>2. InUse' \subseteq InUse /\ Issued' = Issued
  BY <1>1 DEF InUse, Issued
<1>3. ImagesOrderly' /\ OneOwner'
  BY <1>1, <1>2 DEF CallsInOrder, ImagesOrderly, OneOwner
<1>4. \A r \in Requests : ~Speaks(r)' /\ ~Replies(r)'
  BY <1>1 DEF Speaks, Replies, Unfinished
<1> QED
  BY <1>1, <1>3, <1>4
  DEF CallsInOrder, NewCalls, OwnersAnswer, OnlyOwnApprovals, ApprovalsCurrent, DraftMoves

LEMMA NextCalls ==
  ASSUME Control, Turns, Drafts, CallsInOrder, [Next]_vars
  PROVE  CallsInOrder'
<1>1. ASSUME NEW r \in Requests, Acts(r) PROVE CallsInOrder'
  BY <1>1, StepImages, StepNewCalls, StepOwners, StepApprovals, StepCurrent DEF CallsInOrder
<1>2. ASSUME NEW s \in Sessions, Enter(s) PROVE CallsInOrder'
  <2>1. overtaken \subseteq overtaken'
    BY <1>2, OtherMoves DEF NotesTurn
  <2> QED
    BY <1>2, <2>1, OtherMoves, QuietCalls
<1>3. CASE UNCHANGED vars
  <2>1. UNCHANGED <<db, writer, work, seen, issued, delivered, told, job, phase, overtaken>>
    BY <1>3 DEF vars, dbVars, localVars, clientVars, historyVars
  <2> QED
    BY <2>1, QuietCalls
<1> QED
  BY <1>1, <1>2, <1>3, SubmitCalls, CrashCalls DEF Next, Acts

\* At first there is neither a request nor a message.
LEMMA InitInOrder == Init => Turns /\ Drafts /\ CallsInOrder
<1> SUFFICES ASSUME Init PROVE Turns /\ Drafts /\ CallsInOrder
  OBVIOUS
<1>1. /\ \A r \in Requests : phase[r] = "new" /\ seen[r] = NoImage
      /\ writer = NoRequest /\ issued = {} /\ delivered = {} /\ InUse = {db}
      /\ Issued = {}
      /\ \A c \in Calls : db.appr[c] = "none"
      /\ \A s \in Sessions : db.msgs[s] = <<>>
  BY DEF Init, InUse, Issued
<1>2. \A r \in Requests : ~Unfinished(r) /\ ~Busy(r) /\ ~Speaks(r) /\ ~Replies(r)
  BY <1>1 DEF Unfinished, Busy, Active, DbPhases, Speaks, Replies
<1>3. Turns
  BY <1>1, <1>2, NoRequestAssumption
  DEF Turns, TurnsAlone, RestOnlySwitches, StartsClean, WriterUnfinished
<1>4. Drafts
  BY <1>1, <1>2 DEF Drafts, OnlyOwnMessages, DraftExtends, ReadsCurrent
<1>5. \A s \in Sessions : \A x : ~Shows(db, s, x)
  BY <1>1, EmptySeq DEF Shows
<1>6. ImagesOrderly
  BY <1>1, <1>5 DEF ImagesOrderly, Orderly, Mentions
<1> QED
  BY <1>1, <1>2, <1>3, <1>4, <1>6
  DEF CallsInOrder, NewCalls, OneOwner, OwnersAnswer, OnlyOwnApprovals, ApprovalsCurrent,
      DraftMoves

-----------------------------------------------------------------------------
(***************************************************************************)
(* All together: answered calls, and the conversation as a log             *)
(***************************************************************************)
InOrder == Control /\ Turns /\ Drafts /\ CallsInOrder

LEMMA InitAll == Init => InOrder
<1> QED
  BY InitControl, InitInOrder DEF InOrder

LEMMA NextAll == InOrder /\ [Next]_vars => InOrder'
<1> QED
  BY NextControl, NextTurns, NextDrafts, NextCalls DEF InOrder

LEMMA OrderlyAnswers == InOrder => AnsweredNotPending
<1> SUFFICES ASSUME InOrder, NEW s \in Sessions \ overtaken, NEW i \in 1..Len(db.msgs[s]),
                    db.msgs[s][i].kind = "result"
             PROVE  db.appr[db.msgs[s][i].ref] # "pending"
  <2>1. \A s \in Sessions : InOrder => DOMAIN db.msgs[s] = 1..Len(db.msgs[s])
    BY TypeParts, LengthsOfMessages, LenProperties DEF InOrder, DbTypeOK
  <2> QED
    BY <2>1 DEF AnsweredNotPending
<1>1. db \in Images /\ Orderly(db, Issued, overtaken)
  BY TypeParts DEF InOrder, DbTypeOK, CallsInOrder, ImagesOrderly, InUse
<1>2. db.msgs[s][i] \in Entries
  BY <1>1, LengthsOfMessages, ElementOfSeq
<1>3. PICK c \in Calls : db.msgs[s][i] = Entry("result", c)
  BY <1>2 DEF Entries, Entry
<1>4. db.msgs[s][i].ref = c
  BY <1>3 DEF Entry
<1> QED
  BY <1>1, <1>3, <1>4 DEF Orderly, Shows

\* A call whose result is stored no longer waits for an approval, whatever
\* fails and whenever requests arrive, in a session that no turn has overtaken.
THEOREM AnsweredCallsAreSettled == Spec => []AnsweredNotPending
<1> QED
  BY InitAll, NextAll, OrderlyAnswers, PTL DEF Spec

LEMMA PrefixOfExtension ==
  ASSUME NEW T, NEW p \in Seq(T), NEW q \in Seq(T),
         Len(p) <= Len(q), \A i \in 1..Len(p) : q[i] = p[i]
  PROVE  IsPrefix(p, q)
<1>1. /\ Len(p) \in Nat /\ Len(q) \in Nat
      /\ \A i \in 1..Len(p) : p[i] \in T
      /\ \A i \in 1..Len(q) : q[i] \in T
  BY LenProperties, ElementOfSeq
<1>2. 1 \in Int /\ Len(p) \in Int
  BY <1>1
<1>3. \A i \in 1..Len(p) : p[i] \in T /\ q[i] \in T
  BY <1>1
<1> DEFINE a == SubSeq(p, 1, Len(p))
           b == SubSeq(q, 1, Len(p))
<1>4. /\ a \in Seq(T) /\ Len(a) = Len(p)
      /\ \A i \in 1..Len(p) : a[i] = p[i]
  BY <1>1, <1>2, <1>3, SubSeqProperties
<1>5. /\ b \in Seq(T) /\ Len(b) = Len(p)
      /\ \A i \in 1..Len(p) : b[i] = q[i]
  BY <1>1, <1>2, <1>3, SubSeqProperties
<1> HIDE DEF a, b
<1>6. a = b
  BY <1>1, <1>4, <1>5, SeqEqual
<1> QED
  BY <1>6 DEF IsPrefix, a, b

LEMMA InitLog == Init => Log!LogInit
<1>1. overtaken = {} => CallsOvertaken = {}
  BY DEF CallsOvertaken
<1> QED
  BY <1>1 DEF Init, Log!LogInit

\* The commit of a request gives its session the messages of one turn.
LEMMA CommitTurn ==
  ASSUME InOrder, NEW r \in Requests, Commit(r), writer = r
  PROVE  /\ Log!Turn(S(r)) /\ S(r) \in Sessions
         /\ \A s \in Sessions \ overtaken : IsPrefix(db.msgs[s], db'.msgs[s])
<1>1. /\ Control /\ Drafts /\ CallsInOrder /\ DbTypeOK /\ S(r) \in Sessions
      /\ db' = work /\ db \in Images /\ work \in Images
      /\ UNCHANGED <<issued, overtaken>>
  BY AtWork, NoRequestAssumption DEF InOrder, Commit, DbTypeOK, clientVars, historyVars
<1>2. /\ \A s \in Sessions \ overtaken : Extends(work, db, s)
      /\ \A s \in Sessions \ {S(r)} : work.msgs[s] = db.msgs[s]
  BY <1>1, NoRequestAssumption DEF Drafts, DraftExtends, OnlyOwnMessages
<1>3. \A s \in Sessions \ overtaken : IsPrefix(db.msgs[s], work.msgs[s])
  BY <1>1, <1>2, LengthsOfMessages, PrefixOfExtension DEF Extends
<1>4. work.msgs = [db.msgs EXCEPT ![S(r)] = work.msgs[S(r)]]
  <2>1. work.msgs \in [Sessions -> Seq(Entries)] /\ db.msgs \in [Sessions -> Seq(Entries)]
    BY <1>1 DEF Images
  <2> QED
    BY <1>1, <1>2, <2>1
<1>5. \A c \in Calls \ CallsOvertaken : <<db.appr[c], work.appr[c]>> \in Log!Moves
  BY <1>1, NoRequestAssumption DEF CallsInOrder, DraftMoves
<1>6. ASSUME NEW c \in Calls, S(r) \notin overtaken, Log!ResultIn(work.msgs[S(r)], c)
      PROVE  work.appr[c] # "pending"
  <2>1. Orderly(work, Issued, overtaken)
    BY <1>1, NoRequestAssumption DEF CallsInOrder, ImagesOrderly, InUse
  <2>2. DOMAIN work.msgs[S(r)] = 1..Len(work.msgs[S(r)])
    BY <1>1, LengthsOfMessages, LenProperties
  <2>3. Shows(work, S(r), Entry("result", c))
    BY <1>6, <2>2 DEF Log!ResultIn, IsResultOf, Shows
  <2> QED
    BY <1>1, <1>6, <2>1, <2>3 DEF Orderly
<1>7. work.msgs[S(r)] \in Seq(Entries) /\ DOMAIN work.appr = Calls
  BY <1>1 DEF Images
<1>8. db'.msgs = work.msgs /\ db'.appr = work.appr
  BY <1>1
<1>9. S(r) \notin overtaken => Log!Gains(S(r))
  <2>1. S(r) \notin overtaken => Log!IsPrefix(db.msgs[S(r)], db'.msgs[S(r)])
    BY <1>1, <1>3, <1>8 DEF IsPrefix, Log!IsPrefix
  <2> QED
    BY <1>6, <1>8, <2>1 DEF Log!Gains
<1>10. db'.msgs = [db.msgs EXCEPT ![S(r)] = db'.msgs[S(r)]]
  BY <1>4, <1>8
<1>11. /\ db'.msgs[S(r)] \in Seq(Entries) /\ DOMAIN db'.appr = Calls
       /\ \A c \in Calls \ CallsOvertaken : <<db.appr[c], db'.appr[c]>> \in Log!Moves
  BY <1>5, <1>7, <1>8
<1>12. UNCHANGED <<overtaken, CallsOvertaken>>
  BY <1>1 DEF CallsOvertaken
<1> QED
  BY <1>1, <1>3, <1>8, <1>9, <1>10, <1>11, <1>12 DEF Log!Turn

\* Nothing but the commit of the writer changes the committed image.
LEMMA OnlyCommits ==
  ASSUME InOrder, [Next]_vars
  PROVE  \/ db' = db /\ overtaken \subseteq overtaken' /\ issued \subseteq issued'
         \/ \E r \in Requests : Commit(r) /\ writer = r
<1>1. Control
  BY DEF InOrder
<1>2. ASSUME NEW r \in Requests, Acts(r)
      PROVE  \/ db' = db /\ overtaken \subseteq overtaken' /\ issued \subseteq issued'
             \/ Commit(r) /\ writer = r
  <2>1. Effect(r) /\ Issues(r)
    BY <1>1, <1>2, StepEffects, StepMoves
  <2>2. overtaken \subseteq overtaken' /\ issued \subseteq issued'
    BY <1>1, <2>1, IssuedGrows
  <2> QED
    BY <2>1, <2>2 DEF Effect, Quiet, Load, Commit, Write
<1>3. ASSUME NEW r \in Requests, NEW j \in Jobs, Submit(r, j)
      PROVE  db' = db /\ overtaken \subseteq overtaken' /\ issued \subseteq issued'
  BY <1>1, <1>3, OtherMoves DEF NotesTurn
<1>4. ASSUME NEW s \in Sessions, Enter(s)
      PROVE  db' = db /\ overtaken \subseteq overtaken' /\ issued \subseteq issued'
  BY <1>1, <1>4, OtherMoves DEF NotesTurn
<1>5. CASE Crash
  BY <1>1, <1>5, OtherMoves
<1>6. CASE UNCHANGED vars
  BY <1>6 DEF vars, dbVars, clientVars, historyVars
<1> QED
  BY <1>2, <1>3, <1>4, <1>5, <1>6 DEF Next, Acts

LEMMA NextLog ==
  ASSUME InOrder, [Next]_vars
  PROVE  /\ [Log!LogNext]_(Log!logVars)
         /\ [\A s \in Sessions \ overtaken : IsPrefix(db.msgs[s], db'.msgs[s])]_db
<1>1. ASSUME NEW r \in Requests, Commit(r), writer = r
      PROVE  /\ Log!LogNext
             /\ \A s \in Sessions \ overtaken : IsPrefix(db.msgs[s], db'.msgs[s])
  BY <1>1, CommitTurn DEF Log!LogNext
<1>2. ASSUME db' = db, overtaken \subseteq overtaken', issued \subseteq issued'
      PROVE  [Log!LogNext]_(Log!logVars)
  <2>1. CallsOvertaken \subseteq CallsOvertaken'
    BY <1>2 DEF CallsOvertaken
  <2>2. CASE overtaken' = {}
    <3>1. overtaken = {} /\ CallsOvertaken = {} /\ CallsOvertaken' = {}
      BY <1>2, <2>2 DEF CallsOvertaken
    <3> QED
      BY <1>2, <2>2, <3>1 DEF Log!logVars
  <2>3. CASE overtaken' # {}
    <3>1. Log!Lose
      BY <1>2, <2>1, <2>3 DEF Log!Lose
    <3> QED
      BY <3>1 DEF Log!LogNext
  <2> QED
    BY <2>2, <2>3
<1> QED
  BY <1>1, <1>2, OnlyCommits

\* The committed messages and approvals behave like the conversation log, under
\* every schedule and failure; of a session that a turn overtook the log no
\* longer promises that messages stay.
THEOREM ConversationsAreLogs == Spec => ImplementsLog
<1> SUFFICES Spec => Log!LogSpec
  BY DEF ImplementsLog
<1>1. InOrder /\ [Next]_vars => [Log!LogNext]_(Log!logVars)
  BY NextLog
<1> QED
  BY InitAll, InitLog, NextAll, <1>1, PTL DEF Spec, Log!LogSpec

\* What NoLostMessage asks for, and does not get: no commit removes or changes a
\* committed message of a session, until a turn begins there before the one it
\* follows is committed.
THEOREM OnlyOvertakenSessionsLose ==
  Spec => [][\A s \in Sessions \ overtaken : IsPrefix(db.msgs[s], db'.msgs[s])]_db
<1>1. InOrder /\ [Next]_vars =>
        [\A s \in Sessions \ overtaken : IsPrefix(db.msgs[s], db'.msgs[s])]_db
  BY NextLog
<1> QED
  BY InitAll, NextAll, <1>1, PTL DEF Spec

-----------------------------------------------------------------------------
(***************************************************************************)
(* Calls that wait for an approval are shown                               *)
(***************************************************************************)
Visible(img, s, c) == Full(img, s) \/ Shows(img, s, Entry("call", c))

\* r has asked for the approval of c and stores the call next.
AboutToShow(r, c) ==
  phase[r] = "record" /\ told[r].kind \in {"call", "forbidden"} /\ told[r].call = c

WaitingShown ==
  \A s \in Sessions \ overtaken, c \in Calls : <<s, c>> \in issued =>
     /\ db.appr[c] = "pending" => Visible(db, s, c)
     /\ writer # NoRequest /\ work.appr[c] = "pending" =>
          Visible(work, s, c) \/ AboutToShow(writer, c)

LEMMA VisibleStays ==
  ASSUME NEW img \in Images, NEW old \in Images, NEW s \in Sessions, Extends(img, old, s),
         NEW c, Visible(old, s, c)
  PROVE  Visible(img, s, c)
<1>1. CASE Full(old, s)
  <2>1. Len(old.msgs[s]) \in Nat /\ Len(img.msgs[s]) \in Nat
        /\ Len(old.msgs[s]) <= Len(img.msgs[s])
    BY LengthsOfMessages DEF Extends
  <2> QED
    BY <1>1, <2>1, MessageOrchestrationAssumption DEF Full, Visible
<1>2. CASE Shows(old, s, Entry("call", c))
  BY <1>2, ShowsStays DEF Visible
<1> QED
  BY <1>1, <1>2 DEF Visible

\* A call that the model has just used is nowhere yet.
LEMMA JustIssued ==
  ASSUME Control, NEW r \in Requests, Acts(r), issued' # issued
  PROVE  UNCHANGED <<db, writer, work>>
<1>1. Consult(r)
  BY DEF Acts, Step, Load, AddUserMessage, Decide, AddResult, GetContext, InsertConflict,
         ExplicitSwitch, MissingAgent, Classify, AddPending, Record, AnswerSwitch, Handover,
         Release, Commit, BusyTimeout, Disconnect, clientVars
<1> QED
  BY <1>1 DEF Consult, dbVars

\* A call that r is about to store is one of its session.
LEMMA OwnCall ==
  ASSUME CallsInOrder, NEW r \in Requests, NEW c \in Calls, AboutToShow(r, c),
         S(r) \in Sessions, NEW s \in Sessions, <<s, c>> \in issued
  PROVE  s = S(r)
<1>1. NewCall(r, c) /\ OneOwner
  BY DEF AboutToShow, CallsInOrder, NewCalls, Speaks
<1> QED
  BY <1>1 DEF NewCall, OneOwner

\* A writer that is about to store its answer does nothing else.
LEMMA RecordsNext ==
  ASSUME Control, NEW r \in Requests, Acts(r), phase[r] = "record", writer = r, writer' = r
  PROVE  Record(r)
<1>1. phase[r] \in DbPhases /\ HasRead(r) /\ MayWrite(r)
  BY DEF DbPhases, HasRead, MayWrite
<1>2. ~Disconnect(r)
  BY NoRequestAssumption DEF Disconnect, RollBack
<1>3. ~Load(r) /\ ~BusyTimeout(r)
  BY <1>1 DEF Load, BusyTimeout
<1> QED
  BY <1>2, <1>3
  DEF Acts, Step, AddUserMessage, Decide, AddResult, GetContext, InsertConflict,
      ExplicitSwitch, MissingAgent, Classify, Consult, AddPending, AnswerSwitch, Handover,
      Release, Commit

LEMMA StepShown ==
  ASSUME Control, Turns, Drafts, CallsInOrder, WaitingShown, NEW r \in Requests, Acts(r)
  PROVE  WaitingShown'
<1>1. /\ \A q \in Requests \ {r} : phase'[q] = phase[q] /\ told'[q] = told[q]
      /\ Target(r) \in Images /\ db \in Images /\ Unfinished(r) /\ S(r) \in Sessions
      /\ writer \in Requests \cup {NoRequest}
      /\ overtaken' = overtaken /\ Issues(r)
  BY ActorFacts, AtWork, TypeParts DEF DbTypeOK, Unfinished
<1> SUFFICES ASSUME NEW s \in Sessions \ overtaken, NEW c \in Calls, <<s, c>> \in issued'
             PROVE  /\ db'.appr[c] = "pending" => Visible(db', s, c)
                    /\ writer' # NoRequest /\ work'.appr[c] = "pending" =>
                         Visible(work', s, c) \/ AboutToShow(writer, c)'
  BY <1>1 DEF WaitingShown
<1>2. CASE <<s, c>> \notin issued
  <2>1. UNCHANGED <<db, writer, work>> /\ c \notin Issued
    BY <1>1, <1>2, JustIssued, IssuedGrows
  <2>2. \A img \in InUse : img.appr[c] # "pending"
    BY <2>1 DEF CallsInOrder, ImagesOrderly, Orderly
  <2> QED
    BY <2>1, <2>2 DEF InUse
<1> SUFFICES ASSUME <<s, c>> \in issued
             PROVE  /\ db'.appr[c] = "pending" => Visible(db', s, c)
                    /\ writer' # NoRequest /\ work'.appr[c] = "pending" =>
                         Visible(work', s, c) \/ AboutToShow(writer, c)'
  BY <1>2
<1>3. /\ db.appr[c] = "pending" => Visible(db, s, c)
      /\ writer # NoRequest /\ work.appr[c] = "pending" =>
           Visible(work, s, c) \/ AboutToShow(writer, c)
  BY DEF WaitingShown
<1>4. CASE Commit(r) /\ writer = r
  <2>1. db' = work /\ writer' = NoRequest /\ phase[r] = "commit"
    BY <1>4 DEF Commit
  <2> QED
    BY <1>3, <1>4, <2>1, NoRequestAssumption DEF AboutToShow
<1>5. CASE ~(Commit(r) /\ writer = r) /\ (Quiet(r) \/ Load(r) \/ Commit(r))
  <2>1. db' = db /\ (writer' # NoRequest => writer' = writer /\ work' = work)
    BY <1>5, NoRequestAssumption DEF Quiet, Load, Commit
  <2>2. ASSUME writer' # NoRequest, work'.appr[c] = "pending"
        PROVE  Visible(work', s, c) \/ AboutToShow(writer, c)'
    <3>1. writer' = writer /\ work' = work /\ (Visible(work, s, c) \/ AboutToShow(writer, c))
      BY <1>3, <2>1, <2>2
    <3>2. CASE writer # r
      BY <1>1, <2>2, <3>1, <3>2 DEF AboutToShow
    <3>3. CASE writer = r /\ AboutToShow(r, c)
      <4>1. Record(r) /\ s = S(r)
        BY <1>1, <3>1, <3>3, RecordsNext, OwnCall DEF AboutToShow
      <4>2. CASE Write(r, WithMessage(r, AnswerEntry(r)))
        <5> DEFINE e == AnswerEntry(r)
                   img == WithMessage(r, e)
                   n == Len(Source(r).msgs[S(r)])
        <5>1. e = Entry("call", c) /\ e \in Entries
          BY <3>3 DEF AboutToShow, AnswerEntry, Entry, Entries
        <5>2. Busy(r) /\ HasRead(r)
          BY <3>3, <4>1, InTurn
          DEF AboutToShow, Record, Unfinished, Phases, Active, DbPhases
        <5>3. /\ S(r) \in Sessions /\ n \in Nat
              /\ Len(img.msgs[S(r)]) = n + 1 /\ img.msgs[S(r)][n + 1] = e
          BY <5>1, <5>2, MessageAdded
        <5>4. work' = img
          BY <4>2 DEF Write
        <5> HIDE DEF e, img, n
        <5> QED
          BY <4>1, <5>1, <5>3, <5>4 DEF Visible, Shows
      <4>3. CASE ~HasRoom(r)
        <5>1. Full(work, S(r))
          BY <3>3, <4>3 DEF HasRoom, Source
        <5> QED
          BY <3>1, <4>1, <5>1 DEF Visible
      <4> QED
        BY <4>1, <4>2, <4>3 DEF Record
    <3> QED
      BY <3>1, <3>2, <3>3
  <2> QED
    BY <1>3, <2>1, <2>2
<1>6. ASSUME NEW img, Write(r, img), Made(r, img)
      PROVE  /\ db'.appr[c] = "pending" => Visible(db', s, c)
             /\ writer' # NoRequest /\ work'.appr[c] = "pending" =>
                  Visible(work', s, c) \/ AboutToShow(writer, c)'
  <2>1. db' = db /\ writer' = r /\ work' = img
    BY <1>6 DEF Write
  <2>2. img \in Images /\ Extends(img, Target(r), s)
    <3>1. Control'
      BY NextControl DEF Next, Acts
    <3> QED
      BY <1>6, <2>1, <3>1, NoRequestAssumption DEF Control, TypeOK, Made
  <2>3. Target(r).appr[c] = "pending" => Visible(Target(r), s, c) \/ AboutToShow(r, c)
    BY <1>3, NoRequestAssumption DEF Target
  <2>4. ASSUME img.appr[c] = "pending"
        PROVE  Visible(img, s, c) \/ AboutToShow(r, c)'
    <3>1. CASE Target(r).appr[c] = "pending" /\ ~AboutToShow(r, c)
      BY <1>1, <2>2, <2>3, <3>1, VisibleStays
    <3>2. ASSUME NEW e, Says(r, e), img.appr = Target(r).appr, Added(r, img, e)
          PROVE  Visible(img, s, c) \/ AboutToShow(r, c)'
      <4>1. CASE AboutToShow(r, c)
        <5>1. e = Entry("call", c) /\ s = S(r)
          BY <1>1, <3>2, <4>1, OwnCall DEF AboutToShow, Says, AnswerEntry
        <5> QED
          BY <3>2, <5>1 DEF Visible, Added
      <4>2. CASE ~AboutToShow(r, c)
        BY <2>4, <3>1, <3>2, <4>2
      <4> QED
        BY <4>1, <4>2
    <3>3. ASSUME NEW d, NEW status, Settles(r, d, status),
                 img.appr = [Target(r).appr EXCEPT ![d] = status]
          PROVE  Visible(img, s, c) \/ AboutToShow(r, c)'
      <4>1. d \in Calls /\ ~AboutToShow(r, c)
        BY <3>3, SettledCall DEF Settles, AboutToShow
      <4>2. CASE d = c
        <5>1. status = "pending"
          BY <1>1, <2>4, <3>3, <4>1, <4>2 DEF Images
        <5>2. /\ phase[r] = "pend" /\ told[r].call = c /\ phase'[r] = "record" /\ told' = told
          BY <3>3, <4>2, <5>1 DEF Settles
        <5>3. told[r].kind \in {"call", "forbidden"}
          BY <5>2, AtWork DEF Fits
        <5> QED
          BY <5>2, <5>3 DEF AboutToShow
      <4>3. CASE d # c
        BY <1>1, <2>4, <3>1, <3>3, <4>1, <4>3 DEF Images
      <4> QED
        BY <4>2, <4>3
    <3>4. CASE phase[r] # "record" /\ img.appr = Target(r).appr
      BY <2>4, <3>1, <3>4 DEF AboutToShow
    <3> QED
      BY <1>6, <3>2, <3>3, <3>4 DEF Made
  <2>5. AboutToShow(r, c)' => AboutToShow(writer, c)'
    BY <2>1 DEF AboutToShow
  <2> QED
    BY <1>3, <2>1, <2>4, <2>5
<1> QED
  BY <1>4, <1>5, <1>6, Making

LEMMA NextShown ==
  ASSUME Control, Turns, Drafts, CallsInOrder, WaitingShown, [Next]_vars
  PROVE  WaitingShown'
<1>1. ASSUME UNCHANGED <<db, writer, work, told, issued>>, overtaken \subseteq overtaken',
             writer # NoRequest => phase'[writer] = phase[writer]
      PROVE  WaitingShown'
  BY <1>1 DEF WaitingShown, Visible, Full, Shows, AboutToShow
<1>2. ASSUME NEW r \in Requests, NEW j \in Jobs, Submit(r, j) PROVE WaitingShown'
  <2>1. writer # r /\ writer \in Requests \cup {NoRequest}
    BY <1>2, OtherMoves, TypeParts DEF Turns, StartsClean, DbTypeOK
  <2>2. overtaken \subseteq overtaken'
    BY <1>2, OtherMoves DEF NotesTurn
  <2> QED
    BY <1>1, <1>2, <2>1, <2>2, OtherMoves
<1>3. ASSUME NEW s \in Sessions, Enter(s) PROVE WaitingShown'
  <2>1. writer \in Requests \cup {NoRequest}
        /\ \A q \in Requests : phase[q] = "queued" => writer # q
    BY TypeParts DEF Turns, StartsClean, DbTypeOK
  <2>2. PICK r \in Requests :
          /\ UNCHANGED <<db, writer, work, told, issued>>
          /\ phase[r] = "queued"
          /\ \A q \in Requests \ {r} : phase'[q] = phase[q]
    BY <1>3, OtherMoves
  <2>3. overtaken \subseteq overtaken'
    BY <1>3, OtherMoves DEF NotesTurn
  <2> QED
    BY <1>1, <2>1, <2>2, <2>3
<1>4. CASE Crash
  <2>1. UNCHANGED <<db, issued, overtaken>> /\ writer' = NoRequest
    BY <1>4, OtherMoves
  <2> QED
    BY <2>1 DEF WaitingShown, Visible, Full, Shows
<1>5. CASE UNCHANGED vars
  BY <1>1, <1>5 DEF vars, dbVars, localVars, clientVars, historyVars
<1> QED
  BY <1>2, <1>3, <1>4, <1>5, StepShown DEF Next, Acts

LEMMA ShownPending == Control /\ WaitingShown => PendingIsShown
<1> SUFFICES ASSUME Control, WaitingShown, NEW p \in issued, p[1] \notin overtaken,
                    db.appr[p[2]] = "pending"
             PROVE  Full(db, p[1]) \/ Stored(db, p[1], Entry("call", p[2]))
  BY DEF PendingIsShown
<1>1. p[1] \in Sessions /\ p[2] \in Calls /\ p = <<p[1], p[2]>>
  BY TypeParts DEF RequestTypeOK
<1>2. DOMAIN db.msgs[p[1]] = 1..Len(db.msgs[p[1]])
  BY <1>1, TypeParts, LengthsOfMessages, LenProperties DEF DbTypeOK
<1>3. Visible(db, p[1], p[2])
  BY <1>1 DEF WaitingShown
<1> QED
  BY <1>2, <1>3 DEF Visible, Shows, Stored

\* A call waits for an approval only if the conversation of its session shows it,
\* unless the message limit kept it out, whatever fails and whenever requests
\* arrive, in a session that no turn has overtaken.
THEOREM WaitingCallsAreShown == Spec => []PendingIsShown
<1>1. Init => InOrder /\ WaitingShown
  <2>1. Init => WaitingShown
    BY DEF Init, WaitingShown
  <2> QED
    BY <2>1, InitAll
<1>2. InOrder /\ WaitingShown /\ [Next]_vars => InOrder' /\ WaitingShown'
  BY NextAll, NextShown DEF InOrder
<1>3. InOrder /\ WaitingShown => PendingIsShown
  BY ShownPending DEF InOrder
<1> QED
  BY <1>1, <1>2, <1>3, PTL DEF Spec

-----------------------------------------------------------------------------
(***************************************************************************)
(* Results follow their calls                                              *)
(***************************************************************************)
\* The call of a result stands before it, if the database had it when the client
\* did.
Follows(q, s) ==
  \A i \in 1..Len(q), c \in Calls : q[i] = Entry("result", c) /\ <<s, c>> \notin forgotten =>
     \E j \in 1..(i - 1), k \in {"call", "switch"} : q[j] = Entry(k, c)
ImagesFollow == \A img \in InUse, s \in Sessions \ overtaken : Follows(img.msgs[s], s)

\* A call that was sent to the client is committed, or will be by the turn that
\* sent it, which can no longer fail; one that is answered is committed.
AboutToCommit(s, c) ==
  /\ writer # NoRequest /\ Busy(writer) /\ S(writer) = s
  /\ phase[writer] \in {"leave", "commit"}
  /\ Shows(work, s, Entry("call", c))
Sent ==
  \A s \in Sessions \ overtaken, c \in Calls :
     <<s, c>> \in delivered /\ <<s, c>> \notin forgotten =>
        Shows(db, s, Entry("call", c)) \/ AboutToCommit(s, c)
Asked ==
  \A r \in Requests :
     Replies(r) /\ Busy(r) /\ S(r) \notin overtaken /\ <<S(r), job[r].call>> \notin forgotten =>
        Shows(db, S(r), Entry("call", job[r].call))

CallsKept == ImagesFollow /\ Sent /\ Asked

\* An entry at the end changes nothing for the results before it.
LEMMA FollowsOn ==
  ASSUME NEW q, NEW p, NEW e, NEW s, Len(q) \in Nat, Len(p) = Len(q) + 1, Follows(q, s),
         \A i \in 1..Len(q) : p[i] = q[i], p[Len(q) + 1] = e,
         \A c \in Calls : e = Entry("result", c) /\ <<s, c>> \notin forgotten =>
            \E j \in 1..Len(q), k \in {"call", "switch"} : q[j] = Entry(k, c)
  PROVE  Follows(p, s)
<1> SUFFICES ASSUME NEW i \in 1..Len(p), NEW c \in Calls, p[i] = Entry("result", c),
                    <<s, c>> \notin forgotten
             PROVE  \E j \in 1..(i - 1), k \in {"call", "switch"} : p[j] = Entry(k, c)
  BY DEF Follows
<1>1. CASE i \in 1..Len(q)
  <2>1. PICK j \in 1..(i - 1), k \in {"call", "switch"} : q[j] = Entry(k, c)
    BY <1>1 DEF Follows
  <2>2. j \in 1..Len(q)
    BY <1>1, <2>1
  <2> QED
    BY <2>1, <2>2
<1>2. CASE i = Len(q) + 1
  <2>1. PICK j \in 1..Len(q), k \in {"call", "switch"} : q[j] = Entry(k, c)
    BY <1>2
  <2>2. j \in 1..(i - 1) /\ p[j] = Entry(k, c)
    BY <1>2, <2>1
  <2> QED
    BY <2>2
<1> QED
  BY <1>1, <1>2

\* A result that r adds is one of a call that stands in the conversation.
LEMMA ResultAdded ==
  ASSUME Control, Turns, Drafts, CallsInOrder, Asked, NEW r \in Requests,
         NEW c \in Calls, Says(r, Entry("result", c)),
         S(r) \notin overtaken, <<S(r), c>> \notin forgotten
  PROVE  \E j \in 1..Len(Source(r).msgs[S(r)]), k \in {"call", "switch"} :
            Source(r).msgs[S(r)][j] = Entry(k, c)
<1>1. /\ Busy(r) /\ HasRead(r) /\ Fits(r) /\ S(r) \in Sessions
      /\ Target(r) \in Images /\ Source(r) \in Images /\ db \in Images
  BY SaysInTurn, AtWork, BusyUnfinished, ImageTypes DEF DbTypeOK
<1>2. CASE phase[r] = "result" /\ Entry("result", c) = Entry("result", job[r].call)
  <2>1. c = job[r].call /\ Replies(r)
    BY <1>1, <1>2, BusyUnfinished DEF Entry, Replies, Fits
  <2>2. Shows(db, S(r), Entry("call", c))
    BY <1>1, <2>1 DEF Asked
  <2>3. Shows(Target(r), S(r), Entry("call", c))
    BY <1>1, <2>2, TargetExtends, ShowsStays
  <2>4. Source(r).msgs[S(r)] = Target(r).msgs[S(r)]
    BY <1>1, CurrentMessages
  <2> QED
    BY <2>3, <2>4 DEF Shows
<1>3. CASE /\ phase[r] = "answer" /\ OpenSwitchCall(r)
           /\ Entry("result", c) = Entry("result", LastSwitchCall(Source(r).msgs[S(r)]))
  <2> DEFINE q == Source(r).msgs[S(r)]
  <2>1. c = LastSwitchCall(q) /\ q \in Seq(Entries)
    BY <1>1, <1>3, LengthsOfMessages DEF Entry
  <2>2. SwitchCallsIn(q) # {}
    BY <1>3 DEF OpenSwitchCall
  <2> HIDE DEF q
  <2>3. \E i \in 1..Len(q) : q[i] = Entry("switch", LastSwitchCall(q))
    BY <2>1, <2>2, LastSwitchCallFound
  <2>4. \E i \in 1..Len(q), k \in {"call", "switch"} : q[i] = Entry(k, c)
    BY <2>1, <2>3
  <2> QED
    BY <2>4 DEF q
<1>4. phase[r] = "record" => AnswerEntry(r).kind # "result"
  BY <1>1 DEF AnswerEntry, Entry, Fits
<1>5. Entry("result", c).kind = "result" /\ Entry("user", r).kind = "user"
  BY DEF Entry
<1> QED
  BY <1>2, <1>3, <1>4, <1>5 DEF Says

LEMMA StepFollow ==
  ASSUME Control, Turns, Drafts, CallsInOrder, CallsKept, NEW r \in Requests, Acts(r)
  PROVE  ImagesFollow'
<1>1. /\ Target(r) \in InUse /\ Target(r) \in Images
      /\ HasRead(r) => Source(r) \in InUse
      /\ ImagesFollow /\ Asked /\ overtaken' = overtaken /\ forgotten' = forgotten
  BY ActorFacts, IssuedGrows DEF CallsKept
<1>2. \A q, s : Follows(q, s)' <=> Follows(q, s)
  BY <1>1 DEF Follows
<1>3. CASE Quiet(r) \/ Load(r) \/ Commit(r)
  <2>1. InUse' \subseteq InUse
    BY <1>3, UseKept
  <2> QED
    BY <1>1, <2>1 DEF ImagesFollow, Follows
<1>4. ASSUME NEW img, Write(r, img),
             \A s \in Sessions \ overtaken : Follows(img.msgs[s], s)
      PROVE  ImagesFollow'
  <2>1. InUse' \subseteq InUse \cup {img}
    BY <1>4, UseWritten
  <2> QED
    BY <1>1, <1>4, <2>1 DEF ImagesFollow, Follows
<1>5. ASSUME NEW e, Says(r, e), Write(r, WithMessage(r, e)) PROVE ImagesFollow'
  <2> DEFINE img == WithMessage(r, e)
             q == Source(r).msgs[S(r)]
  <2>1. Busy(r) /\ HasRead(r) /\ e \in Entries
    BY <1>5, SaysInTurn
  <2>2. /\ S(r) \in Sessions /\ Len(q) \in Nat
        /\ \A s \in Sessions \ {S(r)} : img.msgs[s] = Target(r).msgs[s]
        /\ Len(img.msgs[S(r)]) = Len(q) + 1
        /\ \A i \in 1..Len(q) : img.msgs[S(r)][i] = q[i]
        /\ img.msgs[S(r)][Len(q) + 1] = e
    BY <2>1, MessageAdded
  <2>3. S(r) \notin overtaken => Follows(img.msgs[S(r)], S(r))
    <3> SUFFICES ASSUME S(r) \notin overtaken PROVE Follows(img.msgs[S(r)], S(r))
      OBVIOUS
    <3>1. \A c \in Calls : e = Entry("result", c) /\ <<S(r), c>> \notin forgotten =>
            \E j \in 1..Len(q), k \in {"call", "switch"} : q[j] = Entry(k, c)
      BY <1>1, <1>5, ResultAdded
    <3>2. Follows(q, S(r))
      BY <1>1, <2>1, <2>2 DEF ImagesFollow
    <3> HIDE DEF img, q
    <3> QED
      BY <2>2, <3>1, <3>2, FollowsOn
  <2> HIDE DEF img, q
  <2>4. \A s \in Sessions \ overtaken : Follows(img.msgs[s], s)
    BY <1>1, <2>2, <2>3 DEF ImagesFollow
  <2>5. Write(r, img)
    BY <1>5 DEF img
  <2> QED
    BY <1>4, <2>4, <2>5
<1>6. ASSUME NEW img, Write(r, img), img.msgs = Target(r).msgs PROVE ImagesFollow'
  BY <1>1, <1>4, <1>6 DEF ImagesFollow
<1>7. ASSUME NEW c, NEW status, Write(r, WithApproval(r, c, status)) PROVE ImagesFollow'
  BY <1>6, <1>7, ApprovalSet
<1>8. ASSUME NEW c, Write(r, WithContext(r, c)) PROVE ImagesFollow'
  BY <1>6, <1>8, ContextSet
<1>9. Effect(r)
  BY StepEffects
<1> QED
  BY <1>3, <1>5, <1>7, <1>8, <1>9 DEF Effect

\* A turn that leaves keeps what it has written and commits it.
LEMMA LeavesOrCommits ==
  ASSUME Control, NEW r \in Requests, Acts(r), phase[r] \in {"leave", "commit"}
  PROVE  /\ UNCHANGED delivered
         /\ \/ Commit(r)
            \/ phase'[r] = "commit" /\ UNCHANGED <<db, writer, work>>
<1>1. Release(r) \/ Commit(r)
  BY DEF Acts, Step, Load, AddUserMessage, Decide, AddResult, GetContext, InsertConflict,
         ExplicitSwitch, MissingAgent, Classify, Consult, AddPending, Record, AnswerSwitch,
         Handover, BusyTimeout, Disconnect, DbPhases
<1>2. RequestTypeOK
  BY TypeParts
<1> QED
  BY <1>1, <1>2 DEF Release, Commit, Goto, dbVars, clientVars, historyVars, RequestTypeOK

LEMMA StepSent ==
  ASSUME Control, Turns, Drafts, CallsInOrder, CallsKept, NEW r \in Requests, Acts(r)
  PROVE  Sent' /\ Asked'
<1>1. /\ job' = job /\ Unfinished(r) /\ overtaken' = overtaken /\ forgotten' = forgotten
      /\ \A q \in Requests \ {r} : phase'[q] = phase[q]
      /\ \A q \in Requests : Unfinished(q)' => Unfinished(q)
      /\ \A q \in Requests : Busy(q)' => Busy(q)
      /\ Target(r) \in Images /\ db \in Images
  BY ActorFacts, IssuedGrows
<1>2. /\ writer \in Requests \cup {NoRequest} /\ (writer # NoRequest => work \in Images)
      /\ Sent /\ Asked
  BY TypeParts DEF DbTypeOK, CallsKept
<1>3. \A q \in Requests : Replies(q)' => Replies(q)
  BY <1>1 DEF Replies
<1>4. \A q \in Requests : Busy(q) => S(q) \in Sessions
  BY AtWork, BusyUnfinished
<1>5. db' # db => /\ writer = r /\ Commit(r) /\ db' = work
                  /\ \A s \in Sessions \ overtaken : Extends(work, db, s)
  <2>1. Effect(r)
    BY StepEffects
  <2> QED
    BY <2>1, NoRequestAssumption DEF Effect, Quiet, Load, Commit, Write, Drafts, DraftExtends
<1>6. \A s \in Sessions \ overtaken : \A x : Shows(db, s, x) => Shows(db', s, x)
  BY <1>1, <1>2, <1>5, ShowsStays, NoRequestAssumption
<1>7. Asked'
  BY <1>1, <1>2, <1>3, <1>4, <1>6 DEF Asked, S
<1> SUFFICES ASSUME NEW s \in Sessions \ overtaken, NEW c \in Calls,
                    <<s, c>> \in delivered', <<s, c>> \notin forgotten
             PROVE  Shows(db', s, Entry("call", c)) \/ AboutToCommit(s, c)'
  BY <1>1, <1>7 DEF Sent
<1>8. CASE Shows(db, s, Entry("call", c))
  BY <1>6, <1>8
<1>9. CASE phase[r] \in {"leave", "commit"} /\ ~Shows(db, s, Entry("call", c))
  <2>1. AboutToCommit(s, c)
    BY <1>2, <1>9, LeavesOrCommits DEF Sent
  <2>2. CASE Commit(r)
    <3>1. CASE writer = r
      <4>1. db' = work
        BY <2>2, <3>1 DEF Commit
      <4> QED
        BY <2>1, <4>1 DEF AboutToCommit
    <3>2. CASE writer # r
      <4>1. writer' = writer /\ work' = work /\ phase'[writer] = phase[writer]
        BY <1>1, <1>2, <2>1, <2>2, <3>2 DEF Commit, AboutToCommit
      <4> QED
        BY <1>1, <2>1, <4>1 DEF AboutToCommit, Busy, S
    <3> QED
      BY <3>1, <3>2
  <2>3. CASE phase'[r] = "commit" /\ UNCHANGED <<db, writer, work>>
    <3>1. phase'[writer] \in {"leave", "commit"} /\ Busy(writer)'
      BY <1>1, <1>2, <2>1, <2>3 DEF AboutToCommit, Busy
    <3> QED
      BY <1>1, <2>1, <2>3, <3>1 DEF AboutToCommit, S
  <2> QED
    BY <1>9, <2>2, <2>3, LeavesOrCommits
<1>10. CASE phase[r] \notin {"leave", "commit"} /\ <<s, c>> \in delivered
            /\ AboutToCommit(s, c)
  <2>1. writer \in Requests \ {r}
    BY <1>2, <1>10 DEF AboutToCommit
  <2>2. writer' = writer /\ work' = work
    <3>1. Effect(r)
      BY StepEffects
    <3> QED
      BY <2>1, <3>1, NoRequestAssumption DEF Effect, Quiet, Load, Commit, Write, MayWrite
  <2> QED
    BY <1>1, <1>10, <2>1, <2>2 DEF AboutToCommit, Busy, S
<1>11. CASE <<s, c>> \notin delivered
  <2>1. PICK img : Write(r, img) /\ Made(r, img)
    BY <1>11, Making
  <2>2. PICK e : Says(r, e) /\ Added(r, img, e)
    BY <1>11, <2>1 DEF Made
  <2>3. /\ phase[r] = "record" /\ e = AnswerEntry(r) /\ told[r].kind = "call"
        /\ phase'[r] = "leave" /\ s = S(r) /\ c = told[r].call
    BY <1>11, <2>2 DEF Says
  <2>4. e = Entry("call", c)
    BY <2>3 DEF AnswerEntry
  <2>5. Shows(img, s, Entry("call", c)) /\ Busy(r)
    BY <2>2, <2>3, <2>4, SaysInTurn DEF Added
  <2>6. writer' = r /\ work' = img
    BY <2>1 DEF Write
  <2> QED
    BY <1>1, <2>3, <2>5, <2>6, NoRequestAssumption DEF AboutToCommit, Busy, Active, S
<1> QED
  BY <1>2, <1>8, <1>9, <1>10, <1>11 DEF Sent

\* When a turn begins that overtakes none, what the client was sent is committed.
LEMMA BeginsInformed ==
  ASSUME Sent, NEW s \in Sessions, NEW c \in Calls, <<s, c>> \in delivered,
         <<s, c>> \notin forgotten, NotesTurn(s), s \notin overtaken'
  PROVE  Shows(db, s, Entry("call", c))
<1>1. s \notin overtaken /\ ~AboutToCommit(s, c)
  BY DEF NotesTurn, AboutToCommit, Busy
<1> QED
  BY <1>1 DEF Sent

\* Other steps keep what is committed and what is about to be.
LEMMA OtherKept ==
  ASSUME CallsKept, UNCHANGED <<db, writer, work, seen, delivered, forgotten>>,
         overtaken \subseteq overtaken',
         writer # NoRequest => phase'[writer] = phase[writer] /\ job'[writer] = job[writer],
         Asked'
  PROVE  CallsKept'
<1>1. InUse' = InUse
  BY DEF InUse
<1>2. ImagesFollow'
  BY <1>1 DEF CallsKept, ImagesFollow, Follows
<1>3. Sent'
  BY DEF CallsKept, Sent, AboutToCommit, Shows, Busy, S
<1> QED
  BY <1>2, <1>3 DEF CallsKept

LEMMA SubmitKept ==
  ASSUME Control, Turns, CallsKept, NEW r \in Requests, NEW j \in Jobs, Submit(r, j)
  PROVE  CallsKept'
<1>1. /\ UNCHANGED <<db, writer, work, seen, delivered, forgotten>> /\ phase[r] = "new"
      /\ job'[r] = j /\ Requested(j)
      /\ phase'[r] \in {"queued", "add", "decide", "context", "explicit"}
      /\ j.kind = "rest" <=> phase'[r] = "explicit"
      /\ \A q \in Requests \ {r} : phase'[q] = phase[q] /\ job'[q] = job[q]
      /\ \/ phase'[r] \notin {"add", "decide", "context"} /\ overtaken' = overtaken
         \/ NotesTurn(j.sess)
  BY OtherMoves
<1>2. overtaken \subseteq overtaken'
  BY <1>1 DEF NotesTurn
<1>3. writer # NoRequest => phase'[writer] = phase[writer] /\ job'[writer] = job[writer]
  BY <1>1, TypeParts DEF Turns, StartsClean, DbTypeOK
<1>4. Asked'
  <2> SUFFICES ASSUME NEW q \in Requests, Replies(q)', Busy(q)', S(q)' \notin overtaken',
                      <<job'[q].sess, job'[q].call>> \notin forgotten
               PROVE  Shows(db, job'[q].sess, Entry("call", job'[q].call))
    BY <1>1 DEF Asked, S, Shows
  <2>1. CASE q = r
    <3>1. j.kind \in {"tool", "hitl"} /\ phase'[r] \in {"add", "decide", "context"}
      BY <1>1, <2>1 DEF Replies, Busy, Active, DbPhases
    <3>2. <<j.sess, j.call>> \in delivered /\ delivered \subseteq Sessions \X Calls
      BY <1>1, <3>1, TypeParts DEF Requested, RequestTypeOK
    <3>3. j.sess \in Sessions /\ j.call \in Calls
      BY <3>2
    <3> QED
      BY <1>1, <2>1, <3>1, <3>2, <3>3, BeginsInformed DEF CallsKept, S
  <2>2. CASE q # r
    BY <1>1, <1>2, <2>2 DEF CallsKept, Asked, Replies, Unfinished, Busy, S
  <2> QED
    BY <2>1, <2>2
<1> QED
  BY <1>1, <1>2, <1>3, <1>4, OtherKept

LEMMA EnterKept ==
  ASSUME Control, Turns, CallsInOrder, CallsKept, NEW s \in Sessions, Enter(s)
  PROVE  CallsKept'
<1>1. PICK r \in Requests :
        /\ UNCHANGED <<db, writer, work, seen, delivered, job, forgotten>>
        /\ phase[r] = "queued"
        /\ \A q \in Requests \ {r} : phase'[q] = phase[q]
        /\ S(r) = s /\ NotesTurn(s)
  BY OtherMoves
<1>2. overtaken \subseteq overtaken'
  BY <1>1 DEF NotesTurn
<1>3. writer # NoRequest => phase'[writer] = phase[writer] /\ job'[writer] = job[writer]
  BY <1>1, TypeParts DEF Turns, StartsClean, DbTypeOK
<1>4. Asked'
  <2> SUFFICES ASSUME NEW q \in Requests, Replies(q)', Busy(q)', S(q) \notin overtaken',
                      <<S(q), job[q].call>> \notin forgotten
               PROVE  Shows(db, S(q), Entry("call", job[q].call))
    BY <1>1 DEF Asked, S, Shows
  <2>1. CASE q = r
    <3>1. Replies(r)
      BY <1>1, <2>1 DEF Replies, Unfinished
    <3>2. <<s, job[r].call>> \in delivered /\ delivered \subseteq Sessions \X Calls
      BY <1>1, <3>1, TypeParts DEF CallsInOrder, OwnersAnswer, RequestTypeOK
    <3>3. job[r].call \in Calls
      BY <3>2
    <3> QED
      BY <1>1, <2>1, <3>2, <3>3, BeginsInformed DEF CallsKept
  <2>2. CASE q # r
    BY <1>1, <1>2, <2>2 DEF CallsKept, Asked, Replies, Unfinished, Busy, S
  <2> QED
    BY <2>1, <2>2
<1> QED
  BY <1>1, <1>2, <1>3, <1>4, OtherKept

\* A crash forgets the calls that were sent and are not committed.
LEMMA CrashKept ==
  ASSUME Control, CallsKept, Crash
  PROVE  CallsKept'
<1>1. /\ UNCHANGED <<db, delivered, overtaken>> /\ writer' = NoRequest
      /\ \A r \in Requests : seen'[r] = NoImage /\ phase'[r] \in {"new", "done", "lost"}
  BY OtherMoves
<1>2. forgotten' = forgotten \cup {d \in delivered : ~Stored(db, d[1], Entry("call", d[2]))}
  BY DEF Crash
<1>3. InUse' \subseteq InUse
  BY <1>1 DEF InUse
<1>4. ImagesFollow'
  BY <1>1, <1>2, <1>3 DEF CallsKept, ImagesFollow, Follows
<1>5. Sent'
  <2> SUFFICES ASSUME NEW s \in Sessions, NEW c \in Calls, <<s, c>> \in delivered,
                      <<s, c>> \notin forgotten'
               PROVE  Shows(db, s, Entry("call", c))
    BY <1>1 DEF Sent, Shows
  <2>1. Stored(db, s, Entry("call", c))
    BY <1>2
  <2>2. DOMAIN db.msgs[s] = 1..Len(db.msgs[s])
    BY TypeParts, LengthsOfMessages, LenProperties DEF DbTypeOK
  <2> QED
    BY <2>1, <2>2 DEF Stored, Shows
<1>6. Asked'
  BY <1>1 DEF Asked, Replies, Unfinished
<1> QED
  BY <1>4, <1>5, <1>6 DEF CallsKept

LEMMA NextKept ==
  ASSUME Control, Turns, Drafts, CallsInOrder, CallsKept, [Next]_vars
  PROVE  CallsKept'
<1>1. ASSUME NEW r \in Requests, Acts(r) PROVE CallsKept'
  BY <1>1, StepFollow, StepSent DEF CallsKept
<1>2. CASE UNCHANGED vars
  <2>1. UNCHANGED <<db, writer, work, seen, delivered, job, phase, overtaken, forgotten>>
    BY <1>2 DEF vars, dbVars, localVars, clientVars, historyVars
  <2>2. Asked'
    BY <2>1 DEF CallsKept, Asked, Replies, Unfinished, Busy, Shows, S
  <2> QED
    BY <2>1, <2>2, OtherKept
<1> QED
  BY <1>1, <1>2, SubmitKept, EnterKept, CrashKept DEF Next, Acts

LEMMA KeptFollow == Control /\ CallsKept => ResultsFollowCalls
<1> SUFFICES ASSUME Control, CallsKept, NEW s \in Sessions \ overtaken,
                    NEW i \in DOMAIN db.msgs[s], db.msgs[s][i].kind = "result",
                    <<s, db.msgs[s][i].ref>> \notin forgotten
             PROVE  \E j \in 1..(i - 1) : /\ db.msgs[s][j].kind \in {"call", "switch"}
                                          /\ db.msgs[s][j].ref = db.msgs[s][i].ref
  BY DEF ResultsFollowCalls
<1>1. db \in Images /\ Follows(db.msgs[s], s)
  BY TypeParts DEF DbTypeOK, CallsKept, ImagesFollow, InUse
<1>2. i \in 1..Len(db.msgs[s]) /\ db.msgs[s][i] \in Entries
  BY <1>1, LengthsOfMessages, LenProperties, ElementOfSeq
<1>3. PICK c \in Calls : db.msgs[s][i] = Entry("result", c)
  BY <1>2 DEF Entries, Entry
<1>4. db.msgs[s][i].ref = c
  BY <1>3 DEF Entry
<1>5. PICK j \in 1..(i - 1), k \in {"call", "switch"} : db.msgs[s][j] = Entry(k, c)
  BY <1>1, <1>2, <1>3, <1>4 DEF Follows
<1> QED
  BY <1>4, <1>5 DEF Entry

\* Every stored result follows the message with its call, whatever crashes, times
\* out or is cancelled and whenever requests arrive, in a session that no turn has
\* overtaken; the calls of which a crash left only the client's copy are excepted.
THEOREM ResultsFollowTheirCalls == Spec => []ResultsFollowCalls
<1>1. Init => InOrder /\ CallsKept
  <2> SUFFICES ASSUME Init PROVE CallsKept
    BY InitAll
  <2>1. /\ InUse = {db} /\ delivered = {} /\ \A s \in Sessions : db.msgs[s] = <<>>
        /\ \A r \in Requests : phase[r] = "new"
    BY DEF Init, InUse
  <2> QED
    BY <2>1, EmptySeq DEF CallsKept, ImagesFollow, Follows, Sent, Asked, Replies, Unfinished
<1>2. InOrder /\ CallsKept /\ [Next]_vars => InOrder' /\ CallsKept'
  BY NextAll, NextKept DEF InOrder
<1>3. InOrder /\ CallsKept => ResultsFollowCalls
  BY KeptFollow DEF InOrder
<1> QED
  BY <1>1, <1>2, <1>3, PTL DEF Spec
=============================================================================
