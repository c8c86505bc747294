----------------------------- MODULE SessionMutex -----------------------------
(***************************************************************************)
(* What agent-runtime's SessionLockManager promises to the message         *)
(* services: requests of one session pass through the protected code one   *)
(* at a time and in the order in which they asked, requests of different   *)
(* sessions do not disturb each other, and a request that gives up leaves  *)
(* no trace.  SessionLock shows how the code provides it.                  *)
(***************************************************************************)
EXTENDS Naturals, Sequences, SequencesExt

CONSTANTS Requests,    \* the requests that may ask for a session lock
          Sessions,    \* the session ids
          NoRequest    \* stands for "nobody"

ASSUME NoRequestAssumption == NoRequest \notin Requests

VARIABLES holder,      \* holder[s]: the request inside the lock of session s
          queue        \* queue[s]: the requests waiting for s, oldest first

mutexVars == <<holder, queue>>

MutexTypeOK ==
  /\ holder \in [Sessions -> Requests \cup {NoRequest}]
  /\ queue \in [Sessions -> Seq(Requests)]

MutexInit ==
  /\ holder = [s \in Sessions |-> NoRequest]
  /\ queue = [s \in Sessions |-> <<>>]

\* r appears nowhere in the lock of any session.
Outside(r) ==
  \A s \in Sessions : holder[s] # r /\ \A i \in DOMAIN queue[s] : queue[s][i] # r

-----------------------------------------------------------------------------
\* r asks for s: it enters at once when nobody holds s or waits for it,
\* otherwise it queues.  A free lock may still make r queue (for the moment in
\* which an abandoned waiter is being removed).
EnterNow_barging(r, s) ==  \* mutant: whoever holds the lock is not looked at
  /\ Outside(r)
  /\ queue[s] = <<>>
  /\ holder' = [holder EXCEPT ![s] = r]
  /\ UNCHANGED queue
EnterNow(r, s) ==
  /\ Outside(r)
  /\ holder[s] = NoRequest
  /\ queue[s] = <<>>
  /\ holder' = [holder EXCEPT ![s] = r]
  /\ UNCHANGED queue

EnterQueue(r, s) ==
  /\ Outside(r)
  /\ queue' = [queue EXCEPT ![s] = Append(@, r)]
  /\ UNCHANGED holder

\* The oldest waiter of a free lock enters.
Grant(s) ==
  /\ holder[s] = NoRequest
  /\ queue[s] # <<>>
  /\ holder' = [holder EXCEPT ![s] = Head(queue[s])]
  /\ queue' = [queue EXCEPT ![s] = Tail(@)]

\* A waiter is cancelled.
Leave(r, s) ==
  /\ \E i \in DOMAIN queue[s] :
        /\ queue[s][i] = r
        /\ queue' = [queue EXCEPT ![s] = RemoveAt(@, i)]
  /\ UNCHANGED holder

Exit(s) ==
  /\ holder[s] # NoRequest
  /\ holder' = [holder EXCEPT ![s] = NoRequest]
  /\ UNCHANGED queue

MutexNext ==
  \E s \in Sessions :
     \/ Grant(s)
     \/ Exit(s)
     \/ \E r \in Requests : EnterNow(r, s) \/ EnterQueue(r, s) \/ Leave(r, s)

MutexSpec == MutexInit /\ [][MutexNext]_mutexVars
=============================================================================
