------------------------------ MODULE SessionLock ------------------------------
(***************************************************************************)
(* agent-runtime/app/infrastructure/concurrency/session_lock.py:           *)
(* SessionLockManager, one asyncio.Lock per session, kept in a dictionary. *)
(*                                                                         *)
(* The code between two awaits runs atomically in the event loop.  The     *)
(* global lock is never held across an await, so it is never contended,    *)
(* and looking the lock up, creating it and trying to take it is one step. *)
(* asyncio.Lock itself (CPython 3.12) is external, modelled from its use:  *)
(* a released lock only wakes its first waiter, which takes the lock when  *)
(* its task runs again; until then the lock reads as not locked.           *)
(***************************************************************************)
EXTENDS Naturals, Sequences, FiniteSets, SequencesExt, SequenceFilter

CONSTANTS Requests,       \* tasks that use the lock manager
          Sessions,       \* session ids
          NoRequest,      \* stands for "nobody" in the abstract lock
          MaxLockObjects  \* bound: asyncio.Lock objects ever created

ASSUME SessionLockAssumption ==
  /\ NoRequest \notin Requests
  /\ Sessions # {}
  /\ MaxLockObjects \in Nat

NoLock == 0
LockIds == 1..MaxLockObjects

VARIABLES
  locks,     \* _locks: locks[s] is the lock object of s, or NoLock
  created,   \* lock objects created so far; object ids grow with insertion
  locked,    \* the lock objects whose _locked flag is set
  waiters,   \* waiters[l]: the _waiters deque of lock object l
  fut,       \* fut[r]: the future request r waits on
  pc,        \* where request r is
  sess,      \* the session r asked for
  mine       \* the lock object r asked for

vars == <<locks, created, locked, waiters, fut, pc, sess, mine>>

\* "doomed": the future was resolved (the waiter woken) and the task then
\* cancelled, so the waiter will give the lock up as soon as it runs.
FutureStates == {"none", "pending", "woken", "cancelled", "doomed"}

TypeOK ==
  /\ locks \in [Sessions -> LockIds \cup {NoLock}]
  /\ created \in 0..MaxLockObjects
  /\ locked \in SUBSET LockIds
  /\ waiters \in [LockIds -> Seq(Requests)]
  /\ fut \in [Requests -> FutureStates]
  /\ pc \in [Requests -> {"idle", "waiting", "holding"}]
  /\ sess \in [Requests -> Sessions]
  /\ mine \in [Requests -> LockIds \cup {NoLock}]

Init ==
  /\ locks = [s \in Sessions |-> NoLock]
  /\ created = 0
  /\ locked = {}
  /\ waiters = [l \in LockIds |-> <<>>]
  /\ fut = [r \in Requests |-> "none"]
  /\ pc = [r \in Requests |-> "idle"]
  /\ sess = [r \in Requests |-> CHOOSE s \in Sessions : TRUE]
  /\ mine = [r \in Requests |-> NoLock]

-----------------------------------------------------------------------------
Holding(r) == pc[r] = "holding"

\* Lock._wake_up_first: the first waiter's future is resolved unless it is
\* already done (resolved or cancelled); no other waiter is looked at.
WakeFirst(q, f) ==
  IF q # <<>> /\ f[Head(q)] = "pending" THEN [f EXCEPT ![Head(q)] = "woken"] ELSE f

AllCancelled(q) == \A i \in DOMAIN q : fut[q[i]] = "cancelled"

\* The lock object of s: the one in the dictionary, or a new one.
LockFor_fresh(s) == created + 1  \* mutant: the dictionary is not looked at
LockFor(s) == IF locks[s] # NoLock THEN locks[s] ELSE created + 1

\* async with lock_manager.lock(s), up to the point where the task holds the
\* lock or suspends: look up or create the lock object under _global_lock, then
\* Lock.acquire, whose fast path needs a free lock and no live waiter.
Enter(r, s) ==
  /\ pc[r] = "idle"
  /\ LET l == LockFor(s)
     IN  /\ l \in LockIds
         /\ locks' = [locks EXCEPT ![s] = l]
         /\ created' = IF l > created THEN l ELSE created
         /\ mine' = [mine EXCEPT ![r] = l]
         /\ sess' = [sess EXCEPT ![r] = s]
         /\ \/ /\ l \notin locked /\ AllCancelled(waiters[l])
               /\ locked' = locked \cup {l}
               /\ pc' = [pc EXCEPT ![r] = "holding"]
               /\ UNCHANGED <<waiters, fut>>
            \/ /\ ~(l \notin locked /\ AllCancelled(waiters[l]))
               /\ waiters' = [waiters EXCEPT ![l] = Append(@, r)]
               /\ fut' = [fut EXCEPT ![r] = "pending"]
               /\ pc' = [pc EXCEPT ![r] = "waiting"]
               /\ UNCHANGED locked

\* The task of a woken waiter runs: it leaves the deque and takes the lock.
Resume_trusting(r) ==  \* mutant: the lock is taken to have been handed over
  /\ pc[r] = "waiting"
  /\ fut[r] = "woken"
  /\ waiters' = [waiters EXCEPT ![mine[r]] = Remove(@, r)]
  /\ fut' = [fut EXCEPT ![r] = "none"]
  /\ pc' = [pc EXCEPT ![r] = "holding"]
  /\ UNCHANGED <<locks, created, locked, sess, mine>>
Resume(r) ==
  /\ pc[r] = "waiting"
  /\ fut[r] = "woken"
  /\ \E i \in DOMAIN waiters[mine[r]] :
        /\ waiters[mine[r]][i] = r
        /\ waiters' = [waiters EXCEPT ![mine[r]] = RemoveAt(@, i)]
  /\ locked' = locked \cup {mine[r]}
  /\ fut' = [fut EXCEPT ![r] = "none"]
  /\ pc' = [pc EXCEPT ![r] = "holding"]
  /\ UNCHANGED <<locks, created, sess, mine>>

\* The client of a waiting request goes away: its task is cancelled.
Cancel(r) ==
  /\ pc[r] = "waiting"
  /\ fut[r] \in {"pending", "woken"}
  /\ fut' = [fut EXCEPT ![r] = IF @ = "pending" THEN "cancelled" ELSE "doomed"]
  /\ UNCHANGED <<locks, created, locked, waiters, pc, sess, mine>>

\* The task of a cancelled waiter runs: it leaves the deque and, when the lock
\* is free, passes the wake-up on to the first waiter left.
Abandon(r) ==
  /\ pc[r] = "waiting"
  /\ fut[r] \in {"cancelled", "doomed"}
  /\ \E i \in DOMAIN waiters[mine[r]] :
        /\ waiters[mine[r]][i] = r
        /\ LET rest == RemoveAt(waiters[mine[r]], i)
               f    == [fut EXCEPT ![r] = "none"]
           IN  /\ waiters' = [waiters EXCEPT ![mine[r]] = rest]
               /\ fut' = IF mine[r] \in locked THEN f ELSE WakeFirst(rest, f)
  /\ pc' = [pc EXCEPT ![r] = "idle"]
  /\ UNCHANGED <<locks, created, locked, sess, mine>>

\* The protected block ends, normally, by an exception or by cancellation.
Release_silent(r) ==  \* mutant: the flag is cleared and nobody is woken
  /\ Holding(r)
  /\ locked' = locked \ {mine[r]}
  /\ pc' = [pc EXCEPT ![r] = "idle"]
  /\ UNCHANGED <<locks, created, waiters, fut, sess, mine>>
Release(r) ==
  /\ pc[r] = "holding"
  /\ locked' = locked \ {mine[r]}
  /\ fut' = WakeFirst(waiters[mine[r]], fut)
  /\ pc' = [pc EXCEPT ![r] = "idle"]
  /\ UNCHANGED <<locks, created, waiters, sess, mine>>

\* cleanup_unused_locks(max): of the lock objects that are not locked, the
\* oldest len(_locks) - max (at most) are dropped from the dictionary.
Cleanup(max) ==
  LET present == {s \in Sessions : locks[s] # NoLock}
      unused  == {s \in present : locks[s] \notin locked}
      surplus == Cardinality(present) - max
      older(s) == {t \in unused : locks[t] < locks[s]}
      removed == {s \in unused : Cardinality(older(s)) < surplus}
  IN  /\ Cardinality(present) > max
      /\ locks' = [s \in Sessions |-> IF s \in removed THEN NoLock ELSE locks[s]]
      /\ UNCHANGED <<created, locked, waiters, fut, pc, sess, mine>>

-----------------------------------------------------------------------------
\* What the services do with the manager; nothing in app/ calls the clean-up.
Next ==
  \E r \in Requests :
     \/ \E s \in Sessions : Enter(r, s)
     \/ Resume(r)
     \/ Cancel(r)
     \/ Abandon(r)
     \/ Release(r)

\* The same, with the clean-up called at arbitrary moments.
MaintainedNext == Next \/ \E max \in 0..Cardinality(Sessions) : Cleanup(max)

Spec == Init /\ [][Next]_vars
MaintainedSpec == Init /\ [][MaintainedNext]_vars

\* The event loop runs every ready task; a request does leave the protected
\* block (each await in it ends or times out).  Nobody has to ask or to cancel.
Fairness ==
  \A r \in Requests : WF_vars(Resume(r)) /\ WF_vars(Abandon(r)) /\ WF_vars(Release(r))
FairSpec == Spec /\ Fairness
-----------------------------------------------------------------------------
(***************************************************************************)
(* Properties                                                              *)
(***************************************************************************)
\* At most one request is inside the protected block of a session: what the
\* class promises ("only one request may execute this code at a time").
MutualExclusion ==
  \A r1, r2 \in Requests :
     Holding(r1) /\ Holding(r2) /\ sess[r1] = sess[r2] => r1 = r2

\* A lock object is never taken twice and its flag is set exactly while some
\* request holds it: no release is lost and none is done twice.
LockedIffHeld ==
  /\ \A r1, r2 \in Requests :
        Holding(r1) /\ Holding(r2) /\ mine[r1] = mine[r2] => r1 = r2
  /\ locked = {mine[r] : r \in {q \in Requests : Holding(q)}}

\* No wake-up is lost: when a lock is free and somebody waits for it, the task
\* at the head of its deque is about to run, whatever was cancelled meanwhile.
NoLostWakeup ==
  \A l \in LockIds :
     l \notin locked /\ waiters[l] # <<>> => fut[Head(waiters[l])] # "pending"

\* A request that asked for a session is eventually inside, or has given up.
EveryWaiterServed ==
  \A r \in Requests : pc[r] = "waiting" ~> pc[r] # "waiting"

\* The lock manager implements the abstract first-come-first-served mutex: a
\* cancelled waiter counts as gone from the moment of its cancellation.
LiveWaiters == {r \in Requests : fut[r] \in {"pending", "woken"}}
Inside(s) == {r \in Requests : Holding(r) /\ sess[r] = s}
Holder ==
  [s \in Sessions |-> IF Inside(s) = {} THEN NoRequest ELSE CHOOSE r \in Inside(s) : TRUE]
Line ==
  [s \in Sessions |->
     IF locks[s] = NoLock THEN <<>> ELSE Keep(waiters[locks[s]], LiveWaiters)]

Mutex == INSTANCE SessionMutex WITH holder <- Holder, queue <- Line

ImplementsMutex == Mutex!MutexSpec
=============================================================================
