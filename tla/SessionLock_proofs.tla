-------------------------- MODULE SessionLock_proofs --------------------------
(***************************************************************************)
(* Proofs about the session lock manager, for any number of requests,      *)
(* sessions and lock objects.                                              *)
(*                                                                         *)
(* QueueInv speaks of the lock objects only and survives the clean-up of   *)
(* the dictionary, so it gives TypeOK and NoLostWakeup for MaintainedSpec. *)
(* Mutual exclusion per session needs in addition that the dictionary      *)
(* never forgets a lock object in use (OwnLock), which is true of Spec and *)
(* false once the clean-up is called.                                      *)
(*                                                                         *)
(* The refinement of SessionMutex rests on MapInv: that no two sessions    *)
(* share a lock object (Distinct) and that every waiter stands in its      *)
(* deque (InLine).  The waiting line of the mutex is the deque without the *)
(* cancelled waiters, so what is needed of sequences are facts about Keep: *)
(* removing an element that is not kept changes nothing, removing one that *)
(* is kept removes it once, and the first stays the first.                 *)
(***************************************************************************)
EXTENDS SessionLock, Integers, SequenceTheorems, WellFoundedInduction, TLAPS

\* A request that waits or holds does so on some lock object, and a holder's
\* object is marked locked.
OnLock == \A r \in Requests : pc[r] # "idle" => mine[r] \in LockIds
HeldLocked == \A r \in Requests : Holding(r) => mine[r] \in locked

\* No lock object has two holders.
OneHolder ==
  \A q, r \in Requests : Holding(q) /\ Holding(r) /\ mine[q] = mine[r] => q = r

\* The deque of a lock object lists waiting requests of that object, each once.
Queued ==
  \A l \in LockIds : \A i \in 1..Len(waiters[l]) :
     pc[waiters[l][i]] = "waiting" /\ mine[waiters[l][i]] = l
NoRepeat ==
  \A l \in LockIds : \A i, j \in 1..Len(waiters[l]) :
     waiters[l][i] = waiters[l][j] => i = j

\* Only the first waiter of a free lock is ever on its way to taking it.
WokenFirst ==
  \A r \in Requests : fut[r] = "woken" =>
     /\ pc[r] = "waiting"
     /\ mine[r] \notin locked
     /\ Len(waiters[mine[r]]) > 0
     /\ waiters[mine[r]][1] = r

QueueInv ==
  /\ TypeOK
  /\ OnLock
  /\ HeldLocked
  /\ OneHolder
  /\ Queued
  /\ NoRepeat
  /\ WokenFirst
  /\ NoLostWakeup

\* What a request waits for or holds is the lock object now in the dictionary.
OwnLock == \A r \in Requests : pc[r] # "idle" => mine[r] = locks[sess[r]]

-----------------------------------------------------------------------------
\* Removing the i-th element shifts the later ones down by one.
LEMMA RemoveAtFacts ==
  ASSUME NEW X, NEW q \in Seq(X), NEW i \in 1..Len(q)
  PROVE  /\ RemoveAt(q, i) \in Seq(X)
         /\ Len(RemoveAt(q, i)) = Len(q) - 1
         /\ \A j \in 1..(Len(q) - 1) :
               RemoveAt(q, i)[j] = IF j < i THEN q[j] ELSE q[j + 1]
<1> DEFINE left  == SubSeq(q, 1, i - 1)
           right == SubSeq(q, i + 1, Len(q))
<1>1. Len(q) \in Nat /\ \A k \in 1..Len(q) : q[k] \in X
  BY ElementOfSeq, LenProperties
<1>2. /\ left \in Seq(X)
      /\ Len(left) = i - 1
      /\ \A k \in 1..(i - 1) : left[k] = q[k]
  <2>1. \A k \in 1..(i - 1) : q[k] \in X
    BY <1>1
  <2>2. 1 \in Int /\ i - 1 \in Int
    BY <1>1
  <2> QED
    BY <1>1, <2>1, <2>2, SubSeqProperties
<1>3. /\ right \in Seq(X)
      /\ Len(right) = Len(q) - i
      /\ \A k \in 1..(Len(q) - i) : right[k] = q[i + k]
  <2>1. \A k \in (i + 1)..Len(q) : q[k] \in X
    BY <1>1
  <2>2. i + 1 \in Int /\ Len(q) \in Int
    BY <1>1
  <2> HIDE DEF right
  <2>3. /\ right \in Seq(X)
        /\ Len(right) = IF i + 1 <= Len(q) THEN Len(q) - (i + 1) + 1 ELSE 0
        /\ \A k \in 1..(Len(q) - (i + 1) + 1) : right[k] = q[i + 1 + k - 1]
    BY <2>1, <2>2, SubSeqProperties DEF right
  <2> QED
    BY <1>1, <2>3
<1>4. RemoveAt(q, i) = left \o right
  BY DEF RemoveAt
<1> HIDE DEF left, right
<1>5. /\ left \o right \in Seq(X)
      /\ Len(left \o right) = Len(left) + Len(right)
      /\ \A k \in 1..(Len(left) + Len(right)) :
            (left \o right)[k] = IF k <= Len(left) THEN left[k] ELSE right[k - Len(left)]
  BY <1>2, <1>3, ConcatProperties
<1>6. RemoveAt(q, i) \in Seq(X) /\ Len(RemoveAt(q, i)) = Len(q) - 1
  BY <1>1, <1>2, <1>3, <1>4, <1>5
<1>7. ASSUME NEW j \in 1..(Len(q) - 1)
      PROVE  RemoveAt(q, i)[j] = IF j < i THEN q[j] ELSE q[j + 1]
  <2>1. RemoveAt(q, i)[j] = IF j <= i - 1 THEN left[j] ELSE right[j - (i - 1)]
    BY <1>1, <1>2, <1>3, <1>4, <1>5
  <2>2. CASE j < i
    BY <1>1, <1>2, <2>1, <2>2
  <2>3. CASE ~(j < i)
    BY <1>1, <1>3, <2>1, <2>3
  <2> QED
    BY <2>2, <2>3
<1> QED
  BY <1>6, <1>7

-----------------------------------------------------------------------------
(***************************************************************************)
(* Induction, for sets: what a set has for 0 and passes on it has for all. *)
(***************************************************************************)
LEMMA NatSet ==
  ASSUME NEW T, 0 \in T, \A n \in Nat : n \in T => n + 1 \in T
  PROVE  \A n \in Nat : n \in T
<1> DEFINE Bad == Nat \ T
<1> SUFFICES ASSUME Bad # {} PROVE FALSE
  OBVIOUS
<1>1. PICK m \in Bad : \A n \in Bad : ~(<<n, m>> \in OpToRel(<, Nat))
  <2>1. Bad \subseteq Nat
    OBVIOUS
  <2> HIDE DEF Bad
  <2> QED
    BY <2>1, NatLessThanWellFounded, WFMin
<1>2. m \in Nat /\ m # 0 /\ m - 1 \in Nat
  OBVIOUS
<1>3. m - 1 \notin Bad
  <2>1. <<m - 1, m>> \in OpToRel(<, Nat)
    BY <1>2 DEF OpToRel
  <2> QED
    BY <1>1, <2>1
<1>4. m - 1 \in T
  BY <1>2, <1>3
<1>5. (m - 1) + 1 \in T
  BY <1>2, <1>4
<1> QED
  BY <1>2, <1>5

LEMMA SeqSet ==
  ASSUME NEW X, NEW T, <<>> \in T,
         \A q \in Seq(X) : \A x \in X : q \in T => Append(q, x) \in T
  PROVE  \A q \in Seq(X) : q \in T
<1> DEFINE Done == {n \in Nat : \A q \in Seq(X) : Len(q) = n => q \in T}
<1>1. 0 \in Done
  BY EmptySeq
<1>2. ASSUME NEW n \in Nat, n \in Done PROVE n + 1 \in Done
  <2> SUFFICES ASSUME NEW q \in Seq(X), Len(q) = n + 1 PROVE q \in T
    OBVIOUS
  <2> DEFINE p == SubSeq(q, 1, n)
  <2>1. \A i \in 1..Len(q) : q[i] \in X
    BY ElementOfSeq
  <2>2. p \in Seq(X) /\ Len(p) = n /\ \A i \in 1..n : p[i] = q[i]
    <3>1. \A i \in 1..n : q[i] \in X
      BY <2>1
    <3>2. /\ p \in Seq(X) /\ Len(p) = IF 1 <= n THEN n - 1 + 1 ELSE 0
          /\ \A i \in 1..(n - 1 + 1) : p[i] = q[1 + i - 1]
      BY <3>1, SubSeqProperties
    <3> HIDE DEF p
    <3> QED
      BY <3>2
  <2> HIDE DEF p
  <2>3. q[n + 1] \in X
    BY <2>1
  <2>4. Append(p, q[n + 1]) = q
    <3>1. /\ Append(p, q[n + 1]) \in Seq(X) /\ Len(Append(p, q[n + 1])) = n + 1
          /\ \A i \in 1..n : Append(p, q[n + 1])[i] = p[i]
          /\ Append(p, q[n + 1])[n + 1] = q[n + 1]
      BY <2>2, <2>3, AppendProperties
    <3>2. \A i \in 1..(n + 1) : i \in 1..n \/ i = n + 1
      OBVIOUS
    <3>3. \A i \in 1..(n + 1) : Append(p, q[n + 1])[i] = q[i]
      BY <2>2, <3>1, <3>2
    <3> QED
      BY <3>1, <3>3, SeqEqual
  <2>5. p \in T
    BY <1>2, <2>2
  <2> QED
    BY <2>2, <2>3, <2>4, <2>5
<1> HIDE DEF Done
<1>3. \A n \in Nat : n \in Done
  BY <1>1, <1>2, NatSet
<1> QED
  BY <1>3, LenProperties DEF Done

-----------------------------------------------------------------------------
(***************************************************************************)
(* Keep                                                                    *)
(***************************************************************************)
\* One step of the recursion, and what its function is.
KeepStep(q, X, f, i) ==
  IF i = 0 THEN <<>>
  ELSE IF q[i] \in X THEN Append(f[i - 1], q[i])
  ELSE f[i - 1]
KeptFn(q, X) == CHOOSE f : f = [i \in 0..Len(q) |-> KeepStep(q, X, f, i)]

LEMMA KeepIsKept == \A q, X : Keep(q, X) = KeptFn(q, X)[Len(q)]
BY DEF Keep, KeptFn, KeepStep

LEMMA KeptFnExists ==
  ASSUME NEW Y, NEW q \in Seq(Y), NEW X
  PROVE  KeptFn(q, X) = [i \in 0..Len(q) |-> KeepStep(q, X, KeptFn(q, X), i)]
<1> DEFINE Done == {n \in Nat : \E f : f = [i \in 0..n |-> KeepStep(q, X, f, i)]}
<1>1. 0 \in Done
  <2> DEFINE f == [i \in 0..0 |-> <<>>]
  <2>1. f = [i \in 0..0 |-> KeepStep(q, X, f, i)]
    BY DEF KeepStep
  <2> QED
    BY <2>1
<1>2. ASSUME NEW n \in Nat, n \in Done PROVE n + 1 \in Done
  <2>1. PICK f : f = [i \in 0..n |-> KeepStep(q, X, f, i)]
    BY <1>2
  <2> DEFINE g == [i \in 0..(n + 1) |-> IF i = n + 1 THEN KeepStep(q, X, f, n + 1) ELSE f[i]]
  <2>2. \A i \in 0..n : g[i] = f[i] /\ f[i] = KeepStep(q, X, f, i)
    <3>1. \A i \in 0..n : g[i] = f[i]
      OBVIOUS
    <3> HIDE DEF g
    <3> QED
      BY <2>1, <3>1
  <2>3. \A i \in 0..(n + 1) : KeepStep(q, X, g, i) = KeepStep(q, X, f, i)
    <3>1. \A i \in 0..(n + 1) : i = 0 \/ i - 1 \in 0..n
      OBVIOUS
    <3> HIDE DEF g
    <3> QED
      BY <2>2, <3>1 DEF KeepStep
  <2>4. \A i \in 0..(n + 1) : g[i] = KeepStep(q, X, f, i)
    <3>1. g[n + 1] = KeepStep(q, X, f, n + 1)
      OBVIOUS
    <3>2. \A i \in 0..(n + 1) : i \in 0..n \/ i = n + 1
      OBVIOUS
    <3> HIDE DEF g
    <3> QED
      BY <2>2, <3>1, <3>2
  <2>5. g = [i \in 0..(n + 1) |-> KeepStep(q, X, g, i)]
    <3>1. g = [i \in 0..(n + 1) |-> g[i]]
      OBVIOUS
    <3> HIDE DEF g
    <3> QED
      BY <2>3, <2>4, <3>1
  <2> HIDE DEF g
  <2> QED
    BY <2>5
<1> HIDE DEF Done
<1>3. Len(q) \in Done
  BY <1>1, <1>2, NatSet, LenProperties
<1> QED
  BY <1>3 DEF Done, KeptFn

LEMMA KeepEmpty == \A X : Keep(<<>>, X) = <<>>
<1>1. ASSUME NEW X, NEW q \in Seq({}), Len(q) = 0
      PROVE  Keep(q, X) = <<>>
  <2> DEFINE f == KeptFn(q, X)
  <2>1. f = [i \in 0..Len(q) |-> KeepStep(q, X, f, i)]
    BY KeptFnExists
  <2>2. Keep(q, X) = f[Len(q)]
    BY KeepIsKept
  <2> HIDE DEF f
  <2>3. f[0] = KeepStep(q, X, f, 0)
    BY <1>1, <2>1
  <2> QED
    BY <1>1, <2>2, <2>3 DEF KeepStep
<1>2. <<>> \in Seq({}) /\ Len(<<>>) = 0
  BY EmptySeq
<1> QED
  BY <1>1, <1>2

LEMMA KeepAppend ==
  ASSUME NEW Y, NEW q \in Seq(Y), NEW y \in Y, NEW X
  PROVE  Keep(Append(q, y), X) = IF y \in X THEN Append(Keep(q, X), y) ELSE Keep(q, X)
<1> DEFINE p == Append(q, y)
           f == KeptFn(q, X)
           g == KeptFn(p, X)
           n == Len(q)
           Same == {i \in Nat : i <= n => f[i] = g[i]}
<1>1. /\ p \in Seq(Y) /\ Len(p) = n + 1 /\ n \in Nat
      /\ \A i \in 1..n : p[i] = q[i]
      /\ p[n + 1] = y
  BY AppendProperties, LenProperties
<1>2. f = [i \in 0..n |-> KeepStep(q, X, f, i)]
  BY KeptFnExists
<1>3. g = [i \in 0..(n + 1) |-> KeepStep(p, X, g, i)]
  BY <1>1, KeptFnExists
<1>4. Keep(q, X) = f[n] /\ Keep(p, X) = g[n + 1]
  BY <1>1, KeepIsKept
<1> HIDE DEF f, g, p, n
<1>5. \A i \in 0..n : f[i] = KeepStep(q, X, f, i) /\ g[i] = KeepStep(p, X, g, i)
  <2>1. \A i \in 0..n : i \in 0..(n + 1)
    BY <1>1
  <2> QED
    BY <1>2, <1>3, <2>1
<1>6. 0 \in Same
  BY <1>1, <1>5 DEF KeepStep
<1>7. ASSUME NEW i \in Nat, i \in Same PROVE i + 1 \in Same
  <2> SUFFICES ASSUME i + 1 <= n PROVE f[i + 1] = g[i + 1]
    OBVIOUS
  <2>1. i + 1 \in 0..n /\ i + 1 \in 1..n /\ i + 1 # 0 /\ (i + 1) - 1 = i /\ i <= n
    BY <1>1
  <2>2. f[i] = g[i]
    BY <1>7, <2>1
  <2>3. p[i + 1] = q[i + 1]
    BY <1>1, <2>1
  <2> QED
    BY <1>5, <2>1, <2>2, <2>3 DEF KeepStep
<1> HIDE DEF Same
<1>8. n \in Same
  BY <1>1, <1>6, <1>7, NatSet
<1>9. f[n] = g[n]
  BY <1>1, <1>8 DEF Same
<1>10. g[n + 1] = KeepStep(p, X, g, n + 1)
  <2>1. n + 1 \in 0..(n + 1)
    BY <1>1
  <2> QED
    BY <1>3, <2>1
<1>11. n + 1 # 0 /\ (n + 1) - 1 = n
  BY <1>1
<1>12. g[n + 1] = IF y \in X THEN Append(f[n], y) ELSE f[n]
  BY <1>1, <1>9, <1>10, <1>11 DEF KeepStep
<1> QED
  BY <1>4, <1>12 DEF p

\* The elements kept are those of q that X has.
LEMMA KeepType ==
  ASSUME NEW Y, NEW X, NEW q \in Seq(Y)
  PROVE  Keep(q, X) \in Seq(Y \cap X) /\ Len(Keep(q, X)) <= Len(q)
<1> DEFINE T == {p \in Seq(Y) : Keep(p, X) \in Seq(Y \cap X) /\ Len(Keep(p, X)) <= Len(p)}
<1>1. <<>> \in T
  <2>1. <<>> \in Seq(Y) /\ <<>> \in Seq(Y \cap X) /\ Len(<<>>) = 0
    BY EmptySeq
  <2>2. Keep(<<>>, X) = <<>>
    BY KeepEmpty
  <2>3. Keep(<<>>, X) \in Seq(Y \cap X) /\ Len(Keep(<<>>, X)) = 0
    BY <2>1, <2>2
  <2> QED
    BY <2>1, <2>3
<1>2. ASSUME NEW p \in Seq(Y), NEW y \in Y, p \in T PROVE Append(p, y) \in T
  <2>1. /\ Append(p, y) \in Seq(Y) /\ Len(Append(p, y)) = Len(p) + 1
        /\ Len(p) \in Nat /\ Len(Keep(p, X)) \in Nat
    BY <1>2, AppendProperties, LenProperties
  <2>2. CASE y \in X
    <3>1. Keep(Append(p, y), X) = Append(Keep(p, X), y)
      BY <2>2, KeepAppend
    <3>2. /\ Append(Keep(p, X), y) \in Seq(Y \cap X)
          /\ Len(Append(Keep(p, X), y)) = Len(Keep(p, X)) + 1
      BY <1>2, <2>2, AppendProperties
    <3> QED
      BY <1>2, <2>1, <3>1, <3>2
  <2>3. CASE y \notin X
    <3>1. Keep(Append(p, y), X) = Keep(p, X)
      BY <2>3, KeepAppend
    <3> QED
      BY <1>2, <2>1, <3>1
  <2> QED
    BY <2>2, <2>3
<1> HIDE DEF T
<1>3. q \in T
  BY <1>1, <1>2, SeqSet
<1> QED
  BY <1>3 DEF T

\* Only the elements of q count.
LEMMA KeepSame ==
  ASSUME NEW Y, NEW q \in Seq(Y), NEW X, NEW Z,
         \A i \in 1..Len(q) : q[i] \in X <=> q[i] \in Z
  PROVE  Keep(q, X) = Keep(q, Z)
<1> DEFINE T == {p \in Seq(Y) : (\A i \in 1..Len(p) : p[i] \in X <=> p[i] \in Z)
                                   => Keep(p, X) = Keep(p, Z)}
<1>1. <<>> \in T
  BY KeepEmpty, EmptySeq
<1>2. ASSUME NEW p \in Seq(Y), NEW y \in Y, p \in T PROVE Append(p, y) \in T
  <2> SUFFICES ASSUME \A i \in 1..Len(Append(p, y)) : Append(p, y)[i] \in X <=> Append(p, y)[i] \in Z
               PROVE  Keep(Append(p, y), X) = Keep(Append(p, y), Z)
    BY AppendProperties
  <2>1. /\ Len(Append(p, y)) = Len(p) + 1 /\ Len(p) \in Nat
        /\ \A i \in 1..Len(p) : Append(p, y)[i] = p[i]
        /\ Append(p, y)[Len(p) + 1] = y
    BY AppendProperties, LenProperties
  <2>2. \A i \in 1..Len(p) : p[i] \in X <=> p[i] \in Z
    BY <2>1
  <2>3. y \in X <=> y \in Z
    BY <2>1
  <2>4. Keep(Append(p, y), X) = IF y \in X THEN Append(Keep(p, X), y) ELSE Keep(p, X)
    BY KeepAppend
  <2>5. Keep(Append(p, y), Z) = IF y \in Z THEN Append(Keep(p, Z), y) ELSE Keep(p, Z)
    BY KeepAppend
  <2> QED
    BY <1>2, <2>2, <2>3, <2>4, <2>5
<1> HIDE DEF T
<1>3. q \in T
  BY <1>1, <1>2, SeqSet
<1> QED
  BY <1>3 DEF T

\* Nothing is kept when X has none of the elements of q.
LEMMA KeepNone ==
  ASSUME NEW Y, NEW q \in Seq(Y), NEW X, \A i \in 1..Len(q) : q[i] \notin X
  PROVE  Keep(q, X) = <<>>
<1>1. Keep(q, X) = Keep(q, {})
  BY KeepSame
<1>2. Keep(q, {}) \in Seq({})
  BY KeepType
<1>3. ASSUME Keep(q, {}) # <<>> PROVE FALSE
  BY <1>2, <1>3, HeadTailProperties
<1> QED
  BY <1>1, <1>3

LEMMA ConcatAppend ==
  ASSUME NEW Y, NEW p \in Seq(Y), NEW q \in Seq(Y), NEW y \in Y
  PROVE  p \o Append(q, y) = Append(p \o q, y)
<1>1. <<y>> \in Seq(Y) /\ p \o q \in Seq(Y)
  BY ConcatProperties
<1>2. Append(q, y) = q \o <<y>> /\ Append(p \o q, y) = (p \o q) \o <<y>>
  BY <1>1, AppendIsConcat
<1> QED
  BY <1>1, <1>2, ConcatAssociative

LEMMA KeepConcat ==
  ASSUME NEW Y, NEW p \in Seq(Y), NEW q \in Seq(Y), NEW X
  PROVE  Keep(p \o q, X) = Keep(p, X) \o Keep(q, X)
<1> DEFINE T == {s \in Seq(Y) : Keep(p \o s, X) = Keep(p, X) \o Keep(s, X)}
<1>1. \A s \in Seq(Y) : Keep(s, X) \in Seq(Y \cap X)
  BY KeepType
<1>2. <<>> \in T
  BY <1>1, KeepEmpty, EmptySeq, ConcatEmptySeq
<1>3. ASSUME NEW s \in Seq(Y), NEW y \in Y, s \in T PROVE Append(s, y) \in T
  <2>1. p \o s \in Seq(Y) /\ Append(s, y) \in Seq(Y)
    BY ConcatProperties, AppendProperties
  <2>2. p \o Append(s, y) = Append(p \o s, y)
    BY ConcatAppend
  <2>3. Keep(Append(s, y), X) = IF y \in X THEN Append(Keep(s, X), y) ELSE Keep(s, X)
    BY KeepAppend
  <2>4. Keep(Append(p \o s, y), X) =
          IF y \in X THEN Append(Keep(p \o s, X), y) ELSE Keep(p \o s, X)
    BY <2>1, KeepAppend
  <2>5. CASE y \in X
    <3>1. Keep(p, X) \o Append(Keep(s, X), y) = Append(Keep(p, X) \o Keep(s, X), y)
      BY <1>1, <2>5, ConcatAppend
    <3> QED
      BY <1>3, <2>1, <2>2, <2>3, <2>4, <2>5, <3>1
  <2>6. CASE y \notin X
    BY <1>3, <2>1, <2>2, <2>3, <2>4, <2>6
  <2> QED
    BY <2>5, <2>6
<1> HIDE DEF T
<1>4. q \in T
  BY <1>2, <1>3, SeqSet
<1> QED
  BY <1>4 DEF T

\* A sequence, taken apart at its i-th element.
Cat(a, b) == a \o b
Cat3(a, o, b) == (a \o o) \o b
SplitsAt(q, i, a, o, b) ==
  /\ o = <<q[i]>>
  /\ q = Cat3(a, o, b)
  /\ RemoveAt(q, i) = Cat(a, b)
  /\ i = 1 => a = <<>>

LEMMA SplitAt ==
  ASSUME NEW Y, NEW q \in Seq(Y), NEW i \in 1..Len(q)
  PROVE  \E a, o, b \in Seq(Y) : SplitsAt(q, i, a, o, b)
<1> DEFINE a == SubSeq(q, 1, i - 1)
           b == SubSeq(q, i + 1, Len(q))
<1>1. Len(q) \in Nat /\ i \in 1..(Len(q) + 1) /\ i \in Nat /\ \A k \in 1..Len(q) : q[k] \in Y
  BY LenProperties, ElementOfSeq
<1>2. a \in Seq(Y) /\ b \in Seq(Y)
  <2>1. \A k \in 1..(i - 1) : q[k] \in Y
    BY <1>1
  <2>2. \A k \in (i + 1)..Len(q) : q[k] \in Y
    BY <1>1
  <2> QED
    BY <1>1, <2>1, <2>2, SubSeqProperties
<1>3. SubSeq(q, 1, i) = a \o <<q[i]>>
  <2>1. 1 \in 1..Len(q) /\ i \in 1..Len(q)
    BY <1>1
  <2> QED
    BY <2>1, SubSeqRecursiveSecond
<1>4. SubSeq(q, 1, i) \o b = SubSeq(q, 1, Len(q))
  <2>1. 1 \in 1..(Len(q) + 1) /\ i \in (1 - 1)..Len(q) /\ Len(q) \in i..Len(q)
    BY <1>1
  <2> HIDE DEF b
  <2> QED
    BY <2>1, ConcatAdjacentSubSeq DEF b
<1>5. q = (a \o <<q[i]>>) \o b
  BY <1>3, <1>4, SubSeqFull
<1>6. RemoveAt(q, i) = a \o b
  BY DEF RemoveAt
<1>7. i = 1 => a = <<>>
  <2>1. 0 \in Int /\ 1 \in Int /\ 0 < 1
    OBVIOUS
  <2>2. SubSeq(q, 1, 0) = <<>>
    BY <2>1, SubSeqEmpty
  <2> QED
    BY <2>2
<1> HIDE DEF a, b
<1> DEFINE o == <<q[i]>>
<1>8. o \in Seq(Y)
  BY <1>1
<1>9. o = <<q[i]>> /\ q = (a \o o) \o b
  BY <1>5
<1> HIDE DEF o
<1>10. SplitsAt(q, i, a, o, b)
  BY <1>6, <1>7, <1>9 DEF SplitsAt, Cat, Cat3
<1> QED
  BY <1>2, <1>8, <1>10

LEMMA KeepOne ==
  ASSUME NEW Y, NEW y \in Y, NEW X
  PROVE  Keep(<<y>>, X) = IF y \in X THEN <<y>> ELSE <<>>
<1>1. <<>> \in Seq(Y) /\ Append(<<>>, y) = <<y>>
  BY EmptySeq
<1> DEFINE e == <<>>
<1> HIDE DEF e
<1>2. e \in Seq(Y) /\ Append(e, y) = <<y>> /\ Keep(e, X) = e
  BY <1>1, KeepEmpty DEF e
<1>3. Keep(Append(e, y), X) = IF y \in X THEN Append(Keep(e, X), y) ELSE Keep(e, X)
  BY <1>2, KeepAppend
<1> QED
  BY <1>2, <1>3 DEF e

LEMMA KeepConcat2 ==
  ASSUME NEW Y, NEW p \in Seq(Y), NEW q \in Seq(Y), NEW X
  PROVE  Keep(Cat(p, q), X) = Cat(Keep(p, X), Keep(q, X))
BY KeepConcat DEF Cat

LEMMA KeepConcat3 ==
  ASSUME NEW Y, NEW p \in Seq(Y), NEW q \in Seq(Y), NEW s \in Seq(Y), NEW X
  PROVE  Keep(Cat3(p, q, s), X) = Cat3(Keep(p, X), Keep(q, X), Keep(s, X))
<1> DEFINE pq == p \o q
<1>1. pq \in Seq(Y)
  BY ConcatProperties
<1>2. Keep(pq, X) = Keep(p, X) \o Keep(q, X)
  BY KeepConcat
<1> HIDE DEF pq
<1>3. Keep(pq \o s, X) = Keep(pq, X) \o Keep(s, X)
  BY <1>1, KeepConcat
<1> QED
  BY <1>2, <1>3 DEF pq, Cat3

\* What removing an element does to what is kept: nothing...
LEMMA KeepRemoved ==
  ASSUME NEW Y, NEW q \in Seq(Y), NEW X, NEW i \in 1..Len(q), q[i] \notin X
  PROVE  Keep(RemoveAt(q, i), X) = Keep(q, X)
<1>0. PICK a \in Seq(Y), o \in Seq(Y), b \in Seq(Y) : SplitsAt(q, i, a, o, b)
  BY SplitAt
<1>1. /\ o = <<q[i]>>
      /\ q = Cat3(a, o, b)
      /\ RemoveAt(q, i) = Cat(a, b)
      /\ i = 1 => a = <<>>
  BY <1>0 DEF SplitsAt
<1>2. Keep(o, X) = <<>>
  BY <1>1, ElementOfSeq, KeepOne
<1>3. Keep(a, X) \in Seq(Y \cap X)
  BY KeepType
<1>4. Keep(Cat3(a, o, b), X) = Cat3(Keep(a, X), Keep(o, X), Keep(b, X))
  BY KeepConcat3
<1>5. Keep(a, X) \o <<>> = Keep(a, X)
  BY <1>3, ConcatEmptySeq
<1>6. Keep(Cat(a, b), X) = Cat(Keep(a, X), Keep(b, X))
  BY KeepConcat2
<1> QED
  BY <1>1, <1>2, <1>4, <1>5, <1>6 DEF Cat, Cat3

\* ...or it removes the same element, the first one if it was the first.
LEMMA KeepTaken ==
  ASSUME NEW Y, NEW q \in Seq(Y), NEW X, NEW i \in 1..Len(q), q[i] \in X
  PROVE  \E n \in 1..Len(Keep(q, X)) :
            /\ Keep(q, X)[n] = q[i]
            /\ Keep(RemoveAt(q, i), X) = RemoveAt(Keep(q, X), n)
            /\ i = 1 => n = 1
<1>0. PICK a \in Seq(Y), o \in Seq(Y), b \in Seq(Y) : SplitsAt(q, i, a, o, b)
  BY SplitAt
<1>1. /\ o = <<q[i]>>
      /\ q = Cat3(a, o, b)
      /\ RemoveAt(q, i) = Cat(a, b)
      /\ i = 1 => a = <<>>
  BY <1>0 DEF SplitsAt
<1> DEFINE y == q[i]
           A == Keep(a, X)
           B == Keep(b, X)
           n == Len(A) + 1
<1>2. y \in Y /\ y \in Y \cap X
  BY ElementOfSeq
<1>4. A \in Seq(Y \cap X) /\ B \in Seq(Y \cap X) /\ Keep(o, X) = <<y>>
  BY <1>1, <1>2, KeepType, KeepOne
<1>5. Keep(Cat3(a, o, b), X) = Cat3(A, Keep(o, X), B)
  BY KeepConcat3
<1>6. Keep(q, X) = (A \o <<y>>) \o B
  BY <1>1, <1>4, <1>5 DEF Cat3
<1>7. Keep(RemoveAt(q, i), X) = A \o B
  <2>1. Keep(Cat(a, b), X) = Cat(A, B)
    BY KeepConcat2
  <2> QED
    BY <1>1, <2>1 DEF Cat
<1>8. i = 1 => n = 1
  BY <1>1, KeepEmpty, EmptySeq
<1> HIDE DEF A, B, y
<1>9. /\ Len(A) \in Nat /\ Len(B) \in Nat /\ <<y>> \in Seq(Y \cap X) /\ Len(<<y>>) = 1
      /\ A \o <<y>> \in Seq(Y \cap X) /\ Len(A \o <<y>>) = n
      /\ \A k \in 1..n : (A \o <<y>>)[k] = IF k <= Len(A) THEN A[k] ELSE <<y>>[k - Len(A)]
  <2>1. <<y>> \in Seq(Y \cap X) /\ Len(<<y>>) = 1
    BY <1>2
  <2>2. Len(A) \in Nat /\ Len(B) \in Nat
    BY <1>4, LenProperties
  <2> QED
    BY <1>4, <2>1, <2>2, ConcatProperties
<1>10. /\ Keep(q, X) \in Seq(Y \cap X) /\ Len(Keep(q, X)) = n + Len(B)
       /\ \A k \in 1..(n + Len(B)) :
             Keep(q, X)[k] = IF k <= n THEN (A \o <<y>>)[k] ELSE B[k - n]
  BY <1>4, <1>6, <1>9, ConcatProperties
<1>11. n \in 1..Len(Keep(q, X)) /\ Keep(q, X)[n] = y
  BY <1>9, <1>10
<1>12. RemoveAt(Keep(q, X), n) = A \o B
  <2>1. /\ RemoveAt(Keep(q, X), n) \in Seq(Y \cap X)
        /\ Len(RemoveAt(Keep(q, X), n)) = Len(Keep(q, X)) - 1
        /\ \A k \in 1..(Len(Keep(q, X)) - 1) :
              RemoveAt(Keep(q, X), n)[k] =
                IF k < n THEN Keep(q, X)[k] ELSE Keep(q, X)[k + 1]
    BY <1>10, <1>11, RemoveAtFacts
  <2>2. /\ A \o B \in Seq(Y \cap X) /\ Len(A \o B) = Len(A) + Len(B)
        /\ \A k \in 1..(Len(A) + Len(B)) :
              (A \o B)[k] = IF k <= Len(A) THEN A[k] ELSE B[k - Len(A)]
    BY <1>4, ConcatProperties
  <2>3. Len(RemoveAt(Keep(q, X), n)) = Len(A \o B)
    BY <1>9, <1>10, <2>1, <2>2
  <2>4. ASSUME NEW k \in 1..(Len(A) + Len(B))
        PROVE  RemoveAt(Keep(q, X), n)[k] = (A \o B)[k]
    <3>1. CASE k < n
      <4>1. k \in 1..n /\ k <= Len(A) /\ k \in 1..(n + Len(B))
        BY <1>9, <3>1
      <4>2. Keep(q, X)[k] = A[k]
        BY <1>9, <1>10, <4>1
      <4>3. RemoveAt(Keep(q, X), n)[k] = Keep(q, X)[k]
        <5>1. k \in 1..(Len(Keep(q, X)) - 1)
          BY <1>9, <1>10
        <5> QED
          BY <2>1, <3>1, <5>1
      <4> QED
        BY <2>2, <4>1, <4>2, <4>3
    <3>2. CASE ~(k < n)
      <4>1. k + 1 \in 1..(n + Len(B)) /\ ~(k + 1 <= n) /\ (k + 1) - n = k - Len(A) /\ ~(k <= Len(A))
        <5>1. Len(A) \in Nat /\ Len(B) \in Nat
          BY <1>9
        <5> QED
          BY <3>2, <5>1
      <4>2. RemoveAt(Keep(q, X), n)[k] = Keep(q, X)[k + 1]
        <5>1. k \in 1..(Len(Keep(q, X)) - 1)
          BY <1>9, <1>10
        <5> QED
          BY <2>1, <3>2, <5>1
      <4>3. Keep(q, X)[k + 1] = B[k - Len(A)]
        BY <1>10, <4>1
      <4> QED
        BY <2>2, <4>1, <4>2, <4>3
    <3> QED
      BY <3>1, <3>2
  <2> QED
    BY <2>1, <2>2, <2>3, <2>4, SeqEqual
<1> QED
  BY <1>7, <1>8, <1>11, <1>12 DEF y

-----------------------------------------------------------------------------
\* The initial state satisfies the invariant: nobody waits or holds.
LEMMA InitQueueInv == Init => QueueInv /\ OwnLock
<1> SUFFICES ASSUME Init PROVE QueueInv /\ OwnLock
  OBVIOUS
<1>1. TypeOK
  <2>1. (CHOOSE s \in Sessions : TRUE) \in Sessions
    BY SessionLockAssumption
  <2> QED
    BY <2>1, SessionLockAssumption, EmptySeq
    DEF Init, TypeOK, LockIds, NoLock, FutureStates
<1>2. \A l \in LockIds : Len(waiters[l]) = 0 /\ waiters[l] = <<>>
  BY EmptySeq DEF Init
<1> QED
  BY <1>1, <1>2 DEF Init, QueueInv, OnLock, HeldLocked, OneHolder, Holding, Queued,
     NoRepeat, WokenFirst, NoLostWakeup, OwnLock

\* Waking the head of a deque changes at most the future of its first waiter,
\* from pending to woken.
LEMMA WakeFirstFacts ==
  ASSUME NEW q \in Seq(Requests), NEW f \in [Requests -> FutureStates]
  PROVE  /\ WakeFirst(q, f) \in [Requests -> FutureStates]
         /\ \A r \in Requests :
               WakeFirst(q, f)[r] # f[r] =>
                  /\ Len(q) > 0 /\ q[1] = r
                  /\ f[r] = "pending" /\ WakeFirst(q, f)[r] = "woken"
         /\ Len(q) > 0 => WakeFirst(q, f)[q[1]] # "pending"
<1>1. CASE q = <<>>
  BY <1>1, EmptySeq DEF WakeFirst
<1>2. CASE q # <<>>
  <2>1. Len(q) > 0 /\ Head(q) = q[1] /\ q[1] \in Requests
    BY <1>2, EmptySeq, ElementOfSeq
  <2> QED
    BY <1>2, <2>1 DEF WakeFirst, FutureStates
<1> QED
  BY <1>1, <1>2

\* A request takes the lock or joins the deque.
LEMMA EnterQueueInv ==
  ASSUME QueueInv, NEW r \in Requests, NEW s \in Sessions, Enter(r, s)
  PROVE  QueueInv'
<1> USE DEF QueueInv, Holding
<1>0. TypeOK
  OBVIOUS
<1>1. PICK l \in LockIds :
        /\ l = LockFor(s)
        /\ locks' = [locks EXCEPT ![s] = l]
        /\ created' = (IF l > created THEN l ELSE created)
        /\ mine' = [mine EXCEPT ![r] = l]
        /\ sess' = [sess EXCEPT ![r] = s]
        /\ pc[r] = "idle"
        /\ \/ /\ l \notin locked /\ AllCancelled(waiters[l])
              /\ locked' = locked \cup {l}
              /\ pc' = [pc EXCEPT ![r] = "holding"]
              /\ UNCHANGED <<waiters, fut>>
           \/ /\ ~(l \notin locked /\ AllCancelled(waiters[l]))
              /\ waiters' = [waiters EXCEPT ![l] = Append(@, r)]
              /\ fut' = [fut EXCEPT ![r] = "pending"]
              /\ pc' = [pc EXCEPT ![r] = "waiting"]
              /\ UNCHANGED locked
  BY DEF Enter
<1>2. /\ waiters[l] \in Seq(Requests)
      /\ DOMAIN waiters[l] = 1..Len(waiters[l])
      /\ Len(waiters[l]) \in Nat
  BY <1>0, <1>1, LenProperties DEF TypeOK
<1>3. \A k \in LockIds : waiters[k] \in Seq(Requests) /\ Len(waiters[k]) \in Nat
  BY <1>0, LenProperties DEF TypeOK
<1>4. \A k \in LockIds : \A i \in 1..Len(waiters[k]) : waiters[k][i] # r /\ waiters[k][i] \in Requests
  BY <1>1, <1>3, ElementOfSeq DEF Queued
<1>7. /\ locks' \in [Sessions -> LockIds \cup {NoLock}]
      /\ created' \in 0..MaxLockObjects
      /\ sess' \in [Requests -> Sessions]
      /\ mine' \in [Requests -> LockIds \cup {NoLock}]
  <2>1. created' = created \/ created' = l
    BY <1>1
  <2>2. l \in 0..MaxLockObjects
    BY <1>1, SessionLockAssumption DEF LockIds
  <2> QED
    BY <1>0, <1>1, <2>1, <2>2 DEF TypeOK
<1>5. CASE /\ l \notin locked /\ AllCancelled(waiters[l])
           /\ locked' = locked \cup {l}
           /\ pc' = [pc EXCEPT ![r] = "holding"]
           /\ UNCHANGED <<waiters, fut>>
  <2>1. TypeOK'
    BY <1>1, <1>5, <1>7 DEF TypeOK
  <2>2. OnLock' /\ HeldLocked'
    BY <1>1, <1>5 DEF TypeOK, OnLock, HeldLocked
  <2>3. OneHolder'
    BY <1>1, <1>5 DEF TypeOK, HeldLocked, OneHolder
  <2>4. Queued' /\ NoRepeat'
    BY <1>1, <1>4, <1>5 DEF TypeOK, Queued, NoRepeat
  <2>5. WokenFirst'
    <3> SUFFICES ASSUME NEW q \in Requests, fut[q] = "woken"
                 PROVE  /\ pc'[q] = "waiting"
                        /\ mine'[q] \notin locked'
                        /\ Len(waiters[mine'[q]]) > 0
                        /\ waiters[mine'[q]][1] = q
      BY <1>5 DEF WokenFirst
    <3>1. /\ pc[q] = "waiting" /\ mine[q] \notin locked
          /\ Len(waiters[mine[q]]) > 0 /\ waiters[mine[q]][1] = q
      BY DEF WokenFirst
    <3>2. mine[q] # l
      BY <1>2, <1>5, <3>1 DEF AllCancelled
    <3> QED
      BY <1>1, <1>5, <3>1, <3>2 DEF TypeOK
  <2>6. NoLostWakeup'
    BY <1>5 DEF NoLostWakeup
  <2> QED
    BY <2>1, <2>2, <2>3, <2>4, <2>5, <2>6
<1>6. CASE /\ ~(l \notin locked /\ AllCancelled(waiters[l]))
           /\ waiters' = [waiters EXCEPT ![l] = Append(@, r)]
           /\ fut' = [fut EXCEPT ![r] = "pending"]
           /\ pc' = [pc EXCEPT ![r] = "waiting"]
           /\ UNCHANGED locked
  <2>1. /\ waiters'[l] = Append(waiters[l], r)
        /\ \A k \in LockIds \ {l} : waiters'[k] = waiters[k]
        /\ Len(waiters'[l]) = Len(waiters[l]) + 1
        /\ waiters'[l] \in Seq(Requests)
        /\ \A i \in 1..Len(waiters[l]) : waiters'[l][i] = waiters[l][i]
        /\ waiters'[l][Len(waiters[l]) + 1] = r
    <3>1. /\ waiters'[l] = Append(waiters[l], r)
          /\ \A k \in LockIds \ {l} : waiters'[k] = waiters[k]
      BY <1>0, <1>6 DEF TypeOK
    <3> QED
      BY <1>2, <3>1
  <2>2. TypeOK'
    BY <1>1, <1>6, <1>7, <2>1 DEF TypeOK, FutureStates
  <2>3. OnLock' /\ HeldLocked' /\ OneHolder'
    BY <1>1, <1>6 DEF TypeOK, OnLock, HeldLocked, OneHolder
  <2>4. Queued'
    <3> SUFFICES ASSUME NEW k \in LockIds, NEW i \in 1..Len(waiters'[k])
                 PROVE  pc'[waiters'[k][i]] = "waiting" /\ mine'[waiters'[k][i]] = k
      BY DEF Queued
    <3>1. CASE k = l /\ i = Len(waiters[l]) + 1
      BY <1>1, <1>6, <2>1, <3>1 DEF TypeOK
    <3>2. CASE ~(k = l /\ i = Len(waiters[l]) + 1)
      <4>1. i \in 1..Len(waiters[k]) /\ waiters'[k][i] = waiters[k][i]
        BY <1>2, <2>1, <3>2
      <4> QED
        BY <1>1, <1>4, <1>6, <4>1 DEF TypeOK, Queued
    <3> QED
      BY <3>1, <3>2
  <2>5. NoRepeat'
    <3> SUFFICES ASSUME NEW k \in LockIds, NEW i \in 1..Len(waiters'[k]),
                        NEW j \in 1..Len(waiters'[k]), waiters'[k][i] = waiters'[k][j]
                 PROVE  i = j
      BY DEF NoRepeat
    <3>1. CASE k # l
      BY <2>1, <3>1 DEF NoRepeat
    <3>2. CASE k = l
      <4>1. \A m \in 1..(Len(waiters[l]) + 1) :
               m \in 1..Len(waiters[l]) \/ m = Len(waiters[l]) + 1
        BY <1>2
      <4>2. i \in 1..(Len(waiters[l]) + 1) /\ j \in 1..(Len(waiters[l]) + 1)
        BY <2>1, <3>2
      <4>3. CASE i \in 1..Len(waiters[l]) /\ j \in 1..Len(waiters[l])
        BY <2>1, <3>2, <4>3 DEF NoRepeat
      <4>4. CASE i = Len(waiters[l]) + 1 /\ j \in 1..Len(waiters[l])
        BY <1>4, <2>1, <3>2, <4>4
      <4>5. CASE j = Len(waiters[l]) + 1 /\ i \in 1..Len(waiters[l])
        BY <1>4, <2>1, <3>2, <4>5
      <4> QED
        BY <4>1, <4>2, <4>3, <4>4, <4>5
    <3> QED
      BY <3>1, <3>2
  <2>6. WokenFirst'
    <3> SUFFICES ASSUME NEW q \in Requests, fut'[q] = "woken"
                 PROVE  /\ pc'[q] = "waiting"
                        /\ mine'[q] \notin locked'
                        /\ Len(waiters'[mine'[q]]) > 0
                        /\ waiters'[mine'[q]][1] = q
      BY DEF WokenFirst
    <3>1. q # r /\ fut[q] = "woken"
      BY <1>6 DEF TypeOK
    <3>2. /\ pc[q] = "waiting" /\ mine[q] \notin locked
          /\ Len(waiters[mine[q]]) > 0 /\ waiters[mine[q]][1] = q
          /\ mine[q] \in LockIds
      BY <3>1 DEF WokenFirst, OnLock
    <3>3. Len(waiters'[mine[q]]) > 0 /\ waiters'[mine[q]][1] = q
      BY <1>2, <2>1, <3>2
    <3> QED
      BY <1>1, <1>6, <3>1, <3>2, <3>3 DEF TypeOK
  <2>7. NoLostWakeup'
    <3> SUFFICES ASSUME NEW k \in LockIds, k \notin locked', waiters'[k] # <<>>
                 PROVE  fut'[Head(waiters'[k])] # "pending"
      BY DEF NoLostWakeup
    <3>1. waiters[k] # <<>>
      <4>1. CASE k # l
        BY <2>1, <4>1
      <4>2. CASE k = l
        BY <1>2, <1>6, <4>2 DEF AllCancelled
      <4> QED
        BY <4>1, <4>2
    <3>2. Len(waiters[k]) > 0 /\ Head(waiters[k]) = waiters[k][1]
      BY <1>3, <3>1, EmptySeq
    <3>3. Head(waiters'[k]) = waiters[k][1]
      BY <1>2, <2>1, <3>2
    <3>4. fut[waiters[k][1]] # "pending" /\ waiters[k][1] # r
      BY <1>3, <1>4, <1>6, <3>1, <3>2 DEF NoLostWakeup
    <3> QED
      BY <1>6, <3>3, <3>4 DEF TypeOK
  <2> QED
    BY <2>2, <2>3, <2>4, <2>5, <2>6, <2>7
<1> QED
  BY <1>1, <1>5, <1>6

\* A waiter leaves the deque of l; the rest of the deque keeps its order.
LEMMA DequeLeaveInv ==
  ASSUME QueueInv,
         NEW r \in Requests, pc[r] = "waiting",
         NEW l, l = mine[r],
         NEW i \in 1..Len(waiters[l]), waiters[l][i] = r,
         waiters' = [waiters EXCEPT ![l] = RemoveAt(@, i)],
         UNCHANGED mine,
         \A q \in Requests \ {r} : pc'[q] = pc[q]
  PROVE  /\ l \in LockIds
         /\ waiters' \in [LockIds -> Seq(Requests)]
         /\ Queued' /\ NoRepeat'
         /\ \A k \in LockIds \ {l} : waiters'[k] = waiters[k]
         /\ \A j \in 1..Len(waiters'[l]) : waiters'[l][j] # r
<1> USE DEF QueueInv
<1>1. /\ l \in LockIds
      /\ waiters \in [LockIds -> Seq(Requests)]
      /\ waiters[l] \in Seq(Requests)
      /\ Len(waiters[l]) \in Nat
  BY LenProperties DEF OnLock, TypeOK
<1>2. /\ waiters'[l] \in Seq(Requests)
      /\ Len(waiters'[l]) = Len(waiters[l]) - 1
      /\ \A j \in 1..(Len(waiters[l]) - 1) :
            waiters'[l][j] = IF j < i THEN waiters[l][j] ELSE waiters[l][j + 1]
  <2>1. waiters'[l] = RemoveAt(waiters[l], i)
    BY <1>1
  <2>2. /\ RemoveAt(waiters[l], i) \in Seq(Requests)
        /\ Len(RemoveAt(waiters[l], i)) = Len(waiters[l]) - 1
        /\ \A j \in 1..(Len(waiters[l]) - 1) :
              RemoveAt(waiters[l], i)[j] =
                 IF j < i THEN waiters[l][j] ELSE waiters[l][j + 1]
    BY <1>1, RemoveAtFacts
  <2> QED
    BY <2>1, <2>2
<1>3. \A k \in LockIds \ {l} : waiters'[k] = waiters[k]
  BY <1>1
<1>4. waiters' \in [LockIds -> Seq(Requests)]
  BY <1>1, <1>2
\* Every entry left stands in the old deque at another position than i.
<1>5. \A k \in LockIds : \A j \in 1..Len(waiters'[k]) :
         \E m \in 1..Len(waiters[k]) :
            /\ waiters'[k][j] = waiters[k][m]
            /\ k = l => m = IF j < i THEN j ELSE j + 1
            /\ k # l => m = j
  <2> SUFFICES ASSUME NEW k \in LockIds, NEW j \in 1..Len(waiters'[k])
               PROVE  \E m \in 1..Len(waiters[k]) :
                         /\ waiters'[k][j] = waiters[k][m]
                         /\ k = l => m = IF j < i THEN j ELSE j + 1
                         /\ k # l => m = j
    OBVIOUS
  <2>1. CASE k # l
    BY <1>3, <2>1
  <2>2. CASE k = l
    <3>1. j \in 1..(Len(waiters[l]) - 1)
      BY <1>2, <2>2
    <3>2. CASE j < i
      BY <1>1, <1>2, <2>2, <3>1, <3>2
    <3>3. CASE ~(j < i)
      <4>1. j + 1 \in 1..Len(waiters[l])
        BY <1>1, <3>1
      <4> QED
        BY <1>2, <2>2, <3>1, <3>3, <4>1
    <3> QED
      BY <3>2, <3>3
  <2> QED
    BY <2>1, <2>2
<1>6. \A j \in 1..Len(waiters'[l]) : waiters'[l][j] # r
  <2> SUFFICES ASSUME NEW j \in 1..Len(waiters'[l]), waiters'[l][j] = r
               PROVE  FALSE
    OBVIOUS
  <2>1. PICK m \in 1..Len(waiters[l]) :
           /\ waiters'[l][j] = waiters[l][m]
           /\ l = l => m = IF j < i THEN j ELSE j + 1
           /\ l # l => m = j
    BY <1>1, <1>5
  <2>2. m = i
    BY <1>1, <2>1 DEF NoRepeat
  <2>3. j \in Int /\ i \in Int
    BY <1>1, <1>2
  <2> QED
    BY <2>1, <2>2, <2>3
<1>7. Queued'
  <2> SUFFICES ASSUME NEW k \in LockIds, NEW j \in 1..Len(waiters'[k])
               PROVE  pc'[waiters'[k][j]] = "waiting" /\ mine'[waiters'[k][j]] = k
    BY DEF Queued
  <2>1. PICK m \in 1..Len(waiters[k]) : waiters'[k][j] = waiters[k][m]
    BY <1>5
  <2>2. /\ waiters[k][m] \in Requests
        /\ pc[waiters[k][m]] = "waiting"
        /\ mine[waiters[k][m]] = k
    BY <1>1, <2>1, ElementOfSeq DEF Queued
  <2>3. waiters'[k][j] # r
    BY <1>6, <2>1, <2>2
  <2> QED
    BY <2>1, <2>2, <2>3
<1>8. NoRepeat'
  <2> SUFFICES ASSUME NEW k \in LockIds,
                      NEW j \in 1..Len(waiters'[k]), NEW n \in 1..Len(waiters'[k]),
                      waiters'[k][j] = waiters'[k][n]
               PROVE  j = n
    BY DEF NoRepeat
  <2>1. PICK a \in 1..Len(waiters[k]) :
            /\ waiters'[k][j] = waiters[k][a]
            /\ k = l => a = IF j < i THEN j ELSE j + 1
            /\ k # l => a = j
    BY <1>5
  <2>2. PICK b \in 1..Len(waiters[k]) :
            /\ waiters'[k][n] = waiters[k][b]
            /\ k = l => b = IF n < i THEN n ELSE n + 1
            /\ k # l => b = n
    BY <1>5
  <2>3. a = b
    BY <2>1, <2>2 DEF NoRepeat
  <2>4. j \in Int /\ n \in Int /\ i \in Int
    BY <1>1, <1>2
  <2> QED
    BY <2>1, <2>2, <2>3, <2>4
<1> QED
  BY <1>1, <1>3, <1>4, <1>6, <1>7, <1>8

\* A woken waiter takes the lock: it was first, so nobody else is woken there.
LEMMA ResumeQueueInv ==
  ASSUME QueueInv, NEW r \in Requests, Resume(r)
  PROVE  QueueInv'
<1> USE DEF QueueInv, Holding
<1> DEFINE l == mine[r]
<1>1. /\ pc[r] = "waiting" /\ fut[r] = "woken"
      /\ locked' = locked \cup {l}
      /\ fut' = [fut EXCEPT ![r] = "none"]
      /\ pc' = [pc EXCEPT ![r] = "holding"]
      /\ UNCHANGED <<locks, created, sess, mine>>
  BY DEF Resume
<1>2. l \in LockIds /\ l \notin locked /\ Len(waiters[l]) > 0 /\ waiters[l][1] = r
  BY <1>1 DEF WokenFirst, OnLock
<1>3. PICK i \in 1..Len(waiters[l]) :
         waiters[l][i] = r /\ waiters' = [waiters EXCEPT ![l] = RemoveAt(@, i)]
  BY <1>2, LenProperties DEF Resume, TypeOK
<1>4. \A q \in Requests \ {r} : pc'[q] = pc[q] /\ fut'[q] = fut[q]
  BY <1>1 DEF TypeOK
<1>5. /\ waiters' \in [LockIds -> Seq(Requests)]
      /\ Queued' /\ NoRepeat'
      /\ \A k \in LockIds \ {l} : waiters'[k] = waiters[k]
  <2>1. UNCHANGED mine
    BY <1>1
  <2> HIDE DEF QueueInv, l
  <2>2. l = mine[r]
    BY DEF l
  <2> QED
    BY <1>1, <1>3, <1>4, <2>1, <2>2, DequeLeaveInv
<1>6. TypeOK'
  BY <1>1, <1>2, <1>5 DEF TypeOK, FutureStates
<1>7. OnLock' /\ HeldLocked' /\ OneHolder'
  BY <1>1, <1>2, <1>4 DEF TypeOK, OnLock, HeldLocked, OneHolder
<1>8. WokenFirst'
  <2> SUFFICES ASSUME NEW q \in Requests, fut'[q] = "woken"
               PROVE  /\ pc'[q] = "waiting"
                      /\ mine'[q] \notin locked'
                      /\ Len(waiters'[mine'[q]]) > 0
                      /\ waiters'[mine'[q]][1] = q
    BY DEF WokenFirst
  <2>1. q # r /\ fut[q] = "woken"
    BY <1>1, <1>4 DEF TypeOK
  <2>2. /\ pc[q] = "waiting" /\ mine[q] \notin locked /\ mine[q] \in LockIds
        /\ Len(waiters[mine[q]]) > 0 /\ waiters[mine[q]][1] = q
    BY <2>1 DEF WokenFirst, OnLock
  <2>3. mine[q] # l
    BY <1>2, <2>1, <2>2
  <2> QED
    BY <1>1, <1>4, <1>5, <2>1, <2>2, <2>3
<1>9. NoLostWakeup'
  <2> SUFFICES ASSUME NEW k \in LockIds, k \notin locked', waiters'[k] # <<>>
               PROVE  fut'[Head(waiters'[k])] # "pending"
    BY DEF NoLostWakeup
  <2>1. k # l /\ waiters'[k] = waiters[k] /\ k \notin locked
    BY <1>1, <1>5
  <2>2. Head(waiters[k]) \in Requests /\ fut[Head(waiters[k])] # "pending"
    BY <2>1, HeadTailProperties DEF NoLostWakeup, TypeOK
  <2> QED
    BY <1>1, <1>4, <2>1, <2>2 DEF TypeOK
<1> QED
  BY <1>5, <1>6, <1>7, <1>8, <1>9

\* Cancelling a waiter leaves it in the deque, no longer pending.
LEMMA CancelQueueInv ==
  ASSUME QueueInv, NEW r \in Requests, Cancel(r)
  PROVE  QueueInv'
<1> USE DEF QueueInv, Holding
<1>1. /\ pc[r] = "waiting"
      /\ fut'[r] \in {"cancelled", "doomed"}
      /\ \A q \in Requests \ {r} : fut'[q] = fut[q]
      /\ fut' \in [Requests -> FutureStates]
      /\ UNCHANGED <<locks, created, locked, waiters, pc, sess, mine>>
  BY DEF Cancel, TypeOK, FutureStates
<1>2. TypeOK' /\ OnLock' /\ HeldLocked' /\ OneHolder' /\ Queued' /\ NoRepeat'
  BY <1>1 DEF TypeOK, OnLock, HeldLocked, OneHolder, Queued, NoRepeat
<1>3. WokenFirst'
  BY <1>1 DEF WokenFirst
<1>4. NoLostWakeup'
  BY <1>1, HeadTailProperties DEF NoLostWakeup, TypeOK
<1> QED
  BY <1>2, <1>3, <1>4

\* When the holder or the waiter r of l has gone, waking the head of the deque
\* of a free l keeps the wake-up facts.
LEMMA WakeUpInv ==
  ASSUME TypeOK, OnLock, WokenFirst, NoLostWakeup,
         NEW r \in Requests, NEW l \in LockIds, mine[r] = l,
         NEW f \in [Requests -> FutureStates],
         f[r] # "woken", \A q \in Requests \ {r} : f[q] = fut[q],
         waiters' \in [LockIds -> Seq(Requests)], Queued', OnLock',
         \A k \in LockIds \ {l} : waiters'[k] = waiters[k],
         \A k \in LockIds \ {l} : k \in locked' <=> k \in locked,
         \A j \in 1..Len(waiters'[l]) : waiters'[l][j] # r,
         \A q \in Requests \ {r} : pc'[q] = pc[q],
         UNCHANGED mine,
         l \notin locked', fut' = WakeFirst(waiters'[l], f),
         \A q \in Requests \ {r} : fut[q] = "woken" /\ mine[q] = l =>
            Len(waiters'[l]) > 0 /\ waiters'[l][1] = q
  PROVE  fut' \in [Requests -> FutureStates] /\ WokenFirst' /\ NoLostWakeup'
<1>1. waiters'[l] \in Seq(Requests)
  OBVIOUS
<1>2. /\ fut' \in [Requests -> FutureStates]
      /\ \A q \in Requests :
            fut'[q] # f[q] => Len(waiters'[l]) > 0 /\ waiters'[l][1] = q
      /\ Len(waiters'[l]) > 0 => fut'[waiters'[l][1]] # "pending"
  BY <1>1, WakeFirstFacts
<1>3. fut'[r] # "woken"
  BY <1>2, LenProperties
<1>4. WokenFirst'
  <2> SUFFICES ASSUME NEW q \in Requests, fut'[q] = "woken"
               PROVE  /\ pc'[q] = "waiting"
                      /\ mine'[q] \notin locked'
                      /\ Len(waiters'[mine'[q]]) > 0
                      /\ waiters'[mine'[q]][1] = q
    BY DEF WokenFirst
  <2>1. q # r
    BY <1>3
  <2>2. CASE fut'[q] # f[q]
    <3>1. Len(waiters'[l]) > 0 /\ waiters'[l][1] = q /\ Len(waiters'[l]) \in Nat
      BY <1>1, <1>2, <2>2, LenProperties
    <3>2. pc'[q] = "waiting" /\ mine'[q] = l
      BY <3>1 DEF Queued
    <3> QED
      BY <3>1, <3>2
  <2>3. CASE fut'[q] = f[q]
    <3>1. /\ fut[q] = "woken" /\ pc[q] = "waiting" /\ mine[q] \notin locked
          /\ Len(waiters[mine[q]]) > 0 /\ waiters[mine[q]][1] = q
          /\ mine[q] \in LockIds
      BY <2>1, <2>3 DEF WokenFirst, OnLock
    <3>2. CASE mine[q] = l
      BY <2>1, <3>1, <3>2
    <3>3. CASE mine[q] # l
      BY <2>1, <3>1, <3>3
    <3> QED
      BY <3>2, <3>3
  <2> QED
    BY <2>2, <2>3
<1>5. NoLostWakeup'
  <2> SUFFICES ASSUME NEW k \in LockIds, k \notin locked', waiters'[k] # <<>>
               PROVE  fut'[Head(waiters'[k])] # "pending"
    BY DEF NoLostWakeup
  <2>1. /\ waiters'[k] \in Seq(Requests)
        /\ Len(waiters'[k]) > 0
        /\ Head(waiters'[k]) = waiters'[k][1]
        /\ waiters'[k][1] \in Requests
    BY EmptySeq, ElementOfSeq
  <2>2. CASE k = l
    BY <1>2, <2>1, <2>2
  <2>3. CASE k # l
    <3> DEFINE h == waiters[k][1]
    <3>1. fut[h] # "pending" /\ h = waiters'[k][1] /\ h \in Requests
      BY <2>1, <2>3 DEF NoLostWakeup
    <3>2. mine'[h] = k
      BY <2>1, <3>1 DEF Queued
    <3>3. h # r
      BY <2>3, <3>2
    <3>4. fut'[h] = f[h]
      <4>1. 1 \in 1..Len(waiters'[l]) => mine'[waiters'[l][1]] = l
        BY DEF Queued
      <4> QED
        BY <1>1, <1>2, <2>3, <3>1, <3>2, <4>1, LenProperties
    <3> QED
      BY <2>1, <3>1, <3>3, <3>4
  <2> QED
    BY <2>2, <2>3
<1> QED
  BY <1>2, <1>4, <1>5

\* A cancelled waiter leaves the deque and passes a wake-up on.
LEMMA AbandonQueueInv ==
  ASSUME QueueInv, NEW r \in Requests, Abandon(r)
  PROVE  QueueInv'
<1> USE DEF QueueInv, Holding
<1>1. PICK l \in LockIds : l = mine[r]
  BY DEF Abandon, OnLock
<1> DEFINE f == [fut EXCEPT ![r] = "none"]
<1>2. /\ pc[r] = "waiting"
      /\ pc' = [pc EXCEPT ![r] = "idle"]
      /\ UNCHANGED <<locks, created, locked, sess, mine>>
  BY DEF Abandon
<1>3. PICK i \in 1..Len(waiters[l]) :
         /\ waiters[l][i] = r
         /\ waiters' = [waiters EXCEPT ![l] = RemoveAt(@, i)]
         /\ fut' = IF l \in locked THEN f ELSE WakeFirst(RemoveAt(waiters[l], i), f)
  BY <1>1, LenProperties DEF Abandon, TypeOK
<1>4. /\ \A q \in Requests \ {r} : pc'[q] = pc[q] /\ f[q] = fut[q]
      /\ f \in [Requests -> FutureStates] /\ f[r] = "none"
  BY <1>2 DEF TypeOK, FutureStates
<1>5. /\ waiters' \in [LockIds -> Seq(Requests)]
      /\ Queued' /\ NoRepeat'
      /\ \A k \in LockIds \ {l} : waiters'[k] = waiters[k]
      /\ \A j \in 1..Len(waiters'[l]) : waiters'[l][j] # r
      /\ i # 1 => Len(waiters'[l]) > 0 /\ waiters'[l][1] = waiters[l][1]
  <2>1. UNCHANGED mine /\ pc[r] = "waiting"
    BY <1>2
  <2>2. \A q \in Requests \ {r} : pc'[q] = pc[q]
    BY <1>4
  <2>3. waiters[l][i] = r /\ waiters' = [waiters EXCEPT ![l] = RemoveAt(@, i)]
    BY <1>3
  <2> HIDE DEF QueueInv
  <2>4. /\ waiters' \in [LockIds -> Seq(Requests)]
        /\ Queued' /\ NoRepeat'
        /\ \A k \in LockIds \ {l} : waiters'[k] = waiters[k]
        /\ \A j \in 1..Len(waiters'[l]) : waiters'[l][j] # r
    BY <1>1, <2>1, <2>2, <2>3, DequeLeaveInv
  <2>5. waiters[l] \in Seq(Requests) /\ waiters'[l] = RemoveAt(waiters[l], i)
    BY <2>3 DEF QueueInv, TypeOK
  <2>6. /\ Len(waiters'[l]) = Len(waiters[l]) - 1
        /\ \A j \in 1..(Len(waiters[l]) - 1) :
              waiters'[l][j] = IF j < i THEN waiters[l][j] ELSE waiters[l][j + 1]
    BY <2>5, RemoveAtFacts
  <2>7. Len(waiters[l]) \in Nat
    BY <2>5, LenProperties
  <2>8. i # 1 => Len(waiters'[l]) > 0 /\ waiters'[l][1] = waiters[l][1]
    BY <2>6, <2>7
  <2> QED
    BY <2>4, <2>8
<1>6. OnLock' /\ HeldLocked' /\ OneHolder'
  BY <1>2, <1>4 DEF TypeOK, OnLock, HeldLocked, OneHolder
<1>7. \A q \in Requests \ {r} : fut[q] = "woken" /\ mine[q] = l =>
         Len(waiters'[l]) > 0 /\ waiters'[l][1] = q
  <2> SUFFICES ASSUME NEW q \in Requests \ {r}, fut[q] = "woken", mine[q] = l
               PROVE  Len(waiters'[l]) > 0 /\ waiters'[l][1] = q
    OBVIOUS
  <2>1. waiters[l][1] = q
    BY DEF WokenFirst
  <2>2. i # 1
    BY <1>3, <2>1
  <2> QED
    BY <1>3, <1>5, <2>1, <2>2
<1> HIDE DEF f
<1>8. CASE l \in locked
  <2>1. fut' = f
    BY <1>3, <1>8
  <2>2. TypeOK'
    BY <1>2, <1>4, <1>5, <2>1 DEF TypeOK
  <2>3. WokenFirst'
    <3> SUFFICES ASSUME NEW q \in Requests, fut'[q] = "woken"
                 PROVE  /\ pc'[q] = "waiting"
                        /\ mine'[q] \notin locked'
                        /\ Len(waiters'[mine'[q]]) > 0
                        /\ waiters'[mine'[q]][1] = q
      BY DEF WokenFirst
    <3>1. q # r /\ fut[q] = "woken"
      BY <1>4, <2>1
    <3>2. /\ pc[q] = "waiting" /\ mine[q] \notin locked /\ mine[q] \in LockIds
          /\ Len(waiters[mine[q]]) > 0 /\ waiters[mine[q]][1] = q
      BY <3>1 DEF WokenFirst, OnLock
    <3> QED
      BY <1>2, <1>4, <1>5, <1>8, <3>1, <3>2
  <2>4. NoLostWakeup'
    <3> SUFFICES ASSUME NEW k \in LockIds, k \notin locked', waiters'[k] # <<>>
                 PROVE  fut'[Head(waiters'[k])] # "pending"
      BY DEF NoLostWakeup
    <3>1. k # l /\ waiters'[k] = waiters[k] /\ k \notin locked
      BY <1>2, <1>5, <1>8
    <3>2. Head(waiters[k]) \in Requests /\ fut[Head(waiters[k])] # "pending"
      BY <3>1, HeadTailProperties DEF NoLostWakeup, TypeOK
    <3> QED
      BY <1>4, <2>1, <3>1, <3>2
  <2> QED
    BY <1>5, <1>6, <2>2, <2>3, <2>4
<1>9. CASE l \notin locked
  <2>1. waiters'[l] = RemoveAt(waiters[l], i)
    BY <1>3 DEF TypeOK
  <2>2. fut' = WakeFirst(waiters'[l], f)
    BY <1>3, <1>9, <2>1
  <2>3. l \notin locked' /\ UNCHANGED mine /\ \A k \in LockIds : k \in locked' <=> k \in locked
    BY <1>2, <1>9
  <2>4. fut' \in [Requests -> FutureStates] /\ WokenFirst' /\ NoLostWakeup'
    BY <1>1, <1>4, <1>5, <1>6, <1>7, <2>2, <2>3, WakeUpInv
  <2>5. TypeOK'
    BY <1>2, <1>5, <2>4 DEF TypeOK
  <2> QED
    BY <1>5, <1>6, <2>4, <2>5
<1> QED
  BY <1>8, <1>9

\* The holder leaves: nobody is woken on its object, so the head may be.
LEMMA ReleaseQueueInv ==
  ASSUME QueueInv, NEW r \in Requests, Release(r)
  PROVE  QueueInv'
<1> USE DEF QueueInv, Holding
<1>1. PICK l \in LockIds : l = mine[r]
  BY DEF Release, OnLock
<1>2. /\ pc[r] = "holding" /\ l \in locked
      /\ locked' = locked \ {l}
      /\ fut' = WakeFirst(waiters[l], fut)
      /\ pc' = [pc EXCEPT ![r] = "idle"]
      /\ UNCHANGED <<locks, created, waiters, sess, mine>>
  BY <1>1 DEF Release, HeldLocked
<1>3. \A q \in Requests \ {r} : pc'[q] = pc[q]
  BY <1>2 DEF TypeOK
<1>4. \A k \in LockIds : \A j \in 1..Len(waiters[k]) : waiters[k][j] # r
  BY <1>2 DEF Queued
<1>5. Queued' /\ NoRepeat'
  <2>1. \A k \in LockIds : \A j \in 1..Len(waiters[k]) : waiters[k][j] \in Requests
    BY ElementOfSeq DEF TypeOK
  <2> QED
    BY <1>2, <1>3, <1>4, <2>1 DEF Queued, NoRepeat
<1>6. OnLock' /\ HeldLocked' /\ OneHolder'
  BY <1>1, <1>2, <1>3 DEF TypeOK, OnLock, HeldLocked, OneHolder
<1>7. fut \in [Requests -> FutureStates] /\ fut[r] # "woken" /\ waiters' = waiters
  BY <1>2 DEF TypeOK, WokenFirst
<1>8. \A q \in Requests : ~(fut[q] = "woken" /\ mine[q] = l)
  BY <1>2 DEF WokenFirst
<1>9. /\ l \notin locked' /\ UNCHANGED mine
      /\ waiters' \in [LockIds -> Seq(Requests)]
      /\ \A k \in LockIds \ {l} : k \in locked' <=> k \in locked
      /\ fut' = WakeFirst(waiters'[l], fut)
  BY <1>2 DEF TypeOK
<1>10. fut' \in [Requests -> FutureStates] /\ WokenFirst' /\ NoLostWakeup'
  BY <1>1, <1>3, <1>4, <1>5, <1>6, <1>7, <1>8, <1>9, WakeUpInv
<1>11. TypeOK'
  BY <1>2, <1>10 DEF TypeOK
<1> QED
  BY <1>5, <1>6, <1>10, <1>11

\* The clean-up only forgets entries of the dictionary.
LEMMA CleanupQueueInv ==
  ASSUME QueueInv, NEW max, Cleanup(max)
  PROVE  QueueInv'
<1>1. /\ UNCHANGED <<created, locked, waiters, fut, pc, sess, mine>>
      /\ locks' \in [Sessions -> LockIds \cup {NoLock}]
  <2>1. locks \in [Sessions -> LockIds \cup {NoLock}]
    BY DEF QueueInv, TypeOK
  <2>2. PICK removed :
           locks' = [s \in Sessions |-> IF s \in removed THEN NoLock ELSE locks[s]]
    BY DEF Cleanup
  <2>3. UNCHANGED <<created, locked, waiters, fut, pc, sess, mine>>
    BY DEF Cleanup
  <2> QED
    BY <2>1, <2>2, <2>3
<1> QED
  BY <1>1 DEF QueueInv, TypeOK, OnLock, HeldLocked, OneHolder, Queued, NoRepeat,
     WokenFirst, NoLostWakeup, Holding

-----------------------------------------------------------------------------
\* Every step, the clean-up included, keeps the lock objects and deques sound.
LEMMA NextQueueInv == QueueInv /\ [MaintainedNext]_vars => QueueInv'
<1> SUFFICES ASSUME QueueInv, [MaintainedNext]_vars PROVE QueueInv'
  OBVIOUS
<1>1. ASSUME NEW r \in Requests, NEW s \in Sessions, Enter(r, s) PROVE QueueInv'
  BY <1>1, EnterQueueInv
<1>2. ASSUME NEW r \in Requests, Resume(r) PROVE QueueInv'
  BY <1>2, ResumeQueueInv
<1>3. ASSUME NEW r \in Requests, Cancel(r) PROVE QueueInv'
  BY <1>3, CancelQueueInv
<1>4. ASSUME NEW r \in Requests, Abandon(r) PROVE QueueInv'
  BY <1>4, AbandonQueueInv
<1>5. ASSUME NEW r \in Requests, Release(r) PROVE QueueInv'
  BY <1>5, ReleaseQueueInv
<1>6. ASSUME NEW max \in 0..Cardinality(Sessions), Cleanup(max) PROVE QueueInv'
  BY <1>6, CleanupQueueInv
<1>7. CASE UNCHANGED vars
  BY <1>7 DEF vars, QueueInv, TypeOK, OnLock, HeldLocked, OneHolder, Queued, NoRepeat,
     WokenFirst, NoLostWakeup, Holding
<1> QED
  BY <1>1, <1>2, <1>3, <1>4, <1>5, <1>6, <1>7 DEF MaintainedNext, Next

\* Without the clean-up a request keeps using the dictionary's lock object.
LEMMA NextOwnLock == TypeOK /\ OwnLock /\ OnLock /\ [Next]_vars => OwnLock'
<1> SUFFICES ASSUME TypeOK, OwnLock, OnLock, [Next]_vars PROVE OwnLock'
  OBVIOUS
<1>1. ASSUME NEW r \in Requests, NEW s \in Sessions, Enter(r, s) PROVE OwnLock'
  <2>1. PICK l \in LockIds :
           /\ locks[s] # NoLock => l = locks[s]
           /\ locks' = [locks EXCEPT ![s] = l]
           /\ mine' = [mine EXCEPT ![r] = l]
           /\ sess' = [sess EXCEPT ![r] = s]
           /\ \A q \in Requests \ {r} : pc'[q] = pc[q]
    BY <1>1 DEF Enter, LockFor, TypeOK
  <2>2. \A q \in Requests \ {r} :
           pc[q] # "idle" => mine[q] = locks[sess[q]] /\ mine[q] # NoLock
    BY DEF OwnLock, OnLock, LockIds, NoLock
  <2> QED
    BY <2>1, <2>2 DEF OwnLock, TypeOK
<1>2. ASSUME NEW r \in Requests, Resume(r) \/ Cancel(r) \/ Abandon(r) \/ Release(r)
      PROVE OwnLock'
  BY <1>2 DEF Resume, Cancel, Abandon, Release, OwnLock, TypeOK
<1>3. CASE UNCHANGED vars
  BY <1>3 DEF vars, OwnLock
<1> QED
  BY <1>1, <1>2, <1>3 DEF Next

\* The state of the lock manager is well typed under every schedule, also when
\* the clean-up runs at arbitrary moments.
THEOREM TypeCorrect == MaintainedSpec => []TypeOK
<1>1. Init => QueueInv
  BY InitQueueInv
<1>2. QueueInv => TypeOK
  BY DEF QueueInv
<1> QED
  BY <1>1, <1>2, NextQueueInv, PTL DEF MaintainedSpec

\* No wake-up is lost, whatever is cancelled and cleaned up in between: the
\* head of the deque of a free lock object has been told to run.
THEOREM WakeupsKept == MaintainedSpec => []NoLostWakeup
<1>1. Init => QueueInv
  BY InitQueueInv
<1>2. QueueInv => NoLostWakeup
  BY DEF QueueInv
<1> QED
  BY <1>1, <1>2, NextQueueInv, PTL DEF MaintainedSpec

\* As the services use the manager (nobody calls the clean-up), at most one
\* request is inside the protected block of a session.
THEOREM MutuallyExclusive == Spec => []MutualExclusion
<1>1. Init => QueueInv /\ OwnLock
  BY InitQueueInv
<1>2. QueueInv /\ OwnLock /\ [Next]_vars => (QueueInv /\ OwnLock)'
  BY NextQueueInv, NextOwnLock DEF MaintainedNext, QueueInv
<1>3. QueueInv /\ OwnLock => MutualExclusion
  BY DEF QueueInv, OwnLock, OneHolder, MutualExclusion, Holding
<1> QED
  BY <1>1, <1>2, <1>3, PTL DEF Spec

\* A lock object whose flag is set has a holder.
LockedHeld == \A l \in locked : \E r \in Requests : Holding(r) /\ mine[r] = l

\* Every step keeps it, the clean-up included.
LEMMA NextLockedHeld == QueueInv /\ LockedHeld /\ [MaintainedNext]_vars => LockedHeld'
<1> SUFFICES ASSUME QueueInv, LockedHeld, [MaintainedNext]_vars PROVE LockedHeld'
  OBVIOUS
<1>t. TypeOK /\ HeldLocked /\ OneHolder /\ OnLock
  BY DEF QueueInv
<1> DEFINE Kept(r) == \A q \in Requests \ {r} :
                         Holding(q) => pc'[q] = "holding" /\ mine'[q] = mine[q]
<1>k. ASSUME NEW r \in Requests, NEW l, Kept(r), ~Holding(r),
             pc'[r] = "holding", mine'[r] = l, locked' = locked \cup {l}
      PROVE  LockedHeld'
  BY <1>k DEF LockedHeld, Holding
<1>u. ASSUME NEW r \in Requests, Kept(r), ~Holding(r), locked' = locked
      PROVE  LockedHeld'
  BY <1>u DEF LockedHeld, Holding
<1>1. ASSUME NEW r \in Requests, NEW s \in Sessions, Enter(r, s) PROVE LockedHeld'
  <2>1. PICK l \in LockIds :
           /\ mine' = [mine EXCEPT ![r] = l]
           /\ \/ locked' = locked \cup {l} /\ pc' = [pc EXCEPT ![r] = "holding"]
              \/ locked' = locked /\ pc' = [pc EXCEPT ![r] = "waiting"]
    BY <1>1 DEF Enter
  <2>2. Kept(r) /\ ~Holding(r)
    BY <1>t, <1>1, <2>1 DEF Enter, Holding, TypeOK
  <2>3. CASE locked' = locked \cup {l} /\ pc' = [pc EXCEPT ![r] = "holding"]
    <3>1. pc'[r] = "holding" /\ mine'[r] = l
      BY <1>t, <2>1, <2>3 DEF TypeOK
    <3> QED
      BY <1>k, <2>2, <2>3, <3>1
  <2>4. CASE locked' = locked
    BY <1>u, <2>2, <2>4
  <2> QED
    BY <2>1, <2>3, <2>4
<1>2. ASSUME NEW r \in Requests, Resume(r) PROVE LockedHeld'
  <2>1. Kept(r) /\ ~Holding(r)
    BY <1>t, <1>2 DEF Resume, Holding, TypeOK
  <2>2. pc'[r] = "holding" /\ mine'[r] = mine[r] /\ locked' = locked \cup {mine[r]}
    BY <1>t, <1>2 DEF Resume, TypeOK
  <2> QED
    BY <1>k, <2>1, <2>2
<1>3. ASSUME NEW r \in Requests, Cancel(r) \/ Abandon(r) PROVE LockedHeld'
  <2>1. Kept(r) /\ ~Holding(r) /\ locked' = locked
    BY <1>t, <1>3 DEF Cancel, Abandon, Holding, TypeOK
  <2> QED
    BY <1>u, <2>1
<1>4. ASSUME NEW r \in Requests, Release(r) PROVE LockedHeld'
  <2>1. Kept(r) /\ locked' = locked \ {mine[r]}
    BY <1>t, <1>4 DEF Release, Holding, TypeOK
  <2> QED
    BY <2>1 DEF LockedHeld, Holding
<1>5. ASSUME UNCHANGED <<locked, pc, mine>> PROVE LockedHeld'
  BY <1>5 DEF LockedHeld, Holding
<1>6. ASSUME NEW max \in 0..Cardinality(Sessions), Cleanup(max) PROVE LockedHeld'
  BY <1>5, <1>6 DEF Cleanup
<1> QED
  BY <1>1, <1>2, <1>3, <1>4, <1>5, <1>6 DEF MaintainedNext, Next, vars

\* The flag of a lock object is set exactly while one request holds it, also
\* when the dictionary has forgotten the object: no release is lost or doubled.
THEOREM FlagsSound == MaintainedSpec => []LockedIffHeld
<1>1. Init => QueueInv /\ LockedHeld
  BY InitQueueInv DEF Init, LockedHeld
<1>2. QueueInv /\ LockedHeld /\ [MaintainedNext]_vars => (QueueInv /\ LockedHeld)'
  BY NextQueueInv, NextLockedHeld
<1>3. QueueInv /\ LockedHeld => LockedIffHeld
  <2> SUFFICES ASSUME QueueInv, LockedHeld PROVE LockedIffHeld
    OBVIOUS
  <2>1. locked = {mine[r] : r \in {q \in Requests : Holding(q)}}
    BY DEF QueueInv, HeldLocked, LockedHeld
  <2> QED
    BY <2>1 DEF QueueInv, OneHolder, LockedIffHeld
<1> QED
  BY <1>1, <1>2, <1>3, PTL DEF MaintainedSpec

-----------------------------------------------------------------------------
(***************************************************************************)
(* The manager implements the first-come-first-served mutex                *)
(***************************************************************************)
\* No two sessions share a lock object, and those of the dictionary were created.
Distinct ==
  \A s, t \in Sessions : locks[s] # NoLock =>
     locks[s] <= created /\ (locks[s] = locks[t] => s = t)

\* Whoever waits for a lock object stands in its deque.
InLine ==
  \A r \in Requests : pc[r] = "waiting" =>
     \E i \in 1..Len(waiters[mine[r]]) : waiters[mine[r]][i] = r

MapInv == QueueInv /\ OwnLock /\ Distinct /\ InLine

LEMMA NextDistinct == TypeOK /\ Distinct /\ [Next]_vars => Distinct'
<1> SUFFICES ASSUME TypeOK, Distinct, [Next]_vars PROVE Distinct'
  OBVIOUS
<1>1. ASSUME NEW r \in Requests, NEW s \in Sessions, Enter(r, s) PROVE Distinct'
  <2>1. PICK l \in LockIds :
           /\ l = LockFor(s)
           /\ locks' = [locks EXCEPT ![s] = l]
           /\ created' = (IF l > created THEN l ELSE created)
    BY <1>1 DEF Enter
  <2>2. /\ l \in Nat /\ created \in Nat /\ created' \in Nat /\ created <= created' /\ l <= created'
        /\ \A t \in Sessions : locks[t] \in Nat
    BY <2>1, SessionLockAssumption DEF TypeOK, LockIds, NoLock
  <2>3. \A t \in Sessions : locks'[t] = IF t = s THEN l ELSE locks[t]
    BY <2>1 DEF TypeOK
  <2>4. \A t \in Sessions : t # s => locks[t] # l
    BY <2>1, <2>2 DEF LockFor, Distinct, LockIds, NoLock
  <2>5. \A t \in Sessions : locks'[t] # NoLock => locks'[t] <= created'
    BY <2>2, <2>3 DEF Distinct
  <2> QED
    BY <2>3, <2>4, <2>5 DEF Distinct
<1>2. ASSUME NEW r \in Requests, Resume(r) \/ Cancel(r) \/ Abandon(r) \/ Release(r)
      PROVE  Distinct'
  BY <1>2 DEF Resume, Cancel, Abandon, Release, Distinct
<1>3. CASE UNCHANGED vars
  BY <1>3 DEF vars, Distinct
<1> QED
  BY <1>1, <1>2, <1>3 DEF Next

\* When r leaves a deque, the others stay in it.
LEMMA OthersStay ==
  ASSUME NEW q \in Seq(Requests), NEW i \in 1..Len(q), NEW k \in 1..Len(q), q[k] # q[i]
  PROVE  \E j \in 1..Len(RemoveAt(q, i)) : RemoveAt(q, i)[j] = q[k]
<1>1. /\ Len(RemoveAt(q, i)) = Len(q) - 1 /\ RemoveAt(q, i) \in Seq(Requests)
      /\ \A j \in 1..(Len(q) - 1) :
            RemoveAt(q, i)[j] = IF j < i THEN q[j] ELSE q[j + 1]
  BY RemoveAtFacts
<1>2. Len(q) \in Nat /\ k # i
  BY LenProperties
<1>3. CASE k < i
  <2>1. k \in 1..(Len(q) - 1)
    BY <1>2, <1>3
  <2> QED
    BY <1>1, <1>3, <2>1
<1>4. CASE k > i
  <2>1. k - 1 \in 1..(Len(q) - 1) /\ ~(k - 1 < i) /\ (k - 1) + 1 = k
    BY <1>2, <1>4
  <2> QED
    BY <1>1, <2>1
<1> QED
  BY <1>2, <1>3, <1>4

LEMMA NextInLine == QueueInv /\ InLine /\ [Next]_vars => InLine'
<1> SUFFICES ASSUME QueueInv, InLine, [Next]_vars PROVE InLine'
  OBVIOUS
<1>t. TypeOK /\ OnLock /\ \A l \in LockIds : waiters[l] \in Seq(Requests) /\ Len(waiters[l]) \in Nat
  BY LenProperties DEF QueueInv, TypeOK
<1>1. ASSUME NEW r \in Requests, NEW s \in Sessions, Enter(r, s) PROVE InLine'
  <2>1. PICK l \in LockIds :
          /\ mine' = [mine EXCEPT ![r] = l]
          /\ \A q \in Requests \ {r} : pc'[q] = pc[q]
          /\ \/ pc'[r] = "holding" /\ UNCHANGED waiters
             \/ waiters' = [waiters EXCEPT ![l] = Append(@, r)]
    BY <1>1, <1>t DEF Enter, TypeOK
  <2>2. CASE pc'[r] = "holding" /\ UNCHANGED waiters
    BY <1>t, <2>1, <2>2 DEF InLine, TypeOK
  <2>3. CASE waiters' = [waiters EXCEPT ![l] = Append(@, r)]
    <3>1. /\ Len(waiters'[l]) = Len(waiters[l]) + 1
          /\ \A i \in 1..Len(waiters[l]) : waiters'[l][i] = waiters[l][i]
          /\ waiters'[l][Len(waiters[l]) + 1] = r
          /\ \A k \in LockIds \ {l} : waiters'[k] = waiters[k]
      BY <1>t, <2>3, AppendProperties DEF TypeOK
    <3> SUFFICES ASSUME NEW q \in Requests, pc'[q] = "waiting"
                 PROVE  \E i \in 1..Len(waiters'[mine'[q]]) : waiters'[mine'[q]][i] = q
      BY DEF InLine
    <3>2. CASE q = r
      <4>1. mine'[q] = l /\ Len(waiters[l]) + 1 \in 1..Len(waiters'[l])
        BY <1>t, <2>1, <3>1, <3>2 DEF TypeOK
      <4> QED
        BY <3>1, <3>2, <4>1
    <3>3. CASE q # r
      <4>1. mine'[q] = mine[q] /\ pc[q] = "waiting" /\ mine[q] \in LockIds
        BY <1>t, <2>1, <3>3 DEF TypeOK, OnLock
      <4>2. PICK i \in 1..Len(waiters[mine[q]]) : waiters[mine[q]][i] = q
        BY <4>1 DEF InLine
      <4>3. CASE mine[q] = l
        <5>1. i \in 1..Len(waiters'[l]) /\ waiters'[l][i] = q
          BY <1>t, <3>1, <4>2, <4>3
        <5> QED
          BY <4>1, <4>3, <5>1
      <4>4. CASE mine[q] # l
        BY <3>1, <4>1, <4>2, <4>4
      <4> QED
        BY <4>3, <4>4
    <3> QED
      BY <3>2, <3>3
  <2> QED
    BY <2>1, <2>2, <2>3
<1>2. ASSUME NEW r \in Requests, Resume(r) \/ Abandon(r) PROVE InLine'
  <2>1. /\ pc[r] = "waiting" /\ mine' = mine /\ pc'[r] # "waiting"
        /\ \A q \in Requests \ {r} : pc'[q] = pc[q]
    BY <1>2, <1>t DEF Resume, Abandon, TypeOK
  <2>2. mine[r] \in LockIds
    BY <1>t, <2>1 DEF OnLock
  <2>3. PICK i \in 1..Len(waiters[mine[r]]) :
          /\ waiters[mine[r]][i] = r
          /\ waiters' = [waiters EXCEPT ![mine[r]] = RemoveAt(@, i)]
    BY <1>2, <1>t, <2>2, LenProperties DEF Resume, Abandon
  <2> SUFFICES ASSUME NEW q \in Requests, pc'[q] = "waiting"
               PROVE  \E j \in 1..Len(waiters'[mine[q]]) : waiters'[mine[q]][j] = q
    BY <2>1 DEF InLine
  <2>4. q # r /\ pc[q] = "waiting" /\ mine[q] \in LockIds
    BY <1>t, <2>1 DEF OnLock
  <2>5. PICK k \in 1..Len(waiters[mine[q]]) : waiters[mine[q]][k] = q
    BY <2>4 DEF InLine
  <2>6. CASE mine[q] = mine[r]
    <3>1. waiters'[mine[r]] = RemoveAt(waiters[mine[r]], i)
      BY <1>t, <2>2, <2>3 DEF TypeOK
    <3>2. \E j \in 1..Len(RemoveAt(waiters[mine[r]], i)) :
             RemoveAt(waiters[mine[r]], i)[j] = waiters[mine[r]][k]
      <4>1. waiters[mine[r]] \in Seq(Requests) /\ k \in 1..Len(waiters[mine[r]])
        BY <1>t, <2>2, <2>5, <2>6
      <4>2. waiters[mine[r]][k] # waiters[mine[r]][i]
        BY <2>3, <2>4, <2>5, <2>6
      <4> QED
        BY <4>1, <4>2, OthersStay
    <3> QED
      BY <2>5, <2>6, <3>1, <3>2
  <2>7. CASE mine[q] # mine[r]
    <3>1. waiters'[mine[q]] = waiters[mine[q]]
      BY <1>t, <2>3, <2>4, <2>7 DEF TypeOK
    <3> QED
      BY <2>5, <3>1
  <2> QED
    BY <2>6, <2>7
<1>3. ASSUME NEW r \in Requests, Cancel(r) \/ Release(r) PROVE InLine'
  BY <1>3, <1>t DEF Cancel, Release, InLine, TypeOK
<1>4. CASE UNCHANGED vars
  BY <1>4 DEF vars, InLine
<1> QED
  BY <1>1, <1>2, <1>3, <1>4 DEF Next

LEMMA MapHolds == Spec => []MapInv
<1>1. Init => MapInv
  <2>1. Init => Distinct /\ InLine
    BY DEF Init, Distinct, InLine
  <2> QED
    BY <2>1, InitQueueInv DEF MapInv
<1>2. MapInv /\ [Next]_vars => MapInv'
  BY NextQueueInv, NextOwnLock, NextDistinct, NextInLine DEF MapInv, MaintainedNext, QueueInv
<1> QED
  BY <1>1, <1>2, PTL DEF Spec

\* A map changed at one point.
LEMMA PointChanged ==
  ASSUME NEW D, NEW f, NEW g, NEW d \in D, NEW e,
         f = [x \in D |-> f[x]], g = [x \in D |-> g[x]],
         \A x \in D : g[x] = IF x = d THEN e ELSE f[x]
  PROVE  g = [f EXCEPT ![d] = e]
OBVIOUS

LEMMA MapsAreMaps ==
  /\ Holder = [s \in Sessions |-> Holder[s]] /\ Line = [s \in Sessions |-> Line[s]]
  /\ Holder' = [s \in Sessions |-> Holder'[s]] /\ Line' = [s \in Sessions |-> Line'[s]]
BY DEF Holder, Line

\* Who holds a session is the one inside.
LEMMA HolderSame ==
  ASSUME NEW s \in Sessions, Inside(s)' = Inside(s)
  PROVE  Holder'[s] = Holder[s]
BY DEF Holder

LEMMA HolderInside ==
  ASSUME MapInv, NEW s \in Sessions, NEW r \in Requests
  PROVE  /\ Holder[s] = r => Holding(r) /\ sess[r] = s
         /\ Holding(r) /\ sess[r] = s => Inside(s) = {r} /\ Holder[s] = r
<1>1. Holding(r) /\ sess[r] = s => Inside(s) = {r}
  BY DEF MapInv, QueueInv, OneHolder, OwnLock, Inside, Holding
<1>2. Holder[s] = IF Inside(s) = {} THEN NoRequest ELSE CHOOSE q \in Inside(s) : TRUE
  BY DEF Holder
<1>3. Inside(s) # {} => Holder[s] \in Inside(s)
  BY <1>2
<1>4. \A q \in Inside(s) : Holding(q) /\ sess[q] = s
  BY DEF Inside
<1> QED
  BY <1>1, <1>2, <1>3, <1>4, SessionLockAssumption

\* A line stays as it is while its deque and its live waiters do.
LEMMA LineSame ==
  ASSUME TypeOK, NEW s \in Sessions, locks'[s] = locks[s],
         locks[s] # NoLock =>
            /\ waiters'[locks[s]] = waiters[locks[s]]
            /\ \A i \in 1..Len(waiters[locks[s]]) :
                  waiters[locks[s]][i] \in LiveWaiters <=> waiters[locks[s]][i] \in LiveWaiters'
  PROVE  Line'[s] = Line[s]
<1> DEFINE q == waiters[locks[s]]
           X == LiveWaiters
           Z == LiveWaiters'
<1>1. /\ Line[s] = IF locks[s] = NoLock THEN <<>> ELSE Keep(q, X)
      /\ Line'[s] = IF locks[s] = NoLock THEN <<>> ELSE Keep(q, Z)
  BY DEF Line
<1>2. ASSUME locks[s] # NoLock PROVE Keep(q, X) = Keep(q, Z)
  <2>1. q \in Seq(Requests)
    BY <1>2 DEF TypeOK
  <2>2. \A i \in 1..Len(q) : q[i] \in X <=> q[i] \in Z
    BY <1>2
  <2> HIDE DEF q, X, Z
  <2> QED
    BY <2>1, <2>2, KeepSame
<1> QED
  BY <1>1, <1>2

\* Nobody waits for, or holds, a session that has no lock object, and nobody
\* stands in the deque of an object that is not created yet.
LEMMA FreshLock ==
  ASSUME MapInv, NEW l \in LockIds, l > created
  PROVE  waiters[l] = <<>>
<1>1. waiters[l] \in Seq(Requests) /\ created \in Nat
  BY SessionLockAssumption DEF MapInv, QueueInv, TypeOK
<1>2. ASSUME waiters[l] # <<>> PROVE FALSE
  <2>1. Len(waiters[l]) \in Nat /\ Len(waiters[l]) # 0
    BY <1>1, <1>2, EmptySeq
  <2>2. 1 \in 1..Len(waiters[l])
    BY <2>1
  <2>3. PICK r \in Requests : pc[r] = "waiting" /\ mine[r] = l
    BY <1>1, <2>2, ElementOfSeq DEF MapInv, QueueInv, Queued
  <2>4. locks[sess[r]] = l /\ sess[r] \in Sessions /\ l # NoLock
    BY <2>3, SessionLockAssumption DEF MapInv, QueueInv, TypeOK, OwnLock, LockIds, NoLock
  <2>5. l <= created
    BY <2>4 DEF MapInv, Distinct
  <2> QED
    BY <1>1, <2>5, SessionLockAssumption DEF LockIds
<1> QED
  BY <1>2

\* r stands outside every session when it is idle.
LEMMA IdleOutside ==
  ASSUME MapInv, NEW r \in Requests, pc[r] = "idle"
  PROVE  Mutex!Outside(r)
<1> SUFFICES ASSUME NEW s \in Sessions
             PROVE  Holder[s] # r /\ \A i \in DOMAIN Line[s] : Line[s][i] # r
  BY DEF Mutex!Outside
<1>1. Holder[s] # r
  BY HolderInside DEF Holding
<1>2. ASSUME locks[s] # NoLock
      PROVE  \A i \in DOMAIN Line[s] : Line[s][i] # r
  <2> DEFINE q == waiters[locks[s]]
             Others == Requests \ {r}
  <2>1. q \in Seq(Requests) /\ locks[s] \in LockIds
    BY <1>2 DEF MapInv, QueueInv, TypeOK
  <2>2. \A i \in 1..Len(q) : q[i] \in Others
    BY <2>1, ElementOfSeq DEF MapInv, QueueInv, Queued
  <2>3. Line[s] = Keep(q, LiveWaiters)
    BY <1>2 DEF Line
  <2> HIDE DEF q
  <2>4. q \in Seq(Others)
    <3>1. 1 \in Int /\ Len(q) \in Int
      BY <2>1, LenProperties
    <3>2. SubSeq(q, 1, Len(q)) \in Seq(Others)
      BY <2>2, <3>1, SubSeqProperties
    <3> QED
      BY <2>1, <3>2, SubSeqFull
  <2>5. Keep(q, LiveWaiters) \in Seq(Others \cap LiveWaiters)
    BY <2>4, KeepType
  <2> QED
    BY <2>3, <2>5, LenProperties, ElementOfSeq
<1>3. locks[s] = NoLock => Line[s] = <<>>
  BY DEF Line
<1> QED
  BY <1>1, <1>2, <1>3

LEMMA EnterImplements ==
  ASSUME MapInv, NEW r \in Requests, NEW s \in Sessions, Enter(r, s)
  PROVE  Mutex!EnterNow(r, s) \/ Mutex!EnterQueue(r, s)
<1>t. TypeOK
  BY DEF MapInv, QueueInv
<1>1. PICK l \in LockIds :
        /\ l = LockFor(s)
        /\ locks' = [locks EXCEPT ![s] = l]
        /\ sess' = [sess EXCEPT ![r] = s]
        /\ pc[r] = "idle"
        /\ \/ /\ l \notin locked /\ AllCancelled(waiters[l])
              /\ pc' = [pc EXCEPT ![r] = "holding"]
              /\ UNCHANGED <<waiters, fut>>
           \/ /\ waiters' = [waiters EXCEPT ![l] = Append(@, r)]
              /\ fut' = [fut EXCEPT ![r] = "pending"]
              /\ pc' = [pc EXCEPT ![r] = "waiting"]
  BY DEF Enter
<1>2. /\ waiters[l] \in Seq(Requests) /\ DOMAIN waiters[l] = 1..Len(waiters[l]) /\ l # NoLock
      /\ created \in Nat /\ created + 1 > created
  BY <1>1, <1>t, LenProperties, SessionLockAssumption DEF TypeOK, LockIds, NoLock
<1>3. \A k \in LockIds : \A i \in 1..Len(waiters[k]) : waiters[k][i] # r /\ waiters[k][i] \in Requests
  BY <1>1, <1>t, ElementOfSeq DEF MapInv, QueueInv, Queued, TypeOK
<1>4. Mutex!Outside(r)
  BY <1>1, IdleOutside
<1>5. Line[s] = Keep(waiters[l], LiveWaiters)
  <2>1. CASE locks[s] # NoLock
    BY <1>1, <2>1 DEF Line, LockFor
  <2>2. CASE locks[s] = NoLock
    <3>1. waiters[l] = <<>>
      BY <1>1, <1>2, <2>2, FreshLock DEF LockFor
    <3>2. Line[s] = <<>>
      BY <2>2 DEF Line
    <3> QED
      BY <3>1, <3>2, KeepEmpty
  <2> QED
    BY <2>1, <2>2
<1>6. \A t \in Sessions \ {s} : locks'[t] = locks[t] /\ (locks[t] # NoLock => locks[t] # l)
  <2> SUFFICES ASSUME NEW t \in Sessions \ {s}
               PROVE  locks'[t] = locks[t] /\ (locks[t] # NoLock => locks[t] # l)
    OBVIOUS
  <2>1. locks'[t] = locks[t]
    BY <1>1, <1>t DEF TypeOK
  <2>2. ASSUME locks[t] # NoLock PROVE locks[t] # l
    <3>1. CASE locks[s] # NoLock
      BY <1>1, <2>2, <3>1 DEF LockFor, MapInv, Distinct
    <3>2. CASE locks[s] = NoLock
      <4>1. locks[t] <= created /\ l = created + 1 /\ locks[t] \in Nat
        BY <1>1, <1>t, <2>2, <3>2 DEF LockFor, MapInv, Distinct, TypeOK, LockIds, NoLock
      <4> QED
        BY <1>2, <4>1
    <3> QED
      BY <3>1, <3>2
  <2> QED
    BY <2>1, <2>2
<1>7. locks'[s] = l
  BY <1>1, <1>t DEF TypeOK
<1>8. CASE /\ l \notin locked /\ AllCancelled(waiters[l])
           /\ pc' = [pc EXCEPT ![r] = "holding"]
           /\ UNCHANGED <<waiters, fut>>
  <2>1. LiveWaiters' = LiveWaiters
    BY <1>8 DEF LiveWaiters
  <2>2. Line[s] = <<>>
    <3>1. \A i \in 1..Len(waiters[l]) : waiters[l][i] \notin LiveWaiters
      BY <1>2, <1>8 DEF AllCancelled, LiveWaiters
    <3> QED
      BY <1>2, <1>5, <3>1, KeepNone
  <2>3. Line'[s] = Line[s]
    BY <1>2, <1>5, <1>7, <1>8, <2>1 DEF Line
  <2>4. \A t \in Sessions \ {s} : Line'[t] = Line[t]
    BY <1>6, <1>8, <1>t, <2>1, LineSame
  <2>5. UNCHANGED Line
    BY <2>3, <2>4, MapsAreMaps
  <2>6. \A t \in Sessions \ {s} : Holder'[t] = Holder[t]
    <3> SUFFICES ASSUME NEW t \in Sessions \ {s} PROVE Inside(t)' = Inside(t)
      BY HolderSame
    <3> QED
      BY <1>1, <1>8, <1>t DEF Inside, Holding, TypeOK
  <2>7. Inside(s) = {}
    <3> SUFFICES ASSUME NEW q \in Requests, Holding(q), sess[q] = s PROVE FALSE
      BY DEF Inside
    <3>1. mine[q] = locks[s] /\ mine[q] \in LockIds /\ mine[q] \in locked
      BY DEF MapInv, QueueInv, OwnLock, OnLock, HeldLocked, Holding
    <3>2. locks[s] = l
      BY <1>1, <3>1, SessionLockAssumption DEF LockFor, LockIds, NoLock
    <3> QED
      BY <1>8, <3>1, <3>2
  <2>8. Inside(s)' = {r}
    BY <1>1, <1>8, <1>t, <2>7 DEF Inside, Holding, TypeOK
  <2>9. Holder[s] = NoRequest /\ Holder'[s] = r
    BY <2>7, <2>8 DEF Holder
  <2>10. Holder' = [Holder EXCEPT ![s] = r]
    BY <2>6, <2>9, MapsAreMaps, PointChanged
  <2> QED
    BY <1>4, <2>2, <2>5, <2>9, <2>10 DEF Mutex!EnterNow
<1>9. CASE /\ waiters' = [waiters EXCEPT ![l] = Append(@, r)]
           /\ fut' = [fut EXCEPT ![r] = "pending"]
           /\ pc' = [pc EXCEPT ![r] = "waiting"]
  <2>1. \A q \in Requests \ {r} : q \in LiveWaiters' <=> q \in LiveWaiters
    BY <1>9, <1>t DEF LiveWaiters, TypeOK
  <2>2. r \in LiveWaiters'
    BY <1>9, <1>t DEF LiveWaiters, TypeOK
  <2>3. Line'[s] = Append(Line[s], r)
    <3> DEFINE Z == LiveWaiters'
    <3>1. Line'[s] = Keep(Append(waiters[l], r), Z)
      BY <1>2, <1>7, <1>9, <1>t DEF Line, TypeOK
    <3>2. r \in Z /\ \A i \in 1..Len(waiters[l]) :
                        waiters[l][i] \in LiveWaiters <=> waiters[l][i] \in Z
      BY <1>3, <2>1, <2>2
    <3> HIDE DEF Z
    <3>3. Keep(Append(waiters[l], r), Z) = Append(Keep(waiters[l], Z), r)
      BY <1>2, <3>2, KeepAppend
    <3>4. Keep(waiters[l], LiveWaiters) = Keep(waiters[l], Z)
      BY <1>2, <3>2, KeepSame
    <3> QED
      BY <1>5, <3>1, <3>3, <3>4
  <2>4. \A t \in Sessions \ {s} : Line'[t] = Line[t]
    <3> SUFFICES ASSUME NEW t \in Sessions \ {s} PROVE Line'[t] = Line[t]
      OBVIOUS
    <3>1. locks'[t] = locks[t]
      BY <1>6
    <3>2. ASSUME locks[t] # NoLock
          PROVE  /\ waiters'[locks[t]] = waiters[locks[t]]
                 /\ \A i \in 1..Len(waiters[locks[t]]) :
                       waiters[locks[t]][i] \in LiveWaiters <=> waiters[locks[t]][i] \in LiveWaiters'
      <4>1. locks[t] \in LockIds /\ locks[t] # l
        BY <1>6, <1>t, <3>2 DEF TypeOK
      <4> QED
        BY <1>3, <1>9, <1>t, <2>1, <4>1 DEF TypeOK
    <3> QED
      BY <1>t, <3>1, <3>2, LineSame
  <2>5. Line' = [Line EXCEPT ![s] = Append(Line[s], r)]
    BY <2>3, <2>4, MapsAreMaps, PointChanged
  <2>6. \A t \in Sessions : Holder'[t] = Holder[t]
    <3> SUFFICES ASSUME NEW t \in Sessions PROVE Inside(t)' = Inside(t)
      BY HolderSame
    <3> QED
      BY <1>1, <1>9, <1>t DEF Inside, Holding, TypeOK
  <2>7. UNCHANGED Holder
    BY <2>6, MapsAreMaps
  <2> QED
    BY <1>4, <2>5, <2>7 DEF Mutex!EnterQueue
<1> QED
  BY <1>1, <1>8, <1>9

\* r has left the deque for good: it stood there once.
LEMMA RemovedGone ==
  ASSUME NEW q \in Seq(Requests), NEW i \in 1..Len(q),
         \A j, k \in 1..Len(q) : q[j] = q[k] => j = k
  PROVE  /\ RemoveAt(q, i) \in Seq(Requests)
         /\ \A j \in 1..Len(RemoveAt(q, i)) : RemoveAt(q, i)[j] # q[i]
<1>1. /\ RemoveAt(q, i) \in Seq(Requests)
      /\ Len(RemoveAt(q, i)) = Len(q) - 1
      /\ \A j \in 1..(Len(q) - 1) :
            RemoveAt(q, i)[j] = IF j < i THEN q[j] ELSE q[j + 1]
  BY RemoveAtFacts
<1>2. Len(q) \in Nat
  BY LenProperties
<1>3. \A j \in 1..(Len(q) - 1) : RemoveAt(q, i)[j] # q[i]
  <2> SUFFICES ASSUME NEW j \in 1..(Len(q) - 1) PROVE RemoveAt(q, i)[j] # q[i]
    OBVIOUS
  <2>1. CASE j < i
    BY <1>1, <1>2, <2>1
  <2>2. CASE ~(j < i)
    <3>1. j + 1 \in 1..Len(q) /\ j + 1 # i
      BY <1>2, <2>2
    <3> QED
      BY <1>1, <2>2, <3>1
  <2> QED
    BY <2>1, <2>2
<1> QED
  BY <1>1, <1>3

\* What a request that waits has: its place in the deque of its session's lock.
LEMMA PlaceInLine ==
  ASSUME MapInv, NEW r \in Requests, pc[r] = "waiting"
  PROVE  /\ sess[r] \in Sessions /\ mine[r] \in LockIds /\ mine[r] = locks[sess[r]]
         /\ mine[r] # NoLock /\ waiters[mine[r]] \in Seq(Requests)
         /\ DOMAIN waiters[mine[r]] = 1..Len(waiters[mine[r]])
         /\ \E i \in 1..Len(waiters[mine[r]]) : waiters[mine[r]][i] = r
         /\ \A i, j \in 1..Len(waiters[mine[r]]) :
               waiters[mine[r]][i] = waiters[mine[r]][j] => i = j
         /\ Line[sess[r]] = Keep(waiters[mine[r]], LiveWaiters)
         /\ \A t \in Sessions \ {sess[r]} : locks[t] # NoLock => locks[t] # mine[r]
         /\ \A l \in LockIds \ {mine[r]} : \A i \in 1..Len(waiters[l]) : waiters[l][i] # r
<1>1. TypeOK /\ OnLock /\ Queued /\ NoRepeat
  BY DEF MapInv, QueueInv
<1>2. sess[r] \in Sessions /\ mine[r] \in LockIds /\ mine[r] = locks[sess[r]] /\ mine[r] # NoLock
  BY <1>1, SessionLockAssumption DEF MapInv, TypeOK, OnLock, OwnLock, LockIds, NoLock
<1>3. waiters[mine[r]] \in Seq(Requests) /\ DOMAIN waiters[mine[r]] = 1..Len(waiters[mine[r]])
  BY <1>1, <1>2, LenProperties DEF TypeOK
<1>4. \E i \in 1..Len(waiters[mine[r]]) : waiters[mine[r]][i] = r
  BY DEF MapInv, InLine
<1>5. \A i, j \in 1..Len(waiters[mine[r]]) : waiters[mine[r]][i] = waiters[mine[r]][j] => i = j
  BY <1>1, <1>2 DEF NoRepeat
<1>6. Line[sess[r]] = Keep(waiters[mine[r]], LiveWaiters)
  BY <1>2 DEF Line
<1>7. \A t \in Sessions \ {sess[r]} : locks[t] # NoLock => locks[t] # mine[r]
  BY <1>2 DEF MapInv, Distinct
<1>8. \A l \in LockIds \ {mine[r]} : \A i \in 1..Len(waiters[l]) : waiters[l][i] # r
  BY <1>1 DEF Queued
<1> QED
  BY <1>2, <1>3, <1>4, <1>5, <1>6, <1>7, <1>8

LEMMA ResumeImplements ==
  ASSUME MapInv, NEW r \in Requests, Resume(r)
  PROVE  \E s \in Sessions : Mutex!Grant(s)
<1> DEFINE s == sess[r]
           l == mine[r]
           q == waiters[l]
           X == LiveWaiters
           Z == LiveWaiters'
<1>t. TypeOK
  BY DEF MapInv, QueueInv
<1>1. /\ pc[r] = "waiting" /\ fut[r] = "woken"
      /\ fut' = [fut EXCEPT ![r] = "none"]
      /\ pc' = [pc EXCEPT ![r] = "holding"]
      /\ UNCHANGED <<locks, created, sess, mine>>
  BY DEF Resume
<1>2. /\ s \in Sessions /\ l \in LockIds /\ l = locks[s] /\ l # NoLock /\ q \in Seq(Requests)
      /\ DOMAIN q = 1..Len(q)
      /\ \A i, j \in 1..Len(q) : q[i] = q[j] => i = j
      /\ Line[s] = Keep(q, X)
      /\ \A t \in Sessions \ {s} : locks[t] # NoLock => locks[t] # l
      /\ \A k \in LockIds \ {l} : \A i \in 1..Len(waiters[k]) : waiters[k][i] # r
  BY <1>1, PlaceInLine
<1>3. l \notin locked /\ 1 \in 1..Len(q) /\ q[1] = r
  <2>1. l \notin locked /\ Len(q) > 0 /\ q[1] = r
    BY <1>1 DEF MapInv, QueueInv, WokenFirst
  <2>2. Len(q) \in Nat
    BY <1>2, LenProperties
  <2> QED
    BY <2>1, <2>2
<1>4. waiters' = [waiters EXCEPT ![l] = RemoveAt(@, 1)]
  BY <1>2, <1>3 DEF Resume
<1>5. r \in X /\ \A p \in Requests \ {r} : p \in X <=> p \in Z
  BY <1>1, <1>t DEF LiveWaiters, TypeOK
<1>6. Line'[s] = Keep(RemoveAt(q, 1), Z)
  <2>1. waiters'[l] = RemoveAt(q, 1)
    BY <1>2, <1>4, <1>t DEF TypeOK
  <2> QED
    BY <1>1, <1>2, <2>1 DEF Line
<1>7. RemoveAt(q, 1) \in Seq(Requests) /\ \A j \in 1..Len(RemoveAt(q, 1)) : RemoveAt(q, 1)[j] # r
  <2>1. /\ q \in Seq(Requests) /\ 1 \in 1..Len(q) /\ q[1] = r
        /\ \A j, k \in 1..Len(q) : q[j] = q[k] => j = k
    BY <1>2, <1>3
  <2> HIDE DEF q
  <2> QED
    BY <2>1, RemovedGone
<1>8. Keep(RemoveAt(q, 1), Z) = Keep(RemoveAt(q, 1), X)
  <2> DEFINE p == RemoveAt(q, 1)
  <2>1. p \in Seq(Requests) /\ \A j \in 1..Len(p) : p[j] \in Z <=> p[j] \in X
    BY <1>5, <1>7, ElementOfSeq
  <2> HIDE DEF p, X, Z
  <2> QED
    BY <2>1, KeepSame DEF p
<1>9. PICK n \in 1..Len(Keep(q, X)) :
        Keep(q, X)[n] = q[1] /\ Keep(RemoveAt(q, 1), X) = RemoveAt(Keep(q, X), n) /\ (1 = 1 => n = 1)
  <2>1. q \in Seq(Requests) /\ 1 \in 1..Len(q) /\ q[1] \in X
    BY <1>2, <1>3, <1>5
  <2> HIDE DEF q, X
  <2> QED
    BY <2>1, KeepTaken
<1>10. Line[s] \in Seq(Requests) /\ 1 \in 1..Len(Line[s])
  <2>1. Keep(q, X) \in Seq(Requests \cap X)
    BY <1>2, KeepType
  <2> QED
    BY <1>2, <1>9, <2>1, SeqMonotonic
<1>11. Line[s] # <<>> /\ Head(Line[s]) = r
  <2>1. Len(Line[s]) \in Nat
    BY <1>10, LenProperties
  <2>2. Line[s] # <<>>
    BY <1>10, <2>1, EmptySeq
  <2>3. Line[s][1] = r
    BY <1>2, <1>3, <1>9
  <2> QED
    BY <1>10, <2>2, <2>3
<1>12. Line'[s] = Tail(Line[s])
  <2> DEFINE L == Line[s]
  <2>1. Line'[s] = RemoveAt(L, 1)
    BY <1>2, <1>6, <1>8, <1>9
  <2>2. L \in Seq(Requests) /\ L # <<>> /\ Len(L) \in Nat
    BY <1>10, <1>11, LenProperties
  <2> HIDE DEF L
  <2>3. RemoveAt(L, 1) = SubSeq(L, 1, 0) \o SubSeq(L, 2, Len(L))
    <3>1. 1 - 1 = 0 /\ 1 + 1 = 2
      OBVIOUS
    <3> QED
      BY <3>1 DEF RemoveAt
  <2>4. SubSeq(L, 2, Len(L)) = Tail(L) /\ Tail(L) \in Seq(Requests)
    BY <2>2, TailIsSubSeq, HeadTailProperties
  <2>5. SubSeq(L, 1, 0) = <<>>
    <3>1. 1 \in Int /\ 0 \in Int /\ 0 < 1
      OBVIOUS
    <3> QED
      BY <3>1, SubSeqEmpty
  <2>6. <<>> \o Tail(L) = Tail(L)
    BY <2>4, ConcatEmptySeq
  <2> QED
    BY <2>1, <2>3, <2>4, <2>5, <2>6 DEF L
<1>13. \A t \in Sessions \ {s} : Line'[t] = Line[t]
  <2> SUFFICES ASSUME NEW t \in Sessions \ {s} PROVE Line'[t] = Line[t]
    OBVIOUS
  <2>1. locks'[t] = locks[t]
    BY <1>1
  <2>2. ASSUME locks[t] # NoLock
        PROVE  /\ waiters'[locks[t]] = waiters[locks[t]]
               /\ \A i \in 1..Len(waiters[locks[t]]) :
                     waiters[locks[t]][i] \in LiveWaiters <=> waiters[locks[t]][i] \in LiveWaiters'
    <3>1. locks[t] \in LockIds /\ locks[t] # l /\ waiters[locks[t]] \in Seq(Requests)
      BY <1>2, <1>t, <2>2 DEF TypeOK
    <3>2. waiters'[locks[t]] = waiters[locks[t]]
      BY <1>4, <1>t, <3>1 DEF TypeOK
    <3> QED
      BY <1>2, <1>5, <3>1, <3>2, ElementOfSeq
  <2> QED
    BY <1>t, <2>1, <2>2, LineSame
<1>14. \A t \in Sessions \ {s} : Holder'[t] = Holder[t]
  <2> SUFFICES ASSUME NEW t \in Sessions \ {s} PROVE Inside(t)' = Inside(t)
    BY HolderSame
  <2> QED
    BY <1>1, <1>t DEF Inside, Holding, TypeOK
<1>15. Inside(s) = {}
  <2> SUFFICES ASSUME NEW p \in Requests, Holding(p), sess[p] = s PROVE FALSE
    BY DEF Inside
  <2>1. mine[p] = l /\ mine[p] \in locked
    BY <1>2 DEF MapInv, QueueInv, OwnLock, HeldLocked, Holding
  <2> QED
    BY <1>3, <2>1
<1>16. Inside(s)' = {r}
  BY <1>1, <1>t, <1>15 DEF Inside, Holding, TypeOK
<1>17. Holder[s] = NoRequest /\ Holder'[s] = r
  <2>1. Holder[s] = NoRequest
    BY <1>2, <1>15 DEF Holder
  <2>2. sess'[r] = sess[r]
    BY <1>1
  <2>3. Holder'[sess'[r]] = r
    BY <1>2, <1>16, <2>2 DEF Holder
  <2> QED
    BY <2>1, <2>2, <2>3
<1>18. Holder' = [Holder EXCEPT ![s] = Head(Line[s])]
  <2> HIDE DEF s
  <2> QED
    BY <1>2, <1>11, <1>14, <1>17, MapsAreMaps, PointChanged
<1>19. Line' = [Line EXCEPT ![s] = Tail(Line[s])]
  <2> HIDE DEF s
  <2> QED
    BY <1>2, <1>12, <1>13, MapsAreMaps, PointChanged
<1> QED
  BY <1>2, <1>11, <1>17, <1>18, <1>19 DEF Mutex!Grant

LEMMA CancelImplements ==
  ASSUME MapInv, NEW r \in Requests, Cancel(r)
  PROVE  \E s \in Sessions : Mutex!Leave(r, s)
<1> DEFINE s == sess[r]
           l == mine[r]
           q == waiters[l]
           X == LiveWaiters
           Z == LiveWaiters'
<1>t. TypeOK
  BY DEF MapInv, QueueInv
<1>1. /\ pc[r] = "waiting" /\ fut[r] \in {"pending", "woken"}
      /\ fut'[r] \in {"cancelled", "doomed"} /\ \A p \in Requests \ {r} : fut'[p] = fut[p]
      /\ UNCHANGED <<locks, waiters, pc, sess, mine>>
  BY <1>t DEF Cancel, TypeOK
<1>2. /\ s \in Sessions /\ l \in LockIds /\ l = locks[s] /\ l # NoLock /\ q \in Seq(Requests)
      /\ \A i, j \in 1..Len(q) : q[i] = q[j] => i = j
      /\ Line[s] = Keep(q, X)
      /\ \A t \in Sessions \ {s} : locks[t] # NoLock => locks[t] # l
      /\ \A k \in LockIds \ {l} : \A i \in 1..Len(waiters[k]) : waiters[k][i] # r
  BY <1>1, PlaceInLine
<1>3. PICK i \in 1..Len(q) : q[i] = r
  BY <1>1, PlaceInLine
<1>4. r \in X /\ r \notin Z /\ \A p \in Requests \ {r} : p \in X <=> p \in Z
  BY <1>1 DEF LiveWaiters
<1>5. Line'[s] = Keep(q, Z)
  BY <1>1, <1>2 DEF Line
<1>6. RemoveAt(q, i) \in Seq(Requests) /\ \A j \in 1..Len(RemoveAt(q, i)) : RemoveAt(q, i)[j] # r
  <2>1. /\ q \in Seq(Requests) /\ i \in 1..Len(q) /\ q[i] = r
        /\ \A j, k \in 1..Len(q) : q[j] = q[k] => j = k
    BY <1>2, <1>3
  <2> HIDE DEF q
  <2> QED
    BY <2>1, RemovedGone
<1>7. Keep(RemoveAt(q, i), Z) = Keep(RemoveAt(q, i), X)
  <2> DEFINE p == RemoveAt(q, i)
  <2>1. p \in Seq(Requests) /\ \A j \in 1..Len(p) : p[j] \in Z <=> p[j] \in X
    BY <1>4, <1>6, ElementOfSeq
  <2> HIDE DEF p, X, Z
  <2> QED
    BY <2>1, KeepSame DEF p
<1>8. Keep(RemoveAt(q, i), Z) = Keep(q, Z)
  <2>1. q \in Seq(Requests) /\ i \in 1..Len(q) /\ q[i] \notin Z
    BY <1>2, <1>3, <1>4
  <2> HIDE DEF q, Z
  <2> QED
    BY <2>1, KeepRemoved
<1>9. PICK n \in 1..Len(Keep(q, X)) :
        Keep(q, X)[n] = q[i] /\ Keep(RemoveAt(q, i), X) = RemoveAt(Keep(q, X), n) /\ (i = 1 => n = 1)
  <2>1. q \in Seq(Requests) /\ i \in 1..Len(q) /\ q[i] \in X
    BY <1>2, <1>3, <1>4
  <2> HIDE DEF q, X
  <2> QED
    BY <2>1, KeepTaken
<1>10. n \in DOMAIN Line[s] /\ Line[s][n] = r /\ Line'[s] = RemoveAt(Line[s], n)
  <2>1. Keep(q, X) \in Seq(Requests \cap X)
    BY <1>2, KeepType
  <2>2. n \in DOMAIN Keep(q, X)
    BY <1>9, <2>1, LenProperties
  <2> QED
    BY <1>2, <1>3, <1>5, <1>7, <1>8, <1>9, <2>2
<1>11. \A t \in Sessions \ {s} : Line'[t] = Line[t]
  <2> SUFFICES ASSUME NEW t \in Sessions \ {s} PROVE Line'[t] = Line[t]
    OBVIOUS
  <2>1. locks'[t] = locks[t]
    BY <1>1
  <2>2. ASSUME locks[t] # NoLock
        PROVE  /\ waiters'[locks[t]] = waiters[locks[t]]
               /\ \A j \in 1..Len(waiters[locks[t]]) :
                     waiters[locks[t]][j] \in LiveWaiters <=> waiters[locks[t]][j] \in LiveWaiters'
    <3>1. locks[t] \in LockIds /\ locks[t] # l /\ waiters[locks[t]] \in Seq(Requests)
      BY <1>2, <1>t, <2>2 DEF TypeOK
    <3> QED
      BY <1>1, <1>2, <1>4, <3>1, ElementOfSeq
  <2> QED
    BY <1>t, <2>1, <2>2, LineSame
<1>12. Line' = [Line EXCEPT ![s] = RemoveAt(Line[s], n)]
  <2> HIDE DEF s
  <2> QED
    BY <1>2, <1>10, <1>11, MapsAreMaps, PointChanged
<1>13. UNCHANGED Holder
  <2>1. \A t \in Sessions : Inside(t)' = Inside(t)
    BY <1>1 DEF Inside, Holding
  <2> QED
    BY <2>1, HolderSame, MapsAreMaps
<1>14. Mutex!RemoveAt(Line[s], n) = RemoveAt(Line[s], n)
  BY DEF RemoveAt, Mutex!RemoveAt
<1> HIDE DEF s
<1> QED
  BY <1>2, <1>10, <1>12, <1>13, <1>14 DEF Mutex!Leave

\* Waking a waiter does not change who is alive.
LEMMA WakeFirstLive ==
  ASSUME NEW q \in Seq(Requests), NEW f \in [Requests -> FutureStates], NEW r \in Requests
  PROVE  WakeFirst(q, f)[r] \in {"pending", "woken"} <=> f[r] \in {"pending", "woken"}
BY WakeFirstFacts

LEMMA AbandonImplements ==
  ASSUME MapInv, NEW r \in Requests, Abandon(r)
  PROVE  UNCHANGED <<Holder, Line>>
<1> DEFINE s == sess[r]
           l == mine[r]
           q == waiters[l]
           X == LiveWaiters
           Z == LiveWaiters'
<1>t. TypeOK
  BY DEF MapInv, QueueInv
<1>1. /\ pc[r] = "waiting" /\ fut[r] \in {"cancelled", "doomed"}
      /\ pc' = [pc EXCEPT ![r] = "idle"]
      /\ UNCHANGED <<locks, sess, mine>>
  BY DEF Abandon
<1>2. /\ s \in Sessions /\ l \in LockIds /\ l = locks[s] /\ l # NoLock /\ q \in Seq(Requests)
      /\ DOMAIN q = 1..Len(q)
      /\ \A i, j \in 1..Len(q) : q[i] = q[j] => i = j
      /\ Line[s] = Keep(q, X)
      /\ \A t \in Sessions \ {s} : locks[t] # NoLock => locks[t] # l
      /\ \A k \in LockIds \ {l} : \A i \in 1..Len(waiters[k]) : waiters[k][i] # r
  BY <1>1, PlaceInLine
<1>3. PICK i \in 1..Len(q) :
        /\ q[i] = r
        /\ waiters' = [waiters EXCEPT ![l] = RemoveAt(q, i)]
        /\ fut' = IF l \in locked THEN [fut EXCEPT ![r] = "none"]
                  ELSE WakeFirst(RemoveAt(q, i), [fut EXCEPT ![r] = "none"])
  BY <1>2 DEF Abandon
<1>4. RemoveAt(q, i) \in Seq(Requests) /\ \A j \in 1..Len(RemoveAt(q, i)) : RemoveAt(q, i)[j] # r
  <2>1. /\ q \in Seq(Requests) /\ i \in 1..Len(q) /\ q[i] = r
        /\ \A j, k \in 1..Len(q) : q[j] = q[k] => j = k
    BY <1>2, <1>3
  <2> HIDE DEF q
  <2> QED
    BY <2>1, RemovedGone
<1>5. r \notin X /\ \A p \in Requests \ {r} : p \in X <=> p \in Z
  <2> DEFINE f == [fut EXCEPT ![r] = "none"]
  <2>1. f \in [Requests -> FutureStates] /\ \A p \in Requests \ {r} : f[p] = fut[p]
    BY <1>t DEF TypeOK, FutureStates
  <2>2. fut' = f \/ fut' = WakeFirst(RemoveAt(q, i), f)
    BY <1>3
  <2> HIDE DEF f, q
  <2>3. \A p \in Requests : fut'[p] \in {"pending", "woken"} <=> f[p] \in {"pending", "woken"}
    BY <1>4, <2>1, <2>2, WakeFirstLive
  <2> QED
    BY <1>1, <2>1, <2>3 DEF LiveWaiters
<1>6. Line'[s] = Keep(RemoveAt(q, i), Z)
  <2>1. waiters'[l] = RemoveAt(q, i)
    BY <1>2, <1>3, <1>t DEF TypeOK
  <2> QED
    BY <1>1, <1>2, <2>1 DEF Line
<1>7. Keep(RemoveAt(q, i), Z) = Keep(RemoveAt(q, i), X)
  <2> DEFINE p == RemoveAt(q, i)
  <2>1. p \in Seq(Requests) /\ \A j \in 1..Len(p) : p[j] \in Z <=> p[j] \in X
    BY <1>4, <1>5, ElementOfSeq
  <2> HIDE DEF p, X, Z
  <2> QED
    BY <2>1, KeepSame DEF p
<1>8. Keep(RemoveAt(q, i), X) = Keep(q, X)
  <2>1. q \in Seq(Requests) /\ i \in 1..Len(q) /\ q[i] \notin X
    BY <1>2, <1>3, <1>5
  <2> HIDE DEF q, X
  <2> QED
    BY <2>1, KeepRemoved
<1>9. \A t \in Sessions \ {s} : Line'[t] = Line[t]
  <2> SUFFICES ASSUME NEW t \in Sessions \ {s} PROVE Line'[t] = Line[t]
    OBVIOUS
  <2>1. locks'[t] = locks[t]
    BY <1>1
  <2>2. ASSUME locks[t] # NoLock
        PROVE  /\ waiters'[locks[t]] = waiters[locks[t]]
               /\ \A j \in 1..Len(waiters[locks[t]]) :
                     waiters[locks[t]][j] \in LiveWaiters <=> waiters[locks[t]][j] \in LiveWaiters'
    <3>1. locks[t] \in LockIds /\ locks[t] # l /\ waiters[locks[t]] \in Seq(Requests)
      BY <1>2, <1>t, <2>2 DEF TypeOK
    <3>2. waiters'[locks[t]] = waiters[locks[t]]
      BY <1>3, <1>t, <3>1 DEF TypeOK
    <3> QED
      BY <1>2, <1>5, <3>1, <3>2, ElementOfSeq
  <2> QED
    BY <1>t, <2>1, <2>2, LineSame
<1>10. Line'[s] = Line[s]
  BY <1>2, <1>6, <1>7, <1>8
<1>11. UNCHANGED Line
  BY <1>9, <1>10, MapsAreMaps
<1>12. UNCHANGED Holder
  <2>1. \A t \in Sessions : Inside(t)' = Inside(t)
    BY <1>1, <1>t DEF Inside, Holding, TypeOK
  <2> QED
    BY <2>1, HolderSame, MapsAreMaps
<1> QED
  BY <1>11, <1>12

LEMMA ReleaseImplements ==
  ASSUME MapInv, NEW r \in Requests, Release(r)
  PROVE  \E s \in Sessions : Mutex!Exit(s)
<1> DEFINE s == sess[r]
<1>t. TypeOK
  BY DEF MapInv, QueueInv
<1>1. /\ pc[r] = "holding" /\ pc' = [pc EXCEPT ![r] = "idle"]
      /\ fut' = WakeFirst(waiters[mine[r]], fut)
      /\ UNCHANGED <<locks, waiters, sess, mine>>
  BY DEF Release
<1>2. s \in Sessions /\ mine[r] \in LockIds /\ waiters[mine[r]] \in Seq(Requests)
  BY <1>1, <1>t DEF MapInv, QueueInv, OnLock, TypeOK
<1>3. \A p \in Requests : p \in LiveWaiters' <=> p \in LiveWaiters
  BY <1>1, <1>2, <1>t, WakeFirstLive DEF LiveWaiters, TypeOK
<1>4. UNCHANGED Line
  <2>1. LiveWaiters' = LiveWaiters
    BY <1>3 DEF LiveWaiters
  <2> QED
    BY <1>1, <2>1 DEF Line
<1>5. Inside(s) = {r} /\ Holder[s] = r
  BY <1>1, <1>2, HolderInside DEF Holding
<1>6. Inside(s)' = {} /\ Holder'[s] = NoRequest
  <2>1. Inside(s)' = {}
    <3>1. \A p \in Requests : Holding(p) /\ sess[p] = s => p = r
      BY <1>5 DEF Inside
    <3> QED
      BY <1>1, <1>t, <3>1 DEF Inside, Holding, TypeOK
  <2>2. sess'[r] = sess[r]
    BY <1>1
  <2>3. Holder'[sess'[r]] = NoRequest
    BY <1>2, <2>1, <2>2 DEF Holder
  <2> QED
    BY <2>1, <2>2, <2>3
<1>7. \A t \in Sessions \ {s} : Holder'[t] = Holder[t]
  <2> SUFFICES ASSUME NEW t \in Sessions \ {s} PROVE Inside(t)' = Inside(t)
    BY HolderSame
  <2> QED
    BY <1>1, <1>t DEF Inside, Holding, TypeOK
<1>8. Holder' = [Holder EXCEPT ![s] = NoRequest]
  <2> HIDE DEF s
  <2> QED
    BY <1>2, <1>6, <1>7, MapsAreMaps, PointChanged
<1> QED
  BY <1>2, <1>4, <1>5, <1>8, SessionLockAssumption DEF Mutex!Exit

\* A step of the manager is one of the mutex, or none.
LEMMA NextImplements == MapInv /\ [Next]_vars => [Mutex!MutexNext]_<<Holder, Line>>
<1> SUFFICES ASSUME MapInv, [Next]_vars PROVE Mutex!MutexNext \/ UNCHANGED <<Holder, Line>>
  OBVIOUS
<1>1. ASSUME NEW r \in Requests, NEW s \in Sessions, Enter(r, s) PROVE Mutex!MutexNext
  BY <1>1, EnterImplements DEF Mutex!MutexNext
<1>2. ASSUME NEW r \in Requests, Resume(r) PROVE Mutex!MutexNext
  BY <1>2, ResumeImplements DEF Mutex!MutexNext
<1>3. ASSUME NEW r \in Requests, Cancel(r) PROVE Mutex!MutexNext
  BY <1>3, CancelImplements DEF Mutex!MutexNext
<1>4. ASSUME NEW r \in Requests, Abandon(r) PROVE UNCHANGED <<Holder, Line>>
  BY <1>4, AbandonImplements
<1>5. ASSUME NEW r \in Requests, Release(r) PROVE Mutex!MutexNext
  BY <1>5, ReleaseImplements DEF Mutex!MutexNext
<1>6. CASE UNCHANGED vars
  BY <1>6 DEF vars, Holder, Line, Inside, Holding, LiveWaiters
<1> QED
  BY <1>1, <1>2, <1>3, <1>4, <1>5, <1>6 DEF Next

\* SessionLockManager implements the first-come-first-served mutex of SessionMutex:
\* requests of a session enter its protected block one at a time, in the order in
\* which they asked, whoever is cancelled while waiting or just after being woken.
THEOREM ManagerIsAMutex == Spec => ImplementsMutex
<1>1. Init => Mutex!MutexInit
  <2> SUFFICES ASSUME Init PROVE Mutex!MutexInit
    OBVIOUS
  <2>1. \A s \in Sessions : Inside(s) = {} /\ locks[s] = NoLock
    BY DEF Init, Inside, Holding
  <2> QED
    BY <2>1 DEF Mutex!MutexInit, Holder, Line
<1>2. MapInv /\ [Next]_vars => [Mutex!MutexNext]_(Mutex!mutexVars)
  BY NextImplements DEF Mutex!mutexVars
<1> QED
  BY <1>1, <1>2, MapHolds, PTL DEF Spec, ImplementsMutex, Mutex!MutexSpec
=============================================================================
