----------------------------- MODULE SequenceFilter -----------------------------
(***************************************************************************)
(* SelectSeq for a set instead of a test, written as a recursive function: *)
(* the proofs about waiting lines need its definition.                     *)
(***************************************************************************)
EXTENDS Naturals, Sequences

\* What q holds of X, in the order of q.
Keep(q, X) ==
  LET kept[i \in 0..Len(q)] ==
        IF i = 0 THEN <<>>
        ELSE IF q[i] \in X THEN Append(kept[i - 1], q[i])
        ELSE kept[i - 1]
  IN  kept[Len(q)]
=============================================================================
