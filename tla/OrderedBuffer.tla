--------------------------- MODULE OrderedBuffer ---------------------------
(***************************************************************************)
(* The resequencing buffer of exo/utils/event_buffer.py: events arrive     *)
(* with an index in any order and any number of times, and leave in index  *)
(* order, each once.  A buffer is a record                                 *)
(*    next  - next_idx_to_release                                          *)
(*    store - the dict from the indices held back to their events          *)
(***************************************************************************)
EXTENDS Integers, FiniteSets, Sequences

EmptyBuffer == [next |-> 0, store |-> << >>]

IsBuffer(b, T) ==
  /\ b = [next |-> b.next, store |-> [i \in DOMAIN b.store |-> b.store[i]]]
  /\ b.next \in Nat
  /\ DOMAIN b.store \subseteq Nat
  /\ IsFiniteSet(DOMAIN b.store)
  /\ \A i \in DOMAIN b.store : b.store[i] \in T

(* The assertion of ingest: an index that is already held back carries the *)
(* event that is already there.                                            *)
IngestAsserts(b, idx, t) ==
  idx >= b.next /\ idx \in DOMAIN b.store => b.store[idx] = t

(* An index below next, or one that is held back already, is ignored.      *)
Ingest(b, idx, t) ==
  IF idx < b.next \/ idx \in DOMAIN b.store
  THEN b
  ELSE [next  |-> b.next,
        store |-> [i \in DOMAIN b.store \cup {idx} |->
                     IF i = idx THEN t ELSE b.store[i]]]

(* The index at which the loop of drain and drain_indexed stops: the first *)
(* one, from next on, that the store does not hold.                        *)
FirstGap(b) ==
  CHOOSE m \in b.next .. (b.next + Cardinality(DOMAIN b.store)) :
    /\ m \notin DOMAIN b.store
    /\ \A k \in b.next .. (m - 1) : k \in DOMAIN b.store

\* Mutant: the drained events come out last index first.
ReleasedReversed(b) ==
  [i \in 1 .. (FirstGap(b) - b.next) |-> b.store[FirstGap(b) - i]]

(* What drain returns, in index order, and the buffer it leaves behind.    *)
Released(b) ==
  [i \in 1 .. (FirstGap(b) - b.next) |-> b.store[b.next + i - 1]]

Drain(b) ==
  [next  |-> FirstGap(b),
   store |-> [i \in DOMAIN b.store \ (b.next .. (FirstGap(b) - 1)) |-> b.store[i]]]
=============================================================================
