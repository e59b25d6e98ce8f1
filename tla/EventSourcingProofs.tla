------------------------ MODULE EventSourcingProofs ------------------------
(***************************************************************************)
(* Proofs about OrderedBuffer, for any buffer, about EventSourcing, for    *)
(* any set of nodes, any senders, any number of events and any losses,     *)
(* retries and reorderings, and about DiskEventLog, for any sessions and   *)
(* records, caches and archives of any size.                               *)
(***************************************************************************)
EXTENDS EventSourcing, DiskEventLog, FiniteSetTheorems, FunctionTheorems, WellFoundedInduction, TLAPS

-----------------------------------------------------------------------------
(* What ingest and drain do.                                               *)

(* The loop of drain ends, and it ends at the first index from next on     *)
(* that the buffer does not hold.                                          *)
LEMMA FirstGapExists ==
  ASSUME NEW T, NEW b, IsBuffer(b, T)
  PROVE  /\ FirstGap(b) \in Nat
         /\ FirstGap(b) >= b.next
         /\ FirstGap(b) \notin DOMAIN b.store
         /\ \A k \in b.next .. (FirstGap(b) - 1) : k \in DOMAIN b.store
<1> DEFINE D == DOMAIN b.store
           c == Cardinality(D)
           I == b.next .. (b.next + c)
           G == {m \in I : m \notin D}
<1>1. b.next \in Nat /\ D \subseteq Nat /\ IsFiniteSet(D)
  BY DEF IsBuffer
<1>2. c \in Nat
  BY <1>1, FS_CardinalityType
<1>3. IsFiniteSet(I) /\ Cardinality(I) = c + 1
  <2> DEFINE hi == b.next + c
  <2>1. b.next \in Int /\ hi \in Int /\ ~(b.next > hi) /\ hi - b.next + 1 = c + 1
    BY <1>1, <1>2
  <2> HIDE DEF hi, c
  <2>2. IsFiniteSet(b.next .. hi) /\ Cardinality(b.next .. hi) = hi - b.next + 1
    BY <2>1, FS_Interval
  <2> QED BY <2>1, <2>2 DEF hi
<1>4. ~(I \subseteq D)
  <2> SUFFICES ASSUME I \subseteq D PROVE FALSE
    OBVIOUS
  <2>1. Cardinality(I) <= c
    BY <1>1, FS_Subset
  <2> QED BY <2>1, <1>2, <1>3
<1>5. G # {} /\ G \subseteq Nat
  BY <1>1, <1>2, <1>4
<1>6. PICK m \in G : \A k \in G : ~(<<k, m>> \in OpToRel(<, Nat))
  BY <1>5, NatLessThanWellFounded, WFMin
<1>7. \A k \in b.next .. (m - 1) : k \in D
  <2> SUFFICES ASSUME NEW k \in b.next .. (m - 1), k \notin D PROVE FALSE
    OBVIOUS
  <2>1. k \in G /\ k \in Nat /\ m \in Nat /\ k < m
    BY <1>1, <1>2
  <2>2. <<k, m>> \in OpToRel(<, Nat)
    BY <2>1 DEF OpToRel
  <2> QED BY <2>1, <2>2, <1>6
<1>8. m \in I /\ m \notin D
  OBVIOUS
<1>9. /\ FirstGap(b) \in I
      /\ FirstGap(b) \notin D
      /\ \A k \in b.next .. (FirstGap(b) - 1) : k \in D
  BY <1>7, <1>8 DEF FirstGap
<1> QED BY <1>1, <1>2, <1>9

(* Ingest keeps next and what is held back, and adds at most the event it  *)
(* is given.                                                               *)
LEMMA IngestType ==
  ASSUME NEW T, NEW b, IsBuffer(b, T), NEW idx \in Nat, NEW t \in T
  PROVE  /\ IsBuffer(Ingest(b, idx, t), T)
         /\ Ingest(b, idx, t).next = b.next
         /\ DOMAIN b.store \subseteq DOMAIN Ingest(b, idx, t).store
         /\ DOMAIN Ingest(b, idx, t).store \subseteq DOMAIN b.store \cup {idx}
         /\ \A i \in DOMAIN Ingest(b, idx, t).store :
              Ingest(b, idx, t).store[i] = IF i \in DOMAIN b.store THEN b.store[i] ELSE t
<1>1. CASE idx < b.next \/ idx \in DOMAIN b.store
  BY <1>1 DEF Ingest
<1>2. CASE ~(idx < b.next \/ idx \in DOMAIN b.store)
  <2> DEFINE r == Ingest(b, idx, t)
             st == [i \in DOMAIN b.store \cup {idx} |-> IF i = idx THEN t ELSE b.store[i]]
  <2>1. r = [next |-> b.next, store |-> st]
    BY <1>2 DEF Ingest
  <2>2. r.next = b.next /\ r.store = st /\ DOMAIN st = DOMAIN b.store \cup {idx}
    BY <2>1
  <2>3. IsFiniteSet(DOMAIN st)
    BY <2>2, FS_AddElement DEF IsBuffer
  <2>4. \A i \in DOMAIN st : st[i] \in T /\ st[i] = IF i \in DOMAIN b.store THEN b.store[i] ELSE t
    BY <1>2 DEF IsBuffer
  <2>5. st = [i \in DOMAIN st |-> st[i]] /\ DOMAIN st \subseteq Nat /\ b.next \in Nat
    BY DEF IsBuffer
  <2> HIDE DEF st
  <2> QED BY <2>1, <2>2, <2>3, <2>4, <2>5 DEF IsBuffer
<1> QED BY <1>1, <1>2

(* Drain releases a run of events that starts at next and leaves the rest. *)
LEMMA DrainType ==
  ASSUME NEW T, NEW b, IsBuffer(b, T)
  PROVE  /\ IsBuffer(Drain(b), T)
         /\ Released(b) \in Seq(T)
         /\ Len(Released(b)) = FirstGap(b) - b.next
         /\ Drain(b).next = b.next + Len(Released(b))
         /\ \A i \in DOMAIN Drain(b).store :
              i \in DOMAIN b.store /\ Drain(b).store[i] = b.store[i]
         /\ \A i \in 1 .. Len(Released(b)) :
              /\ b.next + i - 1 \in DOMAIN b.store
              /\ Released(b)[i] = b.store[b.next + i - 1]
<1> DEFINE g  == FirstGap(b)
           st == [i \in DOMAIN b.store \ (b.next .. (g - 1)) |-> b.store[i]]
<1>1. b.next \in Nat /\ DOMAIN b.store \subseteq Nat /\ IsFiniteSet(DOMAIN b.store)
  BY DEF IsBuffer
<1>2. g \in Nat /\ g >= b.next /\ \A k \in b.next .. (g - 1) : k \in DOMAIN b.store
  BY FirstGapExists
<1>3. Drain(b) = [next |-> g, store |-> st]
  BY DEF Drain
<1>4. IsFiniteSet(DOMAIN st)
  <2>1. DOMAIN st \in SUBSET DOMAIN b.store
    OBVIOUS
  <2> QED BY <2>1, <1>1, FS_Subset
<1>5. \A i \in DOMAIN st : i \in DOMAIN b.store /\ st[i] = b.store[i] /\ st[i] \in T
  BY DEF IsBuffer
<1>6. \A i \in 1 .. (g - b.next) : b.next + i - 1 \in DOMAIN b.store
  BY <1>1, <1>2
<1>7. /\ Released(b) \in Seq(T)
      /\ Len(Released(b)) = g - b.next
      /\ \A i \in 1 .. (g - b.next) : Released(b)[i] = b.store[b.next + i - 1]
  <2>1. \A i \in 1 .. (g - b.next) : b.store[b.next + i - 1] \in T
    BY <1>6 DEF IsBuffer
  <2>2. g - b.next \in Nat
    BY <1>1, <1>2
  <2> HIDE DEF g
  <2>3. Released(b) = [i \in 1 .. (g - b.next) |-> b.store[b.next + i - 1]]
    BY DEF Released, g
  <2> QED BY <2>1, <2>2, <2>3
<1>8. IsBuffer(Drain(b), T)
  <2> HIDE DEF g
  <2>1. st = [i \in DOMAIN st |-> st[i]] /\ DOMAIN st \subseteq Nat
    BY <1>1
  <2> HIDE DEF st
  <2> QED BY <1>2, <1>3, <1>4, <1>5, <2>1 DEF IsBuffer
<1> HIDE DEF g, st
<1>9. Drain(b).next = b.next + (g - b.next)
  BY <1>1, <1>2, <1>3
<1> QED BY <1>3, <1>5, <1>6, <1>7, <1>8, <1>9 DEF g
-----------------------------------------------------------------------------
(* The master's filter of a drained run of events.                         *)

(* The members of a finite set of numbers can be counted off in order.     *)
LEMMA NthCounts ==
  ASSUME NEW K \in SUBSET Nat, IsFiniteSet(K)
  PROVE  /\ Cardinality(K) \in Nat
         /\ \A k \in 1 .. Cardinality(K) : Nth(K, k) \in K
         /\ \A k, l \in 1 .. Cardinality(K) : k < l => Nth(K, k) < Nth(K, l)
         /\ \A j \in K : \E k \in 1 .. Cardinality(K) : Nth(K, k) = j
<1> DEFINE upto(j) == {i \in K : i <= j}
           c == Cardinality(K)
           rank == [j \in K |-> Cardinality(upto(j))]
<1>1. c \in Nat
  BY FS_CardinalityType
<1>2. \A j \in K : IsFiniteSet(upto(j)) /\ Cardinality(upto(j)) \in 1 .. c
  <2> SUFFICES ASSUME NEW j \in K
               PROVE  IsFiniteSet(upto(j)) /\ Cardinality(upto(j)) \in 1 .. c
    OBVIOUS
  <2>1. upto(j) \in SUBSET K /\ j \in upto(j)
    OBVIOUS
  <2>2. IsFiniteSet(upto(j)) /\ Cardinality(upto(j)) <= c
    BY <2>1, FS_Subset
  <2>3. Cardinality(upto(j)) \in Nat /\ Cardinality(upto(j)) # 0
    BY <2>1, <2>2, FS_CardinalityType, FS_EmptySet
  <2> QED BY <1>1, <2>2, <2>3
<1>3. \A i, j \in K : i < j => Cardinality(upto(i)) < Cardinality(upto(j))
  <2> SUFFICES ASSUME NEW i \in K, NEW j \in K, i < j
               PROVE  Cardinality(upto(i)) < Cardinality(upto(j))
    OBVIOUS
  <2>1. upto(i) \in SUBSET upto(j)
    <3> SUFFICES ASSUME NEW x \in upto(i) PROVE x \in upto(j)
      OBVIOUS
    <3>1. x \in Nat /\ i \in Nat /\ j \in Nat /\ x \in K /\ x <= i
      OBVIOUS
    <3> QED BY <3>1
  <2>2. j \in upto(j) /\ j \notin upto(i)
    OBVIOUS
  <2>3. upto(i) # upto(j)
    BY <2>2
  <2>4. Cardinality(upto(i)) <= Cardinality(upto(j)) /\ Cardinality(upto(i)) # Cardinality(upto(j))
    BY <1>2, <2>1, <2>3, FS_Subset
  <2> QED BY <2>4, <1>2, <1>1
<1>4. rank \in Injection(K, 1 .. c)
  <2>1. rank \in [K -> 1 .. c]
    BY <1>2
  <2>2. \A i, j \in K : rank[i] = rank[j] => i = j
    <3> SUFFICES ASSUME NEW i \in K, NEW j \in K, i # j PROVE rank[i] # rank[j]
      OBVIOUS
    <3>1. i < j \/ j < i
      OBVIOUS
    <3> QED BY <3>1, <1>1, <1>2, <1>3
  <2> HIDE DEF rank
  <2> QED BY <2>1, <2>2, Fun_IsInj
<1>5. rank \in Surjection(K, 1 .. c)
  <2>1. IsFiniteSet(1 .. c) /\ Cardinality(1 .. c) = c
    <3>1. IsFiniteSet(1 .. c) /\ Cardinality(1 .. c) = IF 1 > c THEN 0 ELSE c - 1 + 1
      BY <1>1, FS_Interval
    <3> QED BY <3>1, <1>1
  <2> HIDE DEF rank
  <2> QED BY <2>1, <1>4, FS_Injection
<1>6. \A k \in 1 .. c : \E j \in K : rank[j] = k
  <2> HIDE DEF rank
  <2> QED BY <1>5, Fun_SurjectionProperties
<1>7. \A k \in 1 .. c : Nth(K, k) \in K /\ Cardinality(upto(Nth(K, k))) = k
  BY <1>6 DEF Nth
<1>8. \A k, l \in 1 .. c : k < l => Nth(K, k) < Nth(K, l)
  <2> SUFFICES ASSUME NEW k \in 1 .. c, NEW l \in 1 .. c, k < l, ~(Nth(K, k) < Nth(K, l))
               PROVE  FALSE
    OBVIOUS
  <2>1. Nth(K, k) \in K /\ Nth(K, l) \in K
    BY <1>7
  <2> DEFINE x == Nth(K, k)
             y == Nth(K, l)
  <2>2. x = y \/ y < x
    <3>1. x \in Nat /\ y \in Nat /\ ~(x < y)
      BY <2>1
    <3> HIDE DEF x, y
    <3> QED BY <3>1
  <2>3. k = l \/ l < k
    BY <2>1, <2>2, <1>3, <1>7
  <2> QED BY <2>3, <1>1
<1>9. \A j \in K : \E k \in 1 .. c : Nth(K, k) = j
  <2> SUFFICES ASSUME NEW j \in K PROVE \E k \in 1 .. c : Nth(K, k) = j
    OBVIOUS
  <2> DEFINE k == Cardinality(upto(j))
  <2>1. k \in 1 .. c
    BY <1>2
  <2>2. Nth(K, k) \in K /\ rank[Nth(K, k)] = rank[j]
    BY <2>1, <1>7
  <2>3. Nth(K, k) = j
    <3> HIDE DEF rank, k
    <3> QED BY <2>2, <1>4, Fun_InjectionProperties
  <2> QED BY <2>1, <2>3
<1> QED BY <1>1, <1>7, <1>8, <1>9

(* Dropping the traces keeps the order of the rest and loses none of them. *)
LEMMA IndexedKeepsOrder ==
  ASSUME NEW q \in Seq(Event)
  PROVE  /\ Indexed(q) \in Seq(Event)
         /\ \E f \in [1 .. Len(Indexed(q)) -> 1 .. Len(q)] :
              /\ \A k \in 1 .. Len(Indexed(q)) :
                   Indexed(q)[k] = q[f[k]] /\ q[f[k]] \notin Trace
              /\ \A k, l \in 1 .. Len(Indexed(q)) : k < l => f[k] < f[l]
              /\ \A i \in 1 .. Len(q) : q[i] \notin Trace =>
                   \E k \in 1 .. Len(Indexed(q)) : f[k] = i
<1> DEFINE K == {i \in 1 .. Len(q) : q[i] \notin Trace}
           c == Cardinality(K)
           f == [k \in 1 .. c |-> Nth(K, k)]
<1>1. K \in SUBSET Nat /\ IsFiniteSet(K)
  <2>1. Len(q) \in Nat /\ K \in SUBSET (1 .. Len(q))
    OBVIOUS
  <2>2. IsFiniteSet(1 .. Len(q))
    BY <2>1, FS_Interval
  <2> QED BY <2>1, <2>2, FS_Subset
<1>2. /\ c \in Nat
      /\ \A k \in 1 .. c : Nth(K, k) \in K
      /\ \A k, l \in 1 .. c : k < l => Nth(K, k) < Nth(K, l)
      /\ \A j \in K : \E k \in 1 .. c : Nth(K, k) = j
  <2> HIDE DEF K
  <2> QED BY <1>1, NthCounts
<1>3. Indexed(q) = [k \in 1 .. c |-> q[Nth(K, k)]]
  BY DEF Indexed
<1>4. \A i \in K : i \in 1 .. Len(q) /\ q[i] \notin Trace /\ q[i] \in Event
  OBVIOUS
<1>5. \A i \in 1 .. Len(q) : q[i] \notin Trace => i \in K
  OBVIOUS
<1> HIDE DEF K, c
<1>6. Indexed(q) \in Seq(Event) /\ Len(Indexed(q)) = c
  BY <1>2, <1>3, <1>4
<1>7. f \in [1 .. c -> 1 .. Len(q)]
  BY <1>2, <1>4
<1>8. /\ \A k \in 1 .. c : Indexed(q)[k] = q[f[k]] /\ q[f[k]] \notin Trace
      /\ \A k, l \in 1 .. c : k < l => f[k] < f[l]
      /\ \A i \in 1 .. Len(q) : q[i] \notin Trace => \E k \in 1 .. c : f[k] = i
  BY <1>2, <1>3, <1>4, <1>5
<1> HIDE DEF f
<1> QED BY <1>6, <1>7, <1>8

-----------------------------------------------------------------------------
(* The inductive invariant.                                                *)

(* Local events carry the number their sender gave them, wherever they     *)
(* are, and only written events are anywhere.                              *)
SenderInv ==
  /\ \A m \in toMaster : m.event = <<m.origin, m.idx>> /\ m.idx < emitted[m.origin]
  /\ \A n \in Node : \A e \in outForDelivery[n] : e[2] < emitted[e[1]]
  /\ \A s \in Source :
       /\ stores[s].next <= emitted[s]
       /\ \A i \in DOMAIN stores[s].store :
            stores[s].store[i] = <<s, i>> /\ i < emitted[s]

(* The log holds the released events of every sender that are no traces,   *)
(* each sender's in order.                                                 *)
LogInv ==
  /\ \A i \in 1 .. Len(log) : log[i][2] < stores[log[i][1]].next /\ log[i] \notin Trace
  /\ RL!InSenderOrder(log)
  /\ \A s \in Source : \A k \in 0 .. (stores[s].next - 1) :
       <<s, k>> \notin Trace => \E i \in 1 .. Len(log) : log[i] = <<s, k>>

(* A global event, in flight or held back, is the log entry at its index.  *)
NetInv ==
  \A n \in Node : \A m \in toNode[n] : m.idx < Len(log) /\ m.event = log[m.idx + 1]

ReplicaInv ==
  \A n \in Node :
    /\ \A i \in DOMAIN buf[n].store : i < Len(log) /\ buf[n].store[i] = log[i + 1]
    /\ buf[n].next = Len(delivered[n])
    /\ Len(delivered[n]) <= Len(log)
    /\ \A i \in 1 .. Len(delivered[n]) : delivered[n][i] = log[i]

(* An event leaves the retry list only after it joined the log.            *)
RetryInv ==
  \A s \in Source : \A k \in 0 .. (emitted[s] - 1) :
    \/ <<s, k>> \in outForDelivery[Home[s]]
    \/ \E i \in 1 .. Len(log) : log[i] = <<s, k>>

IInv == TypeOK /\ SenderInv /\ LogInv /\ NetInv /\ ReplicaInv /\ RetryInv /\ NackIsCurrent

LEMMA InitIInv == Init => IInv
<1> SUFFICES ASSUME Init PROVE IInv
  OBVIOUS
<1>1. IsBuffer(EmptyBuffer, Event) /\ EmptyBuffer.next = 0 /\ DOMAIN EmptyBuffer.store = {}
  BY FS_EmptySet DEF IsBuffer, EmptyBuffer
<1>2. TypeOK
  BY <1>1 DEF Init, TypeOK, NoNack
<1>3. SenderInv /\ LogInv /\ NetInv /\ ReplicaInv /\ RetryInv /\ NackIsCurrent
  BY <1>1 DEF Init, SenderInv, LogInv, NetInv, ReplicaInv, RetryInv, NackIsCurrent, NoNack, RL!InSenderOrder
<1> QED BY <1>2, <1>3 DEF IInv

LEMMA EmitIInv ==
  ASSUME IInv, NEW s \in Source, Emit(s)
  PROVE  IInv'
<1> USE DEF IInv
<1> DEFINE e == <<s, emitted[s]>>
<1>1. e \in Event /\ emitted[s] \in Nat /\ emitted'[s] = emitted[s] + 1 /\ Home[s] \in Node
  BY NodeAssumption DEF TypeOK, Event, Emit
<1>2. \A t \in Source : emitted'[t] \in Nat /\ emitted'[t] >= emitted[t] /\ emitted[t] \in Nat
  BY <1>1 DEF TypeOK, Emit
<1>3. TypeOK'
  <2>0. emitted' \in [Source -> Nat]
    BY <1>1 DEF TypeOK, Emit
  <2>1. outForDelivery' \in [Node -> SUBSET Event]
    <3>1. outForDelivery' = [outForDelivery EXCEPT ![Home[s]] = @ \cup {e}]
      BY DEF Emit
    <3>2. outForDelivery \in [Node -> SUBSET Event]
      BY DEF TypeOK
    <3> HIDE DEF e
    <3> QED BY <3>1, <3>2, <1>1
  <2>2. LocalForwarderEvent(e) \in LocalMessage
    BY <1>1 DEF LocalForwarderEvent, LocalMessage
  <2>3. toMaster' \in SUBSET LocalMessage
    BY <2>2 DEF TypeOK, Emit
  <2> QED BY <2>0, <2>1, <2>3 DEF TypeOK, Emit
<1>4. SenderInv'
  <2>1. \A m \in toMaster' : m.event = <<m.origin, m.idx>> /\ m.idx < emitted'[m.origin]
    <3> SUFFICES ASSUME NEW m \in toMaster' PROVE m.event = <<m.origin, m.idx>> /\ m.idx < emitted'[m.origin]
      OBVIOUS
    <3>1. CASE m \in toMaster
      <4>1. m.origin \in Source /\ m.idx \in Nat
        BY <3>1 DEF TypeOK, LocalMessage
      <4> QED BY <3>1, <4>1, <1>2 DEF SenderInv
    <3>2. CASE m = LocalForwarderEvent(e)
      BY <3>2, <1>1 DEF LocalForwarderEvent
    <3> QED BY <3>1, <3>2 DEF Emit
  <2>2. \A n \in Node : \A x \in outForDelivery'[n] : x[2] < emitted'[x[1]]
    <3> SUFFICES ASSUME NEW n \in Node, NEW x \in outForDelivery'[n] PROVE x[2] < emitted'[x[1]]
      OBVIOUS
    <3>1. x \in outForDelivery[n] \/ x = e
      BY DEF Emit, TypeOK
    <3>2. x \in Event
      BY <3>1, <1>1 DEF TypeOK
    <3> QED BY <3>1, <3>2, <1>1, <1>2 DEF SenderInv, Event
  <2>3. \A t \in Source : stores'[t] = stores[t] /\ stores[t].next \in Nat /\ DOMAIN stores[t].store \subseteq Nat
    BY DEF Emit, TypeOK, IsBuffer
  <2>4. \A t \in Source :
          /\ stores'[t].next <= emitted'[t]
          /\ \A i \in DOMAIN stores'[t].store : stores'[t].store[i] = <<t, i>> /\ i < emitted'[t]
    <3> SUFFICES ASSUME NEW t \in Source
                 PROVE  /\ stores[t].next <= emitted'[t]
                        /\ \A i \in DOMAIN stores[t].store : stores[t].store[i] = <<t, i>> /\ i < emitted'[t]
      BY <2>3
    <3>1. stores[t].next <= emitted[t] /\ \A i \in DOMAIN stores[t].store : stores[t].store[i] = <<t, i>> /\ i < emitted[t]
      BY DEF SenderInv
    <3> QED BY <3>1, <2>3, <1>2
  <2> QED BY <2>1, <2>2, <2>4 DEF SenderInv
<1>5. LogInv' /\ NetInv' /\ ReplicaInv' /\ NackIsCurrent'
  BY DEF Emit, LogInv, NetInv, ReplicaInv, NackIsCurrent
<1>6. RetryInv'
  <2> SUFFICES ASSUME NEW t \in Source, NEW k \in 0 .. (emitted'[t] - 1)
               PROVE  \/ <<t, k>> \in outForDelivery'[Home[t]]
                      \/ \E i \in 1 .. Len(log) : log[i] = <<t, k>>
    BY DEF RetryInv, Emit
  <2>1. CASE k \in 0 .. (emitted[t] - 1)
    <3>1. Home[t] \in Node
      BY NodeAssumption
    <3> QED BY <2>1, <3>1 DEF RetryInv, Emit, TypeOK
  <2>2. CASE k \notin 0 .. (emitted[t] - 1)
    <3>1. t = s /\ k = emitted[s]
      BY <2>2, <1>1, <1>2 DEF Emit, TypeOK
    <3> QED BY <3>1, <1>1 DEF Emit, TypeOK
  <2> QED BY <2>1, <2>2
<1> QED BY <1>3, <1>4, <1>5, <1>6

LEMMA RetryIInv ==
  ASSUME IInv, NEW n \in Node, Retry(n)
  PROVE  IInv'
<1> USE DEF IInv
<1>1. PICK old \in SUBSET outForDelivery[n] : toMaster' = toMaster \cup {LocalForwarderEvent(e) : e \in old}
  BY DEF Retry
<1>2. \A e \in old : e \in Event /\ e[1] \in Source /\ e[2] \in Nat /\ e = <<e[1], e[2]>> /\ e[2] < emitted[e[1]]
  BY <1>1 DEF TypeOK, SenderInv, Event
<1>3. toMaster' \in SUBSET LocalMessage
  BY <1>1, <1>2 DEF TypeOK, LocalMessage, LocalForwarderEvent
<1>4. TypeOK'
  BY <1>3 DEF TypeOK, Retry
<1>5. \A m \in toMaster' : m.event = <<m.origin, m.idx>> /\ m.idx < emitted[m.origin]
  BY <1>1, <1>2 DEF SenderInv, LocalForwarderEvent
<1>6. SenderInv'
  BY <1>5 DEF SenderInv, Retry
<1>7. LogInv' /\ NetInv' /\ ReplicaInv' /\ NackIsCurrent' /\ RetryInv'
  BY DEF Retry, LogInv, NetInv, ReplicaInv, NackIsCurrent, RetryInv
<1> QED BY <1>4, <1>6, <1>7

LEMMA SendNackIInv ==
  ASSUME IInv, NEW n \in Node, SendNack(n)
  PROVE  IInv'
<1> USE DEF IInv
<1>1. TypeOK'
  BY DEF TypeOK, SendNack
<1>2. SenderInv' /\ LogInv' /\ NetInv' /\ ReplicaInv' /\ RetryInv'
  BY DEF SendNack, SenderInv, LogInv, NetInv, ReplicaInv, RetryInv
<1>3. NackIsCurrent'
  BY DEF SendNack, NackIsCurrent, TypeOK
<1> QED BY <1>1, <1>2, <1>3

(* The heart of the matter: what _run_ext_in hands on extends the prefix   *)
(* of the log that the node has already seen.                              *)
LEMMA ReceiveIInv ==
  ASSUME IInv, NEW n \in Node, NEW m \in toNode[n], Receive(n, m)
  PROVE  IInv'
<1> USE DEF IInv
<1> DEFINE b == Ingest(buf[n], m.idx, m.event)
           R == Released(b)
<1>1. m.idx \in Nat /\ m.event \in Event /\ m.idx < Len(log) /\ m.event = log[m.idx + 1]
  BY DEF TypeOK, GlobalMessage, NetInv
<1>2. log \in Seq(Event) /\ Len(log) \in Nat /\ delivered[n] \in Seq(Event) /\ Len(delivered[n]) \in Nat
  BY DEF TypeOK
<1>3. /\ IsBuffer(b, Event)
      /\ b.next = Len(delivered[n])
      /\ \A i \in DOMAIN b.store : i \in Nat /\ i < Len(log) /\ b.store[i] = log[i + 1]
  <2>1. IsBuffer(buf[n], Event)
    BY DEF TypeOK
  <2>2. /\ IsBuffer(b, Event)
        /\ b.next = buf[n].next
        /\ DOMAIN b.store \subseteq DOMAIN buf[n].store \cup {m.idx}
        /\ \A i \in DOMAIN b.store :
             b.store[i] = IF i \in DOMAIN buf[n].store THEN buf[n].store[i] ELSE m.event
    BY <2>1, <1>1, IngestType
  <2> HIDE DEF b
  <2>3. \A i \in DOMAIN b.store : i \in Nat
    BY <2>2 DEF IsBuffer
  <2> QED BY <2>2, <2>3, <1>1 DEF ReplicaInv
<1>4. /\ IsBuffer(Drain(b), Event)
      /\ R \in Seq(Event)
      /\ Len(R) \in Nat
      /\ Drain(b).next = b.next + Len(R)
      /\ \A i \in DOMAIN Drain(b).store :
           i \in DOMAIN b.store /\ Drain(b).store[i] = b.store[i]
      /\ \A i \in 1 .. Len(R) :
           /\ b.next + i - 1 \in DOMAIN b.store
           /\ R[i] = b.store[b.next + i - 1]
  <2> HIDE DEF b
  <2>0. IsBuffer(b, Event)
    BY <1>3
  <2>1. R \in Seq(Event)
    BY <2>0, DrainType
  <2>2. Len(R) \in Nat
    BY <2>1
  <2>3. IsBuffer(Drain(b), Event) /\ Drain(b).next = b.next + Len(R)
    BY <2>0, DrainType
  <2>4. \A i \in DOMAIN Drain(b).store :
          i \in DOMAIN b.store /\ Drain(b).store[i] = b.store[i]
    BY <2>0, DrainType
  <2>5. \A i \in 1 .. Len(R) :
          /\ b.next + i - 1 \in DOMAIN b.store
          /\ R[i] = b.store[b.next + i - 1]
    BY <2>0, DrainType
  <2> QED BY <2>1, <2>2, <2>3, <2>4, <2>5
<1>5. /\ buf' = [buf EXCEPT ![n] = Drain(b)]
      /\ delivered' = [delivered EXCEPT ![n] = @ \o R]
      /\ nack' = [nack EXCEPT ![n] = NackAfter(@, b)]
      /\ outForDelivery' = [outForDelivery EXCEPT ![n] = @ \ {m.event}]
      /\ UNCHANGED <<emitted, toMaster, stores, log, requests>>
  BY DEF Receive
<1>6. PICK net \in Taken(toNode[n], m) : toNode' = [toNode EXCEPT ![n] = net]
  BY DEF Receive
<1>7. net \subseteq toNode[n]
  BY <1>6 DEF Taken
<1> HIDE DEF b, R
<1>8. TypeOK'
  <2>1. buf' = [k \in Node |-> buf'[k]] /\ \A k \in Node : IsBuffer(buf'[k], Event)
    BY <1>4, <1>5 DEF TypeOK
  <2>2. delivered' \in [Node -> Seq(Event)]
    BY <1>2, <1>4, <1>5 DEF TypeOK
  <2>3. nack' \in [Node -> Nat \cup {NoNack}]
    BY <1>2, <1>3, <1>5 DEF TypeOK, NackAfter
  <2>4. outForDelivery' \in [Node -> SUBSET Event] /\ toNode' \in [Node -> SUBSET GlobalMessage]
    BY <1>5, <1>6, <1>7 DEF TypeOK
  <2> QED BY <2>1, <2>2, <2>3, <2>4, <1>5 DEF TypeOK
<1>9. SenderInv'
  BY <1>5 DEF SenderInv, TypeOK
<1>10. LogInv'
  BY <1>5 DEF LogInv
<1>11. NetInv'
  BY <1>5, <1>6, <1>7 DEF NetInv, TypeOK
<1>12. ReplicaInv'
  <2> SUFFICES ASSUME NEW k \in Node
               PROVE  /\ \A i \in DOMAIN buf'[k].store : i < Len(log) /\ buf'[k].store[i] = log[i + 1]
                      /\ buf'[k].next = Len(delivered'[k])
                      /\ Len(delivered'[k]) <= Len(log)
                      /\ \A i \in 1 .. Len(delivered'[k]) : delivered'[k][i] = log[i]
    BY <1>5 DEF ReplicaInv
  <2>1. CASE k # n
    BY <2>1, <1>5 DEF ReplicaInv, TypeOK
  <2>2. CASE k = n
    <3>1. buf'[n] = Drain(b) /\ delivered'[n] = delivered[n] \o R
      BY <1>5 DEF TypeOK
    <3>2. \A i \in DOMAIN Drain(b).store : i < Len(log) /\ Drain(b).store[i] = log[i + 1]
      BY <1>3, <1>4
    <3>3. Len(delivered'[n]) = Len(delivered[n]) + Len(R)
      BY <3>1, <1>2, <1>4
    <3>4. Len(delivered'[n]) <= Len(log)
      <4>1. CASE Len(R) = 0
        BY <4>1, <3>3, <1>2 DEF ReplicaInv
      <4>2. CASE Len(R) # 0
        <5>1. Len(R) \in 1 .. Len(R)
          BY <4>2, <1>4
        <5>2. b.next + Len(R) - 1 < Len(log)
          BY <5>1, <1>3, <1>4
        <5> QED BY <5>2, <3>3, <1>2, <1>3, <1>4
      <4> QED BY <4>1, <4>2
    <3>5. \A i \in 1 .. Len(delivered'[n]) : delivered'[n][i] = log[i]
      <4> SUFFICES ASSUME NEW i \in 1 .. Len(delivered'[n]) PROVE delivered'[n][i] = log[i]
        OBVIOUS
      <4>1. CASE i <= Len(delivered[n])
        BY <4>1, <3>1, <3>3, <1>2, <1>4 DEF ReplicaInv
      <4>2. CASE ~(i <= Len(delivered[n]))
        <5> DEFINE j == i - Len(delivered[n])
        <5>1. j \in 1 .. Len(R) /\ b.next + j - 1 = i - 1 /\ i \in Nat
          BY <4>2, <3>3, <1>2, <1>3, <1>4
        <5>2. delivered'[n][i] = R[j]
          BY <4>2, <5>1, <3>1, <3>3, <1>2, <1>4
        <5>3. R[j] = b.store[i - 1] /\ i - 1 \in DOMAIN b.store
          BY <5>1, <1>4
        <5> QED BY <5>1, <5>2, <5>3, <1>3
      <4> QED BY <4>1, <4>2
    <3> QED BY <2>2, <3>1, <3>2, <3>3, <3>4, <3>5, <1>3, <1>4
  <2> QED BY <2>1, <2>2
<1>13. RetryInv'
  <2> SUFFICES ASSUME NEW t \in Source, NEW k \in 0 .. (emitted[t] - 1)
               PROVE  \/ <<t, k>> \in outForDelivery'[Home[t]]
                      \/ \E i \in 1 .. Len(log) : log[i] = <<t, k>>
    BY <1>5 DEF RetryInv
  <2>1. Home[t] \in Node
    BY NodeAssumption
  <2>2. CASE <<t, k>> = m.event
    <3>1. m.idx + 1 \in 1 .. Len(log) /\ log[m.idx + 1] = <<t, k>>
      BY <2>2, <1>1, <1>2
    <3> QED BY <3>1
  <2>3. CASE <<t, k>> # m.event
    BY <2>1, <2>3, <1>5 DEF RetryInv, TypeOK
  <2> QED BY <2>2, <2>3
<1>14. NackIsCurrent'
  <2> SUFFICES ASSUME NEW k \in Node, nack'[k] # NoNack PROVE nack'[k] = buf'[k].next
    BY DEF NackIsCurrent
  <2>1. CASE k # n
    BY <2>1, <1>5 DEF NackIsCurrent, TypeOK
  <2>2. CASE k = n
    <3>1. nack'[n] = NackAfter(nack[n], b) /\ buf'[n] = Drain(b)
      BY <1>5 DEF TypeOK
    <3>2. R = << >> /\ nack'[n] = IF nack[n] = NoNack THEN b.next ELSE nack[n]
      BY <2>2, <3>1 DEF NackAfter, R
    <3>3. nack'[n] = b.next
      BY <3>2, <1>3 DEF NackIsCurrent, ReplicaInv
    <3>4. Drain(b).next = b.next
      BY <3>2, <1>2, <1>3, <1>4
    <3> QED BY <2>2, <3>1, <3>3, <3>4
  <2> QED BY <2>1, <2>2
<1> QED BY <1>8, <1>9, <1>10, <1>11, <1>12, <1>13, <1>14

(* Publishing entries of the log keeps every message in flight an entry of *)
(* the log.                                                                *)
LEMMA PublishEntries ==
  ASSUME NEW l \in Seq(Event), NEW from \in Nat, NEW to \in Int, to < Len(l),
         NEW x \in Entries(l, from, to)
  PROVE  x \in GlobalMessage /\ x.idx < Len(l) /\ x.event = l[x.idx + 1]
<1>1. PICK i \in from .. to : x = [idx |-> i, event |-> l[i + 1]]
  BY DEF Entries
<1>2. i \in Nat /\ i < Len(l) /\ i + 1 \in 1 .. Len(l)
  BY <1>1
<1>3. l[i + 1] \in Event
  BY <1>2
<1> QED BY <1>1, <1>2, <1>3 DEF GlobalMessage

LEMMA ReplyIInv ==
  ASSUME IInv, NEW since \in requests, Reply(since)
  PROVE  IInv'
<1> USE DEF IInv
<1>1. log \in Seq(Event) /\ Len(log) \in Nat /\ since \in Nat /\ ReplyLimit \in Nat
  BY BoundAssumption DEF TypeOK
<1>2. LastReplied(since) \in Int /\ LastReplied(since) < Len(log)
  BY <1>1 DEF LastReplied
<1> DEFINE E == Entries(log, since, LastReplied(since))
<1>3. \A x \in E : x \in GlobalMessage /\ x.idx < Len(log) /\ x.event = log[x.idx + 1]
  BY <1>1, <1>2, PublishEntries
<1>4. toNode' = [n \in Node |-> toNode[n] \cup E]
  BY DEF Reply, Publish
<1>5. requests' \in SUBSET Nat
  BY DEF Reply, Taken, TypeOK
<1> HIDE DEF E
<1>6. TypeOK'
  <2>1. toNode' \in [Node -> SUBSET GlobalMessage]
    BY <1>3, <1>4 DEF TypeOK
  <2> QED BY <2>1, <1>5 DEF TypeOK, Reply
<1>7. NetInv'
  BY <1>3, <1>4 DEF NetInv, Reply
<1>8. SenderInv' /\ LogInv' /\ ReplicaInv' /\ RetryInv' /\ NackIsCurrent'
  BY DEF Reply, SenderInv, LogInv, ReplicaInv, RetryInv, NackIsCurrent
<1> QED BY <1>6, <1>7, <1>8

LEMMA LossIInv ==
  ASSUME IInv,
         \/ \E m \in toMaster : LoseLocal(m)
         \/ \E n \in Node : \E m \in toNode[n] : LoseGlobal(n, m)
         \/ \E since \in requests : LoseRequest(since)
  PROVE  IInv'
<1> USE DEF IInv
<1>1. CASE \E m \in toMaster : LoseLocal(m)
  <2>0. PICK m \in toMaster : LoseLocal(m)
    BY <1>1
  <2>1. TypeOK' /\ SenderInv'
    BY <2>0 DEF LoseLocal, TypeOK, SenderInv
  <2>2. LogInv' /\ NetInv' /\ ReplicaInv' /\ RetryInv' /\ NackIsCurrent'
    BY <2>0 DEF LoseLocal, LogInv, NetInv, ReplicaInv, RetryInv, NackIsCurrent
  <2> QED BY <2>1, <2>2
<1>2. CASE \E n \in Node : \E m \in toNode[n] : LoseGlobal(n, m)
  <2>1. PICK n \in Node : \E m \in toNode[n] : LoseGlobal(n, m)
    BY <1>2
  <2>2. PICK m \in toNode[n] : LoseGlobal(n, m)
    BY <2>1
  <2>3. TypeOK' /\ NetInv'
    BY <2>2 DEF LoseGlobal, TypeOK, NetInv
  <2>4. SenderInv' /\ LogInv' /\ ReplicaInv' /\ RetryInv' /\ NackIsCurrent'
    BY <2>2 DEF LoseGlobal, SenderInv, LogInv, ReplicaInv, RetryInv, NackIsCurrent
  <2> QED BY <2>3, <2>4
<1>3. CASE \E since \in requests : LoseRequest(since)
  <2>0. PICK since \in requests : LoseRequest(since)
    BY <1>3
  <2>1. TypeOK'
    BY <2>0 DEF LoseRequest, TypeOK
  <2>2. SenderInv' /\ LogInv' /\ NetInv' /\ ReplicaInv' /\ RetryInv' /\ NackIsCurrent'
    BY <2>0 DEF LoseRequest, SenderInv, LogInv, NetInv, ReplicaInv, RetryInv, NackIsCurrent
  <2> QED BY <2>1, <2>2
<1> QED BY <1>1, <1>2, <1>3

(* What one turn of _event_processor appends: events of one sender, newer  *)
(* than all of its events in the log, in order, and none left out that is  *)
(* no trace.                                                               *)
LEMMA IndexAppends ==
  ASSUME IInv, NEW m \in toMaster, Index(m)
  PROVE  LET b == Ingest(stores[m.origin], m.idx, m.event)
             Q == Indexed(Released(b))
             lo == stores[m.origin].next
             hi == Drain(b).next
         IN  /\ IsBuffer(Drain(b), Event)
             /\ lo \in Nat /\ hi \in Nat /\ lo <= hi /\ hi <= emitted[m.origin]
             /\ \A i \in DOMAIN Drain(b).store :
                  Drain(b).store[i] = <<m.origin, i>> /\ i < emitted[m.origin]
             /\ Q \in Seq(Event)
             /\ \A k \in 1 .. Len(Q) :
                  /\ Q[k][1] = m.origin /\ Q[k][2] \in lo .. (hi - 1)
                  /\ Q[k] \notin Trace
             /\ \A k, l \in 1 .. Len(Q) : k < l => Q[k][2] < Q[l][2]
             /\ \A k \in lo .. (hi - 1) : <<m.origin, k>> \notin Trace =>
                  \E i \in 1 .. Len(Q) : Q[i] = <<m.origin, k>>
<1> USE DEF IInv
<1> DEFINE s == m.origin
           b == Ingest(stores[s], m.idx, m.event)
           R == Released(b)
           Q == Indexed(R)
           lo == stores[s].next
           hi == Drain(b).next
<1>1. s \in Source /\ m.idx \in Nat /\ m.event \in Event /\ emitted[s] \in Nat
  BY DEF TypeOK, LocalMessage
<1>2. m.event = <<s, m.idx>> /\ m.idx < emitted[s]
  BY DEF SenderInv
<1>3. IsBuffer(stores[s], Event)
  BY <1>1 DEF TypeOK
<1>4. IsBuffer(b, Event)
  BY <1>1, <1>3, IngestType
<1>5. b.next = lo
  BY <1>1, <1>3, IngestType
<1>6. \A i \in DOMAIN b.store : b.store[i] = <<s, i>> /\ i < emitted[s]
  <2>1. /\ DOMAIN b.store \subseteq DOMAIN stores[s].store \cup {m.idx}
        /\ \A i \in DOMAIN b.store :
             b.store[i] = IF i \in DOMAIN stores[s].store THEN stores[s].store[i] ELSE m.event
    BY <1>1, <1>3, IngestType
  <2> HIDE DEF b
  <2> QED BY <2>1, <1>1, <1>2 DEF SenderInv
<1> HIDE DEF b, s
<1>7. R \in Seq(Event)
  BY <1>4, DrainType
<1>8. IsBuffer(Drain(b), Event) /\ hi = b.next + Len(R)
  BY <1>4, DrainType
<1>9. \A i \in DOMAIN Drain(b).store : i \in DOMAIN b.store /\ Drain(b).store[i] = b.store[i]
  BY <1>4, DrainType
<1>10. \A i \in 1 .. Len(R) : b.next + i - 1 \in DOMAIN b.store /\ R[i] = b.store[b.next + i - 1]
  BY <1>4, DrainType
<1>11. lo \in Nat /\ Len(R) \in Nat /\ hi = lo + Len(R) /\ lo <= emitted[s]
  <2>1. lo \in Nat
    BY <1>3 DEF IsBuffer
  <2>2. Len(R) \in Nat
    BY <1>7
  <2>3. lo <= emitted[s]
    BY <1>1 DEF SenderInv
  <2> QED BY <2>1, <2>2, <2>3, <1>5, <1>8
<1> HIDE DEF R, lo, hi
<1>12. \A i \in 1 .. Len(R) : R[i] = <<s, lo + i - 1>> /\ lo + i - 1 < emitted[s]
  BY <1>5, <1>6, <1>10
<1>13. hi <= emitted[s]
  <2>1. CASE Len(R) = 0
    BY <2>1, <1>11
  <2>2. CASE Len(R) # 0
    <3>1. Len(R) \in 1 .. Len(R)
      BY <2>2, <1>11
    <3>2. lo + Len(R) - 1 < emitted[s]
      BY <3>1, <1>12
    <3> QED BY <3>2, <1>1, <1>11
  <2> QED BY <2>1, <2>2
<1>14. \A i \in DOMAIN Drain(b).store : Drain(b).store[i] = <<s, i>> /\ i < emitted[s]
  BY <1>6, <1>9
<1>15. Q \in Seq(Event)
  BY <1>7, IndexedKeepsOrder
<1>16. PICK f \in [1 .. Len(Q) -> 1 .. Len(R)] :
         /\ \A k \in 1 .. Len(Q) : Q[k] = R[f[k]] /\ R[f[k]] \notin Trace
         /\ \A k, l \in 1 .. Len(Q) : k < l => f[k] < f[l]
         /\ \A i \in 1 .. Len(R) : R[i] \notin Trace => \E k \in 1 .. Len(Q) : f[k] = i
  BY <1>7, IndexedKeepsOrder
<1> HIDE DEF Q
<1>17. \A k \in 1 .. Len(Q) : Q[k] = <<s, lo + f[k] - 1>> /\ Q[k] \notin Trace
  BY <1>12, <1>16
<1>18. \A k \in 1 .. Len(Q) : Q[k][1] = s /\ Q[k][2] \in lo .. (hi - 1) /\ Q[k] \notin Trace
  <2> SUFFICES ASSUME NEW k \in 1 .. Len(Q)
               PROVE  Q[k][1] = s /\ Q[k][2] \in lo .. (hi - 1) /\ Q[k] \notin Trace
    OBVIOUS
  <2>1. f[k] \in 1 .. Len(R)
    BY <1>16
  <2>2. Q[k][1] = s /\ Q[k][2] = lo + f[k] - 1 /\ Q[k] \notin Trace
    BY <1>17
  <2> QED BY <2>1, <2>2, <1>11
<1>19. \A k, l \in 1 .. Len(Q) : k < l => Q[k][2] < Q[l][2]
  <2> SUFFICES ASSUME NEW k \in 1 .. Len(Q), NEW l \in 1 .. Len(Q), k < l
               PROVE  Q[k][2] < Q[l][2]
    OBVIOUS
  <2>1. f[k] \in 1 .. Len(R) /\ f[l] \in 1 .. Len(R) /\ f[k] < f[l]
    BY <1>16
  <2>2. Q[k][2] = lo + f[k] - 1 /\ Q[l][2] = lo + f[l] - 1
    BY <1>17
  <2> QED BY <2>1, <2>2, <1>11
<1>20. \A k \in lo .. (hi - 1) : <<s, k>> \notin Trace => \E i \in 1 .. Len(Q) : Q[i] = <<s, k>>
  <2> SUFFICES ASSUME NEW k \in lo .. (hi - 1), <<s, k>> \notin Trace
               PROVE  \E i \in 1 .. Len(Q) : Q[i] = <<s, k>>
    OBVIOUS
  <2>1. k - lo + 1 \in 1 .. Len(R) /\ lo + (k - lo + 1) - 1 = k
    BY <1>11
  <2>2. R[k - lo + 1] = <<s, k>>
    BY <2>1, <1>12
  <2>3. PICK i \in 1 .. Len(Q) : f[i] = k - lo + 1
    BY <2>1, <2>2, <1>16
  <2>4. Q[i] = <<s, k>>
    BY <2>2, <2>3, <1>16
  <2> QED BY <2>4
<1>21. hi \in Nat /\ lo <= hi
  BY <1>11
<1> QED BY <1>8, <1>11, <1>13, <1>14, <1>15, <1>18, <1>19, <1>20, <1>21 DEF b, s, R, Q, lo, hi

LEMMA IndexIInv ==
  ASSUME IInv, NEW m \in toMaster, Index(m)
  PROVE  IInv'
<1> USE DEF IInv
<1> DEFINE s == m.origin
           b == Ingest(stores[s], m.idx, m.event)
           Q == Indexed(Released(b))
           lo == stores[s].next
           hi == Drain(b).next
           N == Len(log)
<1>1. IsBuffer(Drain(b), Event) /\ lo \in Nat /\ hi \in Nat /\ lo <= hi /\ hi <= emitted[s]
  BY IndexAppends
<1>2. \A i \in DOMAIN Drain(b).store : Drain(b).store[i] = <<s, i>> /\ i < emitted[s]
  BY IndexAppends
<1>3. /\ Q \in Seq(Event)
      /\ \A k \in 1 .. Len(Q) : Q[k][1] = s /\ Q[k][2] \in lo .. (hi - 1) /\ Q[k] \notin Trace
      /\ \A k, l \in 1 .. Len(Q) : k < l => Q[k][2] < Q[l][2]
      /\ \A k \in lo .. (hi - 1) : <<s, k>> \notin Trace => \E i \in 1 .. Len(Q) : Q[i] = <<s, k>>
  BY IndexAppends
<1>4. s \in Source /\ N \in Nat /\ log \in Seq(Event) /\ Len(Q) \in Nat
  BY <1>3 DEF TypeOK, LocalMessage
<1>5. /\ toMaster' \subseteq toMaster
      /\ stores' = [stores EXCEPT ![s] = Drain(b)]
      /\ log' = log \o Q
      /\ toNode' = [n \in Node |-> toNode[n] \cup Entries(log', N, Len(log') - 1)]
      /\ UNCHANGED <<emitted, outForDelivery, buf, delivered, nack, requests>>
  BY DEF Index, Taken, Publish
<1> HIDE DEF b, Q, hi
<1>6. /\ log' \in Seq(Event) /\ Len(log') = N + Len(Q) /\ Len(log') \in Nat
      /\ \A i \in 1 .. N : log'[i] = log[i]
      /\ \A i \in 1 .. Len(log') : i > N => i - N \in 1 .. Len(Q) /\ log'[i] = Q[i - N]
      /\ \A k \in 1 .. Len(Q) : N + k \in 1 .. Len(log') /\ log'[N + k] = Q[k]
  BY <1>3, <1>4, <1>5
<1>7. \A x \in Entries(log', N, Len(log') - 1) :
        x \in GlobalMessage /\ x.idx < Len(log') /\ x.event = log'[x.idx + 1]
  <2> DEFINE l == log'
  <2>1. l \in Seq(Event) /\ Len(l) - 1 \in Int /\ Len(l) - 1 < Len(l)
    BY <1>6
  <2> HIDE DEF l
  <2>2. \A x \in Entries(l, N, Len(l) - 1) : x \in GlobalMessage /\ x.idx < Len(l) /\ x.event = l[x.idx + 1]
    BY <2>1, <1>4, PublishEntries
  <2> QED BY <2>2 DEF l
<1>8. \A t \in Source : stores'[t] = IF t = s THEN Drain(b) ELSE stores[t]
  BY <1>4, <1>5 DEF TypeOK
<1>9. \A t \in Source : stores[t].next \in Nat /\ stores'[t].next \in Nat /\ stores[t].next <= stores'[t].next
  <2> SUFFICES ASSUME NEW t \in Source
               PROVE  stores[t].next \in Nat /\ stores'[t].next \in Nat /\ stores[t].next <= stores'[t].next
    OBVIOUS
  <2>1. stores[t].next \in Nat
    BY DEF TypeOK, IsBuffer
  <2>2. CASE t = s
    BY <2>2, <1>1, <1>8 DEF hi
  <2>3. CASE t # s
    BY <2>1, <2>3, <1>8
  <2> QED BY <2>2, <2>3
<1>10. TypeOK'
  <2>1. stores' = [t \in Source |-> stores'[t]] /\ \A t \in Source : IsBuffer(stores'[t], Event)
    BY <1>1, <1>5, <1>8 DEF TypeOK
  <2>2. toNode' \in [Node -> SUBSET GlobalMessage]
    BY <1>5, <1>7 DEF TypeOK
  <2> QED BY <2>1, <2>2, <1>5, <1>6 DEF TypeOK
<1>11. SenderInv'
  <2>1. \A t \in Source :
          /\ stores'[t].next <= emitted[t]
          /\ \A i \in DOMAIN stores'[t].store : stores'[t].store[i] = <<t, i>> /\ i < emitted[t]
    BY <1>1, <1>2, <1>8 DEF SenderInv, hi
  <2> QED BY <2>1, <1>5 DEF SenderInv
<1>12. LogInv'
  <2>1. \A i \in 1 .. N : log[i][1] \in Source /\ log[i][2] \in Nat
    BY <1>4 DEF Event
  <2>2. \A i \in 1 .. Len(log') : log'[i][2] < stores'[log'[i][1]].next /\ log'[i] \notin Trace
    <3> SUFFICES ASSUME NEW i \in 1 .. Len(log')
                 PROVE  log'[i][2] < stores'[log'[i][1]].next /\ log'[i] \notin Trace
      OBVIOUS
    <3>1. CASE i <= N
      <4>1. i \in 1 .. N /\ log'[i] = log[i]
        BY <3>1, <1>4, <1>6
      <4>2. log[i][2] < stores[log[i][1]].next /\ log[i] \notin Trace
        BY <4>1 DEF LogInv
      <4> QED BY <4>1, <4>2, <2>1, <1>9
    <3>2. CASE ~(i <= N)
      <4>1. i - N \in 1 .. Len(Q) /\ log'[i] = Q[i - N]
        BY <3>2, <1>4, <1>6
      <4>2. Q[i - N][1] = s /\ Q[i - N][2] \in lo .. (hi - 1) /\ Q[i - N] \notin Trace
        BY <4>1, <1>3
      <4>3. stores'[s].next = hi
        BY <1>4, <1>8 DEF hi
      <4> QED BY <4>1, <4>2, <4>3, <1>1
    <3> QED BY <3>1, <3>2
  <2>3. RL!InSenderOrder(log')
    <3> SUFFICES ASSUME NEW i \in 1 .. Len(log'), NEW j \in 1 .. Len(log'),
                        i < j, log'[i][1] = log'[j][1]
                 PROVE  log'[i][2] < log'[j][2]
      BY DEF RL!InSenderOrder
    <3>1. CASE j <= N
      <4>1. i \in 1 .. N /\ j \in 1 .. N /\ log'[i] = log[i] /\ log'[j] = log[j]
        BY <3>1, <1>4, <1>6
      <4> QED BY <4>1 DEF LogInv, RL!InSenderOrder
    <3>2. CASE i <= N /\ ~(j <= N)
      <4>1. i \in 1 .. N /\ log'[i] = log[i] /\ j - N \in 1 .. Len(Q) /\ log'[j] = Q[j - N]
        BY <3>2, <1>4, <1>6
      <4>2. Q[j - N][1] = s /\ Q[j - N][2] \in lo .. (hi - 1)
        BY <4>1, <1>3
      <4>3. log[i][2] < lo
        BY <4>1, <4>2 DEF LogInv
      <4> QED BY <4>1, <4>2, <4>3, <2>1, <1>1
    <3>3. CASE ~(i <= N)
      <4>1. i - N \in 1 .. Len(Q) /\ log'[i] = Q[i - N] /\ j - N \in 1 .. Len(Q) /\ log'[j] = Q[j - N] /\ i - N < j - N
        BY <3>3, <1>4, <1>6
      <4> QED BY <4>1, <1>3
    <3> QED BY <3>1, <3>2, <3>3
  <2>4. \A t \in Source : \A k \in 0 .. (stores'[t].next - 1) :
          <<t, k>> \notin Trace => \E i \in 1 .. Len(log') : log'[i] = <<t, k>>
    <3> SUFFICES ASSUME NEW t \in Source, NEW k \in 0 .. (stores'[t].next - 1), <<t, k>> \notin Trace
                 PROVE  \E i \in 1 .. Len(log') : log'[i] = <<t, k>>
      OBVIOUS
    <3>1. CASE k < stores[t].next
      <4>1. k \in 0 .. (stores[t].next - 1)
        BY <3>1, <1>9
      <4>2. PICK i \in 1 .. N : log[i] = <<t, k>>
        BY <4>1 DEF LogInv
      <4>3. i \in 1 .. Len(log') /\ log'[i] = <<t, k>>
        BY <4>2, <1>4, <1>6
      <4> QED BY <4>3
    <3>2. CASE ~(k < stores[t].next)
      <4>1. t = s
        BY <3>2, <1>8, <1>9
      <4>2. stores'[s].next = hi
        BY <1>4, <1>8 DEF hi
      <4>3. k \in lo .. (hi - 1)
        BY <3>2, <4>1, <4>2, <1>1
      <4>4. PICK i \in 1 .. Len(Q) : Q[i] = <<s, k>>
        BY <4>1, <4>3, <1>3
      <4>5. N + i \in 1 .. Len(log') /\ log'[N + i] = <<t, k>>
        BY <4>1, <4>4, <1>6
      <4> QED BY <4>5
    <3> QED BY <3>1, <3>2
  <2> QED BY <2>2, <2>3, <2>4 DEF LogInv
<1>13. NetInv'
  <2> SUFFICES ASSUME NEW n \in Node, NEW x \in toNode'[n]
               PROVE  x.idx < Len(log') /\ x.event = log'[x.idx + 1]
    BY DEF NetInv
  <2>1. CASE x \in toNode[n]
    <3>1. x.idx \in Nat /\ x.idx < N /\ x.event = log[x.idx + 1]
      BY <2>1 DEF NetInv, TypeOK, GlobalMessage
    <3>2. x.idx + 1 \in 1 .. N
      BY <3>1, <1>4
    <3> QED BY <3>1, <3>2, <1>4, <1>6
  <2>2. CASE x \notin toNode[n]
    BY <2>2, <1>5, <1>7
  <2> QED BY <2>1, <2>2
<1>14. ReplicaInv'
  <2> SUFFICES ASSUME NEW n \in Node
               PROVE  /\ \A i \in DOMAIN buf[n].store : i < Len(log') /\ buf[n].store[i] = log'[i + 1]
                      /\ buf[n].next = Len(delivered[n])
                      /\ Len(delivered[n]) <= Len(log')
                      /\ \A i \in 1 .. Len(delivered[n]) : delivered[n][i] = log'[i]
    BY <1>5 DEF ReplicaInv
  <2>1. \A i \in DOMAIN buf[n].store : i \in Nat /\ i < N /\ buf[n].store[i] = log[i + 1]
    BY DEF ReplicaInv, TypeOK, IsBuffer
  <2>2. Len(delivered[n]) \in Nat /\ Len(delivered[n]) <= N /\ buf[n].next = Len(delivered[n])
    BY DEF ReplicaInv, TypeOK
  <2>3. \A i \in DOMAIN buf[n].store : i + 1 \in 1 .. N
    BY <2>1, <1>4
  <2>4. \A i \in 1 .. Len(delivered[n]) : i \in 1 .. N /\ delivered[n][i] = log[i]
    BY <2>2, <1>4 DEF ReplicaInv
  <2>5. \A i \in DOMAIN buf[n].store : i < Len(log')
    BY <2>1, <1>4, <1>6
  <2>6. \A i \in DOMAIN buf[n].store : buf[n].store[i] = log'[i + 1]
    BY <2>1, <2>3, <1>6
  <2>7. Len(delivered[n]) <= Len(log')
    BY <2>2, <1>4, <1>6
  <2>8. \A i \in 1 .. Len(delivered[n]) : delivered[n][i] = log'[i]
    BY <2>4, <1>6
  <2> QED BY <2>2, <2>5, <2>6, <2>7, <2>8
<1>15. RetryInv'
  <2> SUFFICES ASSUME NEW t \in Source, NEW k \in 0 .. (emitted[t] - 1)
               PROVE  \/ <<t, k>> \in outForDelivery[Home[t]]
                      \/ \E i \in 1 .. Len(log') : log'[i] = <<t, k>>
    BY <1>5 DEF RetryInv
  <2>1. CASE <<t, k>> \in outForDelivery[Home[t]]
    BY <2>1
  <2>2. CASE \E i \in 1 .. N : log[i] = <<t, k>>
    <3>1. PICK i \in 1 .. N : log[i] = <<t, k>>
      BY <2>2
    <3>2. i \in 1 .. Len(log') /\ log'[i] = <<t, k>>
      BY <3>1, <1>4, <1>6
    <3> QED BY <3>2
  <2> QED BY <2>1, <2>2 DEF RetryInv
<1>16. NackIsCurrent'
  BY <1>5 DEF NackIsCurrent
<1> QED BY <1>10, <1>11, <1>12, <1>13, <1>14, <1>15, <1>16

-----------------------------------------------------------------------------
LEMMA NextIInv == IInv /\ [Next]_vars => IInv'
<1> SUFFICES ASSUME IInv, [Next]_vars PROVE IInv'
  OBVIOUS
<1>1. CASE \E s \in Source : Emit(s)
  BY <1>1, EmitIInv
<1>2. CASE \E n \in Node : Retry(n) \/ SendNack(n)
  BY <1>2, RetryIInv, SendNackIInv
<1>3. CASE \E n \in Node : \E m \in toNode[n] : Receive(n, m)
  BY <1>3, ReceiveIInv
<1>4. CASE \E m \in toMaster : Index(m)
  BY <1>4, IndexIInv
<1>5. CASE \E since \in requests : Reply(since)
  BY <1>5, ReplyIInv
<1>6. CASE \/ \E m \in toMaster : LoseLocal(m)
           \/ \E n \in Node : \E m \in toNode[n] : LoseGlobal(n, m)
           \/ \E since \in requests : LoseRequest(since)
  BY <1>6, LossIInv
<1>7. CASE UNCHANGED vars
  <2>1. TypeOK' /\ SenderInv'
    BY <1>7 DEF vars, IInv, TypeOK, SenderInv
  <2>2. LogInv' /\ NetInv' /\ ReplicaInv' /\ RetryInv' /\ NackIsCurrent'
    BY <1>7 DEF vars, IInv, LogInv, NetInv, ReplicaInv, RetryInv, NackIsCurrent
  <2> QED BY <2>1, <2>2 DEF IInv
<1> QED BY <1>1, <1>2, <1>3, <1>4, <1>5, <1>6, <1>7 DEF Next

(* The inductive invariant holds throughout every session.                 *)
THEOREM Invariance == Spec => []IInv
BY InitIInv, NextIInv, PTL DEF Spec

(* Every variable of routers, master and network keeps its type.           *)
THEOREM TypeCorrect == Spec => []TypeOK
<1>1. IInv => TypeOK
  BY DEF IInv
<1> QED BY <1>1, Invariance, PTL

LEMMA PrefixOfLog ==
  ASSUME NEW l \in Seq(Event), NEW d \in Seq(Event), Len(d) <= Len(l),
         \A i \in 1 .. Len(d) : d[i] = l[i]
  PROVE  d = SubSeq(l, 1, Len(d))
<1>1. SubSeq(l, 1, Len(d)) \in Seq(Event) /\ Len(SubSeq(l, 1, Len(d))) = Len(d)
  OBVIOUS
<1>2. \A i \in 1 .. Len(d) : SubSeq(l, 1, Len(d))[i] = l[i]
  OBVIOUS
<1> DEFINE q == SubSeq(l, 1, Len(d))
<1> HIDE DEF q
<1>3. q \in Seq(Event) /\ Len(q) = Len(d) /\ \A i \in 1 .. Len(d) : q[i] = d[i]
  BY <1>1, <1>2 DEF q
<1>4. d = [i \in 1 .. Len(d) |-> d[i]] /\ q = [i \in 1 .. Len(d) |-> q[i]]
  BY <1>3
<1>5. d = q
  BY <1>3, <1>4
<1> QED BY <1>5 DEF q

(* Whatever EventRouter._run_ext_in has handed to the components of a node *)
(* is a prefix of the master's log, for any number of nodes and events and *)
(* whatever the network loses, repeats or reorders.                        *)
THEOREM AgreementHolds == Spec => []Agreement
<1>1. IInv => Agreement
  <2> SUFFICES ASSUME IInv, NEW n \in Node
               PROVE  /\ Len(delivered[n]) <= Len(log)
                      /\ delivered[n] = SubSeq(log, 1, Len(delivered[n]))
    BY DEF Agreement
  <2>1. log \in Seq(Event) /\ delivered[n] \in Seq(Event)
    BY DEF IInv, TypeOK
  <2>2. Len(delivered[n]) <= Len(log) /\ \A i \in 1 .. Len(delivered[n]) : delivered[n][i] = log[i]
    BY DEF IInv, ReplicaInv
  <2> QED BY <2>1, <2>2, PrefixOfLog
<1> QED BY <1>1, Invariance, PTL

(* The assertion of OrderedBuffer.ingest never fails, at the master or at  *)
(* a router.                                                               *)
THEOREM NoIndexClashHolds == Spec => []NoIndexClash
<1>1. IInv => NoIndexClash
  <2> SUFFICES ASSUME IInv PROVE NoIndexClash
    OBVIOUS
  <2>1. \A m \in toMaster : IngestAsserts(stores[m.origin], m.idx, m.event)
    BY DEF IInv, TypeOK, LocalMessage, SenderInv, IngestAsserts
  <2>2. \A n \in Node : \A m \in toNode[n] : IngestAsserts(buf[n], m.idx, m.event)
    BY DEF IInv, NetInv, ReplicaInv, IngestAsserts
  <2> QED BY <2>1, <2>2 DEF NoIndexClash
<1> QED BY <1>1, Invariance, PTL

(* Master._event_processor indexes every event once, in its sender's       *)
(* order, without skipping any but the traces.                             *)
THEOREM IndexedOnceInOrderHolds == Spec => []IndexedOnceInOrder
<1>1. IInv => IndexedOnceInOrder
  <2> SUFFICES ASSUME IInv PROVE IndexedOnceInOrder
    OBVIOUS
  <2>1. \A i, j \in 1 .. Len(log) : i < j /\ log[i][1] = log[j][1] => log[i][2] < log[j][2]
    BY DEF IInv, LogInv, RL!InSenderOrder
  <2>2. ASSUME NEW s \in Source, NEW k \in 0 .. (emitted[s] - 1)
        PROVE  <<s, k>> \in LogEvents <=> k < stores[s].next /\ <<s, k>> \notin Trace
    <3>1. stores[s].next \in Nat /\ emitted[s] \in Nat
      BY DEF IInv, TypeOK, IsBuffer
    <3>2. ASSUME <<s, k>> \in LogEvents PROVE k < stores[s].next /\ <<s, k>> \notin Trace
      <4>1. PICK i \in 1 .. Len(log) : log[i] = <<s, k>>
        BY <3>2 DEF LogEvents
      <4> QED BY <4>1 DEF IInv, LogInv
    <3>3. ASSUME k < stores[s].next, <<s, k>> \notin Trace PROVE <<s, k>> \in LogEvents
      <4>1. k \in 0 .. (stores[s].next - 1)
        BY <3>1, <3>3
      <4> QED BY <4>1, <3>3 DEF IInv, LogInv, LogEvents
    <3> QED BY <3>2, <3>3
  <2> QED BY <2>1, <2>2 DEF IndexedOnceInOrder
<1> QED BY <1>1, Invariance, PTL

(* No written event is lost for good: it is in the log or on the retry     *)
(* list of its router.                                                     *)
THEOREM NeverForgottenHolds == Spec => []NeverForgotten
<1>1. IInv => NeverForgotten
  BY DEF IInv, RetryInv, NeverForgotten, LogEvents
<1> QED BY <1>1, Invariance, PTL

(* A nack that is sent asks for the index its router misses.               *)
THEOREM NackIsCurrentHolds == Spec => []NackIsCurrent
<1>1. IInv => NackIsCurrent
  BY DEF IInv
<1> QED BY <1>1, Invariance, PTL

-----------------------------------------------------------------------------
(* Refinement.                                                             *)

LEMMA IndexRefines ==
  ASSUME IInv, IInv', NEW m \in toMaster, Index(m)
  PROVE  RL!AIndex \/ UNCHANGED <<emitted, log, delivered>>
<1> DEFINE Q == Indexed(Released(Ingest(stores[m.origin], m.idx, m.event)))
<1>1. log' = log \o Q /\ emitted' = emitted /\ delivered' = delivered
  BY DEF Index
<1>2. Q \in Seq(Event)
  BY IndexAppends
<1>3. log \in Seq(Event) /\ log' \in Seq(Event)
  BY DEF IInv, TypeOK
<1> HIDE DEF Q
<1>4. CASE Len(Q) = 0
  BY <1>1, <1>2, <1>3, <1>4
<1>5. CASE Len(Q) # 0
  <2>1. Len(log) < Len(log') /\ \A i \in 1 .. Len(log) : log'[i] = log[i]
    BY <1>1, <1>2, <1>3, <1>5
  <2>2. RL!InSenderOrder(log')
    BY DEF IInv, LogInv
  <2>3. \A i \in (Len(log) + 1) .. Len(log') : log'[i][2] < emitted[log'[i][1]]
    <3> SUFFICES ASSUME NEW i \in (Len(log) + 1) .. Len(log')
                 PROVE  log'[i][2] < emitted'[log'[i][1]]
      BY <1>1
    <3>1. i \in 1 .. Len(log')
      BY <1>3
    <3>2. log'[i][1] \in Source /\ log'[i][2] \in Nat
      BY <3>1, <1>3 DEF Event
    <3>3. log'[i][2] < stores'[log'[i][1]].next
      BY <3>1 DEF IInv, LogInv
    <3>4. stores'[log'[i][1]].next <= emitted'[log'[i][1]]
      BY <3>2 DEF IInv, SenderInv
    <3>5. stores'[log'[i][1]].next \in Nat /\ emitted'[log'[i][1]] \in Nat
      BY <3>2 DEF IInv, TypeOK, IsBuffer
    <3> QED BY <3>2, <3>3, <3>4, <3>5
  <2> QED BY <1>1, <2>1, <2>2, <2>3 DEF RL!AIndex
<1> QED BY <1>4, <1>5

LEMMA ReceiveRefines ==
  ASSUME IInv, IInv', NEW n \in Node, NEW m \in toNode[n], Receive(n, m)
  PROVE  RL!ADeliver \/ UNCHANGED <<emitted, log, delivered>>
<1> DEFINE R == Released(Ingest(buf[n], m.idx, m.event))
<1>1. /\ delivered' = [delivered EXCEPT ![n] = @ \o R]
      /\ emitted' = emitted /\ log' = log
  BY DEF Receive
<1>2. R \in Seq(Event)
  <2>1. IsBuffer(buf[n], Event) /\ m.idx \in Nat /\ m.event \in Event
    BY DEF IInv, TypeOK, GlobalMessage
  <2>2. IsBuffer(Ingest(buf[n], m.idx, m.event), Event)
    BY <2>1, IngestType
  <2> QED BY <2>2, DrainType
<1>3. delivered \in [Node -> Seq(Event)] /\ delivered' \in [Node -> Seq(Event)] /\ log \in Seq(Event)
  BY <1>1 DEF IInv, TypeOK
<1> HIDE DEF R
<1>4. delivered'[n] = delivered[n] \o R /\ delivered[n] \in Seq(Event) /\ delivered'[n] \in Seq(Event)
  BY <1>1, <1>3
<1>5. CASE Len(R) = 0
  <2>1. delivered[n] \o R = delivered[n]
    BY <1>2, <1>4, <1>5
  <2>2. delivered' = delivered
    BY <2>1, <1>1, <1>3
  <2> QED BY <2>2, <1>1
<1>6. CASE Len(R) # 0
  <2> DEFINE k == Len(delivered'[n])
  <2>1. Len(delivered'[n]) <= Len(log) /\ \A i \in 1 .. Len(delivered'[n]) : delivered'[n][i] = log[i]
    <3>1. ReplicaInv'
      BY DEF IInv
    <3>2. Len(delivered'[n]) <= Len(log') /\ \A i \in 1 .. Len(delivered'[n]) : delivered'[n][i] = log'[i]
      BY <3>1 DEF ReplicaInv
    <3>3. log' = log
      BY <1>1
    <3> QED BY <3>2, <3>3
  <2>2. delivered'[n] = SubSeq(log, 1, k)
    BY <2>1, <1>3, <1>4, PrefixOfLog
  <2>3. k \in (Len(delivered[n]) + 1) .. Len(log)
    BY <2>1, <1>2, <1>3, <1>4, <1>6
  <2>4. delivered' = [delivered EXCEPT ![n] = SubSeq(log, 1, k)]
    BY <2>2, <1>1, <1>4
  <2> HIDE DEF k
  <2> QED BY <2>3, <2>4, <1>1 DEF RL!ADeliver
<1> QED BY <1>5, <1>6

(* The routers and the master implement the replicated log: with the other *)
(* variables hidden, every step is a step of ReplicatedLog or none.        *)
THEOREM Refinement == Spec => ImplementsReplicatedLog
<1>1. Init => RL!AInit
  BY DEF Init, RL!AInit
<1>2. IInv /\ IInv' /\ [Next]_vars => [RL!ANext]_(RL!avars)
  <2> SUFFICES ASSUME IInv, IInv', [Next]_vars
               PROVE  RL!ANext \/ UNCHANGED <<emitted, log, delivered>>
    BY DEF RL!avars
  <2>1. CASE \E s \in Source : Emit(s)
    BY <2>1 DEF Emit, RL!AEmit, RL!ANext
  <2>2. CASE \E n \in Node : Retry(n) \/ SendNack(n)
    BY <2>2 DEF Retry, SendNack
  <2>3. CASE \E n \in Node : \E m \in toNode[n] : Receive(n, m)
    BY <2>3, ReceiveRefines DEF RL!ANext
  <2>4. CASE \E m \in toMaster : Index(m)
    BY <2>4, IndexRefines DEF RL!ANext
  <2>5. CASE \E since \in requests : Reply(since) \/ LoseRequest(since)
    BY <2>5 DEF Reply, LoseRequest
  <2>6. CASE \E m \in toMaster : LoseLocal(m)
    BY <2>6 DEF LoseLocal
  <2>7. CASE \E n \in Node : \E m \in toNode[n] : LoseGlobal(n, m)
    BY <2>7 DEF LoseGlobal
  <2>8. CASE UNCHANGED vars
    BY <2>8 DEF vars
  <2> QED BY <2>1, <2>2, <2>3, <2>4, <2>5, <2>6, <2>7, <2>8 DEF Next
<1> QED BY <1>1, <1>2, Invariance, PTL DEF Spec, ImplementsReplicatedLog, RL!ASpec

-----------------------------------------------------------------------------
(* DiskEventLog.                                                            *)

(* In the file of a log the records follow each other; the buffer has what  *)
(* was written of them, the file what was flushed of that, which is all of  *)
(* it once the log was closed.                                              *)
Ascending(L) ==
  \A i, j \in 0 .. Len(L.ends) : i < j => OffsetOf(L, i) < OffsetOf(L, j)

WellFormed(L) ==
  /\ Ascending(L)
  /\ L.flushed <= L.written
  /\ L.written <= OffsetOf(L, Len(L.ends))
  /\ L.count <= Len(L.ends)
  /\ L.state = "closed" => L.flushed = L.written

(* The count is late by a record while that is being written: at is where   *)
(* append is, sizes are the lengths of the session's records.               *)
WriteInv(L, at, sizes) ==
  LET n == Len(L.ends)
  IN  /\ at # "no" => L.state = "open" /\ n > 0 /\ L.count = n - 1
      /\ at = "no" /\ L.state = "open" => L.count = n /\ L.written = OffsetOf(L, n)
      /\ at = "payload" => n <= Len(sizes) /\ L.written + sizes[n] = OffsetOf(L, n)
      /\ at = "count" => L.written = OffsetOf(L, n)

(* The cache has the offsets of records that the log counts, or of where    *)
(* the next begins.                                                         *)
CacheInv(C, L) ==
  \A k \in 1 .. Len(C) :
    C[k][1] \in 0 .. L.count /\ C[k][2] = OffsetOf(L, C[k][1])

(* A reader stands after what it has yielded.  What it reads may be the     *)
(* file of a later log than the one it asked for, unless the Master reads:  *)
(* then all of the range is in the file.                                    *)
Placed(r, L) ==
  LET n == r.start + Len(r.got)
  IN  /\ n <= Len(L.ends) /\ r.pos = OffsetOf(L, n)
      /\ \A j \in 1 .. Len(r.got) : r.got[j] = r.start + j - 1

RangeInv(r, L) ==
  /\ L.state = "open"
  /\ r.start + Len(r.got) <= r.end /\ r.end <= L.count /\ OffsetOf(L, r.end) <= L.flushed
  /\ r.at \in {"reads", "stops", "ends"}
  /\ r.at \in {"stops", "ends"} => r.start + Len(r.got) = r.end

ReaderInv(r) ==
  r # NotReading =>
    /\ r.log \in 1 .. Mine /\ r.file \in 0 .. Mine
    /\ r.at \in {"asked", "opens"} => r.file = 0
    /\ r.at \in {"counts", "reads", "stops"} => r.file # 0
    /\ r.file = 0 \/ r.at = "counts" => r.start = 0 /\ r.pos = 0 /\ r.got = <<>>
    /\ r.file # 0 => Placed(r, logs[r.file])
    /\ owner = "master" => r.log = Mine /\ r.file = Mine /\ RangeInv(r, logs[Mine])

DiskInv ==
  /\ DiskLogTypeOK
  /\ \A l \in 1 .. Mine : WellFormed(logs[l])
  /\ logs[Mine].state = "open" => active = Mine
  /\ WriteInv(logs[Mine], writing, Sizes[Mine])
  /\ CacheInv(offsets, logs[Mine])
  /\ ReaderInv(reader)

-----------------------------------------------------------------------------
(* Logs that grow, and where their records begin.                           *)

LEMMA LogKinds ==
  ASSUME NEW L \in Log
  PROVE  /\ L.ends \in Seq(Nat) /\ Len(L.ends) \in Nat
         /\ L.written \in Nat /\ L.flushed \in Nat /\ L.count \in Nat
BY DEF Log

LEMMA OffsetsAreNumbers ==
  ASSUME NEW L \in Log, NEW i \in 0 .. Len(L.ends)
  PROVE  OffsetOf(L, i) \in Nat
BY DEF Log, OffsetOf

(* One log is what another has become: nothing of it is lost.               *)
Grows(L, M) ==
  /\ Len(L.ends) <= Len(M.ends)
  /\ \A i \in 1 .. Len(L.ends) : M.ends[i] = L.ends[i]
  /\ L.count <= M.count /\ L.flushed <= M.flushed

LEMMA OffsetsStay ==
  ASSUME NEW L \in Log, NEW M \in Log, Grows(L, M), NEW i \in 0 .. Len(L.ends)
  PROVE  OffsetOf(M, i) = OffsetOf(L, i)
BY DEF Grows, OffsetOf, Log

LEMMA GrowsNot ==
  ASSUME NEW L \in Log
  PROVE  Grows(L, L)
BY DEF Grows, Log

(* The buffer and the count do not move the records.                        *)
LEMMA SameRecords ==
  ASSUME NEW L \in Log, NEW M \in Log, M.ends = L.ends, L.count <= M.count, L.flushed <= M.flushed
  PROVE  /\ Grows(L, M)
         /\ \A i \in 0 .. Len(L.ends) : OffsetOf(M, i) = OffsetOf(L, i)
         /\ Ascending(L) => Ascending(M)
BY DEF Grows, Log, OffsetOf, Ascending

(* A new record ends after all the others.                                  *)
LEMMA OneMore ==
  ASSUME NEW L \in Log, NEW M \in Log, Ascending(L), NEW e \in Nat,
         OffsetOf(L, Len(L.ends)) < e, M.ends = Append(L.ends, e),
         L.count <= M.count, L.flushed <= M.flushed
  PROVE  Grows(L, M) /\ Ascending(M) /\ OffsetOf(M, Len(M.ends)) = e /\ Len(M.ends) = Len(L.ends) + 1
<1> DEFINE n == Len(L.ends)
<1>1. n \in Nat /\ Len(M.ends) = n + 1 /\ M.ends[n + 1] = e /\ \A i \in 1 .. n : M.ends[i] = L.ends[i]
  BY DEF Log
<1>2. Grows(L, M) /\ OffsetOf(M, n + 1) = e
  BY <1>1 DEF Grows, OffsetOf
<1>3. \A i \in 0 .. n : OffsetOf(M, i) = OffsetOf(L, i)
  BY <1>2, OffsetsStay
<1>4. \A i \in 0 .. n : OffsetOf(L, i) \in Nat
  BY OffsetsAreNumbers
<1>5. \A i \in 0 .. n : OffsetOf(L, i) < e
  BY <1>1, <1>4 DEF Ascending
<1>6. ASSUME NEW i \in 0 .. n + 1, NEW j \in 0 .. n + 1, i < j
      PROVE  OffsetOf(M, i) < OffsetOf(M, j)
  <2>1. i \in 0 .. n
    BY <1>1, <1>6
  <2>2. CASE j = n + 1
    BY <2>1, <2>2, <1>2, <1>3, <1>5
  <2>3. CASE j # n + 1
    <3>1. j \in 0 .. n
      BY <2>3, <1>1, <1>6
    <3> QED
      BY <2>1, <3>1, <1>3, <1>6 DEF Ascending
  <2> QED
    BY <2>2, <2>3
<1> QED
  BY <1>1, <1>2, <1>6 DEF Ascending

-----------------------------------------------------------------------------
(* What a reader finds at the offset of a record.                           *)

LEMMA TheRecord ==
  ASSUME NEW L \in Log, Ascending(L), NEW n \in 0 .. Len(L.ends)
  PROVE  /\ n < Len(L.ends) => RecordsAt(L, OffsetOf(L, n)) = {n}
         /\ n = Len(L.ends) => RecordsAt(L, OffsetOf(L, n)) = {}
<1>1. Len(L.ends) \in Nat
  BY DEF Log
<1>2. \A i \in 0 .. Len(L.ends) : OffsetOf(L, i) \in Nat
  BY OffsetsAreNumbers
<1>3. ASSUME NEW i \in 0 .. Len(L.ends) - 1, OffsetOf(L, i) = OffsetOf(L, n)
      PROVE  i = n
  BY <1>1, <1>2, <1>3 DEF Ascending
<1> QED
  BY <1>1, <1>3 DEF RecordsAt

(* A header that is in the file is that of a record that was begun.         *)
LEMMA HeaderIsThere ==
  ASSUME NEW L \in Log, WellFormed(L), NEW n \in 0 .. Len(L.ends), OffsetOf(L, n) + Header <= L.flushed
  PROVE  n < Len(L.ends)
<1>1. Len(L.ends) \in Nat /\ L.flushed \in Nat /\ L.written \in Nat
  BY DEF Log
<1>2. OffsetOf(L, n) \in Nat /\ OffsetOf(L, Len(L.ends)) \in Nat
  BY <1>1, OffsetsAreNumbers
<1> QED
  BY <1>1, <1>2 DEF WellFormed, Header

(* A record that is in the file is behind its header.                       *)
LEMMA RecordIsThere ==
  ASSUME NEW L \in Log, Ascending(L), NEW n \in 0 .. Len(L.ends), NEW m \in 0 .. Len(L.ends), n < m,
         OffsetOf(L, m) <= L.flushed
  PROVE  OffsetOf(L, n) + Header <= L.flushed /\ OffsetOf(L, n + 1) <= L.flushed
<1>1. Len(L.ends) \in Nat /\ L.flushed \in Nat
  BY DEF Log
<1>2. \A i \in 0 .. Len(L.ends) : OffsetOf(L, i) \in Nat
  BY OffsetsAreNumbers
<1>3. n + 1 \in 0 .. Len(L.ends) /\ (n + 1 < m \/ n + 1 = m)
  BY <1>1
<1>4. OffsetOf(L, n) < OffsetOf(L, m) /\ OffsetOf(L, n + 1) <= OffsetOf(L, m)
  BY <1>2, <1>3 DEF Ascending
<1> QED
  BY <1>1, <1>2, <1>3, <1>4 DEF Header

LEMMA SkipsOne ==
  ASSUME NEW L \in Log, Ascending(L), NEW n \in 0 .. Len(L.ends), NEW m \in 0 .. Len(L.ends), n < m,
         OffsetOf(L, m) <= L.flushed
  PROVE  Skip(L, OffsetOf(L, n)) = OffsetOf(L, n + 1)
<1>1. OffsetOf(L, n) + Header <= L.flushed /\ OffsetOf(L, n) \in Nat /\ L.flushed \in Nat
  BY RecordIsThere, OffsetsAreNumbers DEF Log
<1>2. RecordsAt(L, OffsetOf(L, n)) = {n}
  BY TheRecord DEF Log
<1>3. (CHOOSE i \in RecordsAt(L, OffsetOf(L, n)) : TRUE) = n
  BY <1>2
<1> QED
  BY <1>1, <1>2, <1>3 DEF Skip, Header

-----------------------------------------------------------------------------
(* The cache.                                                               *)

(* A set of numbers has a least one.                                        *)
LEMMA LeastOfNumbers ==
  ASSUME NEW N \in SUBSET Nat, N # {}
  PROVE  \E x \in N : \A y \in N : x <= y
<1>1. PICK x \in N : \A y \in N : ~ (<<y, x>> \in OpToRel(<, Nat))
  BY NatLessThanWellFounded, WFMin
<1>2. \A y \in N : ~ (y < x)
  BY <1>1 DEF OpToRel
<1> QED
  BY <1>2

LEMMA LastOfNumbers ==
  ASSUME NEW n \in Nat, NEW K \in SUBSET (1 .. n), K # {}
  PROVE  \E k \in K : \A m \in K : m <= k
<1> DEFINE N == {n - k : k \in K}
<1>1. N \in SUBSET Nat
  <2> SUFFICES ASSUME NEW k \in K PROVE n - k \in Nat
    OBVIOUS
  <2>1. k \in 1 .. n
    OBVIOUS
  <2> QED
    BY <2>1
<1>0. N # {}
  OBVIOUS
<1>2. PICK x \in N : \A y \in N : x <= y
  BY <1>0, <1>1, LeastOfNumbers
<1>3. PICK k \in K : x = n - k
  BY <1>2
<1>4. \A m \in K : n - k <= n - m
  BY <1>2, <1>3
<1> QED
  BY <1>4

Entry == Nat \X Int

LEMMA Joined ==
  ASSUME NEW S, NEW a \in Seq(S), NEW b \in Seq(S)
  PROVE  /\ a \o b \in Seq(S) /\ Len(a \o b) = Len(a) + Len(b)
         /\ \A i \in 1 .. Len(a) : (a \o b)[i] = a[i]
         /\ \A i \in Len(a) + 1 .. Len(a) + Len(b) : (a \o b)[i] = b[i - Len(a)]
OBVIOUS

LEMMA WithoutOne ==
  ASSUME NEW C \in Seq(Entry), NEW k \in 1 .. Len(C)
  PROVE  /\ CacheWithout(C, k) \in Seq(Entry)
         /\ \A m \in 1 .. Len(CacheWithout(C, k)) : \E j \in 1 .. Len(C) : CacheWithout(C, k)[m] = C[j]
<1> DEFINE a == SubSeq(C, 1, k - 1)
           b == SubSeq(C, k + 1, Len(C))
<1>1. Len(C) \in Nat
  OBVIOUS
<1>2. a \in Seq(Entry) /\ Len(a) = k - 1 /\ \A m \in 1 .. Len(a) : a[m] = C[m]
  BY <1>1
<1>3. b \in Seq(Entry) /\ Len(b) = Len(C) - k /\ \A m \in 1 .. Len(b) : b[m] = C[k + m]
  BY <1>1
<1> HIDE DEF a, b
<1>4. /\ a \o b \in Seq(Entry) /\ Len(a \o b) = Len(a) + Len(b)
      /\ \A m \in 1 .. Len(a) : (a \o b)[m] = a[m]
      /\ \A m \in Len(a) + 1 .. Len(a) + Len(b) : (a \o b)[m] = b[m - Len(a)]
  BY <1>2, <1>3, Joined
<1>5. ASSUME NEW m \in 1 .. Len(a \o b)
      PROVE  \E j \in 1 .. Len(C) : (a \o b)[m] = C[j]
  <2>1. CASE m <= Len(a)
    <3>1. m \in 1 .. Len(a) /\ m \in 1 .. Len(C)
      BY <2>1, <1>1, <1>2, <1>4
    <3> QED
      BY <3>1, <1>2, <1>4
  <2>2. CASE m > Len(a)
    <3>1. /\ m - Len(a) \in 1 .. Len(b) /\ k + (m - Len(a)) \in 1 .. Len(C)
          /\ m \in Len(a) + 1 .. Len(a) + Len(b)
      BY <2>2, <1>1, <1>2, <1>3, <1>4
    <3>2. (a \o b)[m] = b[m - Len(a)]
      BY <3>1, <1>4
    <3>3. b[m - Len(a)] = C[k + (m - Len(a))]
      BY <3>1, <1>3
    <3> QED
      BY <3>1, <3>2, <3>3
  <2> QED
    BY <2>1, <2>2, <1>2
<1> QED
  BY <1>4, <1>5 DEF CacheWithout, a, b

(* _cache_offset leaves entries that were there, and the one it adds.       *)
LEMMA CacheIsTrue ==
  ASSUME NEW C \in Seq(Entry), NEW L \in Log, CacheInv(C, L), NEW idx \in 0 .. L.count,
         NEW offset \in Int, offset = OffsetOf(L, idx)
  PROVE  CacheOffset(C, idx, offset) \in Seq(Entry) /\ CacheInv(CacheOffset(C, idx, offset), L)
<1> DEFINE at == Cached(C, idx)
           d == IF at = {} THEN C ELSE CacheWithout(C, CHOOSE k \in at : TRUE)
           e == <<idx, offset>>
<1>1. d \in Seq(Entry) /\ CacheInv(d, L)
  <2>1. CASE at = {}
    BY <2>1
  <2>2. CASE at # {}
    <3>1. (CHOOSE k \in at : TRUE) \in 1 .. Len(C)
      BY <2>2 DEF Cached
    <3>2. PICK k \in 1 .. Len(C) : d = CacheWithout(C, k)
      BY <2>2, <3>1
    <3> HIDE DEF d
    <3>3. d \in Seq(Entry) /\ \A m \in 1 .. Len(d) : \E j \in 1 .. Len(C) : d[m] = C[j]
      BY <3>2, WithoutOne
    <3> QED
      BY <3>3 DEF CacheInv
  <2> QED
    BY <2>1, <2>2
<1>2. e \in Entry /\ e[1] = idx /\ e[2] = offset
  BY DEF Entry, Log
<1> HIDE DEF d, e
<1> DEFINE c == Append(d, e)
<1>3. /\ c \in Seq(Entry) /\ Len(c) = Len(d) + 1 /\ Len(d) \in Nat
      /\ c[Len(c)] = e /\ \A k \in 1 .. Len(d) : c[k] = d[k]
  BY <1>1, <1>2
<1> HIDE DEF c
<1>4. CacheInv(c, L)
  <2> SUFFICES ASSUME NEW k \in 1 .. Len(c)
               PROVE  c[k][1] \in 0 .. L.count /\ c[k][2] = OffsetOf(L, c[k][1])
    BY DEF CacheInv
  <2>1. CASE k = Len(c)
    BY <2>1, <1>2, <1>3
  <2>2. CASE k # Len(c)
    <3>1. k \in 1 .. Len(d)
      BY <2>2, <1>3
    <3> QED
      BY <3>1, <1>1, <1>3 DEF CacheInv
  <2> QED
    BY <2>1, <2>2
<1>5. Tail(c) \in Seq(Entry) /\ Len(Tail(c)) = Len(d) /\ \A k \in 1 .. Len(d) : Tail(c)[k] = c[k + 1]
  BY <1>3
<1>6. CacheInv(Tail(c), L)
  BY <1>3, <1>4, <1>5 DEF CacheInv
<1> QED
  BY <1>3, <1>4, <1>5, <1>6 DEF CacheOffset, c, d, e

LEMMA CacheStays ==
  ASSUME NEW C \in Seq(Entry), NEW L \in Log, NEW M \in Log, L.count <= Len(L.ends), CacheInv(C, L),
         Grows(L, M)
  PROVE  CacheInv(C, M)
<1>1. L.count \in Nat /\ M.count \in Nat /\ Len(L.ends) \in Nat /\ L.count <= M.count
  BY DEF Log, Grows
<1>2. ASSUME NEW k \in 1 .. Len(C)
      PROVE  C[k][1] \in 0 .. M.count /\ C[k][2] = OffsetOf(M, C[k][1])
  <2>1. C[k][1] \in 0 .. L.count /\ C[k][2] = OffsetOf(L, C[k][1])
    BY <1>2 DEF CacheInv
  <2>2. C[k][1] \in 0 .. Len(L.ends)
    BY <1>1, <2>1
  <2>3. OffsetOf(M, C[k][1]) = OffsetOf(L, C[k][1])
    BY <2>2, OffsetsStay
  <2> QED
    BY <1>1, <2>1, <2>3
<1> QED
  BY <1>2 DEF CacheInv

LEMMA ScansFromARecord ==
  ASSUME NEW C \in Seq(Entry), NEW L \in Log, CacheInv(C, L), NEW target \in 0 .. L.count
  PROVE  LET from == ScanFrom(C, target)
         IN  from[1] \in 0 .. target /\ from[2] = OffsetOf(L, from[1])
<1> DEFINE before == {k \in 1 .. Len(C) : C[k][1] < target}
<1>1. CASE before = {}
  BY <1>1 DEF ScanFrom, OffsetOf, Log
<1>2. CASE before # {}
  <2>0. Len(C) \in Nat /\ before \in SUBSET (1 .. Len(C))
    OBVIOUS
  <2>1. \E k \in before : \A m \in before : m <= k
    <3> HIDE DEF before
    <3> QED BY <1>2, <2>0, LastOfNumbers
  <2>2. PICK k \in before : ScanFrom(C, target) = C[k]
    BY <1>2, <2>1 DEF ScanFrom
  <2> QED
    BY <2>2 DEF CacheInv
<1> QED
  BY <1>1, <1>2

(* _seek_to finds where a record begins that is in the file.                *)
LEMMA SeeksTheRecord ==
  ASSUME NEW C \in Seq(Entry), NEW L \in Log, WellFormed(L), CacheInv(C, L),
         NEW target \in 0 .. L.count, OffsetOf(L, L.count) <= L.flushed
  PROVE  SeekTo(L, C, target) = OffsetOf(L, target)
<1> DEFINE hit == Cached(C, target)
           from == ScanFrom(C, target)
           to[n \in 0 .. target] == IF n <= from[1] THEN from[2] ELSE Skip(L, to[n - 1])
           g == [n \in 0 .. target |-> IF n <= from[1] THEN from[2] ELSE OffsetOf(L, n)]
<1>1. L.count \in Nat /\ Len(L.ends) \in Nat /\ L.count <= Len(L.ends) /\ Ascending(L)
  BY DEF Log, WellFormed
<1>2. from[1] \in 0 .. target /\ from[2] = OffsetOf(L, from[1])
  BY ScansFromARecord
<1>3. CASE hit # {}
  <2>1. PICK k \in hit : (CHOOSE m \in hit : TRUE) = k
    BY <1>3
  <2> QED
    BY <1>3, <2>1 DEF SeekTo, Cached, CacheInv
<1>4. CASE hit = {}
  <2>1. to = CHOOSE f : f = [n \in 0 .. target |-> IF n <= from[1] THEN from[2] ELSE Skip(L, f[n - 1])]
    BY DEF to
  <2>2. SeekTo(L, C, target) = to[target]
    BY <1>4 DEF SeekTo
  <2> HIDE DEF to, from, hit
  <2>3. \A n \in 0 .. target : n > from[1] => Skip(L, OffsetOf(L, n - 1)) = OffsetOf(L, n)
    <3> SUFFICES ASSUME NEW n \in 0 .. target, n > from[1]
                 PROVE  Skip(L, OffsetOf(L, n - 1)) = OffsetOf(L, n)
      OBVIOUS
    <3>1. n - 1 \in 0 .. Len(L.ends) /\ L.count \in 0 .. Len(L.ends) /\ n - 1 < L.count /\ (n - 1) + 1 = n
      BY <1>1, <1>2
    <3> QED
      BY <1>1, <3>1, SkipsOne
  <2>4. \A n \in 0 .. target : g[n] = OffsetOf(L, n) \/ n < from[1]
    BY <1>2
  <2>5. g = [n \in 0 .. target |-> IF n <= from[1] THEN from[2] ELSE Skip(L, g[n - 1])]
    <3>1. ASSUME NEW n \in 0 .. target, n > from[1]
          PROVE  g[n] = Skip(L, g[n - 1])
      <4>1. n - 1 \in 0 .. target /\ ~ (n - 1 < from[1])
        BY <1>1, <1>2, <3>1
      <4> QED
        BY <4>1, <3>1, <2>3, <2>4, <1>2
    <3> QED
      BY <3>1, <1>2
  <2>6. to = [n \in 0 .. target |-> IF n <= from[1] THEN from[2] ELSE Skip(L, to[n - 1])]
    <3> HIDE DEF g
    <3> QED BY <2>1, <2>5
  <2>7. to[target] = OffsetOf(L, target)
    <3> DEFINE Bad == {n \in 0 .. target : n >= from[1] /\ to[n] # OffsetOf(L, n)}
    <3>1. SUFFICES ASSUME Bad # {} PROVE FALSE
      BY <1>1, <1>2
    <3>2. PICK n \in Bad : \A m \in Bad : n <= m
      <4>1. Bad \in SUBSET Nat
        BY <1>1
      <4> HIDE DEF Bad
      <4> QED BY <3>1, <4>1, LeastOfNumbers
    <3>3. n # from[1] /\ n > from[1]
      BY <1>1, <1>2, <2>6, <3>2
    <3>4. n - 1 \in 0 .. target /\ n - 1 >= from[1] /\ ~ (n <= n - 1)
      BY <1>1, <1>2, <3>2, <3>3
    <3>5. to[n - 1] = OffsetOf(L, n - 1)
      BY <3>2, <3>4
    <3>6. to[n] = Skip(L, to[n - 1])
      BY <1>1, <1>2, <2>6, <3>2, <3>3
    <3> QED
      BY <2>3, <3>2, <3>3, <3>5, <3>6
  <2> QED
    BY <2>2, <2>7
<1> QED
  BY <1>3, <1>4

-----------------------------------------------------------------------------
(* What appends and flushes leave as it was.                                *)

LEMMA PlacedStays ==
  ASSUME NEW L \in Log, NEW M \in Log, Grows(L, M), NEW r \in Reading, Placed(r, L)
  PROVE  Placed(r, M)
<1> DEFINE n == r.start + Len(r.got)
<1>1. n \in 0 .. Len(L.ends)
  BY DEF Placed, Reading, Log
<1>2. OffsetOf(M, n) = OffsetOf(L, n)
  BY <1>1, OffsetsStay
<1> QED
  BY <1>1, <1>2 DEF Placed, Grows, Log

LEMMA RangeStays ==
  ASSUME NEW L \in Log, NEW M \in Log, Grows(L, M), WellFormed(L), M.state = L.state,
         NEW r \in Reading, RangeInv(r, L)
  PROVE  RangeInv(r, M)
<1>1. r.end \in 0 .. Len(L.ends)
  BY DEF RangeInv, WellFormed, Reading, Log
<1>2. OffsetOf(M, r.end) = OffsetOf(L, r.end) /\ OffsetOf(L, r.end) \in Nat
  BY <1>1, OffsetsStay, OffsetsAreNumbers
<1> QED
  BY <1>1, <1>2 DEF RangeInv, Grows, Log, Reading

LEMMA ReaderTypes ==
  ASSUME NEW r \in Reading
  PROVE  r # NotReading /\ r.start \in Nat /\ r.end \in Nat /\ r.pos \in Int /\ r.got \in Seq(Int)
BY DEF Reading, NotReading

(* One log grows, and stays open while the Master reads.                    *)
LEMMA LogMoves ==
  ASSUME DiskInv, NEW l \in 1 .. Mine, NEW M \in Log, Grows(logs[l], M), WellFormed(M),
         logs' = [logs EXCEPT ![l] = M], UNCHANGED owner
  PROVE  /\ logs' \in Seq(Log) /\ Mine' = Mine /\ logs'[l] = M
         /\ \A k \in 1 .. Mine : logs'[k] \in Log /\ WellFormed(logs'[k]) /\ Grows(logs[k], logs'[k])
         /\ CacheInv(offsets, logs'[Mine])
         /\ (UNCHANGED reader /\ (owner = "master" => M.state = logs[l].state)) => ReaderInv(reader)'
<1> USE DEF DiskInv, DiskLogTypeOK
<1>1. logs \in Seq(Log) /\ Mine \in Nat \ {0} /\ Mine = Len(logs) /\ \A k \in 1 .. Mine : logs[k] \in Log
  BY DEF Mine
<1>2. logs' \in Seq(Log) /\ Len(logs') = Len(logs) /\ logs'[l] = M /\ \A k \in 1 .. Mine : k # l => logs'[k] = logs[k]
  BY <1>1
<1>3. Mine' = Mine
  BY <1>2 DEF Mine
<1>4. ASSUME NEW k \in 1 .. Mine
      PROVE  /\ logs'[k] \in Log /\ WellFormed(logs'[k]) /\ Grows(logs[k], logs'[k])
             /\ M.state = logs[l].state => logs'[k].state = logs[k].state
  BY <1>1, <1>2, GrowsNot
<1>5. CacheInv(offsets, logs'[Mine])
  <2>1. logs[Mine] \in Log /\ logs'[Mine] \in Log /\ logs[Mine].count <= Len(logs[Mine].ends)
    BY <1>1, <1>4 DEF WellFormed
  <2> QED
    BY <2>1, <1>1, <1>4, CacheStays DEF Entry
<1>6. ASSUME UNCHANGED reader, owner = "master" => M.state = logs[l].state
      PROVE  ReaderInv(reader)'
  <2> SUFFICES ASSUME reader # NotReading
               PROVE  ReaderInv(reader)'
    BY <1>6 DEF ReaderInv
  <2>1. reader \in Reading /\ reader' = reader
    BY <1>6
  <2>2. reader.file # 0 => Placed(reader, logs'[reader.file])
    <3> SUFFICES ASSUME reader.file # 0 PROVE Placed(reader, logs'[reader.file])
      OBVIOUS
    <3>1. reader.file \in 1 .. Mine /\ Placed(reader, logs[reader.file])
      BY <1>1 DEF ReaderInv
    <3> QED
      BY <1>1, <1>4, <2>1, <3>1, PlacedStays
  <2>3. owner = "master" => RangeInv(reader, logs'[Mine])
    BY <1>1, <1>4, <1>6, <2>1, RangeStays DEF ReaderInv
  <2>4. Mine' = Mine /\ owner' = owner
    BY <1>3
  <2> QED
    BY <2>4, <2>1, <2>2, <2>3 DEF ReaderInv
<1> QED
  BY <1>2, <1>3, <1>4, <1>5, <1>6

-----------------------------------------------------------------------------
(* Each action keeps the invariant.                                         *)

(* What is known of the owner's log.                                        *)
LEMMA MyLog ==
  ASSUME DiskInv
  PROVE  /\ Mine \in 1 .. Len(Sizes) /\ Mine \in 1 .. Mine /\ Mine = Len(logs)
         /\ logs[Mine] \in Log /\ WellFormed(logs[Mine])
         /\ Len(logs[Mine].ends) \in Nat
         /\ Sizes[Mine] \in Seq(Nat \ {0})
<1>1. Mine \in 1 .. Len(Sizes) /\ Mine = Len(logs) /\ logs \in Seq(Log) /\ Len(Sizes) \in Nat
  BY DiskEventLogAssumption DEF DiskInv, DiskLogTypeOK, Mine
<1>2. logs[Mine] \in Log /\ Sizes[Mine] \in Seq(Nat \ {0})
  BY <1>1, DiskEventLogAssumption
<1> QED
  BY <1>1, <1>2 DEF DiskInv, Log

LEMMA AppendHeaderKeeps ==
  ASSUME DiskInv, AppendHeader
  PROVE  DiskInv'
<1> DEFINE L == logs[Mine]
           n == Len(L.ends)
           e == OffsetOf(L, n) + Header + Sizes[Mine][n + 1]
           M == [L EXCEPT !.ends = Append(@, e), !.written = @ + Header]
<1>0. /\ L \in Log /\ WellFormed(L) /\ n \in Nat /\ L.flushed \in Nat /\ L.written \in Nat /\ L.count \in Nat
      /\ Mine \in 1 .. Mine
  BY MyLog, LogKinds
<1>1. /\ L.state = "open" /\ writing = "no" /\ n < Len(Sizes[Mine])
      /\ logs' = [logs EXCEPT ![Mine] = M] /\ writing' = "payload"
      /\ UNCHANGED <<owner, active, offsets, archives, reader>>
  BY DEF AppendHeader, Usable
<1>2. Sizes[Mine][n + 1] \in Nat \ {0} /\ OffsetOf(L, n) \in Nat /\ L.written = OffsetOf(L, n) /\ L.count = n
      /\ active = Mine
  BY <1>0, <1>1, MyLog, OffsetsAreNumbers DEF DiskInv, WriteInv
<1>3. e \in Nat /\ OffsetOf(L, n) < e
  BY <1>2 DEF Header
<1> HIDE DEF e
<1>12. Append(L.ends, e) \in Seq(Nat)
  BY <1>0, <1>3, LogKinds
<1>4. /\ M \in Log /\ M.ends = Append(L.ends, e) /\ M.count = L.count /\ M.flushed = L.flushed
      /\ M.written = L.written + Header /\ M.state = "open"
  <2>1. L.written + Header \in Nat
    BY <1>0 DEF Header
  <2>2. M = [L EXCEPT !.ends = Append(L.ends, e), !.written = L.written + Header]
    OBVIOUS
  <2>3. L \in Log /\ L.state = "open"
    BY <1>0, <1>1
  <2> DEFINE ends == Append(L.ends, e)
  <2>4. ends \in Seq(Nat) /\ M = [L EXCEPT !.ends = ends, !.written = L.written + Header]
    BY <1>12, <2>2
  <2> HIDE DEF M, L, ends
  <2>5. /\ M \in Log /\ M.ends = ends /\ M.count = L.count /\ M.flushed = L.flushed
        /\ M.written = L.written + Header /\ M.state = "open"
    BY <2>1, <2>3, <2>4 DEF Log
  <2> QED
    BY <2>5 DEF ends
<1> HIDE DEF M
<1>5. Grows(L, M) /\ Ascending(M) /\ OffsetOf(M, Len(M.ends)) = e /\ Len(M.ends) = n + 1
  <2>1. Ascending(L) /\ L.count <= M.count /\ L.flushed <= M.flushed
    BY <1>0, <1>4 DEF WellFormed
  <2> QED
    BY <2>1, <1>0, <1>3, <1>4, OneMore
<1>6. L.flushed \in Nat /\ L.written \in Nat /\ L.flushed <= L.written
  BY <1>0, <1>1 DEF Log, WellFormed
<1>7. M.written <= e
  BY <1>2, <1>4 DEF e, Header
<1>8. WellFormed(M)
  BY <1>0, <1>1, <1>2, <1>3, <1>4, <1>5, <1>6, <1>7 DEF WellFormed, Header
<1>9. /\ logs' \in Seq(Log) /\ Mine' = Mine /\ logs'[Mine] = M
      /\ \A k \in 1 .. Mine : WellFormed(logs'[k])
      /\ CacheInv(offsets, logs'[Mine]) /\ ReaderInv(reader)'
  <2>1. M.state = logs[Mine].state /\ UNCHANGED owner /\ UNCHANGED reader
    BY <1>0, <1>1, <1>4, <1>5, <1>8
  <2> HIDE DEF L
  <2>2. Mine \in 1 .. Mine /\ M \in Log /\ Grows(logs[Mine], M) /\ WellFormed(M) /\ logs' = [logs EXCEPT ![Mine] = M]
    BY <1>0, <1>1, <1>4, <1>5, <1>8 DEF L
  <2> QED
    BY <2>1, <2>2, LogMoves
<1>10. WriteInv(M, writing', Sizes[Mine])
  BY <1>0, <1>1, <1>2, <1>4, <1>5, <1>9 DEF WriteInv, e, Header
<1>11. DiskLogTypeOK'
  BY <1>0, <1>1, <1>9 DEF DiskInv, DiskLogTypeOK
<1> QED
  BY <1>0, <1>1, <1>9, <1>10, <1>11 DEF DiskInv

LEMMA AppendPayloadKeeps ==
  ASSUME DiskInv, AppendPayload
  PROVE  DiskInv'
<1> DEFINE L == logs[Mine]
           n == Len(L.ends)
           M == [L EXCEPT !.written = @ + Sizes[Mine][n]]
<1>0. /\ L \in Log /\ WellFormed(L) /\ n \in Nat /\ L.flushed \in Nat /\ L.written \in Nat /\ L.count \in Nat
      /\ Mine \in 1 .. Mine
  BY MyLog, LogKinds
<1>1. /\ writing = "payload" /\ logs' = [logs EXCEPT ![Mine] = M] /\ writing' = "count"
      /\ UNCHANGED <<owner, active, offsets, archives, reader>>
  BY DEF AppendPayload
<1>2. /\ L.state = "open" /\ n > 0 /\ L.count = n - 1 /\ active = Mine
      /\ n \in 1 .. Len(Sizes[Mine]) /\ L.written + Sizes[Mine][n] = OffsetOf(L, n)
  BY <1>0, <1>1 DEF DiskInv, WriteInv
<1>3. Sizes[Mine][n] \in Nat /\ L.written \in Nat /\ L.flushed \in Nat /\ OffsetOf(L, n) \in Nat
  BY <1>0, <1>1, <1>2, MyLog, OffsetsAreNumbers DEF Log
<1>4. /\ M \in Log /\ M.ends = L.ends /\ M.count = L.count /\ M.flushed = L.flushed
      /\ M.written = OffsetOf(L, n) /\ M.state = "open"
  BY <1>0, <1>1, <1>2, <1>3 DEF Log
<1> HIDE DEF M
<1>5. Grows(L, M) /\ OffsetOf(M, n) = OffsetOf(L, n) /\ Ascending(M)
  <2>1. /\ Ascending(L) /\ L.count <= M.count /\ L.flushed <= M.flushed
        /\ Len(L.ends) \in 0 .. Len(L.ends)
    BY <1>0, <1>1, <1>4 DEF WellFormed
  <2>2. L \in Log /\ M \in Log /\ M.ends = L.ends
    BY <1>0, <1>1, <1>4
  <2> HIDE DEF L
  <2> QED
    BY <2>1, <2>2, SameRecords
<1>6. WellFormed(M)
  BY <1>0, <1>1, <1>2, <1>3, <1>4, <1>5 DEF WellFormed
<1>7. /\ logs' \in Seq(Log) /\ Mine' = Mine /\ logs'[Mine] = M
      /\ \A k \in 1 .. Mine : WellFormed(logs'[k])
      /\ CacheInv(offsets, logs'[Mine]) /\ ReaderInv(reader)'
  <2>1. M.state = logs[Mine].state /\ UNCHANGED owner /\ UNCHANGED reader
    BY <1>0, <1>1, <1>2, <1>4, <1>5, <1>6
  <2> HIDE DEF L
  <2>2. Mine \in 1 .. Mine /\ M \in Log /\ Grows(logs[Mine], M) /\ WellFormed(M) /\ logs' = [logs EXCEPT ![Mine] = M]
    BY <1>0, <1>1, <1>2, <1>4, <1>5, <1>6 DEF L
  <2> QED
    BY <2>1, <2>2, LogMoves
<1>8. WriteInv(M, writing', Sizes[Mine])
  BY <1>0, <1>1, <1>2, <1>4, <1>5, <1>7 DEF WriteInv
<1>9. DiskLogTypeOK'
  BY <1>0, <1>1, <1>7 DEF DiskInv, DiskLogTypeOK
<1> QED
  BY <1>0, <1>1, <1>2, <1>7, <1>8, <1>9 DEF DiskInv

LEMMA AppendCountKeeps ==
  ASSUME DiskInv, AppendCount
  PROVE  DiskInv'
<1> DEFINE L == logs[Mine]
           n == Len(L.ends)
           M == [L EXCEPT !.count = @ + 1]
<1>0. /\ L \in Log /\ WellFormed(L) /\ n \in Nat /\ L.flushed \in Nat /\ L.written \in Nat /\ L.count \in Nat
      /\ Mine \in 1 .. Mine
  BY MyLog, LogKinds
<1>1. /\ writing = "count" /\ logs' = [logs EXCEPT ![Mine] = M] /\ writing' = "no"
      /\ UNCHANGED <<owner, active, offsets, archives, reader>>
  BY DEF AppendCount
<1>2. L.state = "open" /\ L.count = n - 1 /\ active = Mine /\ L.written = OffsetOf(L, n)
  BY <1>0, <1>1 DEF DiskInv, WriteInv
<1>3. L.written \in Nat /\ L.flushed \in Nat /\ OffsetOf(L, n) \in Nat /\ L.count \in Nat
  BY <1>0, <1>1, OffsetsAreNumbers DEF Log
<1>4. /\ M \in Log /\ M.ends = L.ends /\ M.count = n /\ M.flushed = L.flushed
      /\ M.written = L.written /\ M.state = "open"
  BY <1>0, <1>1, <1>2, <1>3 DEF Log
<1> HIDE DEF M
<1>5. Grows(L, M) /\ OffsetOf(M, n) = OffsetOf(L, n) /\ Ascending(M)
  <2>1. /\ Ascending(L) /\ L.count <= M.count /\ L.flushed <= M.flushed
        /\ Len(L.ends) \in 0 .. Len(L.ends)
    BY <1>0, <1>1, <1>2, <1>3, <1>4 DEF WellFormed
  <2>2. L \in Log /\ M \in Log /\ M.ends = L.ends
    BY <1>0, <1>1, <1>2, <1>3, <1>4
  <2> HIDE DEF L
  <2> QED
    BY <2>1, <2>2, SameRecords
<1>6. WellFormed(M)
  BY <1>0, <1>1, <1>2, <1>3, <1>4, <1>5 DEF WellFormed
<1>7. /\ logs' \in Seq(Log) /\ Mine' = Mine /\ logs'[Mine] = M
      /\ \A k \in 1 .. Mine : WellFormed(logs'[k])
      /\ CacheInv(offsets, logs'[Mine]) /\ ReaderInv(reader)'
  <2>1. M.state = logs[Mine].state /\ UNCHANGED owner /\ UNCHANGED reader
    BY <1>0, <1>1, <1>2, <1>4, <1>5, <1>6
  <2> HIDE DEF L
  <2>2. Mine \in 1 .. Mine /\ M \in Log /\ Grows(logs[Mine], M) /\ WellFormed(M) /\ logs' = [logs EXCEPT ![Mine] = M]
    BY <1>0, <1>1, <1>2, <1>4, <1>5, <1>6 DEF L
  <2> QED
    BY <2>1, <2>2, LogMoves
<1>8. WriteInv(M, writing', Sizes[Mine])
  BY <1>0, <1>1, <1>2, <1>4, <1>5, <1>7 DEF WriteInv
<1>9. DiskLogTypeOK'
  BY <1>0, <1>1, <1>7 DEF DiskInv, DiskLogTypeOK
<1> QED
  BY <1>0, <1>1, <1>2, <1>7, <1>8, <1>9 DEF DiskInv

(* Some of the buffer, or all of it, gets to the file of a log.             *)
LEMMA Flushed ==
  ASSUME DiskInv, NEW l \in 1 .. Mine, NEW f \in logs[l].flushed .. logs[l].written,
         logs' = [logs EXCEPT ![l] = [@ EXCEPT !.flushed = f]],
         UNCHANGED <<owner, active, writing>>
  PROVE  /\ logs' \in Seq(Log) /\ Mine' = Mine
         /\ logs'[l] = [logs[l] EXCEPT !.flushed = f]
         /\ \A k \in 1 .. Mine : logs'[k] \in Log /\ WellFormed(logs'[k]) /\ Grows(logs[k], logs'[k])
         /\ CacheInv(offsets, logs'[Mine]) /\ WriteInv(logs'[Mine], writing', Sizes[Mine])
         /\ UNCHANGED reader => ReaderInv(reader)'
<1> DEFINE L == logs[l]
           M == [L EXCEPT !.flushed = f]
<1>1. logs \in Seq(Log) /\ L \in Log /\ WellFormed(L) /\ Mine = Len(logs) /\ Mine \in 1 .. Mine
  BY MyLog DEF DiskInv, DiskLogTypeOK
<1>2. L.flushed \in Nat /\ L.written \in Nat /\ L.count \in Nat /\ Len(L.ends) \in Nat /\ f \in Nat
  BY <1>1, LogKinds
<1>3. /\ M \in Log /\ M.ends = L.ends /\ M.count = L.count /\ M.flushed = f
      /\ M.written = L.written /\ M.state = L.state
  BY <1>1, <1>2 DEF Log
<1> HIDE DEF M
<1>4. Grows(L, M) /\ OffsetOf(M, Len(L.ends)) = OffsetOf(L, Len(L.ends)) /\ Ascending(M)
  <2>1. /\ Ascending(L) /\ L.count <= M.count /\ L.flushed <= M.flushed
        /\ Len(L.ends) \in 0 .. Len(L.ends)
    BY <1>1, <1>2, <1>3 DEF WellFormed
  <2>2. L \in Log /\ M \in Log /\ M.ends = L.ends
    BY <1>1, <1>2, <1>3
  <2> HIDE DEF L
  <2> QED
    BY <2>1, <2>2, SameRecords
<1>5. WellFormed(M)
  BY <1>1, <1>2, <1>3, <1>4 DEF WellFormed
<1>6. logs' = [logs EXCEPT ![l] = M]
  BY DEF M
<1>7. /\ logs' \in Seq(Log) /\ Mine' = Mine /\ logs'[l] = M
      /\ \A k \in 1 .. Mine : logs'[k] \in Log /\ WellFormed(logs'[k]) /\ Grows(logs[k], logs'[k])
      /\ CacheInv(offsets, logs'[Mine]) /\ (UNCHANGED reader => ReaderInv(reader)')
  BY <1>3, <1>4, <1>5, <1>6, LogMoves
<1>8. WriteInv(logs'[Mine], writing', Sizes[Mine])
  <2>1. WriteInv(logs[Mine], writing, Sizes[Mine])
    BY DEF DiskInv
  <2>2. CASE l = Mine
    BY <2>1, <2>2, <1>3, <1>4, <1>7 DEF WriteInv
  <2>3. CASE l # Mine
    BY <2>1, <2>3, <1>1, <1>6, <1>7 DEF WriteInv
  <2> QED
    BY <2>2, <2>3
<1> QED
  BY <1>7, <1>8 DEF M

LEMMA SpillKeeps ==
  ASSUME DiskInv, Spill
  PROVE  DiskInv'
<1>1. /\ Mine \in 1 .. Mine /\ logs[Mine].flushed \in Nat /\ logs[Mine].written \in Nat
      /\ logs[Mine].state = "open"
  BY MyLog, LogKinds DEF Spill
<1>2. PICK f \in logs[Mine].flushed + 1 .. logs[Mine].written :
        logs' = [logs EXCEPT ![Mine] = [@ EXCEPT !.flushed = f]]
  BY DEF Spill
<1>3. f \in logs[Mine].flushed .. logs[Mine].written /\ UNCHANGED <<owner, active, writing, offsets, archives, reader>>
  BY <1>1, <1>2 DEF Spill
<1>4. /\ logs' \in Seq(Log) /\ Mine' = Mine
      /\ \A k \in 1 .. Mine : WellFormed(logs'[k])
      /\ CacheInv(offsets, logs'[Mine]) /\ WriteInv(logs'[Mine], writing', Sizes[Mine])
      /\ ReaderInv(reader)'
  BY <1>1, <1>2, <1>3, Flushed
<1>5. DiskLogTypeOK' /\ active = Mine
  BY <1>1, <1>3, <1>4 DEF DiskInv, DiskLogTypeOK
<1> QED
  BY <1>3, <1>4, <1>5 DEF DiskInv

LEMMA OffsetsAscend ==
  ASSUME NEW L \in Log, Ascending(L), NEW i \in 0 .. Len(L.ends), NEW j \in 0 .. Len(L.ends), i <= j
  PROVE  OffsetOf(L, i) <= OffsetOf(L, j)
<1>1. OffsetOf(L, i) \in Nat /\ OffsetOf(L, j) \in Nat
  BY OffsetsAreNumbers
<1> QED
  BY <1>1, LogKinds DEF Ascending

LEMMA ReadRangeKeeps ==
  ASSUME DiskInv, NEW start \in Nat, NEW end \in Nat, ReadRange(start, end)
  PROVE  DiskInv'
<1> DEFINE L == logs[Mine]
           B == logs'[Mine]
           n == Len(L.ends)
<1>1. /\ L \in Log /\ WellFormed(L) /\ n \in Nat /\ Mine \in 1 .. Mine
      /\ L.flushed \in Nat /\ L.written \in Nat /\ L.count \in Nat
  BY MyLog, LogKinds
<1>2. /\ owner = "master" /\ L.state = "open" /\ writing = "no" /\ start < end /\ end <= L.count
      /\ logs' = [logs EXCEPT ![Mine] = [@ EXCEPT !.flushed = logs[Mine].written]]
      /\ UNCHANGED <<owner, active, writing, archives>>
  BY DEF ReadRange, Usable
<1>3. active = Mine /\ L.count = n /\ L.written = OffsetOf(L, n) /\ offsets \in Seq(Entry) /\ CacheInv(offsets, L)
  BY <1>2 DEF DiskInv, WriteInv, DiskLogTypeOK, Entry
<1>4. L.written \in L.flushed .. L.written
  BY <1>1 DEF WellFormed
<1>5. /\ logs' \in Seq(Log) /\ Mine' = Mine /\ B = [L EXCEPT !.flushed = L.written]
      /\ \A k \in 1 .. Mine : WellFormed(logs'[k])
      /\ B \in Log /\ WellFormed(B) /\ Grows(L, B)
      /\ CacheInv(offsets, B) /\ WriteInv(B, writing', Sizes[Mine])
  BY <1>1, <1>2, <1>4, Flushed
<1>6. B.ends = L.ends /\ B.count = n /\ B.flushed = L.written /\ B.state = "open"
  BY <1>1, <1>2, <1>3, <1>5 DEF Log
<1> HIDE DEF B
<1>7. OffsetOf(B, n) = B.flushed
  BY <1>1, <1>3, <1>5, <1>6, OffsetsStay
<1>8. start \in 0 .. n /\ end \in 0 .. n
  BY <1>1, <1>2, <1>3
<1>9. OffsetOf(B, end) <= B.flushed
  <2>1. Ascending(B) /\ end \in 0 .. Len(B.ends) /\ n \in 0 .. Len(B.ends) /\ end <= n
    BY <1>1, <1>5, <1>6, <1>8 DEF WellFormed
  <2> QED
    BY <1>5, <1>7, <2>1, OffsetsAscend
<1> DEFINE pos == SeekTo(B, offsets, start)
<1>10. pos = OffsetOf(B, start) /\ pos \in Nat
  <2>1. B.flushed \in Nat /\ OffsetOf(B, B.count) <= B.flushed /\ start \in 0 .. B.count /\ start \in 0 .. Len(B.ends)
    BY <1>1, <1>5, <1>6, <1>7, <1>8
  <2> QED
    BY <1>3, <1>5, <2>1, SeeksTheRecord, OffsetsAreNumbers
<1>11. /\ reader' = [at |-> "reads", log |-> Mine, file |-> active, start |-> start,
                     end |-> end, pos |-> pos, got |-> <<>>]
       /\ offsets' = CacheOffset(offsets, start, pos)
  BY <1>3 DEF ReadRange, B
<1> HIDE DEF pos
<1>12. offsets' \in Seq(Entry) /\ CacheInv(offsets', B)
  <2>1. start \in 0 .. B.count /\ pos \in Int
    BY <1>6, <1>8, <1>10
  <2> QED
    BY <1>3, <1>5, <1>10, <1>11, <2>1, CacheIsTrue
<1>13. reader' \in Reading
  BY <1>1, <1>3, <1>10, <1>11 DEF Reading
<1>14. Placed(reader', B) /\ RangeInv(reader', B)
  BY <1>1, <1>2, <1>6, <1>8, <1>9, <1>10, <1>11 DEF Placed, RangeInv
<1>15. ReaderInv(reader)'
  BY <1>1, <1>3, <1>5, <1>11, <1>14 DEF ReaderInv, B
<1>16. DiskLogTypeOK'
  BY <1>2, <1>5, <1>12, <1>13 DEF DiskInv, DiskLogTypeOK, Entry
<1> QED
  BY <1>2, <1>3, <1>5, <1>12, <1>15, <1>16 DEF DiskInv, B

(* Only the reader moves.                                                   *)
LEMMA ReaderMoves ==
  ASSUME DiskInv, UNCHANGED <<owner, logs, active, writing, archives>>,
         offsets' \in Seq(Entry), CacheInv(offsets', logs[Mine]),
         reader' \in Reading \cup {NotReading}, ReaderInv(reader')
  PROVE  DiskInv'
<1>1. Mine' = Mine
  BY DEF Mine
<1>2. ReaderInv(reader)'
  BY <1>1 DEF ReaderInv
<1>3. DiskLogTypeOK'
  BY <1>1 DEF DiskInv, DiskLogTypeOK, Entry
<1> QED
  BY <1>1, <1>2, <1>3 DEF DiskInv

LEMMA Kept ==
  ASSUME DiskInv
  PROVE  offsets \in Seq(Entry) /\ CacheInv(offsets, logs[Mine])
BY DEF DiskInv, DiskLogTypeOK, Entry

LEMMA StreamEventsKeeps ==
  ASSUME DiskInv, StreamEvents
  PROVE  DiskInv'
<1>1. Mine \in Nat /\ Mine \in 1 .. Mine /\ owner = "api"
  BY MyLog DEF StreamEvents
<1>2. reader' \in Reading /\ ReaderInv(reader')
  BY <1>1 DEF StreamEvents, Reading, ReaderInv
<1> QED
  BY <1>2, ReaderMoves, Kept DEF StreamEvents

LEMMA DropReaderKeeps ==
  ASSUME DiskInv, DropReader
  PROVE  DiskInv'
<1>1. ReaderInv(reader')
  BY DEF DropReader, ReaderInv
<1> QED
  BY <1>1, ReaderMoves, Kept DEF DropReader

(* A stream that has not begun to read is an API's.                         *)
LEMMA StreamsAreApis ==
  ASSUME DiskInv, reader.at \in {"asked", "opens", "counts"}
  PROVE  /\ owner = "api" /\ reader \in Reading /\ reader.log \in 1 .. Mine
         /\ reader.start = 0 /\ reader.pos = 0 /\ reader.got = <<>>
<1>1. reader \in Reading
  BY DEF DiskInv, DiskLogTypeOK, NotReading
<1>2. reader # NotReading
  BY <1>1, ReaderTypes
<1>3. owner # "master"
  BY <1>2 DEF DiskInv, ReaderInv, RangeInv
<1> QED
  BY <1>1, <1>2, <1>3 DEF DiskInv, DiskLogTypeOK, ReaderInv

LEMMA FlushKeeps ==
  ASSUME DiskInv, Flush
  PROVE  DiskInv'
<1> DEFINE l == reader.log
<1>1. /\ owner = "api" /\ reader \in Reading /\ l \in 1 .. Mine /\ reader.file = 0
      /\ reader.start = 0 /\ reader.pos = 0 /\ reader.got = <<>>
  BY StreamsAreApis DEF Flush, DiskInv, ReaderInv, Reading, NotReading
<1>2. PICK at \in {"ends", "fails", "opens"} : reader' = [reader EXCEPT !.at = at]
  BY DEF Flush
<1>3. /\ reader' \in Reading /\ reader'.at = at /\ reader'.log = l /\ reader'.file = 0
      /\ reader'.start = 0 /\ reader'.pos = 0 /\ reader'.got = <<>>
  BY <1>1, <1>2 DEF Reading
<1>4. UNCHANGED <<owner, active, writing, offsets, archives>> /\ Mine \in Nat
  BY MyLog DEF Flush
<1>5. CASE at # "opens"
  <2>1. logs' = logs
    BY <1>3, <1>5 DEF Flush
  <2>2. ReaderInv(reader')
    BY <1>1, <1>2, <1>3, <1>4, <1>5 DEF ReaderInv
  <2> QED
    BY <1>3, <1>4, <2>1, <2>2, ReaderMoves, Kept
<1>6. CASE at = "opens"
  <2>1. logs' = [logs EXCEPT ![l] = [@ EXCEPT !.flushed = logs[l].written]]
    BY <1>3, <1>6 DEF Flush
  <2>2. logs[l] \in Log /\ WellFormed(logs[l])
    BY <1>1 DEF DiskInv, DiskLogTypeOK, Mine
  <2>3. logs[l].written \in logs[l].flushed .. logs[l].written
    BY <2>2, LogKinds DEF WellFormed
  <2>4. /\ logs' \in Seq(Log) /\ Mine' = Mine
        /\ \A k \in 1 .. Mine : logs'[k] \in Log /\ WellFormed(logs'[k]) /\ Grows(logs[k], logs'[k])
        /\ CacheInv(offsets, logs'[Mine]) /\ WriteInv(logs'[Mine], writing', Sizes[Mine])
        /\ logs'[l] = [logs[l] EXCEPT !.flushed = logs[l].written]
    BY <1>1, <1>4, <2>1, <2>3, Flushed
  <2>5. logs'[Mine].state = logs[Mine].state
    <3>1. logs \in Seq(Log) /\ Mine = Len(logs) /\ Mine \in 1 .. Mine
      BY MyLog DEF DiskInv, DiskLogTypeOK
    <3>2. CASE l = Mine
      BY <3>2, <2>2, <2>4 DEF Log
    <3>3. CASE l # Mine
      BY <3>1, <3>3, <2>1
    <3> QED
      BY <3>2, <3>3
  <2>6. ReaderInv(reader)'
    BY <1>1, <1>3, <1>4, <1>6, <2>4 DEF ReaderInv
  <2>7. DiskLogTypeOK'
    BY <1>3, <1>4, <2>4 DEF DiskInv, DiskLogTypeOK
  <2> QED
    BY <1>4, <2>4, <2>5, <2>6, <2>7 DEF DiskInv
<1> QED
  BY <1>5, <1>6

LEMMA OpenFileKeeps ==
  ASSUME DiskInv, OpenFile
  PROVE  DiskInv'
<1>1. /\ owner = "api" /\ reader \in Reading /\ reader.log \in 1 .. Mine /\ reader.file = 0
      /\ reader.start = 0 /\ reader.pos = 0 /\ reader.got = <<>>
  BY StreamsAreApis DEF OpenFile, DiskInv, ReaderInv, Reading, NotReading
<1>2. Mine \in Nat /\ logs[Mine] \in Log /\ active \in {0, Mine} /\ Mine \in 1 .. Mine
  BY MyLog DEF DiskInv, DiskLogTypeOK
<1>3. CASE active = 0
  <2>1. reader' = [reader EXCEPT !.at = "fails"]
    BY <1>3 DEF OpenFile
  <2>2. reader' \in Reading /\ ReaderInv(reader')
    BY <1>1, <1>2, <2>1 DEF Reading, ReaderInv
  <2> QED
    BY <2>2, ReaderMoves, Kept DEF OpenFile
<1>4. CASE active # 0
  <2>1. reader' = [reader EXCEPT !.at = "counts", !.file = Mine]
    BY <1>2, <1>4 DEF OpenFile
  <2>2. /\ reader' \in Reading /\ reader'.at = "counts" /\ reader'.file = Mine /\ reader'.log = reader.log
        /\ reader'.start = 0 /\ reader'.pos = 0 /\ reader'.got = <<>>
    BY <1>1, <1>2, <2>1 DEF Reading
  <2>3. Placed(reader', logs[Mine])
    BY <1>2, <2>2, LogKinds DEF Placed, OffsetOf
  <2>4. ReaderInv(reader')
    BY <1>1, <1>2, <2>2, <2>3 DEF ReaderInv
  <2> QED
    BY <2>2, <2>4, ReaderMoves, Kept DEF OpenFile
<1> QED
  BY <1>3, <1>4

LEMMA CountRecordsKeeps ==
  ASSUME DiskInv, CountRecords
  PROVE  DiskInv'
<1>1. /\ owner = "api" /\ reader \in Reading /\ reader.log \in 1 .. Mine /\ reader # NotReading
  BY StreamsAreApis, ReaderTypes DEF CountRecords
<1>2. logs[reader.log].count \in Nat
  BY <1>1, LogKinds DEF DiskInv, DiskLogTypeOK, Mine
<1>3. reader' = [reader EXCEPT !.at = "reads", !.end = logs[reader.log].count]
  BY DEF CountRecords
<1>4. /\ reader' \in Reading /\ reader'.at = "reads" /\ reader'.file = reader.file /\ reader'.log = reader.log
      /\ reader'.start = reader.start /\ reader'.pos = reader.pos /\ reader'.got = reader.got
  BY <1>1, <1>2, <1>3 DEF Reading
<1>5. reader.file # 0 /\ reader.file \in 0 .. Mine /\ Placed(reader, logs[reader.file])
  BY <1>1 DEF CountRecords, DiskInv, ReaderInv
<1>6. Placed(reader', logs[reader'.file])
  BY <1>4, <1>5 DEF Placed
<1>7. ReaderInv(reader')
  BY <1>1, <1>4, <1>5, <1>6 DEF ReaderInv
<1> QED
  BY <1>4, <1>7, ReaderMoves, Kept DEF CountRecords

(* _read_record: the reader stops, or yields the next record.               *)
LEMMA ReadsOne ==
  ASSUME NEW r \in Reading, NEW L, L = logs[r.file], L \in Log, WellFormed(L), Placed(r, L)
  PROVE  LET n == r.start + Len(r.got)
             q == [r EXCEPT !.got = Append(@, n), !.pos = OffsetOf(L, n + 1)]
         IN  /\ \/ n < Len(L.ends) /\ ReadRecord(r) = q
                \/ ReadRecord(r) = [r EXCEPT !.at = "stops"]
             /\ \A m \in 0 .. Len(L.ends) : n < m /\ OffsetOf(L, m) <= L.flushed => 
                  n < Len(L.ends) /\ ReadRecord(r) = q
<1> DEFINE n == r.start + Len(r.got)
<1>1. n \in 0 .. Len(L.ends) /\ r.pos = OffsetOf(L, n) /\ OffsetOf(L, n) \in Nat /\ L.flushed \in Nat
      /\ Len(L.ends) \in Nat
  BY ReaderTypes, OffsetsAreNumbers, LogKinds DEF Placed
<1>2. CASE r.pos + Header > L.flushed
  <2>1. ReadRecord(r) = [r EXCEPT !.at = "stops"]
    BY <1>2 DEF ReadRecord
  <2>2. \A m \in 0 .. Len(L.ends) : ~ (n < m /\ OffsetOf(L, m) <= L.flushed)
    BY <1>1, <1>2, RecordIsThere DEF WellFormed, Header
  <2> QED
    BY <2>1, <2>2
<1>3. CASE ~ (r.pos + Header > L.flushed)
  <2>1. n < Len(L.ends)
    BY <1>1, <1>3, HeaderIsThere DEF Header
  <2>2. RecordsAt(L, r.pos) = {n}
    BY <1>1, <2>1, TheRecord DEF WellFormed
  <2>3. (CHOOSE i \in RecordsAt(L, r.pos) : TRUE) = n
    BY <2>2
  <2>4. ReadRecord(r) = IF OffsetOf(L, n + 1) > L.flushed THEN [r EXCEPT !.at = "stops"]
                        ELSE [r EXCEPT !.got = Append(@, n), !.pos = OffsetOf(L, n + 1)]
    BY <1>3, <2>2, <2>3 DEF ReadRecord
  <2>5. OffsetOf(L, n + 1) \in Nat
    BY <1>1, <2>1, OffsetsAreNumbers
  <2>6. \A m \in 0 .. Len(L.ends) : n < m /\ OffsetOf(L, m) <= L.flushed => OffsetOf(L, n + 1) <= L.flushed
    BY <1>1, RecordIsThere DEF WellFormed
  <2> QED
    BY <1>1, <2>1, <2>4, <2>5, <2>6
<1> QED
  BY <1>2, <1>3

LEMMA ReadNextKeeps ==
  ASSUME DiskInv, ReadNext
  PROVE  DiskInv'
<1> DEFINE L == logs[reader.file]
           n == reader.start + Len(reader.got)
           q == [reader EXCEPT !.got = Append(@, n), !.pos = OffsetOf(L, n + 1)]
           s == [reader EXCEPT !.at = "stops"]
<1>1. /\ reader.at = "reads" /\ UNCHANGED <<owner, logs, active, writing, offsets, archives>>
      /\ reader' = IF Len(reader.got) < reader.end - reader.start THEN ReadRecord(reader) ELSE s
  BY DEF ReadNext
<1>2. reader \in Reading
  BY <1>1 DEF DiskInv, DiskLogTypeOK, NotReading
<1>3. /\ reader # NotReading /\ reader.start \in Nat /\ reader.end \in Nat /\ reader.got \in Seq(Int)
      /\ Len(reader.got) \in Nat /\ n \in Nat
  BY <1>2, ReaderTypes
<1>4. /\ reader.log \in 1 .. Mine /\ reader.file \in 1 .. Mine /\ Placed(reader, L)
      /\ owner = "master" => reader.log = Mine /\ reader.file = Mine /\ RangeInv(reader, L)
  BY <1>1, <1>3, MyLog DEF DiskInv, ReaderInv
<1>5. L \in Log /\ WellFormed(L) /\ Len(L.ends) \in Nat /\ L.count \in Nat
  BY <1>4, LogKinds DEF DiskInv, DiskLogTypeOK, Mine
<1>6. CASE reader' = s /\ (owner = "master" => n = reader.end)
  <2>1. /\ reader' \in Reading /\ reader'.at = "stops" /\ reader'.log = reader.log /\ reader'.file = reader.file
        /\ reader'.start = reader.start /\ reader'.end = reader.end /\ reader'.pos = reader.pos
        /\ reader'.got = reader.got
    BY <1>2, <1>6 DEF Reading
  <2>2. Placed(reader', L)
    BY <1>4, <2>1 DEF Placed
  <2>3. owner = "master" => RangeInv(reader', L)
    BY <1>4, <1>6, <2>1 DEF RangeInv
  <2>4. ReaderInv(reader')
    BY <1>4, <2>1, <2>2, <2>3 DEF ReaderInv
  <2> QED
    BY <1>1, <2>1, <2>4, ReaderMoves, Kept
<1>7. CASE reader' = q /\ n < Len(L.ends) /\ (owner = "master" => n < reader.end)
  <2>1. OffsetOf(L, n + 1) \in Int /\ Append(reader.got, n) \in Seq(Int)
    BY <1>3, <1>5, <1>7, OffsetsAreNumbers
  <2>2. /\ reader' \in Reading /\ reader'.at = "reads" /\ reader'.log = reader.log /\ reader'.file = reader.file
        /\ reader'.start = reader.start /\ reader'.end = reader.end /\ reader'.pos = OffsetOf(L, n + 1)
        /\ reader'.got = Append(reader.got, n)
    BY <1>1, <1>2, <1>7, <2>1 DEF Reading
  <2>3. /\ Len(reader'.got) = Len(reader.got) + 1 /\ reader'.got[Len(reader.got) + 1] = n
        /\ \A j \in 1 .. Len(reader.got) : reader'.got[j] = reader.got[j]
    BY <1>3, <2>2
  <2>4. Placed(reader', L)
    <3>1. ASSUME NEW j \in 1 .. Len(reader'.got)
          PROVE  reader'.got[j] = reader.start + j - 1
      <4>1. CASE j = Len(reader.got) + 1
        <5>1. reader'.got[j] = n
          BY <2>3, <4>1
        <5> QED
          BY <1>3, <4>1, <5>1
      <4>2. CASE j # Len(reader.got) + 1
        <5>1. j \in 1 .. Len(reader.got)
          BY <1>3, <2>3, <4>2
        <5>2. reader'.got[j] = reader.got[j]
          BY <2>3, <5>1
        <5>3. reader.got[j] = reader.start + j - 1
          BY <1>4, <5>1 DEF Placed
        <5> QED
          BY <5>2, <5>3
      <4> QED
        BY <4>1, <4>2
    <3>2. reader'.start + Len(reader'.got) = n + 1
      BY <1>3, <2>2, <2>3
    <3>3. n + 1 <= Len(L.ends)
      BY <1>3, <1>5, <1>7
    <3>4. reader'.pos = OffsetOf(L, n + 1) /\ reader'.start = reader.start
      BY <2>2
    <3> HIDE DEF n
    <3> QED
      BY <3>1, <3>2, <3>3, <3>4 DEF Placed
  <2>5. owner = "master" => RangeInv(reader', L)
    BY <1>3, <1>4, <1>7, <2>2, <2>3 DEF RangeInv
  <2>6. ReaderInv(reader')
    BY <1>4, <2>2, <2>4, <2>5 DEF ReaderInv
  <2> QED
    BY <1>1, <2>2, <2>6, ReaderMoves, Kept
<1>8. CASE ~ (Len(reader.got) < reader.end - reader.start)
  BY <1>1, <1>3, <1>4, <1>6, <1>8 DEF RangeInv
<1>9. CASE Len(reader.got) < reader.end - reader.start
  <2>1. /\ (n < Len(L.ends) /\ reader' = q) \/ reader' = s
        /\ \A m \in 0 .. Len(L.ends) : n < m /\ OffsetOf(L, m) <= L.flushed => n < Len(L.ends) /\ reader' = q
    BY <1>1, <1>2, <1>4, <1>5, <1>9, ReadsOne
  <2>2. n < reader.end
    BY <1>3, <1>9
  <2>3. CASE owner = "master"
    <3>1. reader.end \in 0 .. Len(L.ends) /\ OffsetOf(L, reader.end) <= L.flushed
      BY <1>3, <1>4, <1>5, <2>3 DEF RangeInv, WellFormed
    <3> HIDE DEF q, s
    <3>2. n < Len(L.ends) /\ reader' = q
      BY <2>1, <2>2, <3>1
    <3> QED
      BY <1>7, <2>2, <3>2
  <2>4. CASE owner # "master"
    <3> HIDE DEF q, s
    <3> QED
      BY <1>6, <1>7, <2>1, <2>4
  <2> QED
    BY <2>3, <2>4
<1> QED
  BY <1>8, <1>9

LEMMA ReadEndsKeeps ==
  ASSUME DiskInv, ReadEnds
  PROVE  DiskInv'
<1>1. /\ reader.at = "stops" /\ UNCHANGED <<owner, logs, active, writing, archives>>
      /\ reader' = [reader EXCEPT !.at = "ends"]
      /\ offsets' = IF owner = "master" /\ reader.end < logs[reader.log].count
                    THEN CacheOffset(offsets, reader.end, reader.pos) ELSE offsets
  BY DEF ReadEnds
<1>2. reader \in Reading
  BY <1>1 DEF DiskInv, DiskLogTypeOK, NotReading
<1>3. reader # NotReading /\ reader.end \in Nat /\ reader.pos \in Int
  BY <1>2, ReaderTypes
<1>4. /\ reader.log \in 1 .. Mine /\ reader.file \in 1 .. Mine /\ Placed(reader, logs[reader.file])
      /\ owner = "master" => reader.log = Mine /\ reader.file = Mine /\ RangeInv(reader, logs[Mine])
  BY <1>1, <1>3, MyLog DEF DiskInv, ReaderInv
<1>5. /\ reader' \in Reading /\ reader'.at = "ends" /\ reader'.log = reader.log /\ reader'.file = reader.file
      /\ reader'.start = reader.start /\ reader'.end = reader.end /\ reader'.pos = reader.pos
      /\ reader'.got = reader.got
  BY <1>1, <1>2 DEF Reading
<1>6. ReaderInv(reader')
  <2>1. Placed(reader', logs[reader.file])
    BY <1>4, <1>5 DEF Placed
  <2>2. owner = "master" => RangeInv(reader', logs[Mine])
    BY <1>1, <1>4, <1>5 DEF RangeInv
  <2> QED
    BY <1>4, <1>5, <2>1, <2>2 DEF ReaderInv
<1>7. offsets' \in Seq(Entry) /\ CacheInv(offsets', logs[Mine])
  <2>1. CASE owner = "master" /\ reader.end < logs[reader.log].count
    <3>1. logs[Mine] \in Log /\ reader.end \in 0 .. logs[Mine].count
      BY <1>3, <1>4, <2>1, MyLog, LogKinds
    <3>2. reader.pos = OffsetOf(logs[Mine], reader.end)
      BY <1>1, <1>4, <2>1 DEF Placed, RangeInv
    <3> QED
      BY <1>1, <1>3, <2>1, <3>1, <3>2, CacheIsTrue, Kept
  <2>2. CASE ~ (owner = "master" /\ reader.end < logs[reader.log].count)
    BY <1>1, <2>2, Kept
  <2> QED
    BY <2>1, <2>2
<1> QED
  BY <1>1, <1>5, <1>6, <1>7, ReaderMoves

-----------------------------------------------------------------------------
(* The file changes with the session.                                       *)

LEMMA ArchivesAreLogs ==
  ASSUME NEW n \in Nat, archives \in Seq(1 .. n), NEW l \in 1 .. n, NEW a \in Rotated(l)
  PROVE  a \in Seq(1 .. n)
<1> DEFINE all == Append(archives, l)
<1>1. all \in Seq(1 .. n) /\ Len(all) \in Nat
  OBVIOUS
<1>2. MaxArchives \in Nat \ {0}
  BY DiskEventLogAssumption
<1> HIDE DEF all
<1>3. ASSUME NEW i \in 1 .. Len(all) PROVE SubSeq(all, i, Len(all)) \in Seq(1 .. n)
  BY <1>1, <1>3
<1>4. Len(all) > 0
  BY DEF all
<1>5. SubSeq(all, IF Len(all) > MaxArchives THEN Len(all) - MaxArchives + 1 ELSE 1, Len(all)) \in Seq(1 .. n)
  BY <1>1, <1>2, <1>3, <1>4
<1> QED
  BY <1>1, <1>5 DEF Rotated, all

LEMMA CloseKeeps ==
  ASSUME DiskInv, Close
  PROVE  DiskInv'
<1> DEFINE L == logs[Mine]
           M == [L EXCEPT !.flushed = L.written, !.state = "closed"]
<1>1. /\ L \in Log /\ WellFormed(L) /\ Len(L.ends) \in Nat /\ Mine \in 1 .. Mine /\ Mine \in Nat
      /\ L.flushed \in Nat /\ L.written \in Nat /\ L.count \in Nat
  BY MyLog, LogKinds
<1>2. /\ L.state = "open" /\ writing = "no" /\ writing' = "no" /\ active' = 0
      /\ logs' = [logs EXCEPT ![Mine] = M]
      /\ archives' \in IF L.count > 0 THEN Rotated(Mine) ELSE {archives}
      /\ reader' = IF owner = "master" THEN NotReading ELSE reader
      /\ UNCHANGED <<owner, offsets>>
  BY DEF Close, Usable
<1>3. /\ M \in Log /\ M.ends = L.ends /\ M.count = L.count /\ M.flushed = L.written
      /\ M.written = L.written /\ M.state = "closed"
  BY <1>1 DEF Log
<1> HIDE DEF M
<1>4. Grows(L, M) /\ OffsetOf(M, Len(L.ends)) = OffsetOf(L, Len(L.ends)) /\ Ascending(M)
  <2>1. /\ Ascending(L) /\ L.count <= M.count /\ L.flushed <= M.flushed
        /\ Len(L.ends) \in 0 .. Len(L.ends)
    BY <1>1, <1>3 DEF WellFormed
  <2>2. L \in Log /\ M \in Log /\ M.ends = L.ends
    BY <1>1, <1>3
  <2> HIDE DEF L
  <2> QED
    BY <2>1, <2>2, SameRecords
<1>5. WellFormed(M)
  BY <1>1, <1>3, <1>4 DEF WellFormed
<1>6. /\ logs' \in Seq(Log) /\ Mine' = Mine /\ logs'[Mine] = M
      /\ \A k \in 1 .. Mine : WellFormed(logs'[k])
      /\ CacheInv(offsets, logs'[Mine])
      /\ (UNCHANGED reader /\ owner # "master") => ReaderInv(reader)'
  BY <1>1, <1>2, <1>3, <1>4, <1>5, LogMoves
<1>7. ReaderInv(reader)'
  BY <1>2, <1>6 DEF ReaderInv
<1>8. WriteInv(M, writing', Sizes[Mine])
  BY <1>2, <1>3 DEF WriteInv
<1>9. archives' \in Seq(1 .. Mine)
  BY <1>1, <1>2, ArchivesAreLogs DEF DiskInv, DiskLogTypeOK
<1>10. DiskLogTypeOK'
  BY <1>2, <1>6, <1>9 DEF DiskInv, DiskLogTypeOK
<1> QED
  BY <1>2, <1>3, <1>6, <1>7, <1>8, <1>10 DEF DiskInv

LEMMA CrashKeeps ==
  ASSUME DiskInv, Crash
  PROVE  DiskInv'
<1> DEFINE L == logs[Mine]
           M == [L EXCEPT !.state = "crashed"]
<1>1. /\ L \in Log /\ WellFormed(L) /\ Len(L.ends) \in Nat /\ Mine \in 1 .. Mine /\ Mine \in Nat
      /\ L.flushed \in Nat /\ L.written \in Nat /\ L.count \in Nat
  BY MyLog, LogKinds
<1>2. /\ writing' = "no" /\ logs' = [logs EXCEPT ![Mine] = M] /\ reader' = NotReading
      /\ UNCHANGED <<owner, active, offsets, archives>>
  BY DEF Crash
<1>3. /\ M \in Log /\ M.ends = L.ends /\ M.count = L.count /\ M.flushed = L.flushed
      /\ M.written = L.written /\ M.state = "crashed"
  BY <1>1 DEF Log
<1> HIDE DEF M
<1>4. Grows(L, M) /\ OffsetOf(M, Len(L.ends)) = OffsetOf(L, Len(L.ends)) /\ Ascending(M)
  <2>1. /\ Ascending(L) /\ L.count <= M.count /\ L.flushed <= M.flushed
        /\ Len(L.ends) \in 0 .. Len(L.ends)
    BY <1>1, <1>3 DEF WellFormed
  <2>2. L \in Log /\ M \in Log /\ M.ends = L.ends
    BY <1>1, <1>3
  <2> HIDE DEF L
  <2> QED
    BY <2>1, <2>2, SameRecords
<1>5. WellFormed(M)
  BY <1>1, <1>3, <1>4 DEF WellFormed
<1>6. /\ logs' \in Seq(Log) /\ Mine' = Mine /\ logs'[Mine] = M
      /\ \A k \in 1 .. Mine : WellFormed(logs'[k])
      /\ CacheInv(offsets, logs'[Mine])
  BY <1>1, <1>2, <1>3, <1>4, <1>5, LogMoves
<1>7. ReaderInv(reader)' /\ WriteInv(M, writing', Sizes[Mine])
  BY <1>2, <1>3 DEF ReaderInv, WriteInv
<1>8. DiskLogTypeOK'
  BY <1>2, <1>6 DEF DiskInv, DiskLogTypeOK
<1> QED
  BY <1>2, <1>3, <1>6, <1>7, <1>8 DEF DiskInv

LEMMA NewLogIsFine ==
  NewLog \in Log /\ WellFormed(NewLog) /\ WriteInv(NewLog, "no", <<>>)
BY DEF NewLog, Log, WellFormed, Ascending, OffsetOf, WriteInv

LEMMA OpenKeeps ==
  ASSUME DiskInv, Open
  PROVE  DiskInv'
<1>1. /\ Mine = Len(logs) /\ Mine \in Nat \ {0} /\ logs \in Seq(Log) /\ logs[Mine] \in Log
      /\ writing \in {"no", "payload", "count"}
  BY MyLog DEF DiskInv, DiskLogTypeOK
<1>2. /\ logs[Mine].state # "open" /\ Mine < Len(Sizes) /\ logs' = Append(logs, NewLog) /\ active' = Mine + 1
      /\ archives' \in IF active # 0 THEN Rotated(active) ELSE {archives}
      /\ offsets' = <<>> /\ UNCHANGED <<owner, writing, reader>>
  BY DEF Open
<1>3. /\ logs' \in Seq(Log) /\ Mine' = Mine + 1 /\ logs'[Mine + 1] = NewLog
      /\ \A k \in 1 .. Mine : logs'[k] = logs[k]
  BY <1>1, <1>2, NewLogIsFine DEF Mine
<1>4. \A k \in 1 .. Mine' : WellFormed(logs'[k])
  BY <1>1, <1>3, NewLogIsFine DEF DiskInv
<1>5. writing = "no"
  BY <1>1, <1>2 DEF DiskInv, WriteInv
<1>6. WriteInv(logs'[Mine'], writing', Sizes[Mine'])
  BY <1>2, <1>3, <1>5, NewLogIsFine DEF WriteInv
<1>7. CacheInv(offsets', logs'[Mine'])
  BY <1>2 DEF CacheInv
<1>8. ReaderInv(reader)'
  <2>1. reader # NotReading => owner # "master"
    BY <1>2 DEF DiskInv, ReaderInv, RangeInv
  <2> QED
    BY <1>1, <1>2, <1>3, <2>1 DEF DiskInv, ReaderInv
<1>9. archives' \in Seq(1 .. Mine')
  <2>1. archives \in Seq(1 .. Mine')
    BY <1>1, <1>3 DEF DiskInv, DiskLogTypeOK
  <2>2. active # 0 => active \in 1 .. Mine'
    BY <1>1, <1>3 DEF DiskInv, DiskLogTypeOK
  <2> QED
    BY <1>1, <1>2, <1>3, <2>1, <2>2, ArchivesAreLogs
<1>10. DiskLogTypeOK'
  BY <1>1, <1>2, <1>3, <1>9 DEF DiskInv, DiskLogTypeOK
<1> QED
  BY <1>2, <1>3, <1>4, <1>6, <1>7, <1>8, <1>10 DEF DiskInv

-----------------------------------------------------------------------------
LEMMA LogsStart ==
  ASSUME ZInit
  PROVE  DiskInv
<1>1. Mine = 1 /\ logs \in Seq(Log) /\ logs[1] = NewLog
  BY NewLogIsFine DEF ZInit, Mine
<1>2. Sizes \in Seq(Seq(Nat \ {0})) /\ Len(Sizes) \in Nat \ {0}
  BY DiskEventLogAssumption
<1>3. DiskLogTypeOK
  BY <1>1, <1>2 DEF ZInit, DiskLogTypeOK
<1>4. WriteInv(logs[Mine], writing, Sizes[Mine])
  BY <1>1, NewLogIsFine DEF ZInit, WriteInv
<1>5. CacheInv(offsets, logs[Mine]) /\ ReaderInv(reader)
  BY DEF ZInit, CacheInv, ReaderInv
<1> QED
  BY <1>1, <1>3, <1>4, <1>5, NewLogIsFine DEF ZInit, DiskInv

LEMMA LogsNext ==
  ASSUME DiskInv, [ZNext]_zvars
  PROVE  DiskInv'
<1>1. CASE UNCHANGED zvars
  BY <1>1 DEF zvars, DiskInv, DiskLogTypeOK, Mine, ReaderInv
<1>2. ASSUME NEW start \in 0 .. Len(Sizes[Mine]), NEW end \in 0 .. Len(Sizes[Mine]), ReadRange(start, end)
      PROVE  DiskInv'
  BY <1>2, MyLog, ReadRangeKeeps
<1> QED
  BY <1>1, <1>2, AppendHeaderKeeps, AppendPayloadKeeps, AppendCountKeeps, SpillKeeps, StreamEventsKeeps,
     FlushKeeps, OpenFileKeeps, CountRecordsKeeps, ReadNextKeeps, ReadEndsKeeps, DropReaderKeeps,
     CloseKeeps, CrashKeeps, OpenKeeps DEF ZNext

LEMMA DiskInvHolds == ZSpec => []DiskInv
<1>1. ZInit => DiskInv
  BY LogsStart
<1>2. DiskInv /\ [ZNext]_zvars => DiskInv'
  BY LogsNext
<1> QED
  BY <1>1, <1>2, PTL DEF ZSpec

(* Logs, the cache of offsets, archives and a reader have their kinds, and  *)
(* the file is that of the owner's log or there is none (DiskEventLog).     *)
THEOREM DiskLogTypes == ZSpec => []DiskLogTypeOK
<1>1. DiskInv => DiskLogTypeOK
  BY DEF DiskInv
<1> QED
  BY <1>1, DiskInvHolds, PTL

(* DiskEventLog.read_range and read_all yield the records from start on in  *)
(* their order, with whatever in _offset_cache, however an append or a      *)
(* _rotate falls between, and the Master's ranges are complete.             *)
THEOREM RecordsAreReadInOrder == ZSpec => []ReadsInOrder
<1>1. ASSUME DiskInv PROVE ReadsInOrder
  <2> SUFFICES ASSUME reader.at \in {"reads", "stops", "ends"}
               PROVE  /\ \A j \in 1 .. Len(reader.got) : reader.got[j] = reader.start + j - 1
                      /\ owner = "master" /\ reader.at \in {"stops", "ends"} =>
                           Len(reader.got) = reader.end - reader.start
    BY DEF ReadsInOrder
  <2>1. reader \in Reading
    BY <1>1 DEF DiskInv, DiskLogTypeOK, NotReading
  <2>2. reader # NotReading /\ reader.start \in Nat /\ reader.end \in Nat /\ Len(reader.got) \in Nat
    BY <2>1, ReaderTypes
  <2>3. ReaderInv(reader)
    BY <1>1 DEF DiskInv
  <2>4. \A j \in 1 .. Len(reader.got) : reader.got[j] = reader.start + j - 1
    BY <2>2, <2>3 DEF ReaderInv, Placed
  <2>5. owner = "master" /\ reader.at \in {"stops", "ends"} => reader.start + Len(reader.got) = reader.end
    BY <2>2, <2>3 DEF ReaderInv, RangeInv
  <2> QED
    BY <2>2, <2>4, <2>5
<1> QED
  BY <1>1, DiskInvHolds, PTL

(* DiskEventLog._rotate archives a log that was closed with all that was    *)
(* written of it: close flushes before it renames the file.                 *)
THEOREM ArchivesStayWhole == ZSpec => []ArchivesAreWhole
<1>1. ASSUME DiskInv PROVE ArchivesAreWhole
  <2> SUFFICES ASSUME NEW k \in 1 .. Len(archives), logs[archives[k]].state = "closed"
               PROVE  logs[archives[k]].flushed = logs[archives[k]].written
    BY DEF ArchivesAreWhole
  <2>1. archives[k] \in 1 .. Mine
    BY <1>1 DEF DiskInv, DiskLogTypeOK
  <2> QED
    BY <1>1, <2>1 DEF DiskInv, WellFormed
<1> QED
  BY <1>1, DiskInvHolds, PTL
=============================================================================
