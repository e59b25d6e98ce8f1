----------------------------- MODULE RankProofs -----------------------------
(***************************************************************************)
(* Proofs about Ranks, for any number of ranks, any tasks and limits, and  *)
(* any order in which tasks and cancellations reach the ranks.             *)
(***************************************************************************)
EXTENDS Ranks, FiniteSetTheorems, FunctionTheorems, WellFoundedInduction, TLAPS

Local == {"idle", "poll"}

(* The task that the batch engine has taken off its queue and is not yet    *)
(* decoding.                                                                *)
Fetched(g) ==
  IF engine = "batch" /\ g.pc \in {"prefill", "check", "gather"} /\ Prefilling(g)
    THEN {Head(g.now)} ELSE {}

Hand(g) == Range(g.maybe) \cup Range(g.queue) \cup Range(g.active)

(* The parts of the invariant of one rank g.  What is in its engine has     *)
(* been submitted;                                                          *)
KnownInv(g) ==
  /\ g.held \subseteq g.known
  /\ Hand(g) \cup Range(g.now) \cup g.cancelled \cup g.maybeCancel \subseteq g.known
  /\ g.cancelled \cup g.maybeCancel \subseteq Cancels

(* it is in one place, and once in the queue;                               *)
OnceInv(g) ==
  /\ \A i, j \in 1 .. Len(g.queue) : g.queue[i] = g.queue[j] => i = j
  /\ Range(g.queue) \cap (Range(g.active) \cup Fetched(g)) = {}
  /\ Range(g.maybe) \cap (Range(g.queue) \cup Range(g.active) \cup Fetched(g)) = {}

(* only what has been taken off the queue has tokens;                       *)
CountInv(g) ==
  \A t \in Tasks :
    g.count[t] # 0 => t \in g.known /\ t \notin Range(g.maybe) /\ t \notin Range(g.queue)

(* what is held is in the engine, but for what a step is about to report as *)
(* cancelled, and what is not held any more is on its way out for that;     *)
HeldInv(g) ==
  /\ g.held \subseteq Hand(g) \cup Fetched(g) \cup g.cancelled
  /\ (Hand(g) \cup Fetched(g)) \ g.held \subseteq Cancels

(* and where it is in its step says what it has in hand.                    *)
NowInv(g) ==
  /\ g.pc \in {"prefill", "check", "gather"} =>
       /\ g.now # <<>>
       /\ \/ Len(g.now) = 1 /\ g.count[Head(g.now)] = 0
          \/ g.pc # "prefill" /\ \A t \in Range(g.now) : g.count[t] # 0
  /\ g.pc \in Local => g.now = <<>>

OneInv(g) ==
  engine = "sequential" =>
    /\ Len(g.active) <= 1
    /\ g.pc = "agree" => g.active = <<>>
    /\ g.pc \in {"prefill", "check", "gather"} => Range(g.now) \subseteq Range(g.active)

PlaceInv(g) ==
  /\ g.pc = "idle" => g.held = {}
  /\ g.pc \in Local => g.held \cap g.cancelled = {}
  /\ g.pc \in Waiting => g.held # {}

EngineInv(g) == KnownInv(g) /\ OnceInv(g) /\ CountInv(g) /\ NowInv(g) /\ OneInv(g)

Own(g) == g.pc # "dead" => EngineInv(g) /\ HeldInv(g) /\ PlaceInv(g)

(* The sequential engine drops a task that has all its tokens in a step of  *)
(* its own, without a collective: some ranks may be one such step ahead.    *)
Finished(g) ==
  /\ engine = "sequential" /\ g.active # <<>>
  /\ g.count[Head(g.active)] = Length[Head(g.active)]

(* The next collective of a rank that nothing more is submitted to.         *)
View(r, g) ==
  IF g.pc \in Waiting THEN g
  ELSE IF Finished(g) THEN Step(r, Step(r, g)) ELSE Step(r, g)

(* The same collective, over the same tasks, after the same tasks have been *)
(* given up.                                                                *)
Paired(g, h) ==
  /\ g.pc = h.pc /\ g.now = h.now /\ g.queue = h.queue /\ g.active = h.active
  /\ g.count = h.count /\ g.cancelled = h.cancelled
  /\ g.known \ g.held = h.known \ h.held

Fine(R) == \A a \in Rank : R[a] \in Engine /\ Own(R[a])

(* A rank knows what it has been given.                                     *)
Given(R, C) ==
  \A a \in Rank : /\ R[a].known \cap C[a] = {}
                  /\ (skipped = {} => R[a].known \cup C[a] = Tasks)

Pairs(R) ==
  \A a, b \in Rank :
    R[a].pc # "dead" /\ R[b].pc # "dead" => Paired(View(a, R[a]), View(b, R[b]))

RankInv == Fine(rank) /\ Given(rank, coming) /\ Pairs(rank)

-----------------------------------------------------------------------------
(* Sequences of tasks.                                                      *)

(* The members of a finite set of numbers can be counted off in order.     *)
LEMMA NthCounts ==
  ASSUME NEW K \in SUBSET Nat, IsFiniteSet(K)
  PROVE  /\ Cardinality(K) \in Nat
         /\ \A k \in 1 .. Cardinality(K) : Nth(K, k) \in K
         /\ \A k, l \in 1 .. Cardinality(K) : k < l => Nth(K, k) < Nth(K, l)
         /\ \A j \in K : \E k \in 1 .. Cardinality(K) : Nth(K, k) = j
<1> DEFINE upto(j) == {i \in K : i <= j}
           c == Cardinality(K)
           place == [j \in K |-> Cardinality(upto(j))]
<1>1. c \in Nat
  BY FS_CardinalityType
<1>2. \A j \in K : IsFiniteSet(upto(j)) /\ Cardinality(upto(j)) \in 1 .. c
  <2> SUFFICES ASSUME NEW j \in K
               PROVE  IsFiniteSet(upto(j)) /\ Cardinality(upto(j)) \in 1 .. c
    OBVIOUS
  <2>1. upto(j) \in SUBSET K /\ j \in upto(j)
    OBVIOUS
  <2>2. IsFiniteSet(upto(j)) /\ Cardinality(upto(j)) <= c
    BY <2>1, FS_Subset
  <2>3. Cardinality(upto(j)) \in Nat /\ Cardinality(upto(j)) # 0
    BY <2>1, <2>2, FS_CardinalityType, FS_EmptySet
  <2> QED BY <1>1, <2>2, <2>3
<1>3. \A i, j \in K : i < j => Cardinality(upto(i)) < Cardinality(upto(j))
  <2> SUFFICES ASSUME NEW i \in K, NEW j \in K, i < j
               PROVE  Cardinality(upto(i)) < Cardinality(upto(j))
    OBVIOUS
  <2>1. upto(i) \in SUBSET upto(j)
    <3> SUFFICES ASSUME NEW x \in upto(i) PROVE x \in upto(j)
      OBVIOUS
    <3>1. x \in Nat /\ i \in Nat /\ j \in Nat /\ x \in K /\ x <= i
      OBVIOUS
    <3> QED BY <3>1
  <2>2. j \in upto(j) /\ j \notin upto(i)
    OBVIOUS
  <2>3. upto(i) # upto(j)
    BY <2>2
  <2>4. Cardinality(upto(i)) <= Cardinality(upto(j)) /\ Cardinality(upto(i)) # Cardinality(upto(j))
    BY <1>2, <2>1, <2>3, FS_Subset
  <2> QED BY <2>4, <1>2, <1>1
<1>4. place \in Injection(K, 1 .. c)
  <2>1. place \in [K -> 1 .. c]
    BY <1>2
  <2>2. \A i, j \in K : place[i] = place[j] => i = j
    <3> SUFFICES ASSUME NEW i \in K, NEW j \in K, i # j PROVE place[i] # place[j]
      OBVIOUS
    <3>1. i < j \/ j < i
      OBVIOUS
    <3> QED BY <3>1, <1>1, <1>2, <1>3
  <2> HIDE DEF place
  <2> QED BY <2>1, <2>2, Fun_IsInj
<1>5. place \in Surjection(K, 1 .. c)
  <2>1. IsFiniteSet(1 .. c) /\ Cardinality(1 .. c) = c
    <3>1. IsFiniteSet(1 .. c) /\ Cardinality(1 .. c) = IF 1 > c THEN 0 ELSE c - 1 + 1
      BY <1>1, FS_Interval
    <3> QED BY <3>1, <1>1
  <2> HIDE DEF place
  <2> QED BY <2>1, <1>4, FS_Injection
<1>6. \A k \in 1 .. c : \E j \in K : place[j] = k
  <2> HIDE DEF place
  <2> QED BY <1>5, Fun_SurjectionProperties
<1>7. \A k \in 1 .. c : Nth(K, k) \in K /\ Cardinality(upto(Nth(K, k))) = k
  BY <1>6 DEF Nth
<1>8. \A k, l \in 1 .. c : k < l => Nth(K, k) < Nth(K, l)
  <2> SUFFICES ASSUME NEW k \in 1 .. c, NEW l \in 1 .. c, k < l, ~(Nth(K, k) < Nth(K, l))
               PROVE  FALSE
    OBVIOUS
  <2>1. Nth(K, k) \in K /\ Nth(K, l) \in K
    BY <1>7
  <2> DEFINE x == Nth(K, k)
             y == Nth(K, l)
  <2>2. x = y \/ y < x
    <3>1. x \in Nat /\ y \in Nat /\ ~(x < y)
      BY <2>1
    <3> HIDE DEF x, y
    <3> QED BY <3>1
  <2>3. k = l \/ l < k
    BY <2>1, <2>2, <1>3, <1>7
  <2> QED BY <2>3, <1>1
<1>9. \A j \in K : \E k \in 1 .. c : Nth(K, k) = j
  <2> SUFFICES ASSUME NEW j \in K PROVE \E k \in 1 .. c : Nth(K, k) = j
    OBVIOUS
  <2> DEFINE k == Cardinality(upto(j))
  <2>1. k \in 1 .. c
    BY <1>2
  <2>2. Nth(K, k) \in K /\ place[Nth(K, k)] = place[j]
    BY <2>1, <1>7
  <2>3. Nth(K, k) = j
    <3> HIDE DEF place, k
    <3> QED BY <2>2, <1>4, Fun_InjectionProperties
  <2> QED BY <2>1, <2>3
<1> QED BY <1>1, <1>7, <1>8, <1>9

(* They make a sequence, each of them once.                                 *)
LEMMA InOrderFacts ==
  ASSUME NEW K \in SUBSET Nat, IsFiniteSet(K)
  PROVE  /\ InOrder(K) \in Seq(K) /\ Range(InOrder(K)) = K
         /\ Len(InOrder(K)) = Cardinality(K)
         /\ \A i, j \in 1 .. Len(InOrder(K)) : InOrder(K)[i] = InOrder(K)[j] => i = j
<1> DEFINE c == Cardinality(K)
           s == InOrder(K)
<1>1. /\ c \in Nat /\ \A k \in 1 .. c : Nth(K, k) \in K
      /\ \A k, l \in 1 .. c : k < l => Nth(K, k) < Nth(K, l)
      /\ \A j \in K : \E k \in 1 .. c : Nth(K, k) = j
  BY NthCounts
<1>2. s = [k \in 1 .. c |-> Nth(K, k)]
  BY DEF InOrder
<1>3. s \in [1 .. c -> K]
  BY <1>1, <1>2
<1>4. s \in Seq(K) /\ Len(s) = c
  BY <1>1, <1>3
<1>5. Range(s) = K
  <2>1. DOMAIN s = 1 .. c /\ \A k \in 1 .. c : s[k] = Nth(K, k)
    BY <1>2
  <2> HIDE DEF s, c
  <2> QED BY <1>1, <2>1 DEF Range
<1>6. ASSUME NEW i \in 1 .. c, NEW j \in 1 .. c, i # j
      PROVE  s[i] # s[j]
  <2>1. s[i] = Nth(K, i) /\ s[j] = Nth(K, j) /\ Nth(K, i) \in Nat /\ Nth(K, j) \in Nat
    BY <1>1, <1>2
  <2>2. i < j \/ j < i
    <3>1. i \in Int /\ j \in Int
      BY <1>1
    <3> QED BY <1>6, <3>1
  <2>3. s[i] < s[j] \/ s[j] < s[i]
    BY <1>1, <2>1, <2>2
  <2> QED BY <2>1, <2>3
<1> QED BY <1>4, <1>5, <1>6

(* What is kept of a sequence.                                              *)
LEMMA KeepFacts ==
  ASSUME NEW s \in Seq(Tasks), NEW S
  PROVE  Keep(s, S) \in Seq(Tasks) /\ Range(Keep(s, S)) = Range(s) \cap S
<1> DEFINE K == {i \in 1 .. Len(s) : s[i] \in S}
           at == InOrder(K)
           k == Keep(s, S)
<1>1. K \in SUBSET Nat /\ IsFiniteSet(K)
  <2>1. IsFiniteSet(1 .. Len(s)) /\ K \in SUBSET (1 .. Len(s))
    BY FS_Interval
  <2> QED BY <2>1, FS_Subset
<1>2. at \in Seq(K) /\ Range(at) = K
  <2> HIDE DEF K
  <2> QED BY <1>1, InOrderFacts
<1>3. k = [i \in 1 .. Len(at) |-> s[at[i]]]
  BY DEF Keep
<1>4. Len(at) \in Nat /\ \A i \in 1 .. Len(at) : at[i] \in 1 .. Len(s) /\ s[at[i]] \in S
  <2>1. Len(at) \in Nat /\ \A i \in 1 .. Len(at) : at[i] \in K
    <3> HIDE DEF at, K
    <3> QED BY <1>2
  <2> HIDE DEF at
  <2> QED BY <2>1
<1>5. k \in [1 .. Len(at) -> Tasks]
  <2> HIDE DEF at
  <2> QED BY <1>3, <1>4
<1>6. k \in Seq(Tasks)
  <2>1. PICK n \in Nat : n = Len(at)
    BY <1>4
  <2> HIDE DEF k, at
  <2>2. k \in [1 .. n -> Tasks]
    BY <1>5, <2>1
  <2> QED BY <2>2
<1>7. ASSUME NEW x \in Range(k)
      PROVE  x \in Range(s) /\ x \in S
  <2>1. PICK i \in 1 .. Len(at) : x = s[at[i]]
    <3> HIDE DEF at
    <3> QED BY <1>3, <1>7 DEF Range
  <2> HIDE DEF at
  <2> QED BY <1>4, <2>1 DEF Range
<1>8. ASSUME NEW x \in Range(s), x \in S
      PROVE  x \in Range(k)
  <2>1. PICK i \in 1 .. Len(s) : x = s[i]
    BY DEF Range
  <2>2. i \in K
    BY <1>8, <2>1
  <2>3. PICK j \in 1 .. Len(at) : at[j] = i
    <3>1. DOMAIN at = 1 .. Len(at)
      <4> HIDE DEF at, K
      <4> QED BY <1>2
    <3> HIDE DEF at, K
    <3> QED BY <1>2, <2>2, <3>1 DEF Range
  <2> HIDE DEF at
  <2> QED BY <1>3, <2>1, <2>3 DEF Range
<1> QED BY <1>6, <1>7, <1>8

LEMMA RangeFacts ==
  ASSUME NEW s \in Seq(Tasks)
  PROVE  /\ Range(s) \in SUBSET Tasks /\ IsFiniteSet(Range(s))
         /\ s = <<>> <=> Range(s) = {}
         /\ s # <<>> => /\ Head(s) \in Range(s) /\ Tail(s) \in Seq(Tasks)
                        /\ Range(s) = {Head(s)} \cup Range(Tail(s))
         /\ Len(s) <= 1 /\ s # <<>> => Range(s) = {Head(s)}
         /\ (\A i, j \in 1 .. Len(s) : s[i] = s[j] => i = j) /\ s # <<>> =>
              /\ Head(s) \notin Range(Tail(s))
              /\ \A i, j \in 1 .. Len(Tail(s)) : Tail(s)[i] = Tail(s)[j] => i = j
<1>1. Range(s) \in SUBSET Tasks
  BY DEF Range
<1>2. IsFiniteSet(Range(s))
  <2>1. IsFiniteSet(DOMAIN s)
    <3>1. DOMAIN s = 1 .. Len(s) /\ Len(s) \in Int /\ 1 \in Int
      OBVIOUS
    <3> QED BY <3>1, FS_Interval
  <2>2. s \in [DOMAIN s -> Range(s)]
    BY DEF Range
  <2>3. s \in Surjection(DOMAIN s, Range(s))
    BY <2>2 DEF Range, Surjection
  <2> QED BY <2>1, <2>3, FS_Surjection
<1>3. s = <<>> <=> Range(s) = {}
  <2>1. CASE s = <<>>
    BY <2>1 DEF Range
  <2>2. CASE s # <<>>
    <3>1. s[1] \in Range(s)
      BY <2>2 DEF Range
    <3> QED BY <2>2, <3>1
  <2> QED BY <2>1, <2>2
<1>4. ASSUME s # <<>>
      PROVE  /\ Head(s) \in Range(s) /\ Tail(s) \in Seq(Tasks)
             /\ Range(s) = {Head(s)} \cup Range(Tail(s))
  <2>1. Head(s) = s[1] /\ 1 \in 1 .. Len(s) /\ Tail(s) \in Seq(Tasks)
    BY <1>4
  <2>2. Len(Tail(s)) = Len(s) - 1 /\ \A i \in 1 .. Len(Tail(s)) : Tail(s)[i] = s[i + 1]
    BY <1>4
  <2>3. ASSUME NEW x \in Range(s), x # Head(s)
        PROVE  x \in Range(Tail(s))
    <3>1. PICK i \in 1 .. Len(s) : x = s[i]
      BY DEF Range
    <3>2. i - 1 \in 1 .. Len(Tail(s)) /\ Tail(s)[i - 1] = x
      BY <2>1, <2>2, <2>3, <3>1
    <3>3. DOMAIN Tail(s) = 1 .. Len(Tail(s))
      BY <2>1
    <3> QED BY <3>2, <3>3 DEF Range
  <2>4. ASSUME NEW x \in Range(Tail(s))
        PROVE  x \in Range(s)
    <3>1. PICK i \in 1 .. Len(Tail(s)) : x = Tail(s)[i]
      BY <2>1 DEF Range
    <3>2. i + 1 \in 1 .. Len(s) /\ s[i + 1] = x
      BY <2>2, <3>1
    <3> QED BY <3>2 DEF Range
  <2> QED BY <2>1, <2>3, <2>4 DEF Range
<1>5. ASSUME Len(s) <= 1, s # <<>>
      PROVE  Range(s) = {Head(s)}
  BY <1>5 DEF Range
<1>6. ASSUME \A i, j \in 1 .. Len(s) : s[i] = s[j] => i = j, s # <<>>
      PROVE  /\ Head(s) \notin Range(Tail(s))
             /\ \A i, j \in 1 .. Len(Tail(s)) : Tail(s)[i] = Tail(s)[j] => i = j
  <2>1. Head(s) = s[1] /\ 1 \in 1 .. Len(s) /\ Tail(s) \in Seq(Tasks)
    BY <1>6
  <2>2. Len(Tail(s)) = Len(s) - 1 /\ \A i \in 1 .. Len(Tail(s)) : Tail(s)[i] = s[i + 1]
    BY <1>6
  <2>3. \A i \in 1 .. Len(Tail(s)) : i + 1 \in 1 .. Len(s) /\ i + 1 # 1
    BY <2>2
  <2>4. Head(s) \notin Range(Tail(s))
    BY <1>6, <2>1, <2>2, <2>3 DEF Range
  <2> QED BY <1>6, <2>2, <2>3, <2>4
<1> QED BY <1>1, <1>2, <1>3, <1>4, <1>5, <1>6

LEMMA RangeOfSome ==
  /\ Range(<<>>) = {}
  /\ \A t \in Tasks : <<t>> \in Seq(Tasks) /\ Range(<<t>>) = {t} /\ Len(<<t>>) = 1 /\ Head(<<t>>) = t
  /\ \A s \in Seq(Tasks), t \in Tasks :
       Append(s, t) \in Seq(Tasks) /\ Range(Append(s, t)) = Range(s) \cup {t}
<1>1. ASSUME NEW s \in Seq(Tasks), NEW t \in Tasks
      PROVE  Append(s, t) \in Seq(Tasks) /\ Range(Append(s, t)) = Range(s) \cup {t}
  <2>1. /\ Append(s, t) \in Seq(Tasks) /\ Len(Append(s, t)) = Len(s) + 1
        /\ Append(s, t)[Len(s) + 1] = t
        /\ \A i \in 1 .. Len(s) : Append(s, t)[i] = s[i]
    OBVIOUS
  <2>2. \A i \in 1 .. Len(s) + 1 : i \in 1 .. Len(s) \/ i = Len(s) + 1
    OBVIOUS
  <2>3. Len(s) + 1 \in 1 .. Len(s) + 1 /\ \A i \in 1 .. Len(s) : i \in 1 .. Len(s) + 1
    OBVIOUS
  <2>4. DOMAIN s = 1 .. Len(s) /\ DOMAIN Append(s, t) = 1 .. Len(s) + 1
    BY <2>1
  <2>5. ASSUME NEW x \in Range(Append(s, t)) PROVE x \in Range(s) \cup {t}
    <3>1. PICK i \in 1 .. Len(s) + 1 : x = Append(s, t)[i]
      BY <2>4 DEF Range
    <3> QED BY <2>1, <2>2, <2>4, <3>1 DEF Range
  <2>6. ASSUME NEW x \in Range(s) PROVE x \in Range(Append(s, t))
    BY <2>1, <2>3, <2>4 DEF Range
  <2>7. t \in Range(Append(s, t))
    BY <2>1, <2>3, <2>4 DEF Range
  <2> QED BY <2>1, <2>5, <2>6, <2>7
<1>2. ASSUME NEW t \in Tasks
      PROVE  <<t>> \in Seq(Tasks) /\ Range(<<t>>) = {t} /\ Len(<<t>>) = 1 /\ Head(<<t>>) = t
  <2>1. DOMAIN <<t>> = {1} /\ <<t>>[1] = t
    OBVIOUS
  <2> QED BY <2>1 DEF Range
<1>3. Range(<<>>) = {}
  BY DEF Range
<1> QED BY <1>1, <1>2, <1>3

LEMMA RangeOfBoth ==
  ASSUME NEW s \in Seq(Tasks), NEW q \in Seq(Tasks)
  PROVE  /\ s \o q \in Seq(Tasks) /\ Range(s \o q) = Range(s) \cup Range(q)
         /\ /\ \A i, j \in 1 .. Len(s) : s[i] = s[j] => i = j
            /\ \A i, j \in 1 .. Len(q) : q[i] = q[j] => i = j
            /\ Range(s) \cap Range(q) = {}
            => \A i, j \in 1 .. Len(s \o q) : (s \o q)[i] = (s \o q)[j] => i = j
<1> DEFINE b == s \o q
<1>1. /\ b \in Seq(Tasks) /\ Len(b) = Len(s) + Len(q) /\ Len(s) \in Nat /\ Len(q) \in Nat
      /\ \A i \in 1 .. Len(b) : b[i] = IF i <= Len(s) THEN s[i] ELSE q[i - Len(s)]
  OBVIOUS
<1>2. \A i \in 1 .. Len(b) : \/ i \in 1 .. Len(s) /\ b[i] = s[i]
                             \/ i - Len(s) \in 1 .. Len(q) /\ b[i] = q[i - Len(s)]
  <2> HIDE DEF b
  <2> QED BY <1>1
<1>3. \A i \in 1 .. Len(s) : i \in 1 .. Len(b) /\ b[i] = s[i]
  <2> HIDE DEF b
  <2> QED BY <1>1
<1>4. \A i \in 1 .. Len(q) : i + Len(s) \in 1 .. Len(b) /\ b[i + Len(s)] = q[i]
  <2> HIDE DEF b
  <2>1. \A i \in 1 .. Len(q) : i + Len(s) \in 1 .. Len(b) /\ ~(i + Len(s) <= Len(s)) /\ i + Len(s) - Len(s) = i
    BY <1>1
  <2> QED BY <1>1, <2>1
<1>5. Range(b) = Range(s) \cup Range(q)
  <2> HIDE DEF b
  <2>1. DOMAIN b = 1 .. Len(b) /\ DOMAIN s = 1 .. Len(s) /\ DOMAIN q = 1 .. Len(q)
    BY <1>1
  <2>2. ASSUME NEW x \in Range(b) PROVE x \in Range(s) \cup Range(q)
    <3>1. PICK i \in 1 .. Len(b) : x = b[i]
      BY <2>1 DEF Range
    <3> QED BY <1>2, <2>1, <3>1 DEF Range
  <2>3. ASSUME NEW x \in Range(s) PROVE x \in Range(b)
    BY <1>3, <2>1 DEF Range
  <2>4. ASSUME NEW x \in Range(q) PROVE x \in Range(b)
    BY <1>4, <2>1 DEF Range
  <2> QED BY <2>2, <2>3, <2>4
<1>6. ASSUME \A i, j \in 1 .. Len(s) : s[i] = s[j] => i = j,
             \A i, j \in 1 .. Len(q) : q[i] = q[j] => i = j,
             Range(s) \cap Range(q) = {},
             NEW i \in 1 .. Len(b), NEW j \in 1 .. Len(b), b[i] = b[j]
      PROVE  i = j
  <2>1. \A k \in 1 .. Len(s), l \in 1 .. Len(q) : s[k] # q[l]
    <3>1. DOMAIN s = 1 .. Len(s) /\ DOMAIN q = 1 .. Len(q)
      OBVIOUS
    <3>2. \A k \in 1 .. Len(s) : s[k] \in Range(s)
      BY <3>1 DEF Range
    <3>3. \A l \in 1 .. Len(q) : q[l] \in Range(q)
      BY <3>1 DEF Range
    <3> QED BY <1>6, <3>2, <3>3
  <2>2. i - Len(s) = j - Len(s) => i = j
    <3> HIDE DEF b
    <3> QED BY <1>1
  <2> HIDE DEF b
  <2> QED BY <1>2, <1>6, <2>1, <2>2
<1> QED BY <1>1, <1>5, <1>6

-----------------------------------------------------------------------------
(* One engine.  Core is what its invariant says wherever it is in a step.   *)

Core(g) ==
  /\ g.held \subseteq g.known
  /\ Hand(g) \cup g.cancelled \cup g.maybeCancel \subseteq g.known
  /\ g.cancelled \cup g.maybeCancel \subseteq Cancels
  /\ \A i, j \in 1 .. Len(g.queue) : g.queue[i] = g.queue[j] => i = j
  /\ Range(g.queue) \cap Range(g.active) = {}
  /\ Range(g.maybe) \cap (Range(g.queue) \cup Range(g.active)) = {}
  /\ CountInv(g)
  /\ engine = "sequential" => Len(g.active) <= 1

LEMMA CoreOfOwn ==
  ASSUME NEW g \in Engine, g.pc # "dead", Own(g)
  PROVE  Core(g)
BY DEF Own, EngineInv, KnownInv, OnceInv, OneInv, Core

(* Hand changes with three of the fields only.                              *)
LEMMA EndStepOwn ==
  ASSUME NEW r, NEW g \in Engine, NEW said, NEW over \in SUBSET Tasks, Core(g),
         g.held \subseteq Hand(g) \cup over, Hand(g) \ g.held \subseteq Cancels,
         Hand(g) \cap over \subseteq Cancels, g.cancelled \subseteq over
  PROVE  EndStep(r, g, said, over) \in Engine /\ Own(EndStep(r, g, said, over))
<1> DEFINE h == EndStep(r, g, said, over)
<1>1. CASE r = 0 /\ ~(said \subseteq g.held)
  <2>1. h = [g EXCEPT !.pc = "dead"]
    BY <1>1 DEF EndStep
  <2>2. h \in Engine /\ h.pc = "dead"
    BY <2>1 DEF Engine
  <2> QED BY <2>2 DEF Own
<1>2. CASE ~(r = 0 /\ ~(said \subseteq g.held))
  <2>1. h = [g EXCEPT !.pc = "poll", !.held = @ \ over, !.now = <<>>]
    BY <1>2 DEF EndStep
  <2>2. <<>> \in Seq(Tasks)
    OBVIOUS
  <2>3. /\ h \in Engine /\ h.pc = "poll" /\ h.held = g.held \ over /\ h.now = <<>>
        /\ h.known = g.known /\ h.maybe = g.maybe /\ h.maybeCancel = g.maybeCancel
        /\ h.queue = g.queue /\ h.active = g.active /\ h.count = g.count
        /\ h.cancelled = g.cancelled
    BY <2>1, <2>2 DEF Engine
  <2> HIDE DEF h
  <2>4. Hand(h) = Hand(g) /\ Fetched(h) = {} /\ Range(h.now) = {}
    BY <2>3, RangeOfSome DEF Hand, Fetched
  <2>5. KnownInv(h)
    BY <2>3, <2>4 DEF KnownInv, Core
  <2>6. OnceInv(h)
    BY <2>3, <2>4 DEF OnceInv, Core
  <2>7. CountInv(h)
    BY <2>3 DEF CountInv, Core
  <2>8. HeldInv(h)
    BY <2>3, <2>4 DEF HeldInv
  <2>9. NowInv(h) /\ OneInv(h) /\ PlaceInv(h)
    BY <2>3 DEF NowInv, OneInv, PlaceInv, Core, Local, Waiting
  <2>10. h \in Engine /\ Own(h)
    BY <2>3, <2>5, <2>6, <2>7, <2>8, <2>9 DEF Own, EngineInv
  <2> QED BY <2>10 DEF h
<1> QED BY <1>1, <1>2

LEMMA ApplyOwn ==
  ASSUME NEW r, NEW g \in Engine, NEW said, NEW finished \in SUBSET Tasks, Core(g),
         engine = "batch", g.held \subseteq Hand(g) \cup g.cancelled \cup finished,
         Hand(g) \ g.held \subseteq Cancels, Hand(g) \cap finished \subseteq Cancels
  PROVE  /\ ApplyCancellations(r, g, said, finished) \in Engine
         /\ Own(ApplyCancellations(r, g, said, finished))
<1> DEFINE k == Keep(g.active, Tasks \ g.cancelled)
           h == [g EXCEPT !.active = k, !.cancelled = {}]
           over == finished \cup g.cancelled
<1>1. g.active \in Seq(Tasks) /\ g.cancelled \in SUBSET Tasks
  BY DEF Engine
<1>2. k \in Seq(Tasks) /\ Range(k) = Range(g.active) \cap (Tasks \ g.cancelled)
  BY <1>1, KeepFacts
<1>3. Range(g.active) \in SUBSET Tasks
  BY <1>1, RangeFacts
<1> HIDE DEF k
<1>4. /\ h \in Engine /\ h.held = g.held /\ h.known = g.known /\ h.maybe = g.maybe
      /\ h.maybeCancel = g.maybeCancel /\ h.queue = g.queue /\ h.active = k
      /\ h.count = g.count /\ h.cancelled = {}
  BY <1>2 DEF Engine
<1>5. ApplyCancellations(r, g, said, finished) = EndStep(r, h, said, over)
  BY DEF ApplyCancellations, k
<1> HIDE DEF h
<1>6. Hand(h) = Range(g.maybe) \cup Range(g.queue) \cup (Range(g.active) \ g.cancelled)
  BY <1>2, <1>3, <1>4 DEF Hand
<1>7. Core(h)
  <2>1. Hand(h) \subseteq Hand(g) /\ Range(h.active) \subseteq Range(g.active)
    BY <1>2, <1>4, <1>6 DEF Hand
  <2>2. CountInv(h)
    BY <1>4 DEF CountInv, Core
  <2> QED BY <1>4, <2>1, <2>2 DEF Core
<1>8. /\ over \in SUBSET Tasks /\ h.held \subseteq Hand(h) \cup over
      /\ Hand(h) \ h.held \subseteq Cancels /\ Hand(h) \cap over \subseteq Cancels
      /\ h.cancelled \subseteq over
  BY <1>1, <1>4, <1>6 DEF Core, Hand
<1> HIDE DEF over
<1>9. EndStep(r, h, said, over) \in Engine /\ Own(EndStep(r, h, said, over))
  BY <1>4, <1>7, <1>8, EndStepOwn
<1> QED BY <1>5, <1>9

LEMMA EndSequentialOwn ==
  ASSUME NEW r, NEW g \in Engine, NEW said, NEW finished \in SUBSET Tasks, Core(g),
         g.held \subseteq Hand(g) \cup g.cancelled \cup finished,
         Hand(g) \ g.held \subseteq Cancels, Hand(g) \cap finished \subseteq Cancels
  PROVE  /\ EndSequential(r, g, said, finished) \in Engine
         /\ Own(EndSequential(r, g, said, finished))
<1> DEFINE over == finished \cup g.cancelled
<1>1. EndSequential(r, g, said, finished) = EndStep(r, g, said, over)
  BY DEF EndSequential
<1>2. /\ over \in SUBSET Tasks /\ g.held \subseteq Hand(g) \cup over
      /\ Hand(g) \cap over \subseteq Cancels /\ g.cancelled \subseteq over
  BY DEF Core, Engine
<1> HIDE DEF over
<1>3. EndStep(r, g, said, over) \in Engine /\ Own(EndStep(r, g, said, over))
  BY <1>2, EndStepOwn
<1> QED BY <1>1, <1>3

(* The next task of the sequential engine is not one it has begun.          *)
LEMMA StartNextFacts ==
  ASSUME NEW g \in Engine, Core(g)
  PROVE  LET h == StartNext(g)
         IN  /\ h \in Engine /\ Core(h) /\ h.pc = g.pc /\ h.now = g.now
             /\ h.held = g.held /\ h.known = g.known /\ h.maybe = g.maybe
             /\ h.maybeCancel = g.maybeCancel /\ h.count = g.count
             /\ h.cancelled = g.cancelled
             /\ Hand(h) = Range(g.maybe) \cup Range(g.queue)
             /\ h.active # <<>> => g.count[Head(h.active)] = 0
<1> DEFINE h == StartNext(g)
<1>0. g.queue \in Seq(Tasks) /\ <<>> \in Seq(Tasks)
  BY DEF Engine
<1>1. CASE g.queue = <<>>
  <2>1. h = [g EXCEPT !.active = <<>>]
    BY <1>1 DEF StartNext
  <2>2. /\ h \in Engine /\ h.pc = g.pc /\ h.now = g.now
        /\ h.held = g.held /\ h.known = g.known /\ h.maybe = g.maybe
        /\ h.maybeCancel = g.maybeCancel /\ h.count = g.count
        /\ h.cancelled = g.cancelled /\ h.queue = g.queue /\ h.active = <<>>
    BY <1>0, <2>1 DEF Engine
  <2> HIDE DEF h
  <2>3. Range(h.active) = {} /\ Hand(h) = Range(g.maybe) \cup Range(g.queue)
    BY <2>2, RangeOfSome DEF Hand
  <2>4. CountInv(h)
    BY <2>2 DEF CountInv, Core
  <2>5. Len(h.active) <= 1
    BY <2>2
  <2>6. Core(h)
    BY <2>2, <2>3, <2>4, <2>5 DEF Core, Hand
  <2> QED BY <2>2, <2>3, <2>6 DEF h
<1>2. CASE g.queue # <<>>
  <2> DEFINE t == Head(g.queue)
             q == Tail(g.queue)
  <2>1. /\ t \in Tasks /\ t \in Range(g.queue) /\ q \in Seq(Tasks)
        /\ Range(g.queue) = {t} \cup Range(q) /\ t \notin Range(q)
        /\ \A i, j \in 1 .. Len(q) : q[i] = q[j] => i = j
    BY <1>0, <1>2, RangeFacts DEF Core
  <2>2. h = [g EXCEPT !.active = <<t>>, !.queue = q]
    BY <1>2 DEF StartNext
  <2>3. <<t>> \in Seq(Tasks) /\ Range(<<t>>) = {t} /\ Len(<<t>>) = 1 /\ Head(<<t>>) = t
    BY <2>1, RangeOfSome
  <2> HIDE DEF t, q
  <2>4. /\ h \in Engine /\ h.pc = g.pc /\ h.now = g.now
        /\ h.held = g.held /\ h.known = g.known /\ h.maybe = g.maybe
        /\ h.maybeCancel = g.maybeCancel /\ h.count = g.count
        /\ h.cancelled = g.cancelled /\ h.queue = q /\ h.active = <<t>>
    BY <2>1, <2>2, <2>3 DEF Engine
  <2> HIDE DEF h
  <2>5. Range(h.active) = {t} /\ Hand(h) = Range(g.maybe) \cup Range(g.queue)
    BY <2>1, <2>3, <2>4 DEF Hand
  <2>6. CountInv(h)
    BY <2>1, <2>4 DEF CountInv, Core
  <2>7. Core(h)
    BY <2>1, <2>3, <2>4, <2>5, <2>6 DEF Core, Hand
  <2>8. g.count[t] = 0
    BY <2>1 DEF CountInv, Core
  <2> QED BY <2>3, <2>4, <2>5, <2>7, <2>8 DEF h
<1> QED BY <1>1, <1>2

LEMMA FillOwn ==
  ASSUME NEW r, NEW g \in Engine, Core(g), engine = "batch", g.held # {},
         g.held \subseteq Hand(g) \cup g.cancelled, Hand(g) \ g.held \subseteq Cancels
  PROVE  Fill(r, g) \in Engine /\ Own(Fill(r, g))
<1> DEFINE h == Fill(r, g)
<1>0. g.queue \in Seq(Tasks) /\ <<>> \in Seq(Tasks)
  BY DEF Engine
<1>1. CASE g.queue # <<>> /\ Len(g.active) < MaxActive
  <2> DEFINE t == Head(g.queue)
             q == Tail(g.queue)
  <2>1. /\ t \in Tasks /\ t \in Range(g.queue) /\ q \in Seq(Tasks)
        /\ Range(g.queue) = {t} \cup Range(q) /\ t \notin Range(q)
        /\ \A i, j \in 1 .. Len(q) : q[i] = q[j] => i = j
    BY <1>0, <1>1, RangeFacts DEF Core
  <2>2. h = [g EXCEPT !.pc = "prefill", !.now = <<t>>, !.queue = q]
    BY <1>1 DEF Fill
  <2>3. <<t>> \in Seq(Tasks) /\ Range(<<t>>) = {t} /\ Len(<<t>>) = 1 /\ Head(<<t>>) = t
    BY <2>1, RangeOfSome
  <2> HIDE DEF t, q
  <2>4. /\ h \in Engine /\ h.pc = "prefill" /\ h.now = <<t>>
        /\ h.held = g.held /\ h.known = g.known /\ h.maybe = g.maybe
        /\ h.maybeCancel = g.maybeCancel /\ h.count = g.count
        /\ h.cancelled = g.cancelled /\ h.queue = q /\ h.active = g.active
    BY <2>1, <2>2, <2>3 DEF Engine, Waiting
  <2> HIDE DEF h
  <2>5. g.count[t] = 0
    BY <2>1 DEF CountInv, Core
  <2>6. Fetched(h) = {t}
    BY <2>3, <2>4, <2>5 DEF Fetched, Prefilling
  <2>7. Hand(h) \cup {t} = Hand(g) /\ Range(h.now) = {t}
    BY <2>1, <2>3, <2>4 DEF Hand
  <2>8. KnownInv(h)
    BY <2>4, <2>7 DEF KnownInv, Core
  <2>9. OnceInv(h)
    BY <2>1, <2>4, <2>6 DEF OnceInv, Core
  <2>10. CountInv(h)
    BY <2>1, <2>4 DEF CountInv, Core
  <2>11. HeldInv(h)
    BY <2>4, <2>6, <2>7 DEF HeldInv
  <2>12. NowInv(h)
    BY <2>3, <2>4, <2>5 DEF NowInv, Local
  <2>13. OneInv(h) /\ PlaceInv(h)
    BY <2>4 DEF OneInv, PlaceInv, Local
  <2>14. h \in Engine /\ Own(h)
    BY <2>4, <2>8, <2>9, <2>10, <2>11, <2>12, <2>13 DEF Own, EngineInv
  <2> QED BY <2>14 DEF h
<1>2. CASE ~(g.queue # <<>> /\ Len(g.active) < MaxActive) /\ g.active = <<>>
  <2>1. h = ApplyCancellations(r, g, {}, {})
    BY <1>2 DEF Fill
  <2>2. ApplyCancellations(r, g, {}, {}) \in Engine /\ Own(ApplyCancellations(r, g, {}, {}))
    BY ApplyOwn
  <2> QED BY <2>1, <2>2
<1>3. CASE ~(g.queue # <<>> /\ Len(g.active) < MaxActive) /\ g.active # <<>>
  <2>1. h = [g EXCEPT !.pc = "decode", !.now = <<>>]
    BY <1>3 DEF Fill
  <2>2. /\ h \in Engine /\ h.pc = "decode" /\ h.now = <<>>
        /\ h.held = g.held /\ h.known = g.known /\ h.maybe = g.maybe
        /\ h.maybeCancel = g.maybeCancel /\ h.count = g.count
        /\ h.cancelled = g.cancelled /\ h.queue = g.queue /\ h.active = g.active
    BY <1>0, <2>1 DEF Engine, Waiting
  <2> HIDE DEF h
  <2>3. Hand(h) = Hand(g) /\ Fetched(h) = {} /\ Range(h.now) = {}
    BY <2>2, RangeOfSome DEF Hand, Fetched
  <2>4. KnownInv(h) /\ OnceInv(h)
    BY <2>2, <2>3 DEF KnownInv, OnceInv, Core
  <2>5. CountInv(h)
    BY <2>2 DEF CountInv, Core
  <2>6. HeldInv(h)
    BY <2>2, <2>3 DEF HeldInv
  <2>7. NowInv(h) /\ OneInv(h) /\ PlaceInv(h)
    BY <2>2 DEF NowInv, OneInv, PlaceInv, Local
  <2>8. h \in Engine /\ Own(h)
    BY <2>2, <2>4, <2>5, <2>6, <2>7 DEF Own, EngineInv
  <2> QED BY <2>8 DEF h
<1> QED BY <1>1, <1>2, <1>3

LEMMA ResumeOwn ==
  ASSUME NEW r, NEW g \in Engine, Core(g), engine = "sequential", g.held # {},
         g.held \subseteq Hand(g) \cup g.cancelled, Hand(g) \ g.held \subseteq Cancels
  PROVE  Resume(r, g) \in Engine /\ Own(Resume(r, g))
<1> DEFINE h == Resume(r, g)
           t == Head(g.active)
<1>0. g.active \in Seq(Tasks) /\ <<>> \in Seq(Tasks)
  BY DEF Engine
<1>1. CASE g.active = <<>>
  <2>1. h = EndSequential(r, g, {}, {})
    BY <1>1 DEF Resume
  <2>2. EndSequential(r, g, {}, {}) \in Engine /\ Own(EndSequential(r, g, {}, {}))
    BY EndSequentialOwn
  <2> QED BY <2>1, <2>2
<1>2. ASSUME g.active # <<>>
      PROVE  /\ t \in Tasks /\ Range(g.active) = {t} /\ <<t>> \in Seq(Tasks)
             /\ Range(<<t>>) = {t} /\ Len(<<t>>) = 1 /\ Head(<<t>>) = t
  <2>1. Len(g.active) <= 1
    BY DEF Core
  <2>2. t \in Range(g.active) /\ Range(g.active) = {t} /\ Range(g.active) \in SUBSET Tasks
    BY <1>0, <1>2, <2>1, RangeFacts
  <2> QED BY <2>2, RangeOfSome
<1>3. CASE g.active # <<>> /\ g.count[t] = Length[t]
  <2> DEFINE n == StartNext(g)
  <2>1. /\ n \in Engine /\ Core(n) /\ n.held = g.held /\ n.cancelled = g.cancelled
        /\ Hand(n) = Range(g.maybe) \cup Range(g.queue)
    BY StartNextFacts
  <2>2. Length[t] # 0
    BY <1>2, <1>3, RanksAssumption
  <2>3. h = EndSequential(r, n, {}, {t})
    BY <1>3, <2>2 DEF Resume
  <2> HIDE DEF n, h
  <2>4. /\ n.held \subseteq Hand(n) \cup n.cancelled \cup {t}
        /\ Hand(n) \ n.held \subseteq Cancels /\ Hand(n) \cap {t} \subseteq Cancels
        /\ {t} \in SUBSET Tasks
    BY <1>2, <1>3, <2>1 DEF Hand, Core
  <2>5. EndSequential(r, n, {}, {t}) \in Engine /\ Own(EndSequential(r, n, {}, {t}))
    BY <2>1, <2>4, EndSequentialOwn
  <2> QED BY <2>3, <2>5 DEF h
<1>4. CASE g.active # <<>> /\ g.count[t] # Length[t] /\ g.count[t] = 0
  <2>1. h = [g EXCEPT !.pc = "prefill", !.now = <<t>>]
    BY <1>4 DEF Resume
  <2> HIDE DEF t
  <2>2. /\ h \in Engine /\ h.pc = "prefill" /\ h.now = <<t>>
        /\ h.held = g.held /\ h.known = g.known /\ h.maybe = g.maybe
        /\ h.maybeCancel = g.maybeCancel /\ h.count = g.count
        /\ h.cancelled = g.cancelled /\ h.queue = g.queue /\ h.active = g.active
    BY <1>2, <1>4, <2>1 DEF Engine, Waiting
  <2> HIDE DEF h
  <2>3. Hand(h) = Hand(g) /\ Fetched(h) = {} /\ Range(h.now) = Range(h.active)
    BY <1>2, <1>4, <2>2 DEF Hand, Fetched
  <2>4. KnownInv(h) /\ OnceInv(h)
    BY <2>2, <2>3 DEF KnownInv, OnceInv, Core, Hand
  <2>5. CountInv(h)
    BY <2>2 DEF CountInv, Core
  <2>6. HeldInv(h)
    BY <2>2, <2>3 DEF HeldInv
  <2>7. NowInv(h)
    BY <1>2, <1>4, <2>2 DEF NowInv, Local
  <2>8. OneInv(h) /\ PlaceInv(h)
    BY <2>2, <2>3 DEF OneInv, PlaceInv, Local, Core
  <2>9. h \in Engine /\ Own(h)
    BY <2>2, <2>4, <2>5, <2>6, <2>7, <2>8 DEF Own, EngineInv
  <2> QED BY <2>9 DEF h
<1>5. CASE g.active # <<>> /\ g.count[t] # Length[t] /\ g.count[t] # 0
  <2>1. h = [g EXCEPT !.pc = "decode", !.now = <<>>]
    BY <1>5 DEF Resume
  <2>2. /\ h \in Engine /\ h.pc = "decode" /\ h.now = <<>>
        /\ h.held = g.held /\ h.known = g.known /\ h.maybe = g.maybe
        /\ h.maybeCancel = g.maybeCancel /\ h.count = g.count
        /\ h.cancelled = g.cancelled /\ h.queue = g.queue /\ h.active = g.active
    BY <1>0, <2>1 DEF Engine, Waiting
  <2> HIDE DEF h
  <2>3. Hand(h) = Hand(g) /\ Fetched(h) = {} /\ Range(h.now) = {}
    BY <2>2, RangeOfSome DEF Hand, Fetched
  <2>4. KnownInv(h) /\ OnceInv(h)
    BY <2>2, <2>3 DEF KnownInv, OnceInv, Core
  <2>5. CountInv(h)
    BY <2>2 DEF CountInv, Core
  <2>6. HeldInv(h)
    BY <2>2, <2>3 DEF HeldInv
  <2>7. NowInv(h) /\ OneInv(h) /\ PlaceInv(h)
    BY <2>2 DEF NowInv, OneInv, PlaceInv, Local, Core
  <2>8. h \in Engine /\ Own(h)
    BY <2>2, <2>4, <2>5, <2>6, <2>7 DEF Own, EngineInv
  <2> QED BY <2>8 DEF h
<1> QED BY <1>1, <1>3, <1>4, <1>5

LEMMA AgreeOwn ==
  ASSUME NEW g \in Engine, Core(g), g.held # {}, g.now = <<>>,
         g.held \subseteq Hand(g) \cup g.cancelled, Hand(g) \ g.held \subseteq Cancels,
         engine = "sequential" => g.active = <<>>
  PROVE  [g EXCEPT !.pc = "agree"] \in Engine /\ Own([g EXCEPT !.pc = "agree"])
<1> DEFINE h == [g EXCEPT !.pc = "agree"]
<1>1. /\ h \in Engine /\ h.pc = "agree" /\ h.now = <<>>
      /\ h.held = g.held /\ h.known = g.known /\ h.maybe = g.maybe
      /\ h.maybeCancel = g.maybeCancel /\ h.count = g.count
      /\ h.cancelled = g.cancelled /\ h.queue = g.queue /\ h.active = g.active
  BY DEF Engine, Waiting
<1> HIDE DEF h
<1>2. Hand(h) = Hand(g) /\ Fetched(h) = {} /\ Range(h.now) = {}
  BY <1>1, RangeOfSome DEF Hand, Fetched
<1>3. KnownInv(h) /\ OnceInv(h)
  BY <1>1, <1>2 DEF KnownInv, OnceInv, Core
<1>4. CountInv(h)
  BY <1>1 DEF CountInv, Core
<1>5. HeldInv(h)
  BY <1>1, <1>2 DEF HeldInv
<1>6. NowInv(h) /\ OneInv(h) /\ PlaceInv(h)
  BY <1>1 DEF NowInv, OneInv, PlaceInv, Local, Core
<1>7. h \in Engine /\ Own(h)
  BY <1>1, <1>3, <1>4, <1>5, <1>6 DEF Own, EngineInv
<1> QED BY <1>7 DEF h

LEMMA StepOwn ==
  ASSUME NEW r, NEW g \in Engine, Core(g), engine \in {"batch", "sequential"}, g.held # {},
         g.now = <<>>, g.held \subseteq Hand(g) \cup g.cancelled,
         Hand(g) \ g.held \subseteq Cancels
  PROVE  Step(r, g) \in Engine /\ Own(Step(r, g))
<1>1. CASE engine = "batch" /\ g.queue = <<>>
  <2>1. [g EXCEPT !.pc = "agree"] \in Engine /\ Own([g EXCEPT !.pc = "agree"])
    BY <1>1, AgreeOwn
  <2> QED BY <1>1, <2>1 DEF Step
<1>2. CASE engine = "batch" /\ g.queue # <<>>
  <2>1. Fill(r, g) \in Engine /\ Own(Fill(r, g))
    BY <1>2, FillOwn
  <2> QED BY <1>2, <2>1 DEF Step
<1>3. CASE engine = "sequential" /\ g.active = <<>>
  <2>1. [g EXCEPT !.pc = "agree"] \in Engine /\ Own([g EXCEPT !.pc = "agree"])
    BY <1>3, AgreeOwn
  <2> QED BY <1>3, <2>1 DEF Step
<1>4. CASE engine = "sequential" /\ g.active # <<>>
  <2>1. Resume(r, g) \in Engine /\ Own(Resume(r, g))
    BY <1>4, ResumeOwn
  <2> QED BY <1>4, <2>1 DEF Step
<1> QED BY <1>1, <1>2, <1>3, <1>4

LEMMA SubmitFacts ==
  ASSUME NEW g \in Engine, Own(g), g.pc \in Local, NEW t \in Tasks, t \notin g.known
  PROVE  LET h == Submit(g, t)
         IN  /\ h \in Engine /\ Core(h) /\ h.pc = g.pc /\ h.now = g.now
             /\ h.held = g.held \cup {t} /\ h.known = g.known \cup {t}
             /\ h.queue = g.queue /\ h.active = g.active
             /\ h.count = g.count /\ h.cancelled = g.cancelled
             /\ h.held \subseteq Hand(h) \cup h.cancelled /\ Hand(h) \ h.held \subseteq Cancels
<1> DEFINE h == Submit(g, t)
           m == Append(g.maybe, t)
<1>0. g.maybe \in Seq(Tasks)
  BY DEF Engine
<1>1. m \in Seq(Tasks) /\ Range(m) = Range(g.maybe) \cup {t}
  BY <1>0, RangeOfSome
<1> DEFINE held == g.held \cup {t}
           known == g.known \cup {t}
<1>a. held \in SUBSET Tasks /\ known \in SUBSET Tasks
  BY DEF Engine
<1>2. h = [g EXCEPT !.held = held, !.known = known, !.maybe = m]
  BY DEF Submit, Engine
<1> HIDE DEF m, held, known
<1>3. /\ h \in Engine /\ h.pc = g.pc /\ h.now = g.now
      /\ h.held = held /\ h.known = known /\ h.maybe = m
      /\ h.maybeCancel = g.maybeCancel /\ h.count = g.count
      /\ h.cancelled = g.cancelled /\ h.queue = g.queue /\ h.active = g.active
  BY <1>1, <1>a, <1>2 DEF Engine
<1> HIDE DEF h
<1> USE DEF held, known
<1>4. Hand(h) = Hand(g) \cup {t}
  BY <1>1, <1>3 DEF Hand
<1>5. Core(g) /\ Fetched(g) = {} /\ HeldInv(g)
  BY CoreOfOwn DEF Own, Local, Fetched
<1>6. t \notin Hand(g)
  BY <1>5 DEF Core
<1>7. CountInv(h)
  BY <1>1, <1>3, <1>5 DEF CountInv, Core
<1>8. Core(h)
  <2>1. Range(h.maybe) \cap (Range(h.queue) \cup Range(h.active)) = {}
    BY <1>1, <1>3, <1>5, <1>6 DEF Core, Hand
  <2> QED BY <1>3, <1>4, <1>5, <1>7, <2>1 DEF Core
<1>9. h.held \subseteq Hand(h) \cup h.cancelled /\ Hand(h) \ h.held \subseteq Cancels
  BY <1>3, <1>4, <1>5 DEF HeldInv
<1> QED BY <1>3, <1>8, <1>9 DEF h

LEMMA AgreeOnTasksOwn ==
  ASSUME NEW g \in Engine, g.pc # "dead", Own(g), NEW agreed \in SUBSET Range(g.maybe)
  PROVE  LET h == AgreeOnTasks(g, agreed)
         IN  /\ h \in Engine /\ Own(h) /\ h.pc = g.pc /\ h.now = g.now
             /\ h.held = g.held /\ h.known = g.known /\ h.active = g.active
             /\ h.count = g.count /\ h.cancelled = g.cancelled
             /\ h.queue = g.queue \o InOrder(agreed)
<1> DEFINE h == AgreeOnTasks(g, agreed)
           more == InOrder(agreed)
           q == g.queue \o more
           m == Keep(g.maybe, Tasks \ agreed)
<1>0. g.maybe \in Seq(Tasks) /\ g.queue \in Seq(Tasks) /\ Tasks \subseteq Nat
  BY RanksAssumption DEF Engine
<1>1. Range(g.maybe) \in SUBSET Tasks /\ IsFiniteSet(Range(g.maybe)) /\ Range(g.queue) \in SUBSET Tasks
  BY <1>0, RangeFacts
<1>2. agreed \in SUBSET Nat /\ agreed \in SUBSET Tasks /\ IsFiniteSet(agreed)
  BY <1>0, <1>1, FS_Subset
<1>3. /\ more \in Seq(agreed) /\ Range(more) = agreed
      /\ \A i, j \in 1 .. Len(more) : more[i] = more[j] => i = j
  BY <1>2, InOrderFacts
<1> HIDE DEF more
<1>4. more \in Seq(Tasks)
  BY <1>2, <1>3
<1>5. OnceInv(g) /\ KnownInv(g) /\ CountInv(g) /\ NowInv(g) /\ OneInv(g) /\ HeldInv(g) /\ PlaceInv(g)
  BY DEF Own, EngineInv
<1>6. Range(g.queue) \cap Range(more) = {}
  BY <1>3, <1>5 DEF OnceInv
<1>7. /\ q \in Seq(Tasks) /\ Range(q) = Range(g.queue) \cup agreed
      /\ \A i, j \in 1 .. Len(q) : q[i] = q[j] => i = j
  BY <1>0, <1>3, <1>4, <1>5, <1>6, RangeOfBoth DEF OnceInv
<1>8. m \in Seq(Tasks) /\ Range(m) = Range(g.maybe) \ agreed
  <2>1. m \in Seq(Tasks) /\ Range(m) = Range(g.maybe) \cap (Tasks \ agreed)
    BY <1>0, KeepFacts
  <2> HIDE DEF m
  <2> QED BY <1>1, <2>1
<1>9. h = [g EXCEPT !.queue = q, !.maybe = m]
  BY DEF AgreeOnTasks, more, Engine
<1> HIDE DEF q, m
<1>10. /\ h \in Engine /\ h.pc = g.pc /\ h.now = g.now
       /\ h.held = g.held /\ h.known = g.known /\ h.maybe = m
       /\ h.maybeCancel = g.maybeCancel /\ h.count = g.count
       /\ h.cancelled = g.cancelled /\ h.queue = q /\ h.active = g.active
  BY <1>7, <1>8, <1>9 DEF Engine
<1> HIDE DEF h
<1>11. Hand(h) = Hand(g) /\ Fetched(h) = Fetched(g)
  <2>1. Hand(h) = Hand(g)
    BY <1>7, <1>8, <1>10 DEF Hand
  <2>2. Fetched(h) = Fetched(g)
    BY <1>10 DEF Fetched, Prefilling
  <2> QED BY <2>1, <2>2
<1>12. KnownInv(h)
  BY <1>5, <1>10, <1>11 DEF KnownInv
<1>13. OnceInv(h)
  <2>1. Range(h.queue) \cap (Range(h.active) \cup Fetched(h)) = {}
    BY <1>5, <1>7, <1>10, <1>11 DEF OnceInv
  <2>2. Range(h.maybe) \cap (Range(h.queue) \cup Range(h.active) \cup Fetched(h)) = {}
    BY <1>5, <1>7, <1>8, <1>10, <1>11 DEF OnceInv
  <2> QED BY <1>7, <1>10, <2>1, <2>2 DEF OnceInv
<1>14. CountInv(h)
  BY <1>5, <1>7, <1>8, <1>10 DEF CountInv
<1>15. NowInv(h) /\ OneInv(h)
  BY <1>5, <1>10 DEF NowInv, OneInv
<1>16. HeldInv(h) /\ PlaceInv(h)
  BY <1>5, <1>10, <1>11 DEF HeldInv, PlaceInv
<1>17. Own(h)
  BY <1>12, <1>13, <1>14, <1>15, <1>16 DEF Own, EngineInv
<1> QED BY <1>10, <1>17 DEF h, q, more

LEMMA AgreedOwn ==
  ASSUME NEW r, NEW g \in Engine, g.pc = "agree", Own(g), engine \in {"batch", "sequential"}
  PROVE  Agreed(r, g) \in Engine /\ Own(Agreed(r, g))
<1>1. Core(g) /\ HeldInv(g) /\ PlaceInv(g) /\ Fetched(g) = {} /\ OneInv(g)
  BY CoreOfOwn DEF Own, EngineInv, Fetched
<1>2. /\ g.held # {} /\ g.held \subseteq Hand(g) \cup g.cancelled
      /\ Hand(g) \ g.held \subseteq Cancels
  BY <1>1 DEF HeldInv, PlaceInv, Waiting
<1>3. CASE engine = "batch"
  <2>1. Fill(r, g) \in Engine /\ Own(Fill(r, g))
    BY <1>1, <1>2, <1>3, FillOwn
  <2> QED BY <1>3, <2>1 DEF Agreed
<1>4. CASE engine = "sequential"
  <2> DEFINE n == StartNext(g)
  <2>1. /\ n \in Engine /\ Core(n) /\ n.held = g.held /\ n.cancelled = g.cancelled
        /\ Hand(n) = Range(g.maybe) \cup Range(g.queue)
    BY <1>1, StartNextFacts
  <2>2. Agreed(r, g) = Resume(r, n)
    BY <1>4 DEF Agreed
  <2> HIDE DEF n
  <2>3. Hand(n) = Hand(g)
    BY <1>1, <1>4, <2>1, RangeOfSome DEF Hand, OneInv
  <2>4. Resume(r, n) \in Engine /\ Own(Resume(r, n))
    BY <1>2, <1>4, <2>1, <2>3, ResumeOwn
  <2> QED BY <2>2, <2>4
<1> QED BY <1>3, <1>4

LEMMA DecodedOwn ==
  ASSUME NEW r, NEW g \in Engine, Core(g), engine \in {"batch", "sequential"},
         g.held \subseteq Hand(g) \cup g.cancelled, Hand(g) \ g.held \subseteq Cancels
  PROVE  Decoded(r, g) \in Engine /\ Own(Decoded(r, g))
<1> DEFINE done == {t \in Range(g.active) : g.count[t] = Length[t]}
           k == Keep(g.active, Tasks \ done)
           f == [g EXCEPT !.active = k]
<1>1. CASE engine = "sequential"
  <2>1. {} \in SUBSET Tasks /\ g.held \subseteq Hand(g) \cup g.cancelled \cup {}
    OBVIOUS
  <2>2. /\ EndSequential(r, g, Range(g.active), {}) \in Engine
        /\ Own(EndSequential(r, g, Range(g.active), {}))
    BY <2>1, EndSequentialOwn
  <2> QED BY <1>1, <2>2 DEF Decoded
<1>2. CASE engine = "batch"
  <2>1. g.active \in Seq(Tasks)
    BY DEF Engine
  <2>2. Range(g.active) \in SUBSET Tasks /\ done \subseteq Range(g.active)
    BY <2>1, RangeFacts
  <2>3. k \in Seq(Tasks) /\ Range(k) = Range(g.active) \cap (Tasks \ done)
    BY <2>1, KeepFacts
  <2>4. Decoded(r, g) = ApplyCancellations(r, f, Range(g.active), done)
    BY <1>2 DEF Decoded
  <2> HIDE DEF k, done
  <2>5. /\ f \in Engine /\ f.held = g.held /\ f.known = g.known /\ f.maybe = g.maybe
        /\ f.maybeCancel = g.maybeCancel /\ f.count = g.count
        /\ f.cancelled = g.cancelled /\ f.queue = g.queue /\ f.active = k
    BY <2>3 DEF Engine
  <2> HIDE DEF f
  <2>6. Hand(f) = Range(g.maybe) \cup Range(g.queue) \cup (Range(g.active) \ done)
    BY <2>2, <2>3, <2>5 DEF Hand
  <2>7. Core(f)
    <3>1. Hand(f) \subseteq Hand(g) /\ Range(f.active) \subseteq Range(g.active)
      BY <2>3, <2>5, <2>6 DEF Hand
    <3>2. CountInv(f)
      BY <2>5 DEF CountInv, Core
    <3> QED BY <1>2, <2>5, <3>1, <3>2 DEF Core
  <2>8. /\ done \in SUBSET Tasks /\ f.held \subseteq Hand(f) \cup f.cancelled \cup done
        /\ Hand(f) \ f.held \subseteq Cancels
    BY <2>2, <2>5, <2>6 DEF Hand
  <2>9. Hand(f) \cap done = {}
    BY <2>2, <2>6 DEF Core
  <2>10. /\ ApplyCancellations(r, f, Range(g.active), done) \in Engine
         /\ Own(ApplyCancellations(r, f, Range(g.active), done))
    BY <1>2, <2>5, <2>7, <2>8, <2>9, ApplyOwn
  <2> QED BY <2>4, <2>10
<1> QED BY <1>1, <1>2

(* The batch engine, with the task it has prefilled.                        *)
Appended(g) == [g EXCEPT !.active = Append(@, Head(g.now))]

LEMMA AppendFacts ==
  ASSUME NEW g \in Engine, g.pc = "gather", Own(g), Prefilling(g), engine = "batch"
  PROVE  LET f == Appended(g)
         IN  /\ f \in Engine /\ Core(f) /\ f.held = g.held /\ f.known = g.known
             /\ f.queue = g.queue /\ f.active = Append(g.active, Head(g.now))
             /\ f.count = g.count /\ f.cancelled = g.cancelled
             /\ Hand(f) = Hand(g) \cup Fetched(g)
<1> DEFINE t == Head(g.now)
           a == Append(g.active, t)
           f == Appended(g)
<1>0. /\ Core(g) /\ NowInv(g) /\ KnownInv(g) /\ OnceInv(g)
  BY CoreOfOwn DEF Own, EngineInv
<1>1. g.now \in Seq(Tasks) /\ g.active \in Seq(Tasks) /\ g.now # <<>>
  BY <1>0 DEF NowInv, Engine
<1>2. t \in Range(g.now) /\ Range(g.now) \in SUBSET Tasks
  BY <1>1, RangeFacts
<1>3. a \in Seq(Tasks) /\ Range(a) = Range(g.active) \cup {t}
  BY <1>1, <1>2, RangeOfSome
<1>4. Fetched(g) = {t}
  BY DEF Fetched
<1>5. f = [g EXCEPT !.active = a]
  BY DEF Appended, Engine
<1> HIDE DEF t, a
<1>6. /\ f \in Engine /\ f.held = g.held /\ f.known = g.known /\ f.maybe = g.maybe
      /\ f.maybeCancel = g.maybeCancel /\ f.count = g.count
      /\ f.cancelled = g.cancelled /\ f.queue = g.queue /\ f.active = a
  BY <1>3, <1>5 DEF Engine
<1> HIDE DEF f
<1>7. Hand(f) = Hand(g) \cup Fetched(g)
  BY <1>3, <1>4, <1>6 DEF Hand
<1>8. Core(f)
  <2>1. CountInv(f)
    BY <1>0, <1>6 DEF CountInv, Core
  <2>2. Range(f.queue) \cap Range(f.active) = {}
    BY <1>0, <1>3, <1>4, <1>6 DEF OnceInv
  <2>3. Range(f.maybe) \cap (Range(f.queue) \cup Range(f.active)) = {}
    BY <1>0, <1>3, <1>4, <1>6 DEF OnceInv
  <2>4. Hand(f) \subseteq f.known
    BY <1>0, <1>2, <1>4, <1>6, <1>7 DEF KnownInv
  <2> QED BY <1>0, <1>6, <2>1, <2>2, <2>3, <2>4 DEF Core
<1> QED BY <1>6, <1>7, <1>8 DEF f, a, t

LEMMA GatheredOwn ==
  ASSUME NEW r, NEW g \in Engine, g.pc = "gather", Own(g), engine \in {"batch", "sequential"}
  PROVE  Gathered(r, g) \in Engine /\ Own(Gathered(r, g))
<1> DEFINE h == Gathered(r, g)
           t == Head(g.now)
<1>0. /\ Core(g) /\ HeldInv(g) /\ PlaceInv(g) /\ OneInv(g) /\ NowInv(g) /\ KnownInv(g)
      /\ OnceInv(g)
  BY CoreOfOwn DEF Own, EngineInv
<1>1. g.now \in Seq(Tasks) /\ g.active \in Seq(Tasks) /\ g.now # <<>> /\ <<>> \in Seq(Tasks)
  BY <1>0 DEF NowInv, Engine
<1>2. /\ t \in Range(g.now) /\ Range(g.now) \in SUBSET Tasks
      /\ Range(g.now) = {t} \cup Range(Tail(g.now)) /\ Tail(g.now) \in Seq(Tasks)
  BY <1>1, RangeFacts
<1>3. g.held # {}
  BY <1>0 DEF PlaceInv, Waiting
<1>4. CASE Prefilling(g) /\ engine = "batch"
  <2> DEFINE f == Appended(g)
  <2>1. /\ f \in Engine /\ Core(f) /\ f.held = g.held /\ f.cancelled = g.cancelled
        /\ Hand(f) = Hand(g) \cup Fetched(g)
    BY <1>4, AppendFacts
  <2>2. h = Fill(r, f)
    BY <1>4 DEF Gathered, Appended
  <2> HIDE DEF f, h
  <2>3. f.held \subseteq Hand(f) \cup f.cancelled /\ Hand(f) \ f.held \subseteq Cancels
    BY <1>0, <2>1 DEF HeldInv
  <2>4. Fill(r, f) \in Engine /\ Own(Fill(r, f))
    BY <1>3, <1>4, <2>1, <2>3, FillOwn
  <2> QED BY <2>2, <2>4 DEF h
<1>5. CASE Prefilling(g) /\ engine = "sequential"
  <2>1. h = [g EXCEPT !.pc = "decode", !.now = <<>>]
    BY <1>5 DEF Gathered
  <2>2. /\ h \in Engine /\ h.pc = "decode" /\ h.now = <<>>
        /\ h.held = g.held /\ h.known = g.known /\ h.maybe = g.maybe
        /\ h.maybeCancel = g.maybeCancel /\ h.count = g.count
        /\ h.cancelled = g.cancelled /\ h.queue = g.queue /\ h.active = g.active
    BY <1>1, <2>1 DEF Engine, Waiting
  <2> HIDE DEF h
  <2>3. Hand(h) = Hand(g) /\ Fetched(h) = {} /\ Fetched(g) = {} /\ Range(h.now) = {}
    BY <1>5, <2>2, RangeOfSome DEF Hand, Fetched
  <2>4. KnownInv(h) /\ OnceInv(h)
    BY <1>0, <2>2, <2>3 DEF KnownInv, OnceInv, Core
  <2>5. CountInv(h)
    BY <1>0, <2>2 DEF CountInv, Core
  <2>6. HeldInv(h)
    BY <1>0, <2>2, <2>3 DEF HeldInv
  <2>7. NowInv(h) /\ OneInv(h) /\ PlaceInv(h)
    BY <1>0, <1>3, <2>2 DEF NowInv, OneInv, PlaceInv, Local, Core
  <2>8. h \in Engine /\ Own(h)
    BY <2>2, <2>4, <2>5, <2>6, <2>7 DEF Own, EngineInv
  <2> QED BY <2>8 DEF h
<1>6. ASSUME ~Prefilling(g)
      PROVE  /\ \A u \in Range(g.now) : g.count[u] # 0
             /\ Fetched(g) = {}
  BY <1>0, <1>6 DEF NowInv, Prefilling, Fetched
<1>7. CASE ~Prefilling(g) /\ Len(g.now) > 1
  <2> DEFINE n == Tail(g.now)
  <2>1. n \in Seq(Tasks) /\ n # <<>> /\ Range(n) \subseteq Range(g.now)
    BY <1>1, <1>2, <1>7
  <2>2. Head(n) \in Range(n)
    BY <2>1, RangeFacts
  <2>3. h = [g EXCEPT !.pc = "check", !.now = n]
    BY <1>7 DEF Gathered, Engine
  <2> HIDE DEF n
  <2>4. /\ h \in Engine /\ h.pc = "check" /\ h.now = n
        /\ h.held = g.held /\ h.known = g.known /\ h.maybe = g.maybe
        /\ h.maybeCancel = g.maybeCancel /\ h.count = g.count
        /\ h.cancelled = g.cancelled /\ h.queue = g.queue /\ h.active = g.active
    BY <2>1, <2>3 DEF Engine, Waiting
  <2> HIDE DEF h
  <2>5. h.count[Head(h.now)] # 0
    BY <1>6, <1>7, <2>1, <2>2, <2>4
  <2>6. Hand(h) = Hand(g) /\ Fetched(h) = {} /\ Fetched(g) = {}
    BY <1>6, <1>7, <2>4, <2>5 DEF Hand, Fetched, Prefilling
  <2>7. KnownInv(h)
    BY <1>0, <2>1, <2>4, <2>6 DEF KnownInv
  <2>8. OnceInv(h)
    BY <1>0, <2>4, <2>6 DEF OnceInv
  <2>9. CountInv(h)
    BY <1>0, <2>4 DEF CountInv, Core
  <2>10. HeldInv(h)
    BY <1>0, <2>4, <2>6 DEF HeldInv
  <2>11. NowInv(h)
    BY <1>6, <1>7, <2>1, <2>4 DEF NowInv, Local
  <2>12. OneInv(h)
    BY <1>0, <2>1, <2>4 DEF OneInv
  <2>13. PlaceInv(h)
    BY <1>3, <2>4 DEF PlaceInv, Local
  <2>14. h \in Engine /\ Own(h)
    BY <2>4, <2>7, <2>8, <2>9, <2>10, <2>11, <2>12, <2>13 DEF Own, EngineInv
  <2> QED BY <2>14 DEF h
<1>8. CASE ~Prefilling(g) /\ ~(Len(g.now) > 1)
  <2>1. h = Decoded(r, g)
    BY <1>8 DEF Gathered
  <2>2. g.held \subseteq Hand(g) \cup g.cancelled /\ Hand(g) \ g.held \subseteq Cancels
    BY <1>0, <1>6, <1>8 DEF HeldInv
  <2>3. Decoded(r, g) \in Engine /\ Own(Decoded(r, g))
    BY <1>0, <2>2, DecodedOwn
  <2> QED BY <2>1, <2>3
<1> QED BY <1>4, <1>5, <1>7, <1>8

LEMMA AgreeOnCancellationsOwn ==
  ASSUME NEW g \in Engine, g.pc = "check", Own(g), NEW collected \in SUBSET Cancels,
         collected \subseteq g.known, NEW agreed \in SUBSET collected
  PROVE  LET h == AgreeOnCancellations(g, collected, agreed)
         IN  /\ h \in Engine /\ Own(h) /\ h.pc = g.pc /\ h.now = g.now
             /\ h.held = g.held /\ h.known = g.known /\ h.active = g.active
             /\ h.count = g.count /\ h.queue = g.queue
             /\ h.cancelled = g.cancelled \cup agreed
<1> DEFINE h == AgreeOnCancellations(g, collected, agreed)
           c == g.cancelled \cup agreed
           m == collected \ agreed
<1>1. c \in SUBSET Tasks /\ m \in SUBSET Tasks
  BY RanksAssumption DEF Engine
<1>2. h = [g EXCEPT !.cancelled = c, !.maybeCancel = m]
  BY DEF AgreeOnCancellations, Engine
<1>3. /\ g.cancelled \subseteq c /\ c \subseteq g.cancelled \cup collected /\ m \subseteq collected
      /\ c = g.cancelled \cup agreed
  OBVIOUS
<1> HIDE DEF c, m
<1>4. /\ h \in Engine /\ h.pc = g.pc /\ h.now = g.now
      /\ h.held = g.held /\ h.known = g.known /\ h.maybe = g.maybe
      /\ h.maybeCancel = m /\ h.count = g.count
      /\ h.cancelled = c /\ h.queue = g.queue /\ h.active = g.active
  BY <1>1, <1>2 DEF Engine
<1> HIDE DEF h
<1>5. KnownInv(g) /\ OnceInv(g) /\ CountInv(g) /\ NowInv(g) /\ OneInv(g) /\ HeldInv(g) /\ PlaceInv(g)
  BY DEF Own, EngineInv
<1>6. Hand(h) = Hand(g) /\ Fetched(h) = Fetched(g)
  BY <1>4 DEF Hand, Fetched, Prefilling
<1>7. KnownInv(h)
  BY <1>3, <1>4, <1>5, <1>6 DEF KnownInv
<1>8. OnceInv(h)
  BY <1>4, <1>5, <1>6 DEF OnceInv
<1>9. CountInv(h)
  BY <1>4, <1>5 DEF CountInv
<1>10. HeldInv(h)
  BY <1>3, <1>4, <1>5, <1>6 DEF HeldInv
<1>11. NowInv(h) /\ OneInv(h)
  BY <1>4, <1>5 DEF NowInv, OneInv
<1>12. PlaceInv(h)
  BY <1>4, <1>5 DEF PlaceInv, Local, Waiting
<1>13. Own(h)
  BY <1>7, <1>8, <1>9, <1>10, <1>11, <1>12 DEF Own, EngineInv
<1> QED BY <1>3, <1>4, <1>13 DEF h

LEMMA CheckedOwn ==
  ASSUME NEW r, NEW g \in Engine, g.pc = "check", Own(g), engine \in {"batch", "sequential"}
  PROVE  Checked(r, g) \in Engine /\ Own(Checked(r, g))
<1> DEFINE h == Checked(r, g)
           t == Head(g.now)
<1>0. /\ Core(g) /\ HeldInv(g) /\ PlaceInv(g) /\ OneInv(g) /\ NowInv(g) /\ KnownInv(g)
      /\ OnceInv(g) /\ CountInv(g)
  BY CoreOfOwn DEF Own, EngineInv
<1>1. g.now \in Seq(Tasks) /\ g.active \in Seq(Tasks) /\ g.now # <<>>
  BY <1>0 DEF NowInv, Engine
<1>2. t \in Range(g.now) /\ Range(g.now) \in SUBSET Tasks
  BY <1>1, RangeFacts
<1>3. g.held # {}
  BY <1>0 DEF PlaceInv, Waiting
<1>4. CASE t \notin g.cancelled \/ (engine = "batch" /\ ~Prefilling(g))
  <2>1. h = [g EXCEPT !.pc = "gather"]
    BY <1>4 DEF Checked
  <2>2. /\ h \in Engine /\ h.pc = "gather" /\ h.now = g.now
        /\ h.held = g.held /\ h.known = g.known /\ h.maybe = g.maybe
        /\ h.maybeCancel = g.maybeCancel /\ h.count = g.count
        /\ h.cancelled = g.cancelled /\ h.queue = g.queue /\ h.active = g.active
    BY <2>1 DEF Engine, Waiting
  <2> HIDE DEF h
  <2>3. Hand(h) = Hand(g) /\ Fetched(h) = Fetched(g)
    BY <2>2 DEF Hand, Fetched, Prefilling
  <2>4. KnownInv(h) /\ OnceInv(h)
    BY <1>0, <2>2, <2>3 DEF KnownInv, OnceInv
  <2>5. CountInv(h)
    BY <1>0, <2>2 DEF CountInv
  <2>6. HeldInv(h)
    BY <1>0, <2>2, <2>3 DEF HeldInv
  <2>7. NowInv(h)
    BY <1>0, <2>2 DEF NowInv, Local
  <2>8. OneInv(h) /\ PlaceInv(h)
    BY <1>0, <1>3, <2>2 DEF OneInv, PlaceInv, Local
  <2>9. h \in Engine /\ Own(h)
    BY <2>2, <2>4, <2>5, <2>6, <2>7, <2>8 DEF Own, EngineInv
  <2> QED BY <2>9 DEF h
<1>5. CASE t \in g.cancelled /\ engine = "batch" /\ Prefilling(g)
  <2>1. h = Fill(r, g)
    BY <1>5 DEF Checked
  <2>2. Fetched(g) = {t}
    BY <1>5 DEF Fetched
  <2>3. g.held \subseteq Hand(g) \cup g.cancelled /\ Hand(g) \ g.held \subseteq Cancels
    BY <1>0, <1>5, <2>2 DEF HeldInv
  <2>4. Fill(r, g) \in Engine /\ Own(Fill(r, g))
    BY <1>0, <1>3, <1>5, <2>3, FillOwn
  <2> QED BY <2>1, <2>4
<1>6. CASE t \in g.cancelled /\ engine = "sequential"
  <2> DEFINE n == StartNext(g)
  <2>1. /\ n \in Engine /\ Core(n) /\ n.held = g.held /\ n.cancelled = g.cancelled
        /\ Hand(n) = Range(g.maybe) \cup Range(g.queue)
    BY <1>0, StartNextFacts
  <2>2. h = EndSequential(r, n, {}, {t})
    BY <1>6 DEF Checked
  <2> HIDE DEF n, h
  <2>3. Range(g.now) \subseteq Range(g.active) /\ Len(g.active) <= 1
    BY <1>0, <1>6 DEF OneInv
  <2>4. Range(g.active) = {t}
    <3>1. g.active # <<>>
      BY <1>2, <2>3, RangeOfSome
    <3>2. Range(g.active) = {Head(g.active)}
      BY <1>1, <2>3, <3>1, RangeFacts
    <3> QED BY <1>2, <2>3, <3>2
  <2>5. Fetched(g) = {}
    BY <1>6 DEF Fetched
  <2>6. /\ n.held \subseteq Hand(n) \cup n.cancelled \cup {t}
        /\ Hand(n) \ n.held \subseteq Cancels /\ Hand(n) \cap {t} \subseteq Cancels
        /\ {t} \in SUBSET Tasks
    <3>1. Hand(n) \subseteq Hand(g) /\ Hand(g) = Hand(n) \cup {t}
      BY <2>1, <2>4 DEF Hand
    <3>2. t \in Cancels
      BY <1>0, <1>6 DEF KnownInv
    <3> QED BY <1>0, <1>2, <2>1, <2>5, <3>1, <3>2 DEF HeldInv
  <2>7. EndSequential(r, n, {}, {t}) \in Engine /\ Own(EndSequential(r, n, {}, {t}))
    BY <2>1, <2>6, EndSequentialOwn
  <2> QED BY <2>2, <2>7 DEF h
<1> QED BY <1>4, <1>5, <1>6

(* The counts after a pass over the active tasks.                           *)
Counted(g) == [t \in Tasks |-> g.count[t] + (IF t \in Range(g.active) THEN 1 ELSE 0)]

Due(g) == Keep(g.active, {t \in Tasks : (Counted(g)[t] - 1) % Every = 0})

(* An engine after the pass.                                                *)
Passed(g) == [g EXCEPT !.count = Counted(g), !.now = Due(g)]

LEMMA PassedFacts ==
  ASSUME NEW g \in Engine, g.pc = "decode", Own(g)
  PROVE  LET h == Passed(g)
         IN  /\ h \in Engine /\ Core(h) /\ h.pc = "decode" /\ h.now = Due(g)
             /\ h.held = g.held /\ h.known = g.known /\ h.active = g.active
             /\ h.count = Counted(g) /\ h.queue = g.queue /\ h.cancelled = g.cancelled
             /\ h.held \subseteq Hand(h) \cup h.cancelled /\ Hand(h) \ h.held \subseteq Cancels
             /\ Range(h.now) \subseteq Range(h.active)
             /\ \A t \in Range(h.now) : h.count[t] # 0
             /\ OneInv(h) /\ h.held # {}
<1> DEFINE h == Passed(g)
           cut == {t \in Tasks : (Counted(g)[t] - 1) % Every = 0}
<1>1. g.active \in Seq(Tasks) /\ g.count \in [Tasks -> Nat]
  BY DEF Engine
<1>2. Counted(g) \in [Tasks -> Nat] /\ \A t \in Range(g.active) : t \in Tasks /\ Counted(g)[t] # 0
  <2>1. Range(g.active) \in SUBSET Tasks
    BY <1>1, RangeFacts
  <2> QED BY <1>1, <2>1 DEF Counted
<1>3. Due(g) \in Seq(Tasks) /\ Range(Due(g)) = Range(g.active) \cap cut
  <2> HIDE DEF cut
  <2>1. Due(g) = Keep(g.active, cut)
    BY DEF Due, cut
  <2> QED BY <1>1, <2>1, KeepFacts
<1>4. \A t \in Tasks : Counted(g)[t] # 0 => g.count[t] # 0 \/ t \in Range(g.active)
  BY <1>1 DEF Counted
<1> DEFINE c == Counted(g)
           d == Due(g)
<1> HIDE DEF c, d, cut
<1>5. h = [g EXCEPT !.count = c, !.now = d]
  BY DEF c, d, Passed
<1>6. c \in [Tasks -> Nat] /\ d \in Seq(Tasks)
  BY <1>2, <1>3 DEF c, d
<1>7. /\ h \in Engine /\ h.pc = "decode" /\ h.now = d
      /\ h.held = g.held /\ h.known = g.known /\ h.maybe = g.maybe
      /\ h.maybeCancel = g.maybeCancel /\ h.count = c
      /\ h.cancelled = g.cancelled /\ h.queue = g.queue /\ h.active = g.active
  BY <1>5, <1>6 DEF Engine
<1> HIDE DEF h
<1>8. Core(g) /\ HeldInv(g) /\ PlaceInv(g) /\ OneInv(g) /\ Fetched(g) = {}
  BY CoreOfOwn DEF Own, EngineInv, Fetched
<1>9. Hand(h) = Hand(g)
  BY <1>7 DEF Hand
<1>10. CountInv(h)
  <2> SUFFICES ASSUME NEW t \in Tasks, h.count[t] # 0
               PROVE  t \in h.known /\ t \notin Range(h.maybe) /\ t \notin Range(h.queue)
    BY DEF CountInv
  <2>1. g.count[t] # 0 \/ t \in Range(g.active)
    BY <1>4, <1>7 DEF c
  <2>2. CASE g.count[t] # 0
    BY <1>7, <1>8, <2>2 DEF Core, CountInv
  <2>3. CASE t \in Range(g.active)
    BY <1>7, <1>8, <2>3 DEF Core, Hand
  <2> QED BY <2>1, <2>2, <2>3
<1>11. Core(h)
  BY <1>7, <1>8, <1>9, <1>10 DEF Core
<1>12. h.held \subseteq Hand(h) \cup h.cancelled /\ Hand(h) \ h.held \subseteq Cancels
  BY <1>7, <1>8, <1>9 DEF HeldInv
<1>13. Range(h.now) \subseteq Range(h.active) /\ \A t \in Range(h.now) : h.count[t] # 0
  <2>1. Range(d) \subseteq Range(g.active)
    BY <1>3 DEF d
  <2>2. \A t \in Range(g.active) : c[t] # 0
    BY <1>2 DEF c
  <2> QED BY <1>7, <2>1, <2>2
<1>14. OneInv(h)
  BY <1>7, <1>8 DEF OneInv
<1>15. h.held # {}
  BY <1>7, <1>8 DEF PlaceInv, Waiting
<1>16. /\ h \in Engine /\ Core(h) /\ h.pc = "decode" /\ h.now = Due(g)
       /\ h.held = g.held /\ h.known = g.known /\ h.active = g.active
       /\ h.count = Counted(g) /\ h.queue = g.queue /\ h.cancelled = g.cancelled
  BY <1>7, <1>11 DEF c, d
<1> QED BY <1>12, <1>13, <1>14, <1>15, <1>16 DEF h

LEMMA DecodeIs ==
  ASSUME NEW r, NEW g
  PROVE  Decode(r, g) = IF Due(g) = <<>> THEN Decoded(r, Passed(g))
                                         ELSE [Passed(g) EXCEPT !.pc = "check"]
BY DEF Decode, Passed, Due, Counted

LEMMA DecodeOwn ==
  ASSUME NEW r, NEW g \in Engine, g.pc = "decode", Own(g), engine \in {"batch", "sequential"}
  PROVE  Decode(r, g) \in Engine /\ Own(Decode(r, g))
<1> DEFINE h == Passed(g)
<1>1. /\ h \in Engine /\ Core(h) /\ h.now = Due(g)
      /\ h.held \subseteq Hand(h) \cup h.cancelled /\ Hand(h) \ h.held \subseteq Cancels
      /\ Range(h.now) \subseteq Range(h.active)
      /\ \A t \in Range(h.now) : h.count[t] # 0
      /\ OneInv(h) /\ h.held # {}
  BY PassedFacts
<1>a. Decode(r, g) = IF Due(g) = <<>> THEN Decoded(r, h) ELSE [h EXCEPT !.pc = "check"]
  BY DecodeIs
<1> HIDE DEF h
<1>2. CASE Due(g) = <<>>
  <2>1. Decoded(r, h) \in Engine /\ Own(Decoded(r, h))
    BY <1>1, DecodedOwn
  <2> QED BY <1>a, <1>2, <2>1
<1>3. CASE Due(g) # <<>>
  <2> DEFINE f == [h EXCEPT !.pc = "check"]
  <2>1. Decode(r, g) = f
    BY <1>a, <1>3
  <2>2. /\ f \in Engine /\ f.pc = "check" /\ f.now = h.now
        /\ f.held = h.held /\ f.known = h.known /\ f.maybe = h.maybe
        /\ f.maybeCancel = h.maybeCancel /\ f.count = h.count
        /\ f.cancelled = h.cancelled /\ f.queue = h.queue /\ f.active = h.active
    BY <1>1 DEF Engine, Waiting
  <2> HIDE DEF f
  <2>3. h.now \in Seq(Tasks) /\ h.now # <<>> /\ Head(h.now) \in Range(h.now)
    <3>1. h.now \in Seq(Tasks) /\ h.now # <<>>
      BY <1>1, <1>3 DEF Engine
    <3> QED BY <3>1, RangeFacts
  <2>4. Hand(f) = Hand(h) /\ Fetched(f) = {}
    BY <1>1, <2>2, <2>3 DEF Hand, Fetched, Prefilling
  <2>5. KnownInv(f)
    BY <1>1, <2>2, <2>4 DEF KnownInv, Core, Hand
  <2>6. OnceInv(f)
    BY <1>1, <2>2, <2>4 DEF OnceInv, Core
  <2>7. CountInv(f)
    BY <1>1, <2>2 DEF CountInv, Core
  <2>8. HeldInv(f)
    BY <1>1, <2>2, <2>4 DEF HeldInv
  <2>9. NowInv(f)
    BY <1>1, <2>2, <2>3 DEF NowInv, Local
  <2>10. OneInv(f) /\ PlaceInv(f)
    BY <1>1, <2>2 DEF OneInv, PlaceInv, Local
  <2>11. f \in Engine /\ Own(f)
    BY <2>2, <2>5, <2>6, <2>7, <2>8, <2>9, <2>10 DEF Own, EngineInv
  <2> QED BY <2>1, <2>11
<1> QED BY <1>2, <1>3

-----------------------------------------------------------------------------
(* Two engines that work on the same tasks take the same step.              *)

Shared(g, h) ==
  /\ g.queue = h.queue /\ g.active = h.active
  /\ g.count = h.count /\ g.cancelled = h.cancelled
  /\ g.known \ g.held = h.known \ h.held

(* Unless the runner dies of it.                                            *)
Matched(g, h) == g.pc # "dead" /\ h.pc # "dead" => Paired(g, h)

LEMMA EndStepMatched ==
  ASSUME NEW r, NEW s, NEW g \in Engine, NEW h \in Engine, Shared(g, h), NEW said, NEW over,
         over \subseteq g.known, over \subseteq h.known
  PROVE  Matched(EndStep(r, g, said, over), EndStep(s, h, said, over))
<1> DEFINE e == EndStep(r, g, said, over)
           f == EndStep(s, h, said, over)
<1>1. \/ e.pc = "dead"
      \/ /\ e.pc = "poll" /\ e.held = g.held \ over /\ e.now = <<>>
         /\ e.known = g.known /\ e.queue = g.queue /\ e.active = g.active
         /\ e.count = g.count /\ e.cancelled = g.cancelled
  BY DEF EndStep, Engine
<1>2. \/ f.pc = "dead"
      \/ /\ f.pc = "poll" /\ f.held = h.held \ over /\ f.now = <<>>
         /\ f.known = h.known /\ f.queue = h.queue /\ f.active = h.active
         /\ f.count = h.count /\ f.cancelled = h.cancelled
  BY DEF EndStep, Engine
<1> HIDE DEF e, f
<1>3. Matched(e, f)
  <2> SUFFICES ASSUME e.pc # "dead", f.pc # "dead" PROVE Paired(e, f)
    BY DEF Matched
  <2>1. e.known \ e.held = (g.known \ g.held) \cup over
    BY <1>1
  <2>2. f.known \ f.held = (h.known \ h.held) \cup over
    BY <1>2
  <2> QED BY <1>1, <1>2, <2>1, <2>2 DEF Paired, Shared
<1> QED BY <1>3 DEF e, f

LEMMA ApplyMatched ==
  ASSUME NEW r, NEW s, NEW g \in Engine, NEW h \in Engine, Shared(g, h), Core(g), Core(h),
         NEW said, NEW finished, finished \subseteq g.known, finished \subseteq h.known
  PROVE  Matched(ApplyCancellations(r, g, said, finished), ApplyCancellations(s, h, said, finished))
<1> DEFINE k == Keep(g.active, Tasks \ g.cancelled)
           over == finished \cup g.cancelled
           e == [g EXCEPT !.active = k, !.cancelled = {}]
           f == [h EXCEPT !.active = k, !.cancelled = {}]
<1>1. /\ g.active = h.active /\ g.cancelled = h.cancelled /\ g.active \in Seq(Tasks)
      /\ over \subseteq g.known /\ over \subseteq h.known
  BY DEF Shared, Core, Engine
<1>2. k \in Seq(Tasks)
  BY <1>1, KeepFacts
<1>3. ApplyCancellations(r, g, said, finished) = EndStep(r, e, said, over)
  BY DEF ApplyCancellations
<1>4. ApplyCancellations(s, h, said, finished) = EndStep(s, f, said, over)
  BY <1>1 DEF ApplyCancellations
<1> HIDE DEF k, over
<1>5. /\ e \in Engine /\ e.queue = g.queue /\ e.active = k /\ e.count = g.count
      /\ e.cancelled = {} /\ e.known = g.known /\ e.held = g.held
  BY <1>2 DEF Engine
<1>6. /\ f \in Engine /\ f.queue = h.queue /\ f.active = k /\ f.count = h.count
      /\ f.cancelled = {} /\ f.known = h.known /\ f.held = h.held
  BY <1>2 DEF Engine
<1> HIDE DEF e, f
<1>7. Shared(e, f)
  BY <1>5, <1>6 DEF Shared
<1> QED BY <1>1, <1>3, <1>4, <1>5, <1>6, <1>7, EndStepMatched

LEMMA EndSequentialMatched ==
  ASSUME NEW r, NEW s, NEW g \in Engine, NEW h \in Engine, Shared(g, h), Core(g), Core(h),
         NEW said, NEW finished, finished \subseteq g.known, finished \subseteq h.known
  PROVE  Matched(EndSequential(r, g, said, finished), EndSequential(s, h, said, finished))
<1> DEFINE over == finished \cup g.cancelled
<1>1. over \subseteq g.known /\ over \subseteq h.known /\ g.cancelled = h.cancelled
  BY DEF Shared, Core
<1>2. /\ EndSequential(r, g, said, finished) = EndStep(r, g, said, over)
      /\ EndSequential(s, h, said, finished) = EndStep(s, h, said, over)
  BY <1>1 DEF EndSequential
<1> HIDE DEF over
<1> QED BY <1>1, <1>2, EndStepMatched

LEMMA StartNextShared ==
  ASSUME NEW g \in Engine, NEW h \in Engine, Shared(g, h)
  PROVE  Shared(StartNext(g), StartNext(h))
<1>1. g.queue = h.queue
  BY DEF Shared
<1>2. CASE g.queue = <<>>
  <2>1. /\ StartNext(g) = [g EXCEPT !.active = <<>>]
        /\ StartNext(h) = [h EXCEPT !.active = <<>>]
    BY <1>1, <1>2 DEF StartNext
  <2> QED BY <2>1 DEF Shared, Engine
<1>3. CASE g.queue # <<>>
  <2> DEFINE a == <<Head(g.queue)>>
             q == Tail(g.queue)
  <2>1. /\ StartNext(g) = [g EXCEPT !.active = a, !.queue = q]
        /\ StartNext(h) = [h EXCEPT !.active = a, !.queue = q]
    BY <1>1, <1>3 DEF StartNext
  <2> HIDE DEF a, q
  <2> QED BY <2>1 DEF Shared, Engine
<1> QED BY <1>2, <1>3

LEMMA FillMatched ==
  ASSUME NEW r, NEW s, NEW g \in Engine, NEW h \in Engine, Shared(g, h), Core(g), Core(h)
  PROVE  Matched(Fill(r, g), Fill(s, h))
<1>1. g.queue = h.queue /\ g.active = h.active
  BY DEF Shared
<1>2. CASE g.queue # <<>> /\ Len(g.active) < MaxActive
  <2> DEFINE n == <<Head(g.queue)>>
             q == Tail(g.queue)
             e == [g EXCEPT !.pc = "prefill", !.now = n, !.queue = q]
             f == [h EXCEPT !.pc = "prefill", !.now = n, !.queue = q]
  <2>1. Fill(r, g) = e /\ Fill(s, h) = f
    BY <1>1, <1>2 DEF Fill
  <2> HIDE DEF n, q
  <2>2. Paired(e, f)
    BY DEF Paired, Shared, Engine
  <2> QED BY <2>1, <2>2 DEF Matched
<1>3. CASE ~(g.queue # <<>> /\ Len(g.active) < MaxActive) /\ g.active = <<>>
  <2>1. /\ Fill(r, g) = ApplyCancellations(r, g, {}, {})
        /\ Fill(s, h) = ApplyCancellations(s, h, {}, {})
    BY <1>1, <1>3 DEF Fill
  <2> QED BY <2>1, ApplyMatched
<1>4. CASE ~(g.queue # <<>> /\ Len(g.active) < MaxActive) /\ g.active # <<>>
  <2> DEFINE e == [g EXCEPT !.pc = "decode", !.now = <<>>]
             f == [h EXCEPT !.pc = "decode", !.now = <<>>]
  <2>1. Fill(r, g) = e /\ Fill(s, h) = f
    BY <1>1, <1>4 DEF Fill
  <2>2. Paired(e, f)
    BY DEF Paired, Shared, Engine
  <2> QED BY <2>1, <2>2 DEF Matched
<1> QED BY <1>2, <1>3, <1>4

LEMMA ResumeMatched ==
  ASSUME NEW r, NEW s, NEW g \in Engine, NEW h \in Engine, Shared(g, h), Core(g), Core(h)
  PROVE  Matched(Resume(r, g), Resume(s, h))
<1> DEFINE t == Head(g.active)
<1>1. g.active = h.active /\ g.count = h.count /\ g.active \in Seq(Tasks)
  BY DEF Shared, Engine
<1>2. CASE g.active = <<>>
  <2>1. /\ Resume(r, g) = EndSequential(r, g, {}, {})
        /\ Resume(s, h) = EndSequential(s, h, {}, {})
    BY <1>1, <1>2 DEF Resume
  <2> QED BY <2>1, EndSequentialMatched
<1>3. ASSUME g.active # <<>>
      PROVE  t \in Tasks /\ t \in Range(g.active) /\ Length[t] # 0
  <2>1. t \in Range(g.active) /\ Range(g.active) \in SUBSET Tasks
    BY <1>1, <1>3, RangeFacts
  <2> QED BY <2>1, RanksAssumption
<1>4. CASE g.active # <<>> /\ g.count[t] = Length[t]
  <2>1. /\ Resume(r, g) = EndSequential(r, StartNext(g), {}, {t})
        /\ Resume(s, h) = EndSequential(s, StartNext(h), {}, {t})
    BY <1>1, <1>3, <1>4 DEF Resume
  <2>2. /\ StartNext(g) \in Engine /\ Core(StartNext(g)) /\ StartNext(g).known = g.known
        /\ StartNext(h) \in Engine /\ Core(StartNext(h)) /\ StartNext(h).known = h.known
    BY StartNextFacts
  <2>3. t \in g.known /\ t \in h.known
    BY <1>1, <1>3, <1>4 DEF Core, Hand
  <2>4. Shared(StartNext(g), StartNext(h))
    BY StartNextShared
  <2> HIDE DEF t
  <2>5. {t} \subseteq StartNext(g).known /\ {t} \subseteq StartNext(h).known
    BY <2>2, <2>3
  <2> QED BY <2>1, <2>2, <2>4, <2>5, EndSequentialMatched
<1>5. CASE g.active # <<>> /\ g.count[t] # Length[t] /\ g.count[t] = 0
  <2> DEFINE n == <<t>>
             e == [g EXCEPT !.pc = "prefill", !.now = n]
             f == [h EXCEPT !.pc = "prefill", !.now = n]
  <2>1. Resume(r, g) = e /\ Resume(s, h) = f
    BY <1>1, <1>5 DEF Resume
  <2> HIDE DEF n
  <2>2. Paired(e, f)
    BY DEF Paired, Shared, Engine
  <2> QED BY <2>1, <2>2 DEF Matched
<1>6. CASE g.active # <<>> /\ g.count[t] # Length[t] /\ g.count[t] # 0
  <2> DEFINE e == [g EXCEPT !.pc = "decode", !.now = <<>>]
             f == [h EXCEPT !.pc = "decode", !.now = <<>>]
  <2>1. Resume(r, g) = e /\ Resume(s, h) = f
    BY <1>1, <1>6 DEF Resume
  <2>2. Paired(e, f)
    BY DEF Paired, Shared, Engine
  <2> QED BY <2>1, <2>2 DEF Matched
<1> QED BY <1>2, <1>4, <1>5, <1>6

LEMMA StepMatched ==
  ASSUME NEW r, NEW s, NEW g \in Engine, NEW h \in Engine, Shared(g, h), Core(g), Core(h),
         g.now = h.now
  PROVE  Matched(Step(r, g), Step(s, h))
<1> DEFINE e == [g EXCEPT !.pc = "agree"]
           f == [h EXCEPT !.pc = "agree"]
<1>1. g.queue = h.queue /\ g.active = h.active
  BY DEF Shared
<1>2. Matched(e, f)
  BY DEF Matched, Paired, Shared, Engine
<1> HIDE DEF e, f
<1>3. CASE engine = "batch"
  <2>1. Matched(Fill(r, g), Fill(s, h))
    BY FillMatched
  <2> QED BY <1>1, <1>2, <1>3, <2>1 DEF Step, e, f
<1>4. CASE engine # "batch"
  <2>1. Matched(Resume(r, g), Resume(s, h))
    BY ResumeMatched
  <2> QED BY <1>1, <1>2, <1>4, <2>1 DEF Step, e, f
<1> QED BY <1>3, <1>4

LEMMA AgreedMatched ==
  ASSUME NEW r, NEW s, NEW g \in Engine, NEW h \in Engine, Shared(g, h), Core(g), Core(h)
  PROVE  Matched(Agreed(r, g), Agreed(s, h))
<1>1. CASE engine = "batch"
  <2>1. Matched(Fill(r, g), Fill(s, h))
    BY FillMatched
  <2> QED BY <1>1, <2>1 DEF Agreed
<1>2. CASE engine # "batch"
  <2>1. /\ StartNext(g) \in Engine /\ Core(StartNext(g))
        /\ StartNext(h) \in Engine /\ Core(StartNext(h))
    BY StartNextFacts
  <2>2. Matched(Resume(r, StartNext(g)), Resume(s, StartNext(h)))
    BY <2>1, StartNextShared, ResumeMatched
  <2> QED BY <1>2, <2>2 DEF Agreed
<1> QED BY <1>1, <1>2

LEMMA DecodedMatched ==
  ASSUME NEW r, NEW s, NEW g \in Engine, NEW h \in Engine, Shared(g, h), Core(g), Core(h)
  PROVE  Matched(Decoded(r, g), Decoded(s, h))
<1> DEFINE said == Range(g.active)
           done == {t \in Range(g.active) : g.count[t] = Length[t]}
           k == Keep(g.active, Tasks \ done)
<1>1. g.active = h.active /\ g.count = h.count /\ g.active \in Seq(Tasks)
  BY DEF Shared, Engine
<1>2. CASE engine = "batch"
  <2> DEFINE e == [g EXCEPT !.active = k]
             f == [h EXCEPT !.active = k]
  <2>1. /\ Decoded(r, g) = ApplyCancellations(r, e, said, done)
        /\ Decoded(s, h) = ApplyCancellations(s, f, said, done)
    BY <1>1, <1>2 DEF Decoded
  <2>2. k \in Seq(Tasks) /\ Range(k) \subseteq Range(g.active)
    BY <1>1, KeepFacts
  <2>3. done \subseteq g.known /\ done \subseteq h.known
    BY <1>1 DEF Core, Hand
  <2> HIDE DEF k, done, said
  <2>4. /\ e \in Engine /\ e.queue = g.queue /\ e.active = k /\ e.count = g.count
        /\ e.cancelled = g.cancelled /\ e.known = g.known /\ e.held = g.held
        /\ e.maybe = g.maybe /\ e.maybeCancel = g.maybeCancel
    BY <2>2 DEF Engine
  <2>5. /\ f \in Engine /\ f.queue = h.queue /\ f.active = k /\ f.count = h.count
        /\ f.cancelled = h.cancelled /\ f.known = h.known /\ f.held = h.held
        /\ f.maybe = h.maybe /\ f.maybeCancel = h.maybeCancel
    BY <2>2 DEF Engine
  <2> HIDE DEF e, f
  <2>6. Shared(e, f)
    BY <2>4, <2>5 DEF Shared
  <2>7. Core(e)
    BY <1>2, <2>2, <2>4 DEF Core, Hand, CountInv
  <2>8. Core(f)
    BY <1>1, <1>2, <2>2, <2>5 DEF Core, Hand, CountInv
  <2> QED BY <2>1, <2>3, <2>4, <2>5, <2>6, <2>7, <2>8, ApplyMatched
<1>3. CASE engine # "batch"
  <2>1. /\ Decoded(r, g) = EndSequential(r, g, said, {})
        /\ Decoded(s, h) = EndSequential(s, h, said, {})
    BY <1>1, <1>3 DEF Decoded
  <2> HIDE DEF said
  <2> QED BY <2>1, EndSequentialMatched
<1> QED BY <1>2, <1>3

LEMMA DecodeMatched ==
  ASSUME NEW r, NEW s, NEW g \in Engine, NEW h \in Engine, Paired(g, h),
         g.pc = "decode", Own(g), Own(h)
  PROVE  Matched(Decode(r, g), Decode(s, h))
<1> DEFINE e == Passed(g)
           f == Passed(h)
<1>1. /\ e \in Engine /\ Core(e) /\ e.pc = "decode" /\ e.now = Due(g)
      /\ e.held = g.held /\ e.known = g.known /\ e.active = g.active
      /\ e.count = Counted(g) /\ e.queue = g.queue /\ e.cancelled = g.cancelled
  BY PassedFacts
<1>2. h.pc = "decode"
  BY DEF Paired
<1>3. /\ f \in Engine /\ Core(f) /\ f.pc = "decode" /\ f.now = Due(h)
      /\ f.held = h.held /\ f.known = h.known /\ f.active = h.active
      /\ f.count = Counted(h) /\ f.queue = h.queue /\ f.cancelled = h.cancelled
  BY <1>2, PassedFacts
<1>a. /\ Decode(r, g) = IF Due(g) = <<>> THEN Decoded(r, e) ELSE [e EXCEPT !.pc = "check"]
      /\ Decode(s, h) = IF Due(h) = <<>> THEN Decoded(s, f) ELSE [f EXCEPT !.pc = "check"]
  BY DecodeIs
<1>4. Counted(g) = Counted(h)
  BY DEF Counted, Paired
<1>5. Due(g) = Due(h)
  BY <1>4 DEF Due, Paired
<1> HIDE DEF e, f
<1>6. Shared(e, f) /\ e.now = f.now
  BY <1>1, <1>3, <1>4, <1>5 DEF Shared, Paired
<1>7. CASE Due(g) = <<>>
  BY <1>a, <1>1, <1>3, <1>5, <1>6, <1>7, DecodedMatched
<1>8. CASE Due(g) # <<>>
  <2>1. Matched([e EXCEPT !.pc = "check"], [f EXCEPT !.pc = "check"])
    BY <1>1, <1>3, <1>6 DEF Matched, Paired, Shared, Engine
  <2> QED BY <1>a, <1>5, <1>8, <2>1
<1> QED BY <1>7, <1>8

LEMMA CheckedMatched ==
  ASSUME NEW r, NEW s, NEW g \in Engine, NEW h \in Engine, Paired(g, h),
         g.pc = "check", Own(g), Own(h)
  PROVE  Matched(Checked(r, g), Checked(s, h))
<1> DEFINE t == Head(g.now)
<1>1. /\ g.now = h.now /\ g.cancelled = h.cancelled /\ g.count = h.count /\ h.pc = "check"
      /\ Shared(g, h) /\ Core(g) /\ Core(h) /\ KnownInv(g) /\ KnownInv(h) /\ NowInv(g)
  BY CoreOfOwn DEF Paired, Shared, Own, EngineInv
<1>2. Prefilling(g) = Prefilling(h)
  BY <1>1 DEF Prefilling
<1>3. CASE t \notin g.cancelled \/ (engine = "batch" /\ ~Prefilling(g))
  <2>1. Checked(r, g) = [g EXCEPT !.pc = "gather"] /\ Checked(s, h) = [h EXCEPT !.pc = "gather"]
    BY <1>1, <1>2, <1>3 DEF Checked
  <2>2. Matched([g EXCEPT !.pc = "gather"], [h EXCEPT !.pc = "gather"])
    BY DEF Matched, Paired, Engine
  <2> QED BY <2>1, <2>2
<1>4. CASE t \in g.cancelled /\ engine = "batch" /\ Prefilling(g)
  <2>1. Checked(r, g) = Fill(r, g) /\ Checked(s, h) = Fill(s, h)
    BY <1>1, <1>2, <1>4 DEF Checked
  <2> QED BY <1>1, <2>1, FillMatched
<1>5. CASE t \in g.cancelled /\ engine # "batch"
  <2>1. /\ Checked(r, g) = EndSequential(r, StartNext(g), {}, {t})
        /\ Checked(s, h) = EndSequential(s, StartNext(h), {}, {t})
    BY <1>1, <1>5 DEF Checked
  <2>2. /\ StartNext(g) \in Engine /\ Core(StartNext(g)) /\ StartNext(g).known = g.known
        /\ StartNext(h) \in Engine /\ Core(StartNext(h)) /\ StartNext(h).known = h.known
    BY <1>1, StartNextFacts
  <2>3. t \in g.known /\ t \in h.known
    BY <1>1, <1>5 DEF KnownInv
  <2> HIDE DEF t
  <2>4. {t} \subseteq StartNext(g).known /\ {t} \subseteq StartNext(h).known
    BY <2>2, <2>3
  <2> QED BY <1>1, <2>1, <2>2, <2>4, StartNextShared, EndSequentialMatched
<1> QED BY <1>3, <1>4, <1>5

LEMMA GatheredMatched ==
  ASSUME NEW r, NEW s, NEW g \in Engine, NEW h \in Engine, Paired(g, h),
         g.pc = "gather", Own(g), Own(h)
  PROVE  Matched(Gathered(r, g), Gathered(s, h))
<1> DEFINE t == Head(g.now)
<1>1. /\ g.now = h.now /\ g.active = h.active /\ g.count = h.count /\ h.pc = "gather"
      /\ Shared(g, h) /\ Core(g) /\ Core(h)
      /\ KnownInv(g) /\ OnceInv(g) /\ NowInv(g) /\ KnownInv(h) /\ OnceInv(h) /\ NowInv(h)
  BY CoreOfOwn DEF Paired, Shared, Own, EngineInv
<1>2. Prefilling(g) = Prefilling(h)
  BY <1>1 DEF Prefilling
<1>3. CASE Prefilling(g) /\ engine = "batch"
  <2> DEFINE e == Appended(g)
             f == Appended(h)
  <2>1. Gathered(r, g) = Fill(r, e) /\ Gathered(s, h) = Fill(s, f)
    BY <1>1, <1>2, <1>3 DEF Gathered, Appended
  <2>2. /\ e \in Engine /\ Core(e) /\ e.held = g.held /\ e.known = g.known
        /\ e.queue = g.queue /\ e.active = Append(g.active, t)
        /\ e.count = g.count /\ e.cancelled = g.cancelled
    BY <1>3, AppendFacts
  <2>3. /\ f \in Engine /\ Core(f) /\ f.held = h.held /\ f.known = h.known
        /\ f.queue = h.queue /\ f.active = Append(h.active, Head(h.now))
        /\ f.count = h.count /\ f.cancelled = h.cancelled
    BY <1>1, <1>2, <1>3, AppendFacts
  <2> HIDE DEF e, f
  <2>4. Shared(e, f)
    BY <1>1, <2>2, <2>3 DEF Shared
  <2> QED BY <2>1, <2>2, <2>3, <2>4, FillMatched
<1>4. CASE Prefilling(g) /\ engine # "batch"
  <2> DEFINE e == [g EXCEPT !.pc = "decode", !.now = <<>>]
             f == [h EXCEPT !.pc = "decode", !.now = <<>>]
  <2>1. Gathered(r, g) = e /\ Gathered(s, h) = f
    BY <1>1, <1>2, <1>4 DEF Gathered
  <2>2. Matched(e, f)
    BY <1>1 DEF Matched, Paired, Shared, Engine
  <2> QED BY <2>1, <2>2
<1>5. CASE ~Prefilling(g) /\ Len(g.now) > 1
  <2> DEFINE n == Tail(g.now)
             e == [g EXCEPT !.pc = "check", !.now = n]
             f == [h EXCEPT !.pc = "check", !.now = n]
  <2>1. Gathered(r, g) = e /\ Gathered(s, h) = f
    BY <1>1, <1>2, <1>5 DEF Gathered, Engine
  <2> HIDE DEF n
  <2>2. Matched(e, f)
    BY <1>1 DEF Matched, Paired, Shared, Engine
  <2> QED BY <2>1, <2>2
<1>6. CASE ~Prefilling(g) /\ ~(Len(g.now) > 1)
  <2>1. Gathered(r, g) = Decoded(r, g) /\ Gathered(s, h) = Decoded(s, h)
    BY <1>1, <1>2, <1>6 DEF Gathered
  <2> QED BY <1>1, <2>1, DecodedMatched
<1> QED BY <1>3, <1>4, <1>5, <1>6

LEMMA AgreeOnTasksShared ==
  ASSUME NEW g \in Engine, NEW h \in Engine, Shared(g, h), NEW agreed
  PROVE  Shared(AgreeOnTasks(g, agreed), AgreeOnTasks(h, agreed))
<1> DEFINE q == g.queue \o InOrder(agreed)
           e == [g EXCEPT !.queue = q, !.maybe = Keep(g.maybe, Tasks \ agreed)]
           f == [h EXCEPT !.queue = q, !.maybe = Keep(h.maybe, Tasks \ agreed)]
<1>1. AgreeOnTasks(g, agreed) = e /\ AgreeOnTasks(h, agreed) = f
  BY DEF AgreeOnTasks, Shared, Engine
<1> HIDE DEF q
<1>2. Shared(e, f)
  BY DEF Shared, Engine
<1> QED BY <1>1, <1>2

LEMMA AgreeOnCancellationsShared ==
  ASSUME NEW g \in Engine, NEW h \in Engine, Shared(g, h), NEW agreed, NEW some, NEW other
  PROVE  Shared(AgreeOnCancellations(g, some, agreed), AgreeOnCancellations(h, other, agreed))
<1> DEFINE c == g.cancelled \cup agreed
           e == [g EXCEPT !.cancelled = c, !.maybeCancel = some \ agreed]
           f == [h EXCEPT !.cancelled = c, !.maybeCancel = other \ agreed]
<1>1. AgreeOnCancellations(g, some, agreed) = e /\ AgreeOnCancellations(h, other, agreed) = f
  BY DEF AgreeOnCancellations, Shared, Engine
<1> HIDE DEF c
<1>2. Shared(e, f)
  BY DEF Shared, Engine
<1> QED BY <1>1, <1>2

(* What an engine knows changes with what is submitted only, and a step     *)
(* hands nothing over.                                                      *)
LEMMA KnownStays ==
  ASSUME NEW r, NEW g, {"known", "held"} \subseteq DOMAIN g
  PROVE  /\ Step(r, g).known = g.known
         /\ Agreed(r, g).known = g.known
         /\ Checked(r, g).known = g.known
         /\ Gathered(r, g).known = g.known
         /\ Decode(r, g).known = g.known
         /\ Step(r, g).held \subseteq g.held
<1> DEFINE Same(h) == /\ h.known = g.known /\ h.held \subseteq g.held
                      /\ {"known", "held"} \subseteq DOMAIN h
<1>1. ASSUME NEW h, Same(h), NEW said, NEW over
      PROVE  Same(EndStep(r, h, said, over))
  BY <1>1 DEF EndStep
<1>2. ASSUME NEW h, Same(h), NEW said, NEW over
      PROVE  Same(ApplyCancellations(r, h, said, over))
  <2> DEFINE e == [h EXCEPT !.active = Keep(@, Tasks \ h.cancelled), !.cancelled = {}]
  <2>1. Same(e)
    BY <1>2
  <2>2. ApplyCancellations(r, h, said, over) = EndStep(r, e, said, over \cup h.cancelled)
    BY DEF ApplyCancellations
  <2> HIDE DEF e, Same
  <2> QED BY <1>1, <2>1, <2>2
<1>3. ASSUME NEW h, Same(h), NEW said, NEW over
      PROVE  Same(EndSequential(r, h, said, over))
  <2> HIDE DEF Same
  <2> QED BY <1>1, <1>3 DEF EndSequential
<1>4. ASSUME NEW h, Same(h)
      PROVE  Same(StartNext(h))
  BY <1>4 DEF StartNext
<1>5. ASSUME NEW h, Same(h)
      PROVE  Same(Fill(r, h))
  <2>1. /\ Same([h EXCEPT !.pc = "prefill", !.now = <<Head(h.queue)>>, !.queue = Tail(@)])
        /\ Same([h EXCEPT !.pc = "decode", !.now = <<>>])
    BY <1>5
  <2>2. Same(ApplyCancellations(r, h, {}, {}))
    BY <1>2, <1>5
  <2> HIDE DEF Same
  <2> QED BY <2>1, <2>2 DEF Fill
<1>6. ASSUME NEW h, Same(h)
      PROVE  Same(Resume(r, h))
  <2> DEFINE t == Head(h.active)
  <2>1. /\ Same([h EXCEPT !.pc = "prefill", !.now = <<t>>])
        /\ Same([h EXCEPT !.pc = "decode", !.now = <<>>])
    BY <1>6
  <2>2. Same(EndSequential(r, h, {}, {})) /\ Same(EndSequential(r, StartNext(h), {}, {t}))
    <3>1. Same(StartNext(h))
      BY <1>4, <1>6
    <3> HIDE DEF Same
    <3> QED BY <1>3, <1>6, <3>1
  <2> HIDE DEF Same
  <2> QED BY <2>1, <2>2 DEF Resume
<1>7. ASSUME NEW h, Same(h)
      PROVE  Same(Decoded(r, h))
  <2> DEFINE done == {t \in Range(h.active) : h.count[t] = Length[t]}
             e == [h EXCEPT !.active = Keep(@, Tasks \ done)]
  <2>1. Same(e)
    BY <1>7
  <2>2. Decoded(r, h) = IF engine = "batch" THEN ApplyCancellations(r, e, Range(h.active), done)
                                            ELSE EndSequential(r, h, Range(h.active), {})
    BY DEF Decoded
  <2> HIDE DEF e, done, Same
  <2> QED BY <1>2, <1>3, <1>7, <2>1, <2>2
<1>8. Same(g)
  OBVIOUS
<1>9. Same([g EXCEPT !.pc = "agree"]) /\ Same([g EXCEPT !.pc = "gather"])
  OBVIOUS
<1>10. Same(Appended(g)) /\ Same(Passed(g)) /\ Same([Passed(g) EXCEPT !.pc = "check"])
  BY DEF Appended, Passed
<1>11. /\ Same([g EXCEPT !.pc = "decode", !.now = <<>>])
       /\ Same([g EXCEPT !.pc = "check", !.now = Tail(@)])
  OBVIOUS
<1>12. Same(Step(r, g)) /\ Same(Agreed(r, g))
  <2> HIDE DEF Same
  <2>1. Same(StartNext(g))
    BY <1>4, <1>8
  <2> QED BY <1>5, <1>6, <1>8, <1>9, <2>1 DEF Step, Agreed
<1>13. Same(Checked(r, g))
  <2> HIDE DEF Same
  <2>1. Same(StartNext(g))
    BY <1>4, <1>8
  <2> QED BY <1>3, <1>5, <1>8, <1>9, <2>1 DEF Checked
<1>14. Same(Gathered(r, g))
  <2> HIDE DEF Same
  <2>1. Same(Fill(r, Appended(g))) /\ Same(Decoded(r, g))
    BY <1>5, <1>7, <1>8, <1>10
  <2> QED BY <1>11, <2>1 DEF Gathered, Appended
<1>15. Same(Decode(r, g))
  <2> HIDE DEF Same
  <2>1. Same(Decoded(r, Passed(g)))
    BY <1>7, <1>10
  <2> QED BY <1>10, <2>1, DecodeIs
<1> QED BY <1>12, <1>13, <1>14, <1>15

-----------------------------------------------------------------------------
(* The next collective of a rank between two steps.                         *)

LEMMA StepWaits ==
  ASSUME NEW r, NEW g \in Engine, engine \in {"batch", "sequential"}, ~Finished(g)
  PROVE  Step(r, g).pc \in Waiting
<1>1. [g EXCEPT !.pc = "agree"].pc \in Waiting
  BY DEF Engine, Waiting
<1>2. CASE engine = "batch" /\ g.queue # <<>>
  <2>1. CASE Len(g.active) < MaxActive
    <3>1. Step(r, g).pc = "prefill"
      BY <1>2, <2>1 DEF Step, Fill, Engine
    <3> QED BY <3>1 DEF Waiting
  <2>2. CASE ~(Len(g.active) < MaxActive)
    <3>1. g.active # <<>>
      <4>1. Len(<<>>) = 0 /\ 0 < MaxActive
        BY RanksAssumption
      <4> QED BY <2>2, <4>1
    <3>2. Step(r, g).pc = "decode"
      BY <1>2, <2>2, <3>1 DEF Step, Fill, Engine
    <3> QED BY <3>2 DEF Waiting
  <2> QED BY <2>1, <2>2
<1>3. CASE engine = "sequential" /\ g.active # <<>>
  <2>1. g.count[Head(g.active)] # Length[Head(g.active)]
    BY <1>3 DEF Finished
  <2>2. Step(r, g).pc \in {"prefill", "decode"}
    BY <1>3, <2>1 DEF Step, Resume, Engine
  <2> QED BY <2>2 DEF Waiting
<1>4. CASE engine = "batch" /\ g.queue = <<>>
  BY <1>1, <1>4 DEF Step
<1>5. CASE engine = "sequential" /\ g.active = <<>>
  BY <1>1, <1>5 DEF Step
<1> QED BY <1>2, <1>3, <1>4, <1>5

LEMMA StepEnds ==
  ASSUME NEW r, NEW g \in Engine, Core(g), Finished(g)
  PROVE  LET e == Step(r, g)
         IN  e \in Engine /\ Core(e) /\ e.pc = "poll" /\ e.now = <<>> /\ ~Finished(e)
<1> DEFINE e == Step(r, g)
           n == StartNext(g)
           t == Head(g.active)
           held == n.held \ ({t} \cup n.cancelled)
<1>1. engine = "sequential" /\ g.active # <<>> /\ g.count[t] = Length[t]
  BY DEF Finished
<1>2. t \in Tasks /\ Length[t] # 0
  <2>1. g.active \in Seq(Tasks)
    BY DEF Engine
  <2>2. t \in Range(g.active) /\ Range(g.active) \in SUBSET Tasks
    BY <1>1, <2>1, RangeFacts
  <2> QED BY <2>2, RanksAssumption
<1>3. Step(r, g) = EndSequential(r, n, {}, {t})
  BY <1>1, <1>2 DEF Step, Resume
<1>4. e = [n EXCEPT !.pc = "poll", !.held = held, !.now = <<>>]
  BY <1>3 DEF EndSequential, EndStep
<1>5. /\ n \in Engine /\ Core(n) /\ n.count = g.count
      /\ n.active # <<>> => g.count[Head(n.active)] = 0
  BY StartNextFacts
<1> HIDE DEF n, e
<1>6. held \in SUBSET Tasks /\ held \subseteq n.held /\ <<>> \in Seq(Tasks)
  BY <1>5 DEF Engine
<1> HIDE DEF held
<1>7. /\ e \in Engine /\ e.pc = "poll" /\ e.now = <<>>
      /\ e.held = held /\ e.known = n.known /\ e.maybe = n.maybe
      /\ e.maybeCancel = n.maybeCancel /\ e.count = n.count
      /\ e.cancelled = n.cancelled /\ e.queue = n.queue /\ e.active = n.active
  BY <1>4, <1>5, <1>6 DEF Engine
<1>8. Core(e)
  BY <1>5, <1>6, <1>7 DEF Core, Hand, CountInv
<1>9. ~Finished(e)
  <2> SUFFICES ASSUME Finished(e) PROVE FALSE
    OBVIOUS
  <2>1. e.active # <<>> /\ e.count[Head(e.active)] = Length[Head(e.active)] /\ e.active \in Seq(Tasks)
    BY <1>7 DEF Finished, Engine
  <2>2. Head(e.active) \in Range(e.active) /\ Range(e.active) \in SUBSET Tasks
    BY <2>1, RangeFacts
  <2>3. Length[Head(e.active)] # 0
    BY <2>2, RanksAssumption
  <2> QED BY <1>5, <1>7, <2>1, <2>3
<1> QED BY <1>7, <1>8, <1>9 DEF e

(* A step as far as its collective does not change which one it is.         *)
LEMMA ViewOfStep ==
  ASSUME NEW r, NEW g \in Engine, Core(g), engine \in {"batch", "sequential"},
         g.pc \in Local
  PROVE  View(r, Step(r, g)) = View(r, g)
<1>0. g.pc \notin Waiting /\ "poll" \notin Waiting
  BY DEF Local, Waiting
<1>1. CASE ~Finished(g)
  <2>1. Step(r, g).pc \in Waiting
    BY <1>1, StepWaits
  <2> QED BY <1>0, <1>1, <2>1 DEF View
<1>2. CASE Finished(g)
  <2>1. Step(r, g).pc = "poll" /\ ~Finished(Step(r, g))
    BY <1>2, StepEnds
  <2> QED BY <1>0, <1>2, <2>1 DEF View
<1> QED BY <1>1, <1>2

LEMMA ViewShared ==
  ASSUME NEW r, NEW s, NEW g \in Engine, NEW h \in Engine, Core(g), Core(h), Shared(g, h),
         engine \in {"batch", "sequential"}, g.pc \in Local, h.pc \in Local,
         g.now = <<>>, h.now = <<>>
  PROVE  Paired(View(r, g), View(s, h))
<1>0. g.pc \notin Waiting /\ h.pc \notin Waiting /\ "dead" \notin Waiting
  BY DEF Local, Waiting
<1>1. Finished(g) = Finished(h)
  BY DEF Finished, Shared
<1>2. Matched(Step(r, g), Step(s, h))
  BY StepMatched
<1>3. CASE ~Finished(g)
  <2>1. Step(r, g).pc \in Waiting /\ Step(s, h).pc \in Waiting
    BY <1>1, <1>3, StepWaits
  <2>2. View(r, g) = Step(r, g) /\ View(s, h) = Step(s, h)
    BY <1>0, <1>1, <1>3 DEF View
  <2> QED BY <1>0, <1>2, <2>1, <2>2 DEF Matched
<1>4. CASE Finished(g)
  <2> DEFINE e == Step(r, g)
             f == Step(s, h)
  <2>1. e \in Engine /\ Core(e) /\ e.pc = "poll" /\ e.now = <<>> /\ ~Finished(e)
    BY <1>4, StepEnds
  <2>2. f \in Engine /\ Core(f) /\ f.pc = "poll" /\ f.now = <<>> /\ ~Finished(f)
    BY <1>1, <1>4, StepEnds
  <2>3. View(r, g) = Step(r, e) /\ View(s, h) = Step(s, f)
    BY <1>0, <1>1, <1>4 DEF View
  <2>4. Matched(e, f)
    BY <1>2
  <2> HIDE DEF e, f
  <2>5. Shared(e, f)
    BY <2>1, <2>2, <2>4 DEF Matched, Paired, Shared
  <2>6. Matched(Step(r, e), Step(s, f))
    BY <2>1, <2>2, <2>5, StepMatched
  <2>7. Step(r, e).pc \in Waiting /\ Step(s, f).pc \in Waiting
    BY <2>1, <2>2, StepWaits
  <2> QED BY <1>0, <2>3, <2>6, <2>7 DEF Matched
<1> QED BY <1>3, <1>4

LEMMA ViewMatched ==
  ASSUME NEW r, NEW s, NEW g \in Engine, NEW h \in Engine, Own(g), Own(h),
         g.pc # "dead", h.pc # "dead", Matched(g, h), engine \in {"batch", "sequential"}
  PROVE  Paired(View(r, g), View(s, h))
<1>1. Paired(g, h) /\ g.pc = h.pc
  BY DEF Matched, Paired
<1>2. CASE g.pc \in Waiting
  BY <1>1, <1>2 DEF View
<1>3. CASE g.pc \notin Waiting
  <2>1. g.pc \in Local /\ h.pc \in Local
    BY <1>1, <1>3 DEF Engine, Local
  <2>2. g.now = <<>> /\ h.now = <<>>
    BY <2>1 DEF Own, EngineInv, NowInv
  <2>3. Core(g) /\ Core(h)
    BY CoreOfOwn
  <2>4. Shared(g, h)
    BY <1>1 DEF Paired, Shared
  <2> QED BY <2>1, <2>2, <2>3, <2>4, ViewShared
<1> QED BY <1>2, <1>3

(* A rank that holds nothing gets to its next collective with nothing.      *)
LEMMA EmptyView ==
  ASSUME NEW r, NEW g \in Engine, Core(g), g.pc \in Local, g.held = {}
  PROVE  View(r, g).held = {} /\ View(r, g).known = g.known
<1>1. g.pc \notin Waiting /\ {"known", "held"} \subseteq DOMAIN g
  BY DEF Local, Waiting, Engine
<1>2. Step(r, g).known = g.known /\ Step(r, g).held = {}
  BY <1>1, KnownStays
<1>3. CASE ~Finished(g)
  BY <1>1, <1>2, <1>3 DEF View
<1>4. CASE Finished(g)
  <2> DEFINE e == Step(r, g)
  <2>1. e \in Engine
    BY <1>4, StepEnds
  <2>2. View(r, g) = Step(r, e)
    BY <1>1, <1>4 DEF View
  <2>3. e.known = g.known /\ e.held = {}
    BY <1>2
  <2> HIDE DEF e
  <2>4. {"known", "held"} \subseteq DOMAIN e
    BY <2>1 DEF Engine
  <2>5. Step(r, e).known = e.known /\ Step(r, e).held \subseteq e.held
    BY <2>4, KnownStays
  <2> QED BY <2>2, <2>3, <2>5
<1> QED BY <1>3, <1>4

-----------------------------------------------------------------------------
(* All ranks.                                                               *)

LEMMA PairsOfMatched ==
  ASSUME NEW R, Fine(R), \A a, b \in Rank : Matched(R[a], R[b]),
         engine \in {"batch", "sequential"}
  PROVE  Pairs(R)
<1> SUFFICES ASSUME NEW a \in Rank, NEW b \in Rank, R[a].pc # "dead", R[b].pc # "dead"
             PROVE  Paired(View(a, R[a]), View(b, R[b]))
  BY DEF Pairs
<1>1. R[a] \in Engine /\ R[b] \in Engine /\ Own(R[a]) /\ Own(R[b]) /\ Matched(R[a], R[b])
  BY DEF Fine
<1> QED BY <1>1, ViewMatched

(* Ranks that wait in the same collective are paired.                       *)
LEMMA AllPaired ==
  ASSUME Pairs(rank), NEW op \in Waiting, AllAt(op)
  PROVE  \A a, b \in Rank : Paired(rank[a], rank[b])
<1> TAKE a, b \in Rank
<1>1. rank[a].pc = op /\ rank[b].pc = op
  BY DEF AllAt
<1>2. op # "dead" /\ View(a, rank[a]) = rank[a] /\ View(b, rank[b]) = rank[b]
  BY <1>1 DEF View, Waiting
<1> QED BY <1>1, <1>2 DEF Pairs

(* One rank alone may go as far as its next collective.                     *)
LEMMA OneRankSteps ==
  ASSUME TypeOK, RankInv, NEW r \in Rank, rank[r].pc # "dead",
         NEW e \in Engine, Own(e), Paired(View(r, e), View(r, rank[r]))
  PROVE  LET R == [rank EXCEPT ![r] = e] IN Fine(R) /\ Pairs(R)
<1> DEFINE R == [rank EXCEPT ![r] = e]
<1>1. R[r] = e /\ \A a \in Rank : a # r => R[a] = rank[a]
  BY DEF TypeOK
<1> HIDE DEF R
<1>2. Fine(R)
  BY <1>1 DEF Fine, RankInv
<1>3. Pairs(R)
  <2> SUFFICES ASSUME NEW a \in Rank, NEW b \in Rank, R[a].pc # "dead", R[b].pc # "dead"
               PROVE  Paired(View(a, R[a]), View(b, R[b]))
    BY DEF Pairs
  <2>1. CASE a = r /\ b = r
    BY <2>1 DEF Paired
  <2>2. CASE a = r /\ b # r
    <3>1. Paired(View(r, rank[r]), View(b, rank[b])) /\ R[b] = rank[b]
      BY <1>1, <2>2 DEF RankInv, Pairs
    <3> QED BY <1>1, <2>2, <3>1 DEF Paired
  <2>3. CASE a # r /\ b = r
    <3>1. Paired(View(a, rank[a]), View(r, rank[r])) /\ R[a] = rank[a]
      BY <1>1, <2>3 DEF RankInv, Pairs
    <3> QED BY <1>1, <2>3, <3>1 DEF Paired
  <2>4. CASE a # r /\ b # r
    BY <1>1, <2>4 DEF RankInv, Pairs
  <2> QED BY <2>1, <2>2, <2>3, <2>4
<1> QED BY <1>2, <1>3 DEF R

-----------------------------------------------------------------------------
(* The invariant is inductive.                                              *)

LEMMA RankInit == KInit => TypeOK /\ RankInv
<1> SUFFICES ASSUME KInit PROVE TypeOK /\ RankInv
  OBVIOUS
<1>0. engine \in {"batch", "sequential"} /\ <<>> \in Seq(Tasks)
  BY DEF KInit
<1>1. /\ NewRank \in Engine /\ NewRank.pc = "idle" /\ NewRank.now = <<>>
      /\ NewRank.held = {} /\ NewRank.known = {} /\ NewRank.maybe = <<>>
      /\ NewRank.maybeCancel = {} /\ NewRank.queue = <<>> /\ NewRank.active = <<>>
      /\ NewRank.count = [t \in Tasks |-> 0] /\ NewRank.cancelled = {}
  BY <1>0 DEF NewRank, Engine
<1>2. TypeOK
  BY <1>1 DEF KInit, TypeOK
<1>3. Own(NewRank)
  <2>1. Hand(NewRank) = {} /\ Fetched(NewRank) = {} /\ Range(NewRank.now) = {}
    BY <1>1, RangeOfSome DEF Hand, Fetched
  <2>2. KnownInv(NewRank) /\ HeldInv(NewRank)
    BY <1>1, <2>1 DEF KnownInv, HeldInv
  <2>3. OnceInv(NewRank)
    <3>1. Len(<<>>) = 0
      OBVIOUS
    <3>2. Range(NewRank.queue) = {} /\ Range(NewRank.maybe) = {}
      BY <2>1 DEF Hand
    <3> QED BY <1>1, <3>1, <3>2 DEF OnceInv
  <2>4. CountInv(NewRank)
    BY <1>1 DEF CountInv
  <2>5. NowInv(NewRank) /\ OneInv(NewRank) /\ PlaceInv(NewRank)
    BY <1>1 DEF NowInv, OneInv, PlaceInv, Local, Waiting
  <2> QED BY <2>2, <2>3, <2>4, <2>5 DEF Own, EngineInv
<1>4. \A a \in Rank : rank[a] = NewRank
  BY DEF KInit
<1>5. Fine(rank)
  BY <1>1, <1>3, <1>4 DEF Fine
<1>6. Given(rank, coming)
  <2>1. \A a \in Rank : Tasks \ skipped \subseteq coming[a] /\ coming[a] \subseteq Tasks
    BY DEF KInit
  <2> QED BY <1>1, <1>4, <2>1 DEF Given
<1>7. Pairs(rank)
  <2>1. Matched(NewRank, NewRank)
    BY DEF Matched, Paired
  <2> QED BY <1>0, <1>4, <1>5, <2>1, PairsOfMatched
<1> QED BY <1>2, <1>5, <1>6, <1>7 DEF RankInv

(* The invariant does not depend on when it is stated.                      *)
LEMMA RankInvPrimed ==
  ASSUME engine' = engine, skipped' = skipped,
         Fine(rank'), Given(rank', coming'), Pairs(rank')
  PROVE  RankInv'
<1>1. Fine(rank)'
  <2> SUFFICES ASSUME NEW a \in Rank PROVE rank'[a] \in Engine /\ Own(rank[a])'
    BY DEF Fine
  <2>1. rank'[a] \in Engine /\ Own(rank'[a])
    BY DEF Fine
  <2>2. KnownInv(rank'[a]) => KnownInv(rank[a])'
    BY DEF KnownInv, Hand
  <2>3. OnceInv(rank'[a]) => OnceInv(rank[a])'
    BY DEF OnceInv, Fetched, Prefilling
  <2>4. CountInv(rank'[a]) => CountInv(rank[a])'
    BY DEF CountInv
  <2>5. HeldInv(rank'[a]) => HeldInv(rank[a])'
    BY DEF HeldInv, Hand, Fetched, Prefilling
  <2>6. NowInv(rank'[a]) => NowInv(rank[a])'
    BY DEF NowInv
  <2>7. OneInv(rank'[a]) => OneInv(rank[a])'
    BY DEF OneInv
  <2>8. PlaceInv(rank'[a]) => PlaceInv(rank[a])'
    BY DEF PlaceInv
  <2> QED BY <2>1, <2>2, <2>3, <2>4, <2>5, <2>6, <2>7, <2>8 DEF Own, EngineInv
<1>2. Given(rank, coming)'
  BY DEF Given
<1>3. Pairs(rank)'
  <2>1. \A a \in Rank : Finished(rank'[a]) <=> Finished(rank[a])'
    BY DEF Finished
  <2>2. \A a \in Rank : Step(a, rank'[a]) = Step(a, rank[a])'
    BY DEF Step
  <2>3. \A a \in Rank : Step(a, Step(a, rank'[a])) = Step(a, Step(a, rank[a]))'
    BY <2>2 DEF Step
  <2>4. \A a \in Rank : View(a, rank'[a]) = View(a, rank[a])'
    BY <2>1, <2>2, <2>3 DEF View
  <2> QED BY <2>4 DEF Pairs
<1> QED BY <1>1, <1>2, <1>3 DEF RankInv

LEMMA TakeStep ==
  ASSUME TypeOK, RankInv, NEW r \in Rank, NEW t \in Tasks, Take(r, t)
  PROVE  TypeOK' /\ RankInv'
<1> DEFINE g == rank[r]
           h == Submit(g, t)
           e == Step(r, h)
<1>1. /\ engine \in {"batch", "sequential"} /\ g \in Engine /\ Own(g)
      /\ g.pc \in Local /\ g.pc # "dead" /\ t \in coming[r]
  BY DEF TypeOK, RankInv, Fine, Take, Local
<1>2. t \notin g.known
  BY <1>1 DEF RankInv, Given
<1>3. rank' = [rank EXCEPT ![r] = e]
  BY DEF Take
<1>4. Core(g) /\ g.now = <<>>
  BY <1>1, CoreOfOwn DEF Own, EngineInv, NowInv
<1> HIDE DEF g
<1>5. /\ h \in Engine /\ Core(h) /\ h.pc = g.pc /\ h.now = g.now
      /\ h.held = g.held \cup {t} /\ h.known = g.known \cup {t}
      /\ h.queue = g.queue /\ h.active = g.active
      /\ h.count = g.count /\ h.cancelled = g.cancelled
      /\ h.held \subseteq Hand(h) \cup h.cancelled /\ Hand(h) \ h.held \subseteq Cancels
  BY <1>1, <1>2, SubmitFacts
<1> HIDE DEF h
<1>6. h.held # {} /\ Shared(h, g) /\ {"known", "held"} \subseteq DOMAIN h
  BY <1>2, <1>5 DEF Shared, Engine
<1>7. e \in Engine /\ Own(e)
  BY <1>1, <1>4, <1>5, <1>6, StepOwn
<1>8. e.known = g.known \cup {t}
  BY <1>5, <1>6, KnownStays
<1>9. Paired(View(r, e), View(r, g))
  <2>1. View(r, e) = View(r, h)
    BY <1>1, <1>5, ViewOfStep
  <2>2. Paired(View(r, h), View(r, g))
    BY <1>1, <1>4, <1>5, <1>6, ViewShared
  <2> HIDE DEF e
  <2> QED BY <2>1, <2>2
<1> HIDE DEF e
<1>10. Fine(rank') /\ Pairs(rank')
  BY <1>1, <1>3, <1>7, <1>9, OneRankSteps DEF g
<1>11. Given(rank', coming')
  <2>1. /\ rank'[r].known = g.known \cup {t} /\ coming'[r] = coming[r] \ {t}
        /\ \A a \in Rank : a # r => rank'[a] = rank[a] /\ coming'[a] = coming[a]
    BY <1>3, <1>8 DEF Take, TypeOK
  <2>2. g.known \cap coming[r] = {} /\ (skipped = {} => g.known \cup coming[r] = Tasks)
    BY DEF RankInv, Given, g
  <2>3. \A a \in Rank : a # r => /\ rank[a].known \cap coming[a] = {}
                                 /\ (skipped = {} => rank[a].known \cup coming[a] = Tasks)
    BY DEF RankInv, Given
  <2>4. /\ rank'[r].known \cap coming'[r] = {}
        /\ (skipped = {} => rank'[r].known \cup coming'[r] = Tasks)
    BY <1>1, <2>1, <2>2
  <2> QED BY <2>1, <2>3, <2>4 DEF Given
<1>12. TypeOK'
  BY <1>3, <1>7 DEF TypeOK, Take
<1> QED BY <1>10, <1>11, <1>12, RankInvPrimed DEF Take

LEMMA PollStep ==
  ASSUME TypeOK, RankInv, NEW r \in Rank, Poll(r)
  PROVE  TypeOK' /\ RankInv'
<1> DEFINE g == rank[r]
           e == IF g.held = {} THEN [g EXCEPT !.pc = "idle"] ELSE Step(r, g)
<1>1. /\ engine \in {"batch", "sequential"} /\ g \in Engine /\ Own(g)
      /\ g.pc = "poll" /\ g.pc \in Local /\ g.pc # "dead"
  BY DEF TypeOK, RankInv, Fine, Poll, Local
<1>2. rank' = [rank EXCEPT ![r] = e]
  BY DEF Poll
<1> HIDE DEF g
<1>3. Core(g) /\ g.now = <<>> /\ HeldInv(g) /\ Fetched(g) = {} /\ {"known", "held"} \subseteq DOMAIN g
  BY <1>1, CoreOfOwn DEF Own, EngineInv, NowInv, Fetched, Engine
<1>4. e \in Engine /\ Own(e) /\ e.known = g.known /\ Paired(View(r, e), View(r, g))
  <2>1. CASE g.held = {}
    <3> DEFINE f == [g EXCEPT !.pc = "idle"]
    <3>1. /\ f \in Engine /\ f.pc = "idle" /\ f.now = g.now
          /\ f.held = g.held /\ f.known = g.known /\ f.maybe = g.maybe
          /\ f.maybeCancel = g.maybeCancel /\ f.count = g.count
          /\ f.cancelled = g.cancelled /\ f.queue = g.queue /\ f.active = g.active
      BY <1>1 DEF Engine
    <3>2. e = f
      BY <2>1
    <3> HIDE DEF f, e
    <3>3. Hand(f) = Hand(g) /\ Fetched(f) = {}
      BY <3>1 DEF Hand, Fetched
    <3>4. KnownInv(f) /\ OnceInv(f)
      BY <1>1, <1>3, <3>1, <3>3 DEF Own, EngineInv, KnownInv, OnceInv
    <3>5. CountInv(f) /\ HeldInv(f)
      BY <1>3, <3>1, <3>3 DEF CountInv, HeldInv, Core
    <3>6. NowInv(f) /\ OneInv(f) /\ PlaceInv(f)
      BY <1>3, <2>1, <3>1 DEF NowInv, OneInv, PlaceInv, Local, Waiting, Core
    <3>7. Own(f)
      BY <3>4, <3>5, <3>6 DEF Own, EngineInv
    <3>8. Core(f) /\ Shared(f, g) /\ f.pc \in Local
      BY <3>1, <3>7, CoreOfOwn DEF Shared, Local
    <3>9. Paired(View(r, f), View(r, g))
      BY <1>1, <1>3, <3>1, <3>8, ViewShared
    <3> QED BY <3>1, <3>2, <3>7, <3>9
  <2>2. CASE g.held # {}
    <3>1. e = Step(r, g)
      BY <2>2
    <3>2. g.held \subseteq Hand(g) \cup g.cancelled /\ Hand(g) \ g.held \subseteq Cancels
      BY <1>3 DEF HeldInv
    <3>3. Step(r, g) \in Engine /\ Own(Step(r, g))
      BY <1>1, <1>3, <2>2, <3>2, StepOwn
    <3>4. Step(r, g).known = g.known
      BY <1>3, KnownStays
    <3>5. View(r, Step(r, g)) = View(r, g)
      BY <1>1, <1>3, ViewOfStep
    <3>6. Paired(View(r, Step(r, g)), View(r, g))
      BY <3>5 DEF Paired
    <3> QED BY <3>1, <3>3, <3>4, <3>6
  <2> QED BY <2>1, <2>2
<1> HIDE DEF e
<1>5. Fine(rank') /\ Pairs(rank')
  BY <1>1, <1>2, <1>4, OneRankSteps DEF g
<1>6. Given(rank', coming')
  <2>1. \A a \in Rank : rank'[a].known = rank[a].known
    BY <1>2, <1>4 DEF TypeOK, g
  <2> QED BY <2>1 DEF RankInv, Given, Poll
<1>7. TypeOK'
  BY <1>2, <1>4 DEF TypeOK, Poll
<1> QED BY <1>5, <1>6, <1>7, RankInvPrimed DEF Poll

LEMMA CancelStep ==
  ASSUME TypeOK, RankInv, NEW r \in Rank, NEW t \in Tasks, Cancel(r, t)
  PROVE  TypeOK' /\ RankInv'
<1>1. TypeOK'
  BY DEF TypeOK, Cancel
<1>2. rank' = rank /\ coming' = coming /\ engine' = engine /\ skipped' = skipped
  BY DEF Cancel
<1>3. Fine(rank') /\ Given(rank', coming') /\ Pairs(rank')
  BY <1>2 DEF RankInv
<1> QED BY <1>1, <1>2, <1>3, RankInvPrimed

(* A collective that all ranks have called changes each of them in the same *)
(* way.                                                                     *)
LEMMA CollectiveStep ==
  ASSUME TypeOK, RankInv, UNCHANGED <<engine, coming, skipped>>,
         rank' = [a \in Rank |-> rank'[a]],
         \A a \in Rank : /\ rank'[a] \in Engine /\ Own(rank'[a])
                         /\ rank'[a].known = rank[a].known,
         \A a, b \in Rank : Matched(rank'[a], rank'[b])
  PROVE  RankInv' /\ rank' \in [Rank -> Engine]
<1>1. Fine(rank')
  BY DEF Fine
<1>2. Pairs(rank')
  BY <1>1, PairsOfMatched DEF TypeOK
<1>3. Given(rank', coming')
  BY DEF RankInv, Given
<1> QED BY <1>1, <1>2, <1>3, RankInvPrimed

LEMMA GatherTasksStep ==
  ASSUME TypeOK, RankInv, GatherTasks
  PROVE  TypeOK' /\ RankInv'
<1> DEFINE agreed == Common([a \in Rank |-> Range(rank[a].maybe)])
           g(a) == AgreeOnTasks(rank[a], agreed)
<1>0. engine \in {"batch", "sequential"} /\ UNCHANGED <<engine, coming, cancels, box, skipped>>
  BY DEF TypeOK, GatherTasks
<1>1. PICK op \in {"agree", "gather"} : AllAt(op)
  BY DEF GatherTasks
<1>2. op \in Waiting /\ op # "dead" /\ \A a \in Rank : rank[a].pc = op
  BY <1>1 DEF AllAt, Waiting
<1>3. \A a, b \in Rank : Paired(rank[a], rank[b])
  BY <1>1, <1>2, AllPaired DEF RankInv
<1>4. \A a \in Rank : rank[a] \in Engine /\ Own(rank[a]) /\ rank[a].pc # "dead"
  BY <1>2 DEF RankInv, Fine
<1>5. \A a \in Rank : agreed \in SUBSET Range(rank[a].maybe)
  BY DEF Common
<1> HIDE DEF agreed
<1>6. \A a \in Rank : /\ g(a) \in Engine /\ Own(g(a)) /\ g(a).pc = op
                      /\ g(a).now = rank[a].now /\ g(a).known = rank[a].known
  BY <1>2, <1>4, <1>5, AgreeOnTasksOwn
<1>7. rank' = [a \in Rank |-> IF g(a).pc = "agree" THEN Agreed(a, g(a)) ELSE Gathered(a, g(a))]
  BY DEF GatherTasks, agreed
<1>8. \A a, b \in Rank : Paired(g(a), g(b))
  <2> TAKE a, b \in Rank
  <2>1. Shared(rank[a], rank[b]) /\ rank[a].now = rank[b].now
    BY <1>3 DEF Paired, Shared
  <2>2. Shared(g(a), g(b))
    BY <1>4, <2>1, AgreeOnTasksShared
  <2> HIDE DEF g
  <2> QED BY <1>6, <2>1, <2>2 DEF Paired, Shared
<1> HIDE DEF g
<1>9. \A a \in Rank : Core(g(a)) /\ {"known", "held"} \subseteq DOMAIN g(a)
  BY <1>2, <1>6, CoreOfOwn DEF Engine
<1>10. CASE op = "agree"
  <2>1. rank' = [a \in Rank |-> Agreed(a, g(a))]
    BY <1>6, <1>7, <1>10
  <2>2. \A a \in Rank : Agreed(a, g(a)) \in Engine /\ Own(Agreed(a, g(a)))
    BY <1>0, <1>6, <1>10, AgreedOwn
  <2>3. \A a \in Rank : Agreed(a, g(a)).known = rank[a].known
    BY <1>6, <1>9, KnownStays
  <2>4. \A a, b \in Rank : Matched(Agreed(a, g(a)), Agreed(b, g(b)))
    <3> TAKE a, b \in Rank
    <3>1. Shared(g(a), g(b))
      BY <1>8 DEF Paired, Shared
    <3> QED BY <1>6, <1>9, <3>1, AgreedMatched
  <2>5. RankInv' /\ rank' \in [Rank -> Engine]
    BY <1>0, <2>1, <2>2, <2>3, <2>4, CollectiveStep
  <2> QED BY <1>0, <2>5 DEF TypeOK
<1>11. CASE op = "gather"
  <2>1. rank' = [a \in Rank |-> Gathered(a, g(a))]
    BY <1>6, <1>7, <1>11
  <2>2. \A a \in Rank : Gathered(a, g(a)) \in Engine /\ Own(Gathered(a, g(a)))
    BY <1>0, <1>6, <1>11, GatheredOwn
  <2>3. \A a \in Rank : Gathered(a, g(a)).known = rank[a].known
    BY <1>6, <1>9, KnownStays
  <2>4. \A a, b \in Rank : Matched(Gathered(a, g(a)), Gathered(b, g(b)))
    BY <1>6, <1>8, <1>11, GatheredMatched
  <2>5. RankInv' /\ rank' \in [Rank -> Engine]
    BY <1>0, <2>1, <2>2, <2>3, <2>4, CollectiveStep
  <2> QED BY <1>0, <2>5 DEF TypeOK
<1> QED BY <1>10, <1>11

LEMMA GatherCancellationsStep ==
  ASSUME TypeOK, RankInv, GatherCancellations
  PROVE  TypeOK' /\ RankInv'
<1> DEFINE collected == [a \in Rank |-> Collected(a)]
           agreed == Common(collected)
           g(a) == AgreeOnCancellations(rank[a], collected[a], agreed)
<1>0. engine \in {"batch", "sequential"} /\ UNCHANGED <<engine, coming, cancels, skipped>>
  BY DEF TypeOK, GatherCancellations
<1>1. AllAt("check") /\ "check" \in Waiting /\ \A a \in Rank : rank[a].pc = "check"
  BY DEF GatherCancellations, AllAt, Waiting
<1>2. \A a, b \in Rank : Paired(rank[a], rank[b])
  BY <1>1, AllPaired DEF RankInv
<1>3. \A a \in Rank : rank[a] \in Engine /\ Own(rank[a])
  BY DEF RankInv, Fine
<1>4. \A a \in Rank : /\ collected[a] \in SUBSET Cancels /\ collected[a] \subseteq rank[a].known
                      /\ agreed \in SUBSET collected[a]
  <2> TAKE a \in Rank
  <2>1. KnownInv(rank[a])
    BY <1>1, <1>3 DEF Own, EngineInv
  <2>2. collected[a] \in SUBSET Cancels /\ collected[a] \subseteq rank[a].known
    BY <2>1 DEF Collected, KnownInv, TypeOK
  <2>3. agreed \in SUBSET collected[a]
    BY DEF Common
  <2> QED BY <2>2, <2>3
<1>5. rank' = [a \in Rank |-> Checked(a, g(a))] /\ box' = [a \in Rank |-> {}]
  BY DEF GatherCancellations
<1> HIDE DEF agreed, collected
<1>6. \A a \in Rank : /\ g(a) \in Engine /\ Own(g(a)) /\ g(a).pc = "check"
                      /\ g(a).now = rank[a].now /\ g(a).known = rank[a].known
  <2> TAKE a \in Rank
  <2>1. /\ rank[a] \in Engine /\ rank[a].pc = "check" /\ Own(rank[a])
        /\ collected[a] \in SUBSET Cancels /\ collected[a] \subseteq rank[a].known
        /\ agreed \in SUBSET collected[a]
    BY <1>1, <1>3, <1>4
  <2> DEFINE h == g(a)
  <2>2. /\ h \in Engine /\ Own(h) /\ h.pc = rank[a].pc /\ h.now = rank[a].now
        /\ h.known = rank[a].known
    BY <2>1, AgreeOnCancellationsOwn
  <2> QED BY <2>1, <2>2
<1>7. \A a, b \in Rank : Paired(g(a), g(b))
  <2> TAKE a, b \in Rank
  <2>1. Shared(rank[a], rank[b]) /\ rank[a].now = rank[b].now
    BY <1>2 DEF Paired, Shared
  <2>2. Shared(g(a), g(b))
    BY <1>3, <2>1, AgreeOnCancellationsShared
  <2> HIDE DEF g
  <2> QED BY <1>6, <2>1, <2>2 DEF Paired, Shared
<1> HIDE DEF g
<1>8. \A a \in Rank : Checked(a, g(a)) \in Engine /\ Own(Checked(a, g(a)))
  BY <1>0, <1>6, CheckedOwn
<1>9. \A a \in Rank : Checked(a, g(a)).known = rank[a].known
  BY <1>6, KnownStays DEF Engine
<1>10. \A a, b \in Rank : Matched(Checked(a, g(a)), Checked(b, g(b)))
  BY <1>6, <1>7, CheckedMatched
<1>11. RankInv' /\ rank' \in [Rank -> Engine]
  BY <1>0, <1>5, <1>8, <1>9, <1>10, CollectiveStep
<1> QED BY <1>0, <1>5, <1>11 DEF TypeOK

(* After the pass over a prompt.                                            *)
LEMMA PrefilledOwn ==
  ASSUME NEW g \in Engine, g.pc = "prefill", Own(g)
  PROVE  LET h == [g EXCEPT !.pc = "check"] IN h \in Engine /\ Own(h)
<1> DEFINE h == [g EXCEPT !.pc = "check"]
<1>1. /\ h \in Engine /\ h.pc = "check" /\ h.now = g.now
      /\ h.held = g.held /\ h.known = g.known /\ h.maybe = g.maybe
      /\ h.maybeCancel = g.maybeCancel /\ h.count = g.count
      /\ h.cancelled = g.cancelled /\ h.queue = g.queue /\ h.active = g.active
  BY DEF Engine, Waiting
<1> HIDE DEF h
<1>2. KnownInv(g) /\ OnceInv(g) /\ CountInv(g) /\ NowInv(g) /\ OneInv(g) /\ HeldInv(g) /\ PlaceInv(g)
  BY DEF Own, EngineInv
<1>3. Hand(h) = Hand(g) /\ Fetched(h) = Fetched(g)
  BY <1>1 DEF Hand, Fetched, Prefilling
<1>4. KnownInv(h) /\ OnceInv(h)
  BY <1>1, <1>2, <1>3 DEF KnownInv, OnceInv
<1>5. CountInv(h) /\ HeldInv(h)
  BY <1>1, <1>2, <1>3 DEF CountInv, HeldInv
<1>6. NowInv(h) /\ OneInv(h) /\ PlaceInv(h)
  BY <1>1, <1>2 DEF NowInv, OneInv, PlaceInv, Local, Waiting
<1>7. h \in Engine /\ Own(h)
  BY <1>1, <1>4, <1>5, <1>6 DEF Own, EngineInv
<1> QED BY <1>7 DEF h

LEMMA ForwardStep ==
  ASSUME TypeOK, RankInv, Forward
  PROVE  TypeOK' /\ RankInv'
<1>0. engine \in {"batch", "sequential"} /\ UNCHANGED <<engine, coming, cancels, box, skipped>>
  BY DEF TypeOK, Forward
<1>1. \A a \in Rank : rank[a] \in Engine /\ Own(rank[a])
  BY DEF RankInv, Fine
<1>2. CASE /\ AllAt("prefill")
           /\ rank' = [a \in Rank |-> [rank[a] EXCEPT !.pc = "check"]]
  <2> DEFINE e(a) == [rank[a] EXCEPT !.pc = "check"]
  <2>1. "prefill" \in Waiting /\ \A a \in Rank : rank[a].pc = "prefill"
    BY <1>2 DEF AllAt, Waiting
  <2>2. \A a, b \in Rank : Paired(rank[a], rank[b])
    BY <1>2, <2>1, AllPaired DEF RankInv
  <2>3. \A a \in Rank : e(a) \in Engine /\ Own(e(a))
    BY <1>1, <2>1, PrefilledOwn
  <2>4. \A a \in Rank : e(a).known = rank[a].known
    BY <1>1 DEF Engine
  <2>5. \A a, b \in Rank : Matched(e(a), e(b))
    BY <1>1, <2>2 DEF Matched, Paired, Engine
  <2>6. rank' = [a \in Rank |-> e(a)]
    BY <1>2
  <2> HIDE DEF e
  <2>7. RankInv' /\ rank' \in [Rank -> Engine]
    BY <1>0, <2>3, <2>4, <2>5, <2>6, CollectiveStep
  <2> QED BY <1>0, <2>7 DEF TypeOK
<1>3. CASE AllAt("decode") /\ rank' = [a \in Rank |-> Decode(a, rank[a])]
  <2>1. "decode" \in Waiting /\ \A a \in Rank : rank[a].pc = "decode"
    BY <1>3 DEF AllAt, Waiting
  <2>2. \A a, b \in Rank : Paired(rank[a], rank[b])
    BY <1>3, <2>1, AllPaired DEF RankInv
  <2>3. \A a \in Rank : Decode(a, rank[a]) \in Engine /\ Own(Decode(a, rank[a]))
    BY <1>0, <1>1, <2>1, DecodeOwn
  <2>4. \A a \in Rank : Decode(a, rank[a]).known = rank[a].known
    BY <1>1, KnownStays DEF Engine
  <2>5. \A a, b \in Rank : Matched(Decode(a, rank[a]), Decode(b, rank[b]))
    BY <1>1, <2>1, <2>2, DecodeMatched
  <2>6. RankInv' /\ rank' \in [Rank -> Engine]
    BY <1>0, <1>3, <2>3, <2>4, <2>5, CollectiveStep
  <2> QED BY <1>0, <2>6 DEF TypeOK
<1> QED BY <1>2, <1>3 DEF Forward

LEMMA RankNext == TypeOK /\ RankInv /\ [KNext]_kvars => TypeOK' /\ RankInv'
<1> SUFFICES ASSUME TypeOK, RankInv, [KNext]_kvars PROVE TypeOK' /\ RankInv'
  OBVIOUS
<1>1. CASE UNCHANGED kvars
  <2>1. TypeOK'
    BY <1>1 DEF TypeOK, kvars
  <2>2. engine' = engine /\ skipped' = skipped /\ Fine(rank') /\ Given(rank', coming') /\ Pairs(rank')
    BY <1>1 DEF kvars, RankInv
  <2> QED BY <2>1, <2>2, RankInvPrimed
<1>2. ASSUME NEW r \in Rank, Poll(r) PROVE TypeOK' /\ RankInv'
  BY <1>2, PollStep
<1>3. ASSUME NEW r \in Rank, NEW t \in Tasks, Take(r, t) PROVE TypeOK' /\ RankInv'
  BY <1>3, TakeStep
<1>4. ASSUME NEW r \in Rank, NEW t \in Tasks, Cancel(r, t) PROVE TypeOK' /\ RankInv'
  BY <1>4, CancelStep
<1>5. ASSUME GatherTasks \/ GatherCancellations \/ Forward PROVE TypeOK' /\ RankInv'
  BY <1>5, GatherTasksStep, GatherCancellationsStep, ForwardStep
<1> QED BY <1>1, <1>2, <1>3, <1>4, <1>5 DEF KNext

-----------------------------------------------------------------------------
(* The variables of the ranks keep their types: what an engine queues,      *)
(* decodes or keeps for later is always a sequence of tasks, and what it    *)
(* cancels was to be cancelled (batch_generator.py).                        *)
THEOREM RankTypes == KSpec => []TypeOK
<1>1. TypeOK /\ RankInv /\ [KNext]_kvars => (TypeOK /\ RankInv)'
  BY RankNext
<1>2. TypeOK /\ RankInv => TypeOK
  OBVIOUS
<1> QED BY <1>1, <1>2, RankInit, PTL DEF KSpec

(* The invariant says what the property does.                               *)
LEMMA InStep == TypeOK /\ RankInv => RanksInStep
<1> SUFFICES ASSUME TypeOK, RankInv PROVE RanksInStep
  OBVIOUS
<1>0. \A a \in Rank : rank[a] \in Engine /\ Own(rank[a])
  BY DEF RankInv, Fine
<1>1. SameCollective
  <2> SUFFICES ASSUME NEW a \in Rank, NEW b \in Rank, {rank[a].pc, rank[b].pc} \subseteq Waiting
               PROVE  /\ rank[a].pc = rank[b].pc /\ rank[a].now = rank[b].now
                      /\ rank[a].active = rank[b].active /\ rank[a].queue = rank[b].queue
    BY DEF SameCollective
  <2>1. rank[a].pc # "dead" /\ rank[b].pc # "dead"
    BY DEF Waiting
  <2>2. View(a, rank[a]) = rank[a] /\ View(b, rank[b]) = rank[b]
    BY DEF View
  <2>3. Paired(rank[a], rank[b])
    BY <2>1, <2>2 DEF RankInv, Pairs
  <2> QED BY <2>3 DEF Paired
<1>2. NobodyWaitsAlone
  <2> SUFFICES ASSUME skipped = {}, \A a \in Rank : coming[a] = {}, NEW a \in Rank, NEW b \in Rank,
                      rank[a].pc = "idle", rank[b].pc \in Waiting
               PROVE  FALSE
    BY DEF NobodyWaitsAlone
  <2> DEFINE g == rank[a]
             h == rank[b]
  <2>1. g.known = Tasks /\ h.known = Tasks
    BY DEF RankInv, Given
  <2>2. g.pc # "dead" /\ h.pc # "dead" /\ g.pc \in Local
    BY DEF Waiting, Local
  <2>3. g.held = {} /\ h.held # {} /\ h.held \subseteq Tasks
    BY <1>0, <2>2 DEF Own, PlaceInv, Engine
  <2>4. Paired(View(a, g), h)
    <3>1. View(b, h) = h
      BY DEF View
    <3> QED BY <2>2, <3>1 DEF RankInv, Pairs
  <2>5. View(a, g).held = {} /\ View(a, g).known = g.known
    BY <1>0, <2>2, <2>3, CoreOfOwn, EmptyView
  <2> QED BY <2>1, <2>3, <2>4, <2>5 DEF Paired
<1>3. HeldIsInHand
  <2> SUFFICES ASSUME NEW a \in Rank, rank[a].pc \in {"idle", "poll"}
               PROVE  /\ rank[a].held \subseteq Hand(rank[a])
                      /\ Hand(rank[a]) \ rank[a].held \subseteq Cancels
    BY DEF HeldIsInHand, Hand
  <2>1. HeldInv(rank[a]) /\ PlaceInv(rank[a]) /\ Fetched(rank[a]) = {} /\ rank[a].pc \in Local
    BY <1>0 DEF Own, Fetched, Local
  <2> QED BY <2>1 DEF HeldInv, PlaceInv
<1> QED BY <1>1, <1>2, <1>3 DEF RanksInStep

(* However tasks and cancellations reach the ranks, ranks that wait in a    *)
(* collective wait in the same one, over the same batch; none waits for one *)
(* that is idle once all have been given the same tasks; and each rank has  *)
(* in its engine exactly what its runner holds, but for what was cancelled. *)
THEOREM RanksStayInStep == KSpec => []RanksInStep
<1>1. TypeOK /\ RankInv /\ [KNext]_kvars => (TypeOK /\ RankInv)'
  BY RankNext
<1> QED BY <1>1, RankInit, InStep, PTL DEF KSpec
=============================================================================
