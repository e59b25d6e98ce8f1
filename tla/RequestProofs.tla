---------------------------- MODULE RequestProofs ----------------------------
(***************************************************************************)
(* Proofs about Requests, for any requests, instances and nodes, and for   *)
(* any deletions, time-outs, deaths and lag.                               *)
(***************************************************************************)
EXTENDS Requests, FiniteSetTheorems, TLAPS

(* A line is the events of one source, or for one consumer, that are under  *)
(* way.  What a line will do to a task: make it, end it, or make it and not  *)
(* end it again.                                                           *)
Creates(e, c) == e.kind = "TaskCreated" /\ e.of = c

Deletes(e, c) == e.kind = "TaskDeleted" /\ e.of = c

Begins(s, c) == \E i \in 1 .. Len(s) : Creates(s[i], c)

Ends(s, c) == \E i \in 1 .. Len(s) : Deletes(s[i], c)

Undone(s, c) ==
  \E i \in 1 .. Len(s) : Creates(s[i], c) /\ \A j \in 1 .. Len(s) : i < j => ~Deletes(s[j], c)

(* The events that neither make a task nor end one.                         *)
Plain == {e \in Events : e.kind \notin {"TaskCreated", "TaskDeleted"}}

LEMMA AppendLine ==
  ASSUME NEW s \in Seq(Events), NEW e \in Events, NEW c
  PROVE  /\ Begins(Append(s, e), c) <=> Begins(s, c) \/ Creates(e, c)
         /\ Ends(Append(s, e), c) <=> Ends(s, c) \/ Deletes(e, c)
         /\ Undone(Append(s, e), c) <=> Creates(e, c) \/ (Undone(s, c) /\ ~Deletes(e, c))
<1> DEFINE t == Append(s, e)
<1>1. PICK n \in Nat : n = Len(s)
  OBVIOUS
<1>2. /\ Len(t) = n + 1 /\ t[n + 1] = e
      /\ \A i \in 1 .. n : t[i] = s[i]
  BY <1>1
<1>3. e.kind # "TaskCreated" \/ e.kind # "TaskDeleted"
  OBVIOUS
<1> HIDE DEF t
<1>4. 1 .. (n + 1) = (1 .. n) \cup {n + 1} /\ n + 1 \notin 1 .. n
  OBVIOUS
<1>5. Begins(t, c) <=> Begins(s, c) \/ Creates(e, c)
  BY <1>1, <1>2, <1>4 DEF Begins, Creates
<1>6. Ends(t, c) <=> Ends(s, c) \/ Deletes(e, c)
  BY <1>1, <1>2, <1>4 DEF Ends, Deletes
<1>7. ASSUME Undone(t, c)
      PROVE  Creates(e, c) \/ (Undone(s, c) /\ ~Deletes(e, c))
  <2>1. PICK i \in 1 .. (n + 1) :
          Creates(t[i], c) /\ \A j \in 1 .. (n + 1) : i < j => ~Deletes(t[j], c)
    BY <1>2, <1>7 DEF Undone
  <2>2. CASE i = n + 1
    BY <1>2, <2>1, <2>2
  <2>3. CASE i \in 1 .. n
    <3>1. Creates(s[i], c) /\ \A j \in 1 .. n : i < j => ~Deletes(s[j], c)
      BY <1>2, <1>4, <2>1, <2>3
    <3>2. ~Deletes(e, c)
      <4>1. i < n + 1 /\ n + 1 \in 1 .. (n + 1)
        BY <2>3
      <4> QED BY <1>2, <2>1, <4>1
    <3> QED BY <1>1, <2>3, <3>1, <3>2 DEF Undone
  <2> QED BY <1>4, <2>1, <2>2, <2>3
<1>8. ASSUME Creates(e, c)
      PROVE  Undone(t, c)
  <2>1. n + 1 \in 1 .. (n + 1) /\ \A j \in 1 .. (n + 1) : ~(n + 1 < j)
    OBVIOUS
  <2> QED BY <1>2, <1>8, <2>1 DEF Undone
<1>9. ASSUME Undone(s, c), ~Deletes(e, c)
      PROVE  Undone(t, c)
  <2>1. PICK i \in 1 .. n : Creates(s[i], c) /\ \A j \in 1 .. n : i < j => ~Deletes(s[j], c)
    BY <1>1, <1>9 DEF Undone
  <2>2. \A j \in 1 .. (n + 1) : i < j => ~Deletes(t[j], c)
    BY <1>2, <1>4, <1>9, <2>1
  <2>3. Creates(t[i], c) /\ i \in 1 .. (n + 1)
    BY <1>2, <2>1
  <2> QED BY <1>2, <2>2, <2>3 DEF Undone
<1> QED BY <1>5, <1>6, <1>7, <1>8, <1>9 DEF t

LEMMA TailLine ==
  ASSUME NEW s \in Seq(Events), s # <<>>, NEW c
  PROVE  /\ Head(s) \in Events /\ Tail(s) \in Seq(Events)
         /\ Begins(s, c) <=> Begins(Tail(s), c) \/ Creates(Head(s), c)
         /\ Ends(s, c) <=> Ends(Tail(s), c) \/ Deletes(Head(s), c)
         /\ Undone(s, c) <=>
              Undone(Tail(s), c) \/ (Creates(Head(s), c) /\ ~Ends(Tail(s), c))
<1>1. PICK n \in Nat : n + 1 = Len(s)
  <2>1. Len(s) \in Nat /\ Len(s) # 0
    OBVIOUS
  <2>2. Len(s) - 1 \in Nat /\ (Len(s) - 1) + 1 = Len(s)
    BY <2>1
  <2> QED BY <2>2
<1> DEFINE t == Tail(s)
           e == Head(s)
<1>2. /\ Len(t) = n /\ s[1] = e /\ e \in Events /\ t \in Seq(Events)
      /\ \A i \in 1 .. n : t[i] = s[i + 1]
  BY <1>1
<1> HIDE DEF t, e
<1>3. /\ \A i \in 1 .. n : i + 1 \in 1 .. (n + 1)
      /\ \A i \in 1 .. (n + 1) : i = 1 \/ \E k \in 1 .. n : i = k + 1
  <2>1. \A i \in 1 .. (n + 1) : i # 1 => i - 1 \in 1 .. n /\ i = (i - 1) + 1
    OBVIOUS
  <2> QED BY <2>1
<1>4. 1 \in 1 .. (n + 1)
  OBVIOUS
<1>5. Begins(s, c) <=> Begins(t, c) \/ Creates(e, c)
  <2>1. ASSUME NEW i \in 1 .. (n + 1), Creates(s[i], c), i # 1
        PROVE  \E k \in 1 .. n : Creates(t[k], c)
    BY <1>2, <1>3, <2>1
  <2>2. ASSUME NEW k \in 1 .. n, Creates(t[k], c)
        PROVE  k + 1 \in 1 .. (n + 1) /\ Creates(s[k + 1], c)
    BY <1>2, <1>3, <2>2
  <2> QED BY <1>1, <1>2, <1>4, <2>1, <2>2 DEF Begins
<1>6. Ends(s, c) <=> Ends(t, c) \/ Deletes(e, c)
  <2>1. ASSUME NEW i \in 1 .. (n + 1), Deletes(s[i], c), i # 1
        PROVE  \E k \in 1 .. n : Deletes(t[k], c)
    BY <1>2, <1>3, <2>1
  <2>2. ASSUME NEW k \in 1 .. n, Deletes(t[k], c)
        PROVE  k + 1 \in 1 .. (n + 1) /\ Deletes(s[k + 1], c)
    BY <1>2, <1>3, <2>2
  <2> QED BY <1>1, <1>2, <1>4, <2>1, <2>2 DEF Ends
<1>7. ASSUME Undone(s, c)
      PROVE  Undone(t, c) \/ (Creates(e, c) /\ ~Ends(t, c))
  <2>1. PICK i \in 1 .. (n + 1) :
          Creates(s[i], c) /\ \A j \in 1 .. (n + 1) : i < j => ~Deletes(s[j], c)
    BY <1>1, <1>7 DEF Undone
  <2>2. CASE i = 1
    <3>1. \A j \in 1 .. n : 1 < j + 1
      OBVIOUS
    <3>2. \A j \in 1 .. n : ~Deletes(t[j], c)
      BY <1>2, <1>3, <2>1, <2>2, <3>1
    <3> QED BY <1>2, <2>1, <2>2, <3>2 DEF Ends
  <2>3. ASSUME NEW k \in 1 .. n, i = k + 1
        PROVE  Undone(t, c)
    <3>1. \A j \in 1 .. n : k < j => i < j + 1
      BY <2>3
    <3>2. \A j \in 1 .. n : k < j => ~Deletes(t[j], c)
      BY <1>2, <1>3, <2>1, <3>1
    <3>3. Creates(t[k], c)
      BY <1>2, <2>1, <2>3
    <3> QED BY <1>2, <3>2, <3>3 DEF Undone
  <2> QED BY <1>3, <2>1, <2>2, <2>3
<1>8. ASSUME Undone(t, c)
      PROVE  Undone(s, c)
  <2>1. PICK k \in 1 .. n : Creates(t[k], c) /\ \A j \in 1 .. n : k < j => ~Deletes(t[j], c)
    BY <1>2, <1>8 DEF Undone
  <2>2. k + 1 \in 1 .. (n + 1) /\ Creates(s[k + 1], c)
    BY <1>2, <1>3, <2>1
  <2>3. ASSUME NEW j \in 1 .. (n + 1), k + 1 < j
        PROVE  ~Deletes(s[j], c)
    <3>1. PICK m \in 1 .. n : j = m + 1
      BY <1>3, <2>3
    <3>2. k < m
      BY <2>3, <3>1
    <3> QED BY <1>2, <2>1, <3>1, <3>2
  <2> QED BY <1>1, <2>2, <2>3 DEF Undone
<1>9. ASSUME Creates(e, c), ~Ends(t, c)
      PROVE  Undone(s, c)
  <2>1. ASSUME NEW j \in 1 .. (n + 1), 1 < j
        PROVE  ~Deletes(s[j], c)
    <3>1. PICK m \in 1 .. n : j = m + 1
      BY <1>3, <2>1
    <3> QED BY <1>2, <1>9, <3>1 DEF Ends
  <2> QED BY <1>1, <1>2, <1>4, <1>9, <2>1 DEF Undone
<1> QED BY <1>2, <1>5, <1>6, <1>7, <1>8, <1>9 DEF t, e

LEMMA PlainLine ==
  ASSUME NEW s \in Seq(Events), NEW t \in Seq(Plain), NEW c
  PROVE  /\ s \o t \in Seq(Events)
         /\ Begins(s \o t, c) <=> Begins(s, c)
         /\ Ends(s \o t, c) <=> Ends(s, c)
         /\ Undone(s \o t, c) <=> Undone(s, c)
<1> DEFINE u == s \o t
<1>1. PICK n \in Nat : n = Len(s)
  OBVIOUS
<1>2. PICK m \in Nat : m = Len(t)
  OBVIOUS
<1>3. t \in Seq(Events)
  <2>1. \A i \in 1 .. Len(t) : t[i] \in Events
    BY DEF Plain
  <2> QED BY <2>1
<1>4. /\ u \in Seq(Events) /\ Len(u) = n + m
      /\ \A i \in 1 .. n : u[i] = s[i]
      /\ \A i \in 1 .. (n + m) : i \notin 1 .. n => i - n \in 1 .. m /\ u[i] = t[i - n]
  BY <1>1, <1>2, <1>3
<1>5. \A i \in 1 .. m : t[i] \in Plain
  BY <1>2
<1> HIDE DEF u
<1>6. \A i \in 1 .. (n + m) : i \notin 1 .. n => ~Creates(u[i], c) /\ ~Deletes(u[i], c)
  BY <1>4, <1>5 DEF Plain, Creates, Deletes
<1>7. \A i \in 1 .. n : i \in 1 .. (n + m)
  OBVIOUS
<1>8. Begins(u, c) <=> Begins(s, c)
  BY <1>1, <1>4, <1>6, <1>7 DEF Begins
<1>9. Ends(u, c) <=> Ends(s, c)
  BY <1>1, <1>4, <1>6, <1>7 DEF Ends
<1>10. Undone(u, c) => Undone(s, c)
  <2> SUFFICES ASSUME Undone(u, c) PROVE Undone(s, c)
    OBVIOUS
  <2>1. PICK i \in 1 .. (n + m) :
          Creates(u[i], c) /\ \A j \in 1 .. (n + m) : i < j => ~Deletes(u[j], c)
    BY <1>4 DEF Undone
  <2>2. i \in 1 .. n
    BY <1>6, <2>1
  <2>3. Creates(s[i], c) /\ \A j \in 1 .. n : i < j => ~Deletes(s[j], c)
    BY <1>4, <1>7, <2>1, <2>2
  <2> QED BY <1>1, <2>2, <2>3 DEF Undone
<1>11. Undone(s, c) => Undone(u, c)
  <2> SUFFICES ASSUME Undone(s, c) PROVE Undone(u, c)
    OBVIOUS
  <2>1. PICK i \in 1 .. n : Creates(s[i], c) /\ \A j \in 1 .. n : i < j => ~Deletes(s[j], c)
    BY <1>1 DEF Undone
  <2>2. Creates(u[i], c) /\ \A j \in 1 .. (n + m) : i < j => ~Deletes(u[j], c)
    BY <1>4, <1>6, <2>1
  <2> QED BY <1>4, <1>7, <2>2 DEF Undone
<1> QED BY <1>4, <1>8, <1>9, <1>10, <1>11 DEF u

LEMMA EmptyLine ==
  ASSUME NEW c
  PROVE  ~Begins(<<>>, c) /\ ~Ends(<<>>, c) /\ ~Undone(<<>>, c)
BY DEF Begins, Ends, Undone

-----------------------------------------------------------------------------
LEMMA EventFacts ==
  /\ \A c \in Commands : \A i \in Instances : TaskCreated(c, i) \in Events
  /\ \A c \in Commands : TaskDeleted(c) \in Events
  /\ \A c \in Commands : \A s \in TaskStatuses : TaskStatusUpdated(c, s) \in Plain
  /\ \A c \in Commands : \A x \in {"final", "error"} : ChunkGenerated(c, x) \in Plain
  /\ \A i \in Instances : InstanceDeleted(i) \in Plain
  /\ \A n \in Nodes : NodeTimedOut(n) \in Plain /\ NodeGatheredInfo(n) \in Plain
<1>1. /\ \A c \in Commands : \A i \in Instances : TaskCreated(c, i) \in Events
      /\ \A c \in Commands : TaskDeleted(c) \in Events
  BY DEF Events
<1>2. ASSUME NEW c \in Commands, NEW s \in TaskStatuses
      PROVE  TaskStatusUpdated(c, s) \in Plain
  <2>1. TaskStatusUpdated(c, s) \in Events
    BY DEF Events
  <2> QED BY <2>1 DEF Plain, TaskStatusUpdated, Event
<1>3. ASSUME NEW c \in Commands, NEW x \in {"final", "error"}
      PROVE  ChunkGenerated(c, x) \in Plain
  <2>1. ChunkGenerated(c, x) \in Events
    BY DEF Events
  <2> QED BY <2>1 DEF Plain, ChunkGenerated, Event
<1>4. ASSUME NEW i \in Instances
      PROVE  InstanceDeleted(i) \in Plain
  <2>1. InstanceDeleted(i) \in Events
    BY DEF Events
  <2> QED BY <2>1 DEF Plain, InstanceDeleted, Event
<1>5. ASSUME NEW n \in Nodes
      PROVE  NodeTimedOut(n) \in Plain /\ NodeGatheredInfo(n) \in Plain
  <2>1. NodeTimedOut(n) \in Events /\ NodeGatheredInfo(n) \in Events
    BY DEF Events
  <2> QED BY <2>1 DEF Plain, NodeTimedOut, NodeGatheredInfo, Event
<1> QED BY <1>1, <1>2, <1>3, <1>4, <1>5

(* What an event says, by its kind.                                         *)
LEMMA EventKinds ==
  ASSUME NEW e \in Events
  PROVE  /\ e.kind = "TaskCreated" => e.of \in Commands /\ e.what \in Instances
         /\ e.kind = "TaskStatusUpdated" => e.of \in Commands /\ e.what \in TaskStatuses
         /\ e.kind = "TaskDeleted" => e.of \in Commands
         /\ e.kind = "ChunkGenerated" => e.of \in Commands /\ e.what \in {"final", "error"}
         /\ e.kind = "InstanceDeleted" => e.of \in Instances
         /\ e.kind \in {"NodeTimedOut", "NodeGatheredInfo"} => e.of \in Nodes
BY DEF Events, TaskCreated, TaskDeleted, TaskStatusUpdated, ChunkGenerated,
       InstanceDeleted, NodeTimedOut, NodeGatheredInfo, Event

(* event_apply: only the creation of a task makes one.                      *)
LEMMA ApplyFacts ==
  ASSUME NEW v \in States, NEW e \in Events
  PROVE  /\ EventApply(v, e) \in States
         /\ \A c \in Commands : EventApply(v, e).tasks[c] # NoTask =>
              Creates(e, c) \/ (v.tasks[c] # NoTask /\ ~Deletes(e, c))
<1> DEFINE w == EventApply(v, e)
<1>0. /\ v.instances \subseteq Instances /\ v.nodes \subseteq Nodes
      /\ v.tasks \in [Commands -> [instance : Instances \cup {None}, status : TaskStatuses \cup {None}]]
  BY DEF States
<1>1. CASE e.kind = "TaskCreated"
  <2>1. w = [v EXCEPT !.tasks[e.of] = [instance |-> e.what, status |-> "Pending"]]
    BY <1>1 DEF EventApply
  <2>2. e.of \in Commands /\ e.what \in Instances
    BY <1>1, EventKinds
  <2> DEFINE task == [instance |-> e.what, status |-> "Pending"]
  <2>3. task \in [instance : Instances \cup {None}, status : TaskStatuses \cup {None}]
    BY <2>2 DEF TaskStatuses
  <2> HIDE DEF task
  <2>4. w = [v EXCEPT !.tasks[e.of] = task]
    BY <2>1 DEF task
  <2>5. w \in States
    BY <1>0, <2>2, <2>3, <2>4 DEF States
  <2>6. \A c \in Commands : c # e.of => w.tasks[c] = v.tasks[c]
    BY <1>0, <2>2, <2>4 DEF States
  <2> QED BY <1>1, <2>5, <2>6 DEF Creates, Deletes
<1>2. CASE e.kind = "TaskStatusUpdated"
  <2>1. w = UpdateStatus(v, e.of, e.what)
    BY <1>2 DEF EventApply
  <2>2. e.of \in Commands /\ e.what \in TaskStatuses
    BY <1>2, EventKinds
  <2> QED BY <1>0, <1>2, <2>1, <2>2 DEF States, UpdateStatus, Deletes
<1>3. CASE e.kind = "TaskDeleted"
  <2>1. w = [v EXCEPT !.tasks[e.of] = NoTask]
    BY <1>3 DEF EventApply
  <2>2. e.of \in Commands
    BY <1>3, EventKinds
  <2> QED BY <1>0, <1>3, <2>1, <2>2 DEF States, NoTask, Deletes
<1>4. CASE e.kind = "InstanceDeleted"
  <2>1. w = [v EXCEPT !.instances = @ \ {e.of}]
    BY <1>4 DEF EventApply
  <2> QED BY <1>0, <1>4, <2>1 DEF States, Deletes
<1>5. CASE e.kind = "NodeTimedOut"
  <2>1. w = [v EXCEPT !.nodes = @ \ {e.of}]
    BY <1>5 DEF EventApply
  <2> QED BY <1>0, <1>5, <2>1 DEF States, Deletes
<1>6. CASE e.kind = "NodeGatheredInfo"
  <2>1. w = [v EXCEPT !.nodes = @ \cup {e.of}]
    BY <1>6 DEF EventApply
  <2>2. e.of \in Nodes
    BY <1>6, EventKinds
  <2> QED BY <1>0, <1>6, <2>1, <2>2 DEF States, Deletes
<1>7. CASE e.kind \notin {"TaskCreated", "TaskStatusUpdated", "TaskDeleted", "InstanceDeleted",
                          "NodeTimedOut", "NodeGatheredInfo"}
  <2>1. w = v
    BY <1>7 DEF EventApply
  <2> QED BY <1>7, <2>1 DEF Deletes
<1> QED BY <1>1, <1>2, <1>3, <1>4, <1>5, <1>6, <1>7

-----------------------------------------------------------------------------
(* Any order of a finite set is a sequence of its elements.                 *)
LEMMA SetToSeqType ==
  ASSUME NEW S, IsFiniteSet(S)
  PROVE  SetToSeq(S) \in Seq(S)
<1>1. Cardinality(S) \in Nat /\ ExistsBijection(1 .. Cardinality(S), S)
  BY FS_CardinalityType
<1>2. \E f \in [1 .. Cardinality(S) -> S] : IsInjective(f)
  BY <1>1 DEF ExistsBijection, Bijection, Injection
<1>3. SetToSeq(S) \in [1 .. Cardinality(S) -> S]
  BY <1>2 DEF SetToSeq
<1> QED BY <1>1, <1>3

(* What is said of some of the commands can be put in a sequence.            *)
LEMMA FiniteReports ==
  ASSUME NEW C \in SUBSET Commands
  PROVE  /\ SetToSeq({TaskStatusUpdated(c, "Cancelled") : c \in C}) \in Seq(Plain)
         /\ SetToSeq({ChunkGenerated(c, "error") : c \in C}) \in Seq(Plain)
<1>1. IsFiniteSet(C)
  BY SetupsAssumption, FS_Subset
<1>2. ASSUME NEW T, T \subseteq Plain, NEW f \in [C -> T], \A e \in T : \E c \in C : f[c] = e
      PROVE  SetToSeq(T) \in Seq(Plain)
  <2>1. f \in Surjection(C, T)
    BY <1>2 DEF Surjection
  <2>2. IsFiniteSet(T)
    BY <1>1, <2>1, FS_Surjection
  <2>3. SetToSeq(T) \in Seq(T)
    BY <2>2, SetToSeqType
  <2> QED BY <1>2, <2>3
<1>3. SetToSeq({TaskStatusUpdated(c, "Cancelled") : c \in C}) \in Seq(Plain)
  <2> DEFINE T == {TaskStatusUpdated(c, "Cancelled") : c \in C}
             f == [c \in C |-> TaskStatusUpdated(c, "Cancelled")]
  <2>1. T \subseteq Plain
    BY EventFacts DEF TaskStatuses
  <2>2. f \in [C -> T] /\ \A e \in T : \E c \in C : f[c] = e
    OBVIOUS
  <2> HIDE DEF T, f
  <2>3. SetToSeq(T) \in Seq(Plain)
    BY <1>2, <2>1, <2>2
  <2> QED BY <2>3 DEF T
<1>4. SetToSeq({ChunkGenerated(c, "error") : c \in C}) \in Seq(Plain)
  <2> DEFINE T == {ChunkGenerated(c, "error") : c \in C}
             f == [c \in C |-> ChunkGenerated(c, "error")]
  <2>1. T \subseteq Plain
    BY EventFacts
  <2>2. f \in [C -> T] /\ \A e \in T : \E c \in C : f[c] = e
    OBVIOUS
  <2> HIDE DEF T, f
  <2>3. SetToSeq(T) \in Seq(Plain)
    BY <1>2, <2>1, <2>2
  <2> QED BY <2>3 DEF T
<1> QED BY <1>3, <1>4

LEMMA PlainEvents == Seq(Plain) \subseteq Seq(Events)
<1>1. Plain \subseteq Events
  BY DEF Plain
<1> QED BY <1>1

(* One event is a sequence of events.                                       *)
LEMMA OneEvent ==
  ASSUME NEW e
  PROVE  /\ e \in Events => <<e>> \in Seq(Events)
         /\ e \in Plain => <<e>> \in Seq(Plain)
OBVIOUS

-----------------------------------------------------------------------------
(* Types.                                                                  *)

LEMMA SendType ==
  ASSUME TypeOK, NEW s \in Sources, NEW t \in Seq(Events), Send(s, t)
  PROVE  out' \in [Sources -> Seq(Events)]
BY DEF TypeOK, Send

LEMMA HostsFacts ==
  ASSUME TypeOK
  PROVE  /\ \A i \in Instances : setup.hosts[i] \in Seq(Nodes) /\ Hosts(i) \subseteq Nodes
         /\ \A i \in Placed : setup.hosts[i][1] \in Nodes
<1>1. setup.hosts \in [Instances -> Seq(Nodes)]
  BY DEF TypeOK, Circumstances
<1>2. ASSUME NEW i \in Instances
      PROVE  setup.hosts[i] \in Seq(Nodes) /\ Hosts(i) \subseteq Nodes
  BY <1>1 DEF Hosts, Range
<1>3. ASSUME NEW i \in Placed
      PROVE  setup.hosts[i][1] \in Nodes
  BY <1>2 DEF Placed
<1> QED BY <1>2, <1>3

(* A step leaves the circumstances alone, but for what is used up.           *)
LEMMA SetupType ==
  ASSUME TypeOK
  PROVE  /\ setup.deletes > 0 => [setup EXCEPT !.deletes = @ - 1] \in Circumstances
         /\ setup.timeouts > 0 => [setup EXCEPT !.timeouts = @ - 1] \in Circumstances
         /\ setup.deaths > 0 => [setup EXCEPT !.deaths = @ - 1] \in Circumstances
<1>1. \A n \in Nat : n > 0 => n - 1 \in Nat
  OBVIOUS
<1>2. setup.deletes \in Nat /\ setup.timeouts \in Nat /\ setup.deaths \in Nat
  BY DEF TypeOK, Circumstances
<1>3. ASSUME setup.deletes > 0
      PROVE  [setup EXCEPT !.deletes = @ - 1] \in Circumstances
  <2>1. setup.deletes - 1 \in Nat
    BY <1>1, <1>2, <1>3
  <2> QED BY <2>1 DEF TypeOK, Circumstances
<1>4. ASSUME setup.timeouts > 0
      PROVE  [setup EXCEPT !.timeouts = @ - 1] \in Circumstances
  <2>1. setup.timeouts - 1 \in Nat
    BY <1>1, <1>2, <1>4
  <2> QED BY <2>1 DEF TypeOK, Circumstances
<1>5. ASSUME setup.deaths > 0
      PROVE  [setup EXCEPT !.deaths = @ - 1] \in Circumstances
  <2>1. setup.deaths - 1 \in Nat
    BY <1>1, <1>2, <1>5
  <2> QED BY <2>1 DEF TypeOK, Circumstances
<1> QED BY <1>3, <1>4, <1>5

LEMMA OrderFacts ==
  /\ \A c \in Commands : \A k \in {"Generate", "TaskCancelled", "TaskFinished"} : Command(k, c) \in Orders
  /\ \A i \in Instances : Command("DeleteInstance", i) \in Orders
BY DEF Orders

LEMMA OrderKinds ==
  ASSUME NEW o \in Orders
  PROVE  /\ o.kind \in {"Generate", "TaskCancelled", "TaskFinished"} => o.of \in Commands
         /\ o.kind = "DeleteInstance" => o.of \in Instances
BY DEF Orders, Command

LEMMA WireHead ==
  ASSUME TypeOK, wire # <<>>
  PROVE  Head(wire) \in Orders /\ Tail(wire) \in Seq(Orders)
BY DEF TypeOK

(* What the master writes for a command.                                    *)
LEMMA DeleteWrites ==
  ASSUME TypeOK, NEW i \in Instances, Delete(i)
  PROVE  \/ UNCHANGED out
         \/ \E t \in Seq(Plain) : Send(Master, t)
<1> SUFFICES ASSUME out' # out
             PROVE  \E t \in Seq(Plain) : Send(Master, t)
  OBVIOUS
<1> DEFINE C == {c \in Commands : /\ view[Master].tasks[c].instance = i
                                  /\ view[Master].tasks[c].status \in InFlight}
           r == SetToSeq({TaskStatusUpdated(c, "Cancelled") : c \in C})
           t == r \o <<InstanceDeleted(i)>>
<1>1. Send(Master, t)
  BY DEF Delete
<1>2. r \in Seq(Plain)
  <2>1. C \in SUBSET Commands
    OBVIOUS
  <2> HIDE DEF C
  <2> QED BY <2>1, FiniteReports
<1>3. <<InstanceDeleted(i)>> \in Seq(Plain)
  BY EventFacts, OneEvent
<1> HIDE DEF r
<1>4. t \in Seq(Plain)
  BY <1>2, <1>3
<1> QED BY <1>1, <1>4

LEMMA CommandWrites ==
  ASSUME TypeOK, CommandProcessor
  PROVE  /\ wire # <<>> /\ wire' = Tail(wire)
         /\ UNCHANGED <<setup, client, kind, registered, stream, api, in, view, sup, answered>>
         /\ \/ /\ Head(wire).kind = "Generate"
               /\ \/ UNCHANGED <<mapping, out>>
                  \/ /\ mapping' = mapping \cup {Head(wire).of}
                     /\ \E i \in Instances : Send(Master, <<TaskCreated(Head(wire).of, i)>>)
            \/ /\ Head(wire).kind = "TaskFinished"
               /\ mapping' = mapping \ {Head(wire).of}
               /\ \/ Head(wire).of \notin mapping /\ UNCHANGED out
                  \/ Send(Master, <<TaskDeleted(Head(wire).of)>>)
            \/ /\ Head(wire).kind \in {"TaskCancelled", "DeleteInstance"}
               /\ UNCHANGED mapping
               /\ UNCHANGED out \/ \E t \in Seq(Plain) : Send(Master, t)
<1>1. wire # <<>> /\ wire' = Tail(wire)
  BY DEF CommandProcessor
<1>2. Head(wire) \in Orders
  BY <1>1, WireHead
<1>3. CASE Head(wire).kind = "Generate" /\ Place(Head(wire).of)
  <2>1. view[Master].instances \subseteq Instances
    BY DEF TypeOK, States, Sources
  <2> QED BY <1>1, <1>3, <2>1 DEF CommandProcessor, Place
<1>4. CASE /\ Head(wire).kind = "TaskCancelled"
           /\ IF Head(wire).of \in mapping
              THEN Send(Master, <<TaskStatusUpdated(Head(wire).of, "Cancelled")>>)
              ELSE UNCHANGED out
           /\ UNCHANGED mapping
  <2>1. Head(wire).of \in Commands
    BY <1>2, <1>4, OrderKinds
  <2>2. <<TaskStatusUpdated(Head(wire).of, "Cancelled")>> \in Seq(Plain)
    BY <2>1, EventFacts, OneEvent DEF TaskStatuses
  <2> QED BY <1>1, <1>4, <2>2 DEF CommandProcessor
<1>5. CASE /\ Head(wire).kind = "TaskFinished"
           /\ IF Head(wire).of \in mapping
              THEN Send(Master, <<TaskDeleted(Head(wire).of)>>)
              ELSE UNCHANGED out
           /\ mapping' = mapping \ {Head(wire).of}
  BY <1>1, <1>5 DEF CommandProcessor
<1>6. CASE /\ Head(wire).kind = "DeleteInstance"
           /\ Delete(Head(wire).of)
           /\ UNCHANGED mapping
  <2>1. Head(wire).of \in Instances
    BY <1>2, <1>6, OrderKinds
  <2>2. UNCHANGED out \/ \E t \in Seq(Plain) : Send(Master, t)
    BY <1>6, <2>1, DeleteWrites
  <2> QED BY <1>1, <1>6, <2>2 DEF CommandProcessor
<1> QED BY <1>3, <1>4, <1>5, <1>6 DEF CommandProcessor

LEMMA TypeInit == Init => TypeOK
<1> SUFFICES ASSUME Init PROVE TypeOK
  OBVIOUS
<1>1. setup \in Circumstances /\ setup.kinds \subseteq {"text", "image"}
  BY SetupsAssumption DEF Init, Circumstances
<1>2. kind \in [Commands -> {"text", "image"}]
  BY <1>1 DEF Init
<1>3. view \in [Sources \cup Consumers -> States]
  <2>1. NoTask \in [instance : Instances \cup {None}, status : TaskStatuses \cup {None}]
    BY DEF NoTask
  <2>2. [instances |-> Placed, nodes |-> Nodes, tasks |-> [c \in Commands |-> NoTask]] \in States
    BY <2>1 DEF States, Placed
  <2> QED BY <2>2 DEF Init
<1>4. sup \in [Instances -> [Nodes -> Supervisors]]
  <2>1. NewSupervisor \in Supervisors /\ [NewSupervisor EXCEPT !.up = FALSE] \in Supervisors
    BY DEF NewSupervisor, Supervisors
  <2> QED BY <2>1 DEF Init
<1>5. /\ client \in [Commands -> {"new", "sent", "open"} \cup Outcomes]
      /\ registered \in [Commands -> {"open", "closed", None}]
      /\ stream \in [Commands -> Seq({"final", "error", "end"})]
      /\ api \in BOOLEAN /\ wire \in Seq(Orders) /\ mapping \subseteq Commands /\ answered \subseteq Commands
  BY DEF Init
<1>6. /\ out \in [Sources -> Seq(Events)]
      /\ in \in [Consumers -> Seq(Events)]
  BY DEF Init
<1> QED BY <1>1, <1>2, <1>3, <1>4, <1>5, <1>6 DEF TypeOK

LEMMA ViewStep ==
  ASSUME TypeOK, NEW k \in Sources \cup Consumers, NEW e \in Events,
         view' = [view EXCEPT ![k] = EventApply(@, e)]
  PROVE  /\ view' \in [Sources \cup Consumers -> States]
         /\ \A l \in Sources \cup Consumers : l # k => view'[l] = view[l]
         /\ \A c \in Commands : view'[k].tasks[c] # NoTask =>
              Creates(e, c) \/ (view[k].tasks[c] # NoTask /\ ~Deletes(e, c))
<1>1. view[k] \in States
  BY DEF TypeOK
<1>2. EventApply(view[k], e) \in States
  BY <1>1, ApplyFacts
<1>3. \A c \in Commands : EventApply(view[k], e).tasks[c] # NoTask =>
        Creates(e, c) \/ (view[k].tasks[c] # NoTask /\ ~Deletes(e, c))
  BY <1>1, ApplyFacts
<1> QED BY <1>2, <1>3 DEF TypeOK

LEMMA SupervisorStep ==
  ASSUME TypeOK, NEW i \in Instances, NEW n \in Nodes, NEW s \in Supervisors,
         sup' = [sup EXCEPT ![i][n] = s]
  PROVE  sup' \in [Instances -> [Nodes -> Supervisors]]
BY DEF TypeOK

LEMMA TypeApi ==
  ASSUME TypeOK, ApiStep \/ \E c \in Commands : TextRequest(c) \/ ImageRequest(c) \/ CancelCommand(c) \/ Leave(c)
  PROVE  TypeOK'
<1>1. CASE ApiApply
  <2> DEFINE e == Head(in[Api])
  <2>1. Api \in Consumers /\ in[Api] # <<>>
    BY <1>1 DEF ApiApply, Consumers
  <2>2. e \in Events /\ Tail(in[Api]) \in Seq(Events)
    BY <2>1 DEF TypeOK
  <2>3. in' \in [Consumers -> Seq(Events)]
    BY <1>1, <2>1, <2>2 DEF ApiApply, TypeOK
  <2>4. view' = [view EXCEPT ![Api] = EventApply(@, e)]
    BY <1>1 DEF ApiApply
  <2> HIDE DEF e
  <2>5. view' \in [Sources \cup Consumers -> States]
    BY <2>1, <2>2, <2>4, ViewStep
  <2>6. /\ registered' \in [Commands -> {"open", "closed", None}]
        /\ stream' \in [Commands -> Seq({"final", "error", "end"})]
        /\ api' \in BOOLEAN
    <3>1. CASE e.kind = "ChunkGenerated" /\ Deliver(e) /\ UNCHANGED api
      <4>1. e.of \in Commands /\ e.what \in {"final", "error"}
        BY <2>2, <3>1, EventKinds
      <4>2. Append(stream[e.of], e.what) \in Seq({"final", "error", "end"})
        BY <4>1 DEF TypeOK
      <4> QED BY <3>1, <4>1, <4>2 DEF Deliver, TypeOK
    <3>2. CASE api' = (registered[e.of] = None) /\ UNCHANGED <<registered, stream>>
      BY <3>2 DEF TypeOK
    <3>3. CASE CloseStreamsForInstance(e.of) /\ UNCHANGED api
      <4>1. \A c \in Commands : Append(stream[c], "end") \in Seq({"final", "error", "end"})
        BY DEF TypeOK
      <4> QED BY <3>3, <4>1 DEF CloseStreamsForInstance, TypeOK
    <3>4. CASE UNCHANGED <<registered, stream, api>>
      BY <3>4 DEF TypeOK
    <3> QED BY <1>1, <3>1, <3>2, <3>3, <3>4 DEF ApiApply, e
  <2>7. UNCHANGED <<setup, client, kind, wire, mapping, out, sup, answered>>
    BY <1>1 DEF ApiApply
  <2> QED BY <2>3, <2>5, <2>6, <2>7 DEF TypeOK
<1>2. CASE \E c \in Commands : Register(c)
  BY <1>2 DEF Register, TypeOK
<1>3. ASSUME NEW c \in Commands, Read(c)
      PROVE  TypeOK'
  <2>1. Head(stream[c]) \in {"final", "error", "end"} /\ {"final", "error", "end"} \subseteq Outcomes
    BY <1>3 DEF Read, TypeOK, Outcomes
  <2>2. client' \in [Commands -> {"new", "sent", "open"} \cup Outcomes]
    BY <1>3, <2>1 DEF Read, TypeOK
  <2>3. wire' \in Seq(Orders)
    BY <1>3, OrderFacts DEF Read, TypeOK
  <2> QED BY <1>3, <2>2, <2>3 DEF Read, TypeOK
<1>4. ASSUME NEW c \in Commands, TextRequest(c) \/ ImageRequest(c)
      PROVE  TypeOK'
  <2>1. Accept(c)
    BY <1>4 DEF TextRequest, ImageRequest
  <2>2. wire' \in Seq(Orders)
    BY <2>1, OrderFacts DEF Accept, TypeOK
  <2> QED BY <2>1, <2>2 DEF Accept, TypeOK
<1>5. ASSUME NEW c \in Commands, CancelCommand(c)
      PROVE  TypeOK'
  <2>1. wire' \in Seq(Orders)
    BY <1>5, OrderFacts DEF CancelCommand, TypeOK
  <2>2. Append(stream[c], "end") \in Seq({"final", "error", "end"})
    BY DEF TypeOK
  <2> QED BY <1>5, <2>1, <2>2 DEF CancelCommand, TypeOK
<1>6. ASSUME NEW c \in Commands, Leave(c)
      PROVE  TypeOK'
  <2>1. wire' \in Seq(Orders)
    <3>1. \/ wire' = Append(wire, Command("TaskCancelled", c))
          \/ wire' = Append(wire, Command("TaskFinished", c))
      BY <1>6 DEF Leave
    <3>2. Command("TaskCancelled", c) \in Orders /\ Command("TaskFinished", c) \in Orders
      BY OrderFacts
    <3>3. \A o \in Orders : Append(wire, o) \in Seq(Orders)
      BY DEF TypeOK
    <3> QED BY <3>1, <3>2, <3>3
  <2>2. client' \in [Commands -> {"new", "sent", "open"} \cup Outcomes]
    BY <1>6 DEF Leave, TypeOK, Outcomes
  <2>3. registered' \in [Commands -> {"open", "closed", None}]
    BY <1>6 DEF Leave, TypeOK
  <2> QED BY <1>6, <2>1, <2>2, <2>3 DEF Leave, TypeOK
<1> QED BY <1>1, <1>2, <1>3, <1>4, <1>5, <1>6 DEF ApiStep

LEMMA TypeMaster ==
  ASSUME TypeOK, MasterStep \/ (\E i \in Instances : DeleteInstance(i)) \/ \E n \in Nodes : TimeOut(n)
  PROVE  TypeOK'
<1> USE DEF Sources, Consumers
<1>1. CASE CommandProcessor
  <2>1. Head(wire) \in Orders /\ Tail(wire) \in Seq(Orders) /\ wire' = Tail(wire)
    BY <1>1, CommandWrites, WireHead
  <2>2. UNCHANGED <<setup, client, kind, registered, stream, api, in, view, sup, answered>>
    BY <1>1, CommandWrites
  <2>3. mapping' \subseteq Commands
    BY <1>1, <2>1, CommandWrites, OrderKinds DEF TypeOK
  <2>4. UNCHANGED out \/ \E t \in Seq(Events) : Send(Master, t)
    <3>1. ASSUME Head(wire).kind \in {"Generate", "TaskFinished"}
          PROVE  /\ \A i \in Instances : <<TaskCreated(Head(wire).of, i)>> \in Seq(Events)
                 /\ <<TaskDeleted(Head(wire).of)>> \in Seq(Events)
      BY <2>1, <3>1, OrderKinds, EventFacts, OneEvent
    <3>2. \A t \in Seq(Plain) : t \in Seq(Events)
      BY PlainEvents
    <3> QED BY <1>1, <3>1, <3>2, CommandWrites
  <2>5. out' \in [Sources -> Seq(Events)]
    BY <2>4, SendType DEF TypeOK
  <2> QED BY <2>1, <2>2, <2>3, <2>5 DEF TypeOK
<1>2. ASSUME NEW s \in Sources, Index(s)
      PROVE  TypeOK'
  <2> DEFINE e == Head(out[s])
  <2>1. e \in Events /\ Tail(out[s]) \in Seq(Events)
    BY <1>2 DEF Index, TypeOK
  <2>2. \A k \in Consumers : Append(in[k], e) \in Seq(Events)
    BY <2>1 DEF TypeOK
  <2>3. /\ view' = [view EXCEPT ![Master] = EventApply(@, e)]
        /\ in' = [k \in Consumers |-> IF ReactsTo(k, e) THEN Append(in[k], e) ELSE in[k]]
        /\ out' = [out EXCEPT ![s] = Tail(@)]
    BY <1>2 DEF Index
  <2> HIDE DEF e
  <2>4. view' \in [Sources \cup Consumers -> States]
    BY <2>1, <2>3, ViewStep
  <2>5. in' \in [Consumers -> Seq(Events)] /\ out' \in [Sources -> Seq(Events)]
    BY <2>1, <2>2, <2>3 DEF TypeOK
  <2> QED BY <1>2, <2>4, <2>5 DEF Index, TypeOK
<1>3. ASSUME NEW i \in Instances, KillInstance(i)
      PROVE  TypeOK'
  <2>1. <<InstanceDeleted(i)>> \in Seq(Events)
    BY EventFacts, OneEvent DEF Plain
  <2>2. out' \in [Sources -> Seq(Events)]
    BY <1>3, <2>1, SendType DEF KillInstance
  <2> QED BY <1>3, <2>2 DEF KillInstance, TypeOK
<1>4. ASSUME NEW i \in Instances, DeleteInstance(i)
      PROVE  TypeOK'
  <2>1. wire' \in Seq(Orders)
    BY <1>4, OrderFacts DEF DeleteInstance, TypeOK
  <2>2. setup' \in Circumstances
    BY <1>4, SetupType DEF DeleteInstance
  <2> QED BY <1>4, <2>1, <2>2 DEF DeleteInstance, TypeOK
<1>5. ASSUME NEW n \in Nodes, TimeOut(n)
      PROVE  TypeOK'
  <2>1. <<NodeTimedOut(n)>> \in Seq(Events)
    BY EventFacts, OneEvent DEF Plain
  <2>2. out' \in [Sources -> Seq(Events)]
    BY <1>5, <2>1, SendType DEF TimeOut
  <2>3. setup' \in Circumstances
    BY <1>5, SetupType DEF TimeOut
  <2> QED BY <1>5, <2>2, <2>3 DEF TimeOut, TypeOK
<1> QED BY <1>1, <1>2, <1>3, <1>4, <1>5 DEF MasterStep

LEMMA TypeWorker ==
  ASSUME TypeOK, NEW n \in Nodes, WorkerStep(n) \/ \E i \in Instances : Die(n, i)
  PROVE  TypeOK'
<1>0. n \in Sources /\ \A i \in Instances : sup[i][n] \in Supervisors
  BY DEF TypeOK, Sources
<1>1. CASE WorkerApply(n)
  <2> DEFINE e == Head(in[n])
  <2>1. n \in Consumers
    BY DEF Consumers
  <2>2. e \in Events /\ Tail(in[n]) \in Seq(Events)
    BY <1>1, <2>1 DEF WorkerApply, TypeOK
  <2>3. view' = [view EXCEPT ![n] = EventApply(@, e)] /\ in' = [in EXCEPT ![n] = Tail(@)]
    BY <1>1 DEF WorkerApply
  <2> HIDE DEF e
  <2>4. view' \in [Sources \cup Consumers -> States]
    BY <2>1, <2>2, <2>3, ViewStep
  <2>5. in' \in [Consumers -> Seq(Events)]
    BY <2>1, <2>2, <2>3 DEF TypeOK
  <2> QED BY <1>1, <2>4, <2>5 DEF WorkerApply, TypeOK
<1>2. CASE ComeBack(n)
  <2>1. <<NodeGatheredInfo(n)>> \in Seq(Events)
    BY EventFacts, OneEvent DEF Plain
  <2>2. out' \in [Sources -> Seq(Events)]
    BY <1>0, <1>2, <2>1, SendType DEF ComeBack
  <2> QED BY <1>2, <2>2 DEF ComeBack, TypeOK
<1>3. ASSUME NEW i \in Instances, KillRunner(n, i)
      PROVE  TypeOK'
  <2>1. [sup[i][n] EXCEPT !.up = FALSE] \in Supervisors
    BY <1>0 DEF Supervisors
  <2>2. sup' = [sup EXCEPT ![i][n] = [sup[i][n] EXCEPT !.up = FALSE]]
    BY <1>3 DEF KillRunner, TypeOK
  <2>3. sup' \in [Instances -> [Nodes -> Supervisors]]
    BY <2>1, <2>2, SupervisorStep
  <2> QED BY <1>3, <2>3 DEF KillRunner, TypeOK
<1>4. ASSUME NEW i \in Instances, Die(n, i)
      PROVE  TypeOK'
  <2>1. [sup[i][n] EXCEPT !.up = FALSE] \in Supervisors
    BY <1>0 DEF Supervisors
  <2>2. sup' = [sup EXCEPT ![i][n] = [sup[i][n] EXCEPT !.up = FALSE]]
    BY <1>4 DEF Die, TypeOK
  <2>3. sup' \in [Instances -> [Nodes -> Supervisors]]
    BY <2>1, <2>2, SupervisorStep
  <2>4. sup[i][n].progress \in SUBSET Commands
    BY <1>0 DEF Supervisors
  <2>5. Errors(n, i) \in Seq(Events)
    BY <2>4, FiniteReports, PlainEvents DEF Errors
  <2>6. out' \in [Sources -> Seq(Events)]
    BY <1>0, <1>4, <2>5, SendType DEF Die
  <2>7. setup' \in Circumstances
    BY <1>4, SetupType DEF Die
  <2> QED BY <1>4, <2>3, <2>6, <2>7 DEF Die, TypeOK
<1>5. ASSUME NEW i \in Instances, NEW c \in Commands, CancelTask(n, i, c)
      PROVE  TypeOK'
  <2> DEFINE s == [sup[i][n] EXCEPT !.cancelled = @ \cup {c},
                                    !.told = IF c \in sup[i][n].completed THEN @ ELSE @ \cup {c}]
  <2>1. s \in Supervisors
    BY <1>0 DEF Supervisors
  <2>2. sup' = [sup EXCEPT ![i][n] = s]
    BY <1>0, <1>5 DEF CancelTask, TypeOK, Supervisors
  <2> HIDE DEF s
  <2>3. sup' \in [Instances -> [Nodes -> Supervisors]]
    BY <2>1, <2>2, SupervisorStep
  <2> QED BY <1>5, <2>3 DEF CancelTask, TypeOK
<1>6. ASSUME NEW i \in Instances, NEW c \in Commands, StartTask(n, i, c)
      PROVE  TypeOK'
  <2> DEFINE s == [sup[i][n] EXCEPT !.progress = @ \cup {c}, !.active = @ \cup {c}]
  <2>1. s \in Supervisors
    BY <1>0 DEF Supervisors
  <2>2. sup' = [sup EXCEPT ![i][n] = s]
    <3>1. sup' = [sup EXCEPT ![i][n].progress = @ \cup {c}, ![i][n].active = @ \cup {c}]
      BY <1>6 DEF StartTask
    <3>2. sup[i][n] \in Supervisors /\ sup \in [Instances -> [Nodes -> Supervisors]]
      BY <1>0 DEF TypeOK
    <3> QED BY <3>1, <3>2 DEF Supervisors
  <2> HIDE DEF s
  <2>3. sup' \in [Instances -> [Nodes -> Supervisors]]
    BY <2>1, <2>2, SupervisorStep
  <2>4. <<TaskStatusUpdated(c, "Running")>> \in Seq(Events)
    BY EventFacts, OneEvent DEF Plain, TaskStatuses
  <2>5. out' \in [Sources -> Seq(Events)]
    <3>1. UNCHANGED out \/ Send(n, <<TaskStatusUpdated(c, "Running")>>)
      BY <1>6 DEF StartTask
    <3> QED BY <1>0, <2>4, <3>1, SendType DEF TypeOK
  <2> QED BY <1>6, <2>3, <2>5 DEF StartTask, TypeOK
<1>7. ASSUME NEW i \in Instances, NEW c \in Commands, Finish(n, i, c)
      PROVE  TypeOK'
  <2>1. Completed(sup[i][n], c) \in Supervisors
    BY <1>0 DEF Completed, Supervisors
  <2>2. sup' = [sup EXCEPT ![i][n] = Completed(sup[i][n], c)]
    BY <1>7 DEF Finish, TypeOK
  <2>3. sup' \in [Instances -> [Nodes -> Supervisors]]
    BY <2>1, <2>2, SupervisorStep
  <2>4. <<TaskStatusUpdated(c, "Complete")>> \in Seq(Events)
    BY EventFacts, OneEvent DEF Plain, TaskStatuses
  <2>5. out' \in [Sources -> Seq(Events)]
    BY <1>0, <1>7, <2>4, SendType DEF Finish
  <2> QED BY <1>7, <2>3, <2>5 DEF Finish, TypeOK
<1>8. ASSUME NEW i \in Instances, NEW c \in Commands, DropCancelled(n, i, c)
      PROVE  TypeOK'
  <2>1. [sup[i][n] EXCEPT !.active = @ \ {c}] \in Supervisors
    BY <1>0 DEF Supervisors
  <2>2. sup' = [sup EXCEPT ![i][n] = [sup[i][n] EXCEPT !.active = @ \ {c}]]
    BY <1>8 DEF DropCancelled, TypeOK
  <2>3. sup' \in [Instances -> [Nodes -> Supervisors]]
    BY <2>1, <2>2, SupervisorStep
  <2> QED BY <1>8, <2>3 DEF DropCancelled, TypeOK
<1> QED BY <1>1, <1>2, <1>3, <1>4, <1>5, <1>6, <1>7, <1>8 DEF WorkerStep

LEMMA TypeRanks ==
  ASSUME TypeOK, NEW i \in Placed, Revive(i) \/ \E c \in Commands : Answer(i, c)
  PROVE  TypeOK'
<1>1. CASE Revive(i)
  <2>1. NewSupervisor \in Supervisors
    BY DEF NewSupervisor, Supervisors
  <2>2. i \in Instances
    BY DEF Placed
  <2>3. sup[i] \in [Nodes -> Supervisors]
    BY <2>2 DEF TypeOK
  <2>4. sup' = [sup EXCEPT ![i] = [n \in Nodes |-> IF n \in Hosts(i) THEN NewSupervisor ELSE sup[i][n]]]
    BY <1>1, <2>2 DEF Revive, TypeOK
  <2>5. [n \in Nodes |-> IF n \in Hosts(i) THEN NewSupervisor ELSE sup[i][n]] \in [Nodes -> Supervisors]
    BY <2>1, <2>3
  <2>6. sup' \in [Instances -> [Nodes -> Supervisors]]
    BY <2>2, <2>4, <2>5 DEF TypeOK
  <2> QED BY <1>1, <2>6 DEF Revive, TypeOK
<1>2. ASSUME NEW c \in Commands, Answer(i, c)
      PROVE  TypeOK'
  <2>1. setup.hosts[i][1] \in Sources
    BY HostsFacts DEF Sources
  <2>2. <<ChunkGenerated(c, "final")>> \in Seq(Events)
    BY EventFacts, OneEvent DEF Plain
  <2>3. out' \in [Sources -> Seq(Events)]
    BY <1>2, <2>1, <2>2, SendType DEF Answer
  <2> QED BY <1>2, <2>3 DEF Answer, TypeOK
<1> QED BY <1>1, <1>2

-----------------------------------------------------------------------------
(* The way of the commands.                                                 *)
Has(w, o) == \E i \in 1 .. Len(w) : w[i] = o

Generate(c) == Command("Generate", c)

TaskFinished(c) == Command("TaskFinished", c)

(* A request is sent once, and reported finished after that.                *)
InOrder(w, c) ==
  \A i, j \in 1 .. Len(w) : w[i] = Generate(c) =>
    /\ w[j] = Generate(c) => i = j
    /\ w[j] = TaskFinished(c) => i < j

LEMMA CommandFacts ==
  /\ \A c, d : Generate(c) # TaskFinished(d)
  /\ \A c, d : Generate(c) = Generate(d) => c = d
  /\ \A c, d : TaskFinished(c) = TaskFinished(d) => c = d
  /\ \A c, d : Command("TaskCancelled", d) \notin {Generate(c), TaskFinished(c)}
  /\ \A c, i : Command("DeleteInstance", i) \notin {Generate(c), TaskFinished(c)}
<1>1. /\ \A c, d : Generate(c) # TaskFinished(d)
      /\ \A c, d : Generate(c) = Generate(d) => c = d
      /\ \A c, d : TaskFinished(c) = TaskFinished(d) => c = d
  BY DEF Generate, TaskFinished, Command
<1>2. /\ \A c, d : Command("TaskCancelled", d) \notin {Generate(c), TaskFinished(c)}
      /\ \A c, i : Command("DeleteInstance", i) \notin {Generate(c), TaskFinished(c)}
  BY DEF Generate, TaskFinished, Command
<1> QED BY <1>1, <1>2

LEMMA OrderIs ==
  ASSUME NEW o \in Orders, NEW c
  PROVE  /\ o.kind = "Generate" => o = Generate(o.of)
         /\ o.kind = "TaskFinished" => o = TaskFinished(o.of)
         /\ o = Generate(c) => o.kind = "Generate" /\ o.of = c
         /\ o = TaskFinished(c) => o.kind = "TaskFinished" /\ o.of = c
BY DEF Orders, Generate, TaskFinished, Command

LEMMA AppendOrder ==
  ASSUME NEW w \in Seq(Orders), NEW o \in Orders
  PROVE  \A p : Has(Append(w, o), p) <=> Has(w, p) \/ o = p
<1>1. PICK n \in Nat : n = Len(w)
  OBVIOUS
<1> DEFINE t == Append(w, o)
<1>2. Len(t) = n + 1 /\ t[n + 1] = o /\ \A i \in 1 .. n : t[i] = w[i]
  BY <1>1
<1> HIDE DEF t
<1>3. 1 .. (n + 1) = (1 .. n) \cup {n + 1} /\ \A i \in 1 .. n : i < n + 1
  OBVIOUS
<1>4. \A p : Has(t, p) <=> Has(w, p) \/ o = p
  BY <1>1, <1>2, <1>3 DEF Has
<1> QED BY <1>4 DEF t

LEMMA AppendInOrder ==
  ASSUME NEW w \in Seq(Orders), NEW o \in Orders, NEW c, InOrder(w, c),
         o = Generate(c) => ~Has(w, Generate(c)) /\ ~Has(w, TaskFinished(c))
  PROVE  InOrder(Append(w, o), c)
<1>1. PICK n \in Nat : n = Len(w)
  OBVIOUS
<1> DEFINE t == Append(w, o)
<1>2. Len(t) = n + 1 /\ t[n + 1] = o /\ \A i \in 1 .. n : t[i] = w[i]
  BY <1>1
<1> HIDE DEF t
<1>3. 1 .. (n + 1) = (1 .. n) \cup {n + 1} /\ \A i \in 1 .. n : i < n + 1
  OBVIOUS
<1> SUFFICES ASSUME NEW i \in 1 .. (n + 1), NEW j \in 1 .. (n + 1), t[i] = Generate(c)
             PROVE  /\ t[j] = Generate(c) => i = j
                    /\ t[j] = TaskFinished(c) => i < j
  BY <1>2 DEF InOrder, t
<1>4. CASE i \in 1 .. n /\ j \in 1 .. n
  BY <1>1, <1>2, <1>4 DEF InOrder
<1>5. CASE i \in 1 .. n /\ j = n + 1
  <2>1. Has(w, Generate(c)) /\ t[j] = o
    BY <1>1, <1>2, <1>5 DEF Has
  <2> QED BY <1>3, <1>5, <2>1
<1>6. CASE i = n + 1 /\ j \in 1 .. n
  <2>1. ~Has(w, Generate(c)) /\ ~Has(w, TaskFinished(c))
    BY <1>2, <1>6
  <2> QED BY <1>1, <1>2, <1>6, <2>1 DEF Has
<1>7. CASE i = n + 1 /\ j = n + 1
  BY <1>7, CommandFacts
<1> QED BY <1>3, <1>4, <1>5, <1>6, <1>7

(* What is left when the first command is read.                             *)
TailInOrder(w, c) ==
  /\ InOrder(Tail(w), c)
  /\ Head(w) = Generate(c) => ~Has(Tail(w), Generate(c))
  /\ Head(w) = TaskFinished(c) => ~Has(w, Generate(c))

LEMMA TailOrder ==
  ASSUME NEW w \in Seq(Orders), w # <<>>
  PROVE  /\ \A p : Has(w, p) <=> Has(Tail(w), p) \/ Head(w) = p
         /\ \A c : InOrder(w, c) => TailInOrder(w, c)
<1>1. PICK n \in Nat : n + 1 = Len(w)
  <2>1. Len(w) \in Nat /\ Len(w) # 0
    OBVIOUS
  <2>2. Len(w) - 1 \in Nat /\ (Len(w) - 1) + 1 = Len(w)
    BY <2>1
  <2> QED BY <2>2
<1> DEFINE t == Tail(w)
<1>2. Len(t) = n /\ w[1] = Head(w) /\ \A i \in 1 .. n : t[i] = w[i + 1]
  BY <1>1
<1> HIDE DEF t
<1>3. /\ 1 \in 1 .. (n + 1)
      /\ \A i \in 1 .. n : i + 1 \in 1 .. (n + 1) /\ i + 1 # 1
      /\ \A i \in 1 .. (n + 1) : i = 1 \/ \E k \in 1 .. n : i = k + 1
      /\ \A i \in 1 .. (n + 1) : ~(i < 1)
      /\ \A i, j \in 1 .. n : (i + 1 = j + 1 => i = j) /\ (i + 1 < j + 1 => i < j)
  <2>1. \A i \in 1 .. (n + 1) : i # 1 => i - 1 \in 1 .. n /\ i = (i - 1) + 1
    OBVIOUS
  <2>2. /\ \A i \in 1 .. n : i + 1 \in 1 .. (n + 1) /\ i + 1 # 1
        /\ \A i \in 1 .. (n + 1) : ~(i < 1)
        /\ \A i, j \in 1 .. n : (i + 1 = j + 1 => i = j) /\ (i + 1 < j + 1 => i < j)
    OBVIOUS
  <2> QED BY <2>1, <2>2
<1>4. \A p : Has(w, p) <=> Has(t, p) \/ Head(w) = p
  <2>1. ASSUME NEW p, NEW i \in 1 .. (n + 1), w[i] = p, i # 1
        PROVE  \E k \in 1 .. n : t[k] = p
    <3>1. PICK k \in 1 .. n : i = k + 1
      BY <1>3, <2>1
    <3> QED BY <1>2, <2>1, <3>1
  <2>2. ASSUME NEW p, NEW k \in 1 .. n, t[k] = p
        PROVE  k + 1 \in 1 .. (n + 1) /\ w[k + 1] = p
    BY <1>2, <1>3, <2>2
  <2> QED BY <1>1, <1>2, <1>3, <2>1, <2>2 DEF Has
<1>5. ASSUME NEW c, InOrder(w, c)
      PROVE  /\ InOrder(t, c)
             /\ Head(w) = Generate(c) => ~Has(t, Generate(c))
             /\ Head(w) = TaskFinished(c) => ~Has(w, Generate(c))
  <2>0. \A i, j \in 1 .. (n + 1) : w[i] = Generate(c) =>
          (w[j] = Generate(c) => i = j) /\ (w[j] = TaskFinished(c) => i < j)
    BY <1>1, <1>5 DEF InOrder
  <2>1. InOrder(t, c)
    <3> SUFFICES ASSUME NEW i \in 1 .. n, NEW j \in 1 .. n, t[i] = Generate(c)
                 PROVE  /\ t[j] = Generate(c) => i = j
                        /\ t[j] = TaskFinished(c) => i < j
      BY <1>2 DEF InOrder
    <3>1. /\ i + 1 \in 1 .. (n + 1) /\ j + 1 \in 1 .. (n + 1)
          /\ t[i] = w[i + 1] /\ t[j] = w[j + 1]
      BY <1>2, <1>3
    <3> QED BY <1>3, <2>0, <3>1
  <2>2. ASSUME Head(w) = Generate(c), Has(t, Generate(c))
        PROVE  FALSE
    <3>1. PICK k \in 1 .. n : t[k] = Generate(c)
      BY <1>2, <2>2 DEF Has
    <3>2. k + 1 \in 1 .. (n + 1) /\ w[k + 1] = Generate(c) /\ w[1] = Generate(c) /\ k + 1 # 1
      BY <1>2, <1>3, <2>2, <3>1
    <3> QED BY <1>3, <2>0, <3>2
  <2>3. ASSUME Head(w) = TaskFinished(c), Has(w, Generate(c))
        PROVE  FALSE
    <3>1. PICK i \in 1 .. (n + 1) : w[i] = Generate(c)
      BY <1>1, <2>3 DEF Has
    <3> QED BY <1>2, <1>3, <2>0, <2>3, <3>1
  <2> QED BY <2>1, <2>2, <2>3
<1> QED BY <1>4, <1>5 DEF t, TailInOrder

-----------------------------------------------------------------------------
(* The invariant.                                                          *)
Ended == Outcomes \ {"left"}

Sends(c) == Has(wire, Generate(c))

Reports(c) == Has(wire, TaskFinished(c))

(* A request is sent at most once, and is reported finished when it has      *)
(* ended, after it was sent.                                               *)
WireInv(c) ==
  /\ InOrder(wire, c)
  /\ client[c] = "new" => ~Sends(c)
  /\ Reports(c) => client[c] \in Ended

(* The master has not heard of the request, and nobody knows of a task.      *)
Waiting(c) == client[c] = "new" \/ Sends(c)

NotYet(c) ==
  /\ c \notin mapping
  /\ ~Begins(out[Master], c)
  /\ \A k \in Consumers : ~Begins(in[k], c)
  /\ \A k \in Sources \cup Consumers : view[k].tasks[c] = NoTask

(* Whatever there is of the task, its end is on the way to it.               *)
Over(c) ==
  /\ ~Undone(out[Master], c)
  /\ view[Master].tasks[c] # NoTask => Ends(out[Master], c)
  /\ \A k \in Consumers :
       /\ Undone(in[k], c) => Ends(out[Master], c)
       /\ view[k].tasks[c] # NoTask => Ends(in[k], c) \/ Ends(out[Master], c)

TaskInv(c) ==
  /\ Waiting(c) => NotYet(c)
  /\ c \notin mapping => Over(c)
  /\ client[c] \in Ended /\ (Waiting(c) \/ c \in mapping) => Reports(c)

(* Only the master makes tasks and ends them.                               *)
NodesInv == \A n \in Nodes : out[n] \in Seq(Plain)

(* Who hosts nothing is told nothing.                                       *)
Hears(k) == k = Api \/ \E i \in Placed : k \in Hosts(i)

HearInv ==
  \A k \in Consumers : ~Hears(k) =>
    in[k] = <<>> /\ \A c \in Commands : view[k].tasks[c] = NoTask

RequestInv ==
  /\ \A c \in Commands : WireInv(c) /\ TaskInv(c)
  /\ NodesInv
  /\ HearInv

LEMMA Places ==
  /\ Master \in Sources /\ Master \notin Nodes /\ Master \notin Consumers
  /\ Nodes \subseteq Sources /\ Nodes \subseteq Consumers /\ Api \in Consumers
  /\ \A s \in Sources : s = Master \/ s \in Nodes
BY SetupsAssumption DEF Sources, Consumers, Master, Api

LEMMA RequestInit == Init => RequestInv
<1> SUFFICES ASSUME Init PROVE RequestInv
  OBVIOUS
<1>1. /\ \A s \in Sources : out[s] = <<>>
      /\ \A k \in Consumers : in[k] = <<>>
      /\ \A k \in Sources \cup Consumers : \A c \in Commands : view[k].tasks[c] = NoTask
      /\ \A c \in Commands : client[c] = "new"
      /\ mapping = {} /\ wire = <<>>
  BY DEF Init
<1>2. \A o : ~Has(wire, o)
  BY <1>1 DEF Has
<1>3. ASSUME NEW c \in Commands
      PROVE  WireInv(c) /\ TaskInv(c)
  <2>1. WireInv(c)
    BY <1>1, <1>2 DEF WireInv, InOrder, Sends, Reports
  <2>2. NotYet(c) /\ Over(c)
    BY <1>1, EmptyLine, Places DEF NotYet, Over
  <2>3. client[c] \notin Ended
    BY <1>1 DEF Ended, Outcomes
  <2> QED BY <2>1, <2>2, <2>3 DEF TaskInv
<1>4. NodesInv
  <2>1. \A n \in Nodes : out[n] = <<>>
    BY <1>1, Places
  <2>2. <<>> \in Seq(Plain)
    OBVIOUS
  <2> QED BY <2>1, <2>2 DEF NodesInv
<1>5. HearInv
  BY <1>1 DEF HearInv
<1> QED BY <1>3, <1>4, <1>5 DEF RequestInv

LEMMA HearingKeeps ==
  ASSUME setup'.hosts = setup.hosts, NEW k
  PROVE  Hears(k)' <=> Hears(k)
<1>1. Placed' = Placed /\ \A i : Hosts(i)' = Hosts(i)
  BY DEF Placed, Hosts
<1> QED BY <1>1 DEF Hears

(* Reports of what happens to a task neither make it nor end it.             *)
LEMMA PlainKeeps ==
  ASSUME TypeOK, RequestInv, setup'.hosts = setup.hosts,
         UNCHANGED <<client, wire, mapping, in, view>>,
         UNCHANGED out \/ \E s \in Sources : \E t \in Seq(Plain) : Send(s, t)
  PROVE  RequestInv'
<1>1. /\ \A c : Begins(out[Master], c)' <=> Begins(out[Master], c)
      /\ \A c : Ends(out[Master], c)' <=> Ends(out[Master], c)
      /\ \A c : Undone(out[Master], c)' <=> Undone(out[Master], c)
      /\ NodesInv'
  <2>1. CASE UNCHANGED out
    BY <2>1 DEF RequestInv, NodesInv
  <2>2. ASSUME NEW s \in Sources, NEW t \in Seq(Plain), Send(s, t)
        PROVE  /\ \A c : Begins(out[Master], c)' <=> Begins(out[Master], c)
               /\ \A c : Ends(out[Master], c)' <=> Ends(out[Master], c)
               /\ \A c : Undone(out[Master], c)' <=> Undone(out[Master], c)
               /\ NodesInv'
    <3>1. out[s] \in Seq(Events) /\ out[Master] \in Seq(Events)
      BY Places DEF TypeOK
    <3>2. out'[s] = out[s] \o t /\ \A r \in Sources : r # s => out'[r] = out[r]
      BY <2>2 DEF Send, TypeOK
    <3>3. CASE s = Master
      <4>1. PICK a \in Seq(Events) : a = out[s]
        BY <3>1
      <4>2. ASSUME NEW c
            PROVE  /\ Begins(a \o t, c) <=> Begins(a, c)
                   /\ Ends(a \o t, c) <=> Ends(a, c)
                   /\ Undone(a \o t, c) <=> Undone(a, c)
        BY PlainLine
      <4>3. out[Master] = a /\ out'[Master] = a \o t
        BY <3>2, <3>3, <4>1
      <4>4. NodesInv'
        BY <3>2, <3>3, Places DEF RequestInv, NodesInv
      <4>5. ASSUME NEW c
            PROVE  /\ Begins(out[Master], c)' <=> Begins(out[Master], c)
                   /\ Ends(out[Master], c)' <=> Ends(out[Master], c)
                   /\ Undone(out[Master], c)' <=> Undone(out[Master], c)
        BY <4>2, <4>3
      <4> QED BY <4>4, <4>5
    <3>4. CASE s \in Nodes
      <4>1. out'[Master] = out[Master]
        BY <3>2, <3>4, Places
      <4>2. out[s] \o t \in Seq(Plain)
        BY <3>4 DEF RequestInv, NodesInv
      <4>3. NodesInv'
        BY <3>2, <4>2, Places DEF RequestInv, NodesInv
      <4> QED BY <4>1, <4>3
    <3> QED BY <3>3, <3>4, Places
  <2> QED BY <2>1, <2>2
<1>2. ASSUME NEW c \in Commands
      PROVE  WireInv(c)' /\ TaskInv(c)'
  <2>1. WireInv(c) /\ TaskInv(c)
    BY DEF RequestInv
  <2>2. WireInv(c)' /\ (Waiting(c)' <=> Waiting(c)) /\ (Reports(c)' <=> Reports(c))
    BY <2>1 DEF WireInv, Waiting, Reports, Sends
  <2>3. (NotYet(c)' <=> NotYet(c)) /\ (Over(c)' <=> Over(c))
    BY <1>1 DEF NotYet, Over
  <2> QED BY <2>1, <2>2, <2>3 DEF TaskInv
<1>3. HearInv'
  BY HearingKeeps DEF RequestInv, HearInv
<1> QED BY <1>1, <1>2, <1>3 DEF RequestInv

LEMMA ReportStep ==
  ASSUME TypeOK, RequestInv,
         \/ \E i \in Instances : KillInstance(i)
         \/ \E n \in Nodes : TimeOut(n)
         \/ \E n \in Nodes : \/ ComeBack(n)
                             \/ \E i \in Instances : KillRunner(n, i) \/ Die(n, i)
                             \/ \E i \in Instances : \E c \in Commands :
                                  \/ CancelTask(n, i, c) \/ StartTask(n, i, c)
                                  \/ Finish(n, i, c) \/ DropCancelled(n, i, c)
         \/ \E i \in Placed : Revive(i) \/ \E c \in Commands : Answer(i, c)
  PROVE  RequestInv'
<1>1. ASSUME NEW i \in Instances, KillInstance(i)
      PROVE  RequestInv'
  <2>1. <<InstanceDeleted(i)>> \in Seq(Plain)
    BY EventFacts, OneEvent
  <2>2. Send(Master, <<InstanceDeleted(i)>>) /\ UNCHANGED <<setup, client, wire, mapping, in, view>>
    BY <1>1 DEF KillInstance
  <2> QED BY <2>1, <2>2, PlainKeeps, Places
<1>2. ASSUME NEW n \in Nodes, TimeOut(n)
      PROVE  RequestInv'
  <2>1. <<NodeTimedOut(n)>> \in Seq(Plain)
    BY EventFacts, OneEvent
  <2>2. Send(Master, <<NodeTimedOut(n)>>) /\ UNCHANGED <<client, wire, mapping, in, view>>
    BY <1>2 DEF TimeOut
  <2>3. setup'.hosts = setup.hosts
    BY <1>2 DEF TimeOut, TypeOK, Circumstances
  <2> QED BY <2>1, <2>2, <2>3, PlainKeeps, Places
<1>3. ASSUME NEW n \in Nodes, ComeBack(n)
      PROVE  RequestInv'
  <2>1. <<NodeGatheredInfo(n)>> \in Seq(Plain)
    BY EventFacts, OneEvent
  <2>2. Send(n, <<NodeGatheredInfo(n)>>) /\ UNCHANGED <<setup, client, wire, mapping, in, view>>
    BY <1>3 DEF ComeBack
  <2> QED BY <2>1, <2>2, PlainKeeps, Places
<1>4. ASSUME NEW n \in Nodes, NEW i \in Instances, KillRunner(n, i)
      PROVE  RequestInv'
  BY <1>4, PlainKeeps DEF KillRunner
<1>5. ASSUME NEW n \in Nodes, NEW i \in Instances, Die(n, i)
      PROVE  RequestInv'
  <2>1. sup[i][n].progress \in SUBSET Commands
    BY DEF TypeOK, Supervisors
  <2>2. Errors(n, i) \in Seq(Plain)
    BY <2>1, FiniteReports DEF Errors
  <2>3. Send(n, Errors(n, i)) /\ UNCHANGED <<client, wire, mapping, in, view>>
    BY <1>5 DEF Die
  <2>4. setup'.hosts = setup.hosts
    BY <1>5 DEF Die, TypeOK, Circumstances
  <2> QED BY <2>2, <2>3, <2>4, PlainKeeps, Places
<1>6. ASSUME NEW n \in Nodes, NEW i \in Instances, NEW c \in Commands,
             CancelTask(n, i, c) \/ DropCancelled(n, i, c)
      PROVE  RequestInv'
  BY <1>6, PlainKeeps DEF CancelTask, DropCancelled
<1>7. ASSUME NEW n \in Nodes, NEW i \in Instances, NEW c \in Commands,
             StartTask(n, i, c) \/ Finish(n, i, c)
      PROVE  RequestInv'
  <2>1. /\ <<TaskStatusUpdated(c, "Running")>> \in Seq(Plain)
        /\ <<TaskStatusUpdated(c, "Complete")>> \in Seq(Plain)
    BY EventFacts, OneEvent DEF TaskStatuses
  <2>2. /\ UNCHANGED <<setup, client, wire, mapping, in, view>>
        /\ \/ UNCHANGED out
           \/ Send(n, <<TaskStatusUpdated(c, "Running")>>)
           \/ Send(n, <<TaskStatusUpdated(c, "Complete")>>)
    BY <1>7 DEF StartTask, Finish
  <2> QED BY <2>1, <2>2, PlainKeeps, Places
<1>8. ASSUME NEW i \in Placed, Revive(i)
      PROVE  RequestInv'
  BY <1>8, PlainKeeps DEF Revive
<1>9. ASSUME NEW i \in Placed, NEW c \in Commands, Answer(i, c)
      PROVE  RequestInv'
  <2>1. <<ChunkGenerated(c, "final")>> \in Seq(Plain)
    BY EventFacts, OneEvent
  <2>2. setup.hosts[i][1] \in Sources
    BY HostsFacts, Places
  <2>3. /\ Send(setup.hosts[i][1], <<ChunkGenerated(c, "final")>>)
        /\ UNCHANGED <<setup, client, wire, mapping, in, view>>
    BY <1>9 DEF Answer
  <2> QED BY <2>1, <2>2, <2>3, PlainKeeps
<1> QED BY <1>1, <1>2, <1>3, <1>4, <1>5, <1>6, <1>7, <1>8, <1>9

-----------------------------------------------------------------------------
(* What is kept of a line that neither makes a task nor ends one.            *)
LEMMA LinesKeep ==
  ASSUME RequestInv, setup'.hosts = setup.hosts, UNCHANGED <<mapping, out, in, view>>,
         \A c \in Commands :
           /\ WireInv(c)'
           /\ Waiting(c)' => Waiting(c)
           /\ Reports(c) => Reports(c)'
           /\ client'[c] \in Ended => client[c] \in Ended \/ Reports(c)'
  PROVE  RequestInv'
<1>1. ASSUME NEW c \in Commands
      PROVE  TaskInv(c)'
  <2>1. TaskInv(c)
    BY DEF RequestInv
  <2>2. (NotYet(c)' <=> NotYet(c)) /\ (Over(c)' <=> Over(c))
    BY DEF NotYet, Over
  <2> QED BY <2>1, <2>2 DEF TaskInv
<1>2. NodesInv' /\ HearInv'
  BY HearingKeeps DEF RequestInv, NodesInv, HearInv
<1> QED BY <1>1, <1>2 DEF RequestInv

(* A command that is sent while the request of c goes on as before, or, for  *)
(* its own request, as the API has it go on.                                *)
LEMMA OrderSent ==
  ASSUME TypeOK, RequestInv, NEW o \in Orders, wire' = Append(wire, o), NEW c \in Commands,
         o = Generate(c) => client[c] = "new" /\ client'[c] = "sent",
         o = TaskFinished(c) => client'[c] \in Ended,
         o \notin {Generate(c), TaskFinished(c)} =>
           client'[c] = client[c] \/ (client[c] = "open" /\ client'[c] = "left")
  PROVE  /\ WireInv(c)'
         /\ Waiting(c)' => Waiting(c)
         /\ Reports(c) => Reports(c)'
         /\ client'[c] \in Ended => client[c] \in Ended \/ Reports(c)'
<1>1. wire \in Seq(Orders) /\ WireInv(c)
  BY DEF TypeOK, RequestInv
<1>2. /\ Sends(c)' <=> Sends(c) \/ o = Generate(c)
      /\ Reports(c)' <=> Reports(c) \/ o = TaskFinished(c)
  BY <1>1, AppendOrder DEF Sends, Reports
<1>3. "new" \notin Ended /\ "sent" \notin Ended /\ "left" \notin Ended /\ "open" \notin Ended
  BY DEF Ended, Outcomes
<1>4. o = Generate(c) => ~Sends(c) /\ ~Reports(c)
  BY <1>1, <1>3 DEF WireInv
<1>5. InOrder(wire, c)'
  <2>1. /\ InOrder(wire, c)
        /\ o = Generate(c) => ~Has(wire, Generate(c)) /\ ~Has(wire, TaskFinished(c))
    BY <1>1, <1>4 DEF WireInv, Sends, Reports
  <2>2. PICK w \in Seq(Orders) : w = wire
    BY <1>1
  <2>3. InOrder(Append(w, o), c)
    BY <2>1, <2>2, AppendInOrder
  <2> QED BY <2>1, <2>2, <2>3
<1>6. Generate(c) # TaskFinished(c)
  BY CommandFacts
<1>7. client'[c] = "new" => client[c] = "new" /\ o # Generate(c)
  BY <1>3
<1>8. WireInv(c)'
  <2>1. (client[c] = "new" => ~Sends(c))' /\ (Reports(c) => client[c] \in Ended)'
    BY <1>1, <1>2, <1>3, <1>4, <1>6, <1>7 DEF WireInv
  <2> QED BY <1>5, <2>1 DEF WireInv
<1>9. Waiting(c)' => Waiting(c)
  BY <1>2, <1>7 DEF Waiting
<1> QED BY <1>2, <1>3, <1>8, <1>9

LEMMA ClientStep ==
  ASSUME TypeOK, RequestInv,
         \/ \E c \in Commands : \/ TextRequest(c) \/ ImageRequest(c) \/ Register(c) \/ Read(c)
                               \/ CancelCommand(c) \/ Leave(c)
         \/ \E i \in Instances : DeleteInstance(i)
  PROVE  RequestInv'
<1>0. client \in [Commands -> {"new", "sent", "open"} \cup Outcomes]
  BY DEF TypeOK
<1>1. ASSUME NEW c \in Commands, TextRequest(c) \/ ImageRequest(c)
      PROVE  RequestInv'
  <2>1. Accept(c)
    BY <1>1 DEF TextRequest, ImageRequest
  <2>2. /\ wire' = Append(wire, Generate(c)) /\ Generate(c) \in Orders
        /\ client[c] = "new" /\ client'[c] = "sent"
        /\ \A d \in Commands : d # c => client'[d] = client[d]
        /\ UNCHANGED <<setup, mapping, out, in, view>>
    BY <1>0, <2>1, OrderFacts DEF Accept, Generate
  <2>3. \A d \in Commands : /\ Generate(c) = Generate(d) => c = d
                           /\ Generate(c) # TaskFinished(d)
    BY CommandFacts
  <2> QED BY <2>2, <2>3, OrderSent, LinesKeep
<1>2. ASSUME NEW c \in Commands, Register(c)
      PROVE  RequestInv'
  <2>1. /\ client[c] = "sent" /\ client'[c] = "open"
        /\ \A d \in Commands : d # c => client'[d] = client[d]
        /\ UNCHANGED <<setup, wire, mapping, out, in, view>>
    BY <1>0, <1>2 DEF Register
  <2>2. ASSUME NEW d \in Commands
        PROVE  /\ WireInv(d)'
               /\ Waiting(d)' => Waiting(d)
               /\ Reports(d) => Reports(d)'
               /\ client'[d] \in Ended => client[d] \in Ended \/ Reports(d)'
    <3>1. (Sends(d)' <=> Sends(d)) /\ (Reports(d)' <=> Reports(d)) /\ (InOrder(wire, d)' <=> InOrder(wire, d))
      BY <2>1 DEF Sends, Reports
    <3>2. "sent" \notin Ended /\ "open" \notin Ended
      BY DEF Ended, Outcomes
    <3>3. WireInv(d)
      BY DEF RequestInv
    <3> QED BY <2>1, <3>1, <3>2, <3>3 DEF WireInv, Waiting
  <2> QED BY <2>1, <2>2, LinesKeep
<1>3. ASSUME NEW c \in Commands, wire' = Append(wire, TaskFinished(c)), client'[c] \in Ended,
             \A d \in Commands : d # c => client'[d] = client[d],
             UNCHANGED <<setup, mapping, out, in, view>>
      PROVE  RequestInv'
  <2>1. TaskFinished(c) \in Orders
    BY OrderFacts DEF TaskFinished
  <2>2. \A d \in Commands : /\ TaskFinished(c) = TaskFinished(d) => c = d
                           /\ TaskFinished(c) # Generate(d)
    BY CommandFacts
  <2> QED BY <1>3, <2>1, <2>2, OrderSent, LinesKeep
<1>4. ASSUME NEW c \in Commands, Read(c)
      PROVE  RequestInv'
  <2>1. Head(stream[c]) \in {"final", "error", "end"}
    BY <1>4 DEF Read, TypeOK
  <2>2. client'[c] \in Ended /\ \A d \in Commands : d # c => client'[d] = client[d]
    BY <1>0, <1>4, <2>1 DEF Read, Ended, Outcomes
  <2>3. wire' = Append(wire, TaskFinished(c)) /\ UNCHANGED <<setup, mapping, out, in, view>>
    BY <1>4 DEF Read, TaskFinished
  <2> QED BY <1>3, <2>2, <2>3
<1>5. ASSUME NEW o \in Orders, \A d \in Commands : o \notin {Generate(d), TaskFinished(d)},
             wire' = Append(wire, o),
             \A d \in Commands : client'[d] = client[d] \/ (client[d] = "open" /\ client'[d] = "left"),
             setup'.hosts = setup.hosts, UNCHANGED <<mapping, out, in, view>>
      PROVE  RequestInv'
  BY <1>5, OrderSent, LinesKeep
<1>6. ASSUME NEW c \in Commands, CancelCommand(c)
      PROVE  RequestInv'
  <2>1. /\ Command("TaskCancelled", c) \in Orders
        /\ \A d \in Commands : Command("TaskCancelled", c) \notin {Generate(d), TaskFinished(d)}
    BY OrderFacts, CommandFacts
  <2>2. wire' = Append(wire, Command("TaskCancelled", c)) /\ UNCHANGED <<setup, client, mapping, out, in, view>>
    BY <1>6 DEF CancelCommand
  <2> QED BY <1>5, <2>1, <2>2
<1>7. ASSUME NEW c \in Commands, Leave(c)
      PROVE  RequestInv'
  <2>1. CASE client' = [client EXCEPT ![c] = "left"] /\ wire' = Append(wire, Command("TaskCancelled", c))
    <3>1. /\ Command("TaskCancelled", c) \in Orders
          /\ \A d \in Commands : Command("TaskCancelled", c) \notin {Generate(d), TaskFinished(d)}
      BY OrderFacts, CommandFacts
    <3>2. /\ \A d \in Commands : client'[d] = client[d] \/ (client[d] = "open" /\ client'[d] = "left")
          /\ UNCHANGED <<setup, mapping, out, in, view>>
      BY <1>0, <1>7, <2>1 DEF Leave
    <3> QED BY <1>5, <2>1, <3>1, <3>2
  <2>2. CASE client' = [client EXCEPT ![c] = "gone"] /\ wire' = Append(wire, TaskFinished(c))
    <3>1. client'[c] \in Ended /\ \A d \in Commands : d # c => client'[d] = client[d]
      BY <1>0, <2>2 DEF Ended, Outcomes
    <3>2. UNCHANGED <<setup, mapping, out, in, view>>
      BY <1>7 DEF Leave
    <3> QED BY <1>3, <2>2, <3>1, <3>2
  <2> QED BY <1>7, <2>1, <2>2 DEF Leave, TaskFinished
<1>8. ASSUME NEW i \in Instances, DeleteInstance(i)
      PROVE  RequestInv'
  <2>1. /\ Command("DeleteInstance", i) \in Orders
        /\ \A d \in Commands : Command("DeleteInstance", i) \notin {Generate(d), TaskFinished(d)}
    BY OrderFacts, CommandFacts
  <2>2. wire' = Append(wire, Command("DeleteInstance", i)) /\ UNCHANGED <<client, mapping, out, in, view>>
    BY <1>8 DEF DeleteInstance
  <2>3. setup'.hosts = setup.hosts
    BY <1>8 DEF DeleteInstance, TypeOK, Circumstances
  <2> QED BY <1>5, <2>1, <2>2, <2>3
<1> QED BY <1>1, <1>2, <1>4, <1>6, <1>7, <1>8

-----------------------------------------------------------------------------
(* The master's commands.                                                   *)

LEMMA WireTail ==
  ASSUME TypeOK, RequestInv, wire # <<>>, wire' = Tail(wire), UNCHANGED client,
         NEW c \in Commands
  PROVE  /\ WireInv(c)'
         /\ Sends(c) <=> Sends(c)' \/ Head(wire) = Generate(c)
         /\ Reports(c) <=> Reports(c)' \/ Head(wire) = TaskFinished(c)
         /\ Head(wire) = Generate(c) => ~Waiting(c)' /\ Waiting(c)
         /\ Head(wire) = TaskFinished(c) => ~Waiting(c)
<1>1. PICK w \in Seq(Orders) : w = wire
  BY DEF TypeOK
<1>2. \A p : Has(w, p) <=> Has(Tail(w), p) \/ Head(w) = p
  BY <1>1, TailOrder
<1>3. \A d : InOrder(w, d) => TailInOrder(w, d)
  BY <1>1, TailOrder
<1>4. WireInv(c) /\ InOrder(w, c)
  BY <1>1 DEF RequestInv, WireInv
<1>5. /\ Sends(c) <=> Sends(c)' \/ Head(wire) = Generate(c)
      /\ Reports(c) <=> Reports(c)' \/ Head(wire) = TaskFinished(c)
  <2>1. (Sends(c)' <=> Has(Tail(w), Generate(c))) /\ (Reports(c)' <=> Has(Tail(w), TaskFinished(c)))
    BY <1>1 DEF Sends, Reports
  <2> QED BY <1>1, <1>2, <2>1 DEF Sends, Reports
<1>6. InOrder(wire, c)'
  <2>1. InOrder(Tail(w), c)
    BY <1>3, <1>4 DEF TailInOrder
  <2> QED BY <1>1, <2>1
<1>7. WireInv(c)'
  <2>1. (client[c] = "new" => ~Sends(c))' /\ (Reports(c) => client[c] \in Ended)'
    BY <1>4, <1>5 DEF WireInv
  <2> QED BY <1>6, <2>1 DEF WireInv
<1>8. Head(wire) = Generate(c) => ~Waiting(c)' /\ Waiting(c)
  <2> SUFFICES ASSUME Head(wire) = Generate(c) PROVE ~Waiting(c)' /\ Waiting(c)
    OBVIOUS
  <2>1. Sends(c) /\ ~Sends(c)'
    BY <1>1, <1>3, <1>4, <1>5 DEF Sends, TailInOrder
  <2> QED BY <1>4, <2>1 DEF Waiting, WireInv
<1>9. Head(wire) = TaskFinished(c) => ~Waiting(c)
  <2> SUFFICES ASSUME Head(wire) = TaskFinished(c) PROVE ~Waiting(c)
    OBVIOUS
  <2>1. ~Sends(c) /\ Reports(c)
    BY <1>1, <1>3, <1>4, <1>5 DEF Sends, TailInOrder
  <2>2. "new" \notin Ended
    BY DEF Ended, Outcomes
  <2> QED BY <1>4, <2>1, <2>2 DEF Waiting, WireInv
<1> QED BY <1>5, <1>7, <1>8, <1>9

(* What one line of the master becomes by an event about a task.             *)
LEMMA MasterLine ==
  ASSUME TypeOK, NEW e \in Events, Send(Master, <<e>>), NEW c
  PROVE  /\ Begins(out[Master], c)' <=> Begins(out[Master], c) \/ Creates(e, c)
         /\ Ends(out[Master], c)' <=> Ends(out[Master], c) \/ Deletes(e, c)
         /\ Undone(out[Master], c)' <=> Creates(e, c) \/ (Undone(out[Master], c) /\ ~Deletes(e, c))
         /\ \A n \in Nodes : out'[n] = out[n]
<1>1. PICK a \in Seq(Events) : a = out[Master]
  BY Places DEF TypeOK
<1>2. out' = [out EXCEPT ![Master] = out[Master] \o <<e>>]
  BY DEF Send
<1>3. out'[Master] = a \o <<e>> /\ \A n \in Nodes : out'[n] = out[n]
  BY <1>1, <1>2, Places DEF TypeOK
<1>4. a \o <<e>> = Append(a, e)
  BY <1>1
<1>5. /\ Begins(Append(a, e), c) <=> Begins(a, c) \/ Creates(e, c)
      /\ Ends(Append(a, e), c) <=> Ends(a, c) \/ Deletes(e, c)
      /\ Undone(Append(a, e), c) <=> Creates(e, c) \/ (Undone(a, c) /\ ~Deletes(e, c))
  BY AppendLine
<1>6. out'[Master] = Append(a, e)
  BY <1>3, <1>4
<1> QED BY <1>1, <1>3, <1>5, <1>6

LEMMA CommandStep ==
  ASSUME TypeOK, RequestInv, CommandProcessor
  PROVE  RequestInv'
<1>1. /\ wire # <<>> /\ wire' = Tail(wire)
      /\ UNCHANGED <<setup, client, kind, registered, stream, api, in, view, sup, answered>>
  BY CommandWrites
<1>2. Head(wire) \in Orders
  BY <1>1, WireHead
<1>3. HearInv'
  BY <1>1, HearingKeeps DEF RequestInv, HearInv
<1>4. ASSUME NEW c \in Commands
      PROVE  /\ WireInv(c)'
             /\ Sends(c) <=> Sends(c)' \/ Head(wire) = Generate(c)
             /\ Reports(c) <=> Reports(c)' \/ Head(wire) = TaskFinished(c)
             /\ Waiting(c)' => Waiting(c)
             /\ Head(wire) = Generate(c) => ~Waiting(c)' /\ Waiting(c)
             /\ Head(wire) = TaskFinished(c) => ~Waiting(c)
  BY <1>1, WireTail DEF Waiting
<1>5. \A c \in Commands : TaskInv(c)
  BY DEF RequestInv
<1>6. \A c \in Commands : Generate(c) # TaskFinished(c)
  BY CommandFacts
<1>7. CASE UNCHANGED out /\ UNCHANGED mapping /\ Head(wire).kind # "TaskFinished"
  <2>1. ASSUME NEW c \in Commands
        PROVE  TaskInv(c)'
    <3>1. (NotYet(c)' <=> NotYet(c)) /\ (Over(c)' <=> Over(c))
      BY <1>1, <1>7 DEF NotYet, Over
    <3>2. Head(wire) # TaskFinished(c)
      BY <1>2, <1>7, OrderIs
    <3> QED BY <1>1, <1>4, <1>5, <1>7, <3>1, <3>2 DEF TaskInv
  <2>2. NodesInv'
    BY <1>7 DEF RequestInv, NodesInv
  <2> QED BY <1>3, <1>4, <2>1, <2>2 DEF RequestInv
<1>8. ASSUME Head(wire).kind = "Generate", mapping' = mapping \cup {Head(wire).of},
             NEW i \in Instances, Send(Master, <<TaskCreated(Head(wire).of, i)>>)
      PROVE  RequestInv'
  <2> DEFINE d == Head(wire).of
  <2>1. d \in Commands /\ Head(wire) = Generate(d)
    BY <1>2, <1>8, OrderKinds, OrderIs
  <2>2. /\ TaskCreated(d, i) \in Events
        /\ \A c : (Creates(TaskCreated(d, i), c) <=> c = d) /\ ~Deletes(TaskCreated(d, i), c)
    BY <2>1, EventFacts DEF TaskCreated, Event, Creates, Deletes
  <2>3. PICK e \in Events : e = TaskCreated(d, i)
    BY <2>2
  <2>4. Send(Master, <<e>>)
    BY <1>8, <2>3
  <2>5. NodesInv'
    BY <2>4, MasterLine DEF RequestInv, NodesInv
  <2>6. ASSUME NEW c \in Commands
        PROVE  TaskInv(c)'
    <3>1. CASE c = d
      <4>1. ~Waiting(c)' /\ Waiting(c) /\ c \in mapping'
        BY <1>4, <1>8, <2>1, <3>1
      <4>2. client[c] \in Ended => Reports(c)
        BY <1>5, <4>1 DEF TaskInv
      <4>3. Reports(c) <=> Reports(c)'
        BY <1>4, <1>6, <2>1, <3>1
      <4> QED BY <1>1, <4>1, <4>2, <4>3 DEF TaskInv
    <3>2. CASE c # d
      <4>1. /\ Begins(out[Master], c)' <=> Begins(out[Master], c)
            /\ Ends(out[Master], c)' <=> Ends(out[Master], c)
            /\ Undone(out[Master], c)' <=> Undone(out[Master], c)
        BY <2>2, <2>3, <2>4, <3>2, MasterLine
      <4>2. c \in mapping' <=> c \in mapping
        BY <1>8, <3>2
      <4>3. (NotYet(c)' <=> NotYet(c)) /\ (Over(c)' <=> Over(c))
        BY <1>1, <4>1, <4>2 DEF NotYet, Over
      <4>4. Head(wire) # TaskFinished(c)
        BY <2>1, CommandFacts
      <4> QED BY <1>1, <1>4, <1>5, <4>2, <4>3, <4>4 DEF TaskInv
    <3> QED BY <3>1, <3>2
  <2> QED BY <1>3, <1>4, <2>5, <2>6 DEF RequestInv
<1>9. ASSUME Head(wire).kind = "TaskFinished", mapping' = mapping \ {Head(wire).of},
             \/ Head(wire).of \notin mapping /\ UNCHANGED out
             \/ Send(Master, <<TaskDeleted(Head(wire).of)>>)
      PROVE  RequestInv'
  <2> DEFINE d == Head(wire).of
  <2>1. d \in Commands /\ Head(wire) = TaskFinished(d)
    BY <1>2, <1>9, OrderKinds, OrderIs
  <2>2. /\ TaskDeleted(d) \in Events
        /\ \A c : (Deletes(TaskDeleted(d), c) <=> c = d) /\ ~Creates(TaskDeleted(d), c)
    BY <2>1, EventFacts DEF TaskDeleted, Event, Creates, Deletes
  <2>3. PICK e \in Events : e = TaskDeleted(d)
    BY <2>2
  <2>4. (UNCHANGED out /\ d \notin mapping) \/ Send(Master, <<e>>)
    BY <1>9, <2>3
  <2>5. NodesInv'
    <3>1. \A n \in Nodes : out'[n] = out[n]
      BY <2>4, MasterLine
    <3> QED BY <3>1 DEF RequestInv, NodesInv
  <2>6. ASSUME NEW c \in Commands
        PROVE  TaskInv(c)'
    <3>1. CASE c = d
      <4>1. ~Waiting(c)' /\ c \notin mapping'
        BY <1>4, <1>9, <2>1, <3>1
      <4>2. Over(c)'
        <5>1. CASE UNCHANGED out /\ d \notin mapping
          <6>1. Over(c)
            BY <1>5, <3>1, <5>1 DEF TaskInv
          <6> QED BY <1>1, <5>1, <6>1 DEF Over
        <5>2. CASE Send(Master, <<e>>)
          <6>1. ~Undone(out[Master], c)' /\ Ends(out[Master], c)'
            BY <2>2, <2>3, <3>1, <5>2, MasterLine
          <6> QED BY <1>1, <6>1 DEF Over
        <5> QED BY <2>4, <5>1, <5>2
      <4> QED BY <4>1, <4>2 DEF TaskInv
    <3>2. CASE c # d
      <4>1. /\ Begins(out[Master], c)' <=> Begins(out[Master], c)
            /\ Ends(out[Master], c)' <=> Ends(out[Master], c)
            /\ Undone(out[Master], c)' <=> Undone(out[Master], c)
        <5>1. CASE UNCHANGED out
          BY <5>1 DEF Begins, Ends, Undone
        <5>2. CASE Send(Master, <<e>>)
          BY <2>2, <2>3, <3>2, <5>2, MasterLine
        <5> QED BY <2>4, <5>1, <5>2
      <4>2. c \in mapping' <=> c \in mapping
        BY <1>9, <3>2
      <4>3. (NotYet(c)' <=> NotYet(c)) /\ (Over(c)' <=> Over(c))
        BY <1>1, <4>1, <4>2 DEF NotYet, Over
      <4>4. Head(wire) # TaskFinished(c)
        BY <2>1, <3>2, CommandFacts
      <4> QED BY <1>1, <1>4, <1>5, <4>2, <4>3, <4>4 DEF TaskInv
    <3> QED BY <3>1, <3>2
  <2> QED BY <1>3, <1>4, <2>5, <2>6 DEF RequestInv
<1>10. ASSUME Head(wire).kind \in {"TaskCancelled", "DeleteInstance"}, UNCHANGED mapping,
              NEW t \in Seq(Plain), Send(Master, t)
       PROVE  RequestInv'
  <2>1. PICK a \in Seq(Events) : a = out[Master]
    BY Places DEF TypeOK
  <2>2. out'[Master] = a \o t /\ \A n \in Nodes : out'[n] = out[n]
    BY <1>10, <2>1, Places DEF Send, TypeOK
  <2>3. NodesInv'
    BY <2>2 DEF RequestInv, NodesInv
  <2>4. ASSUME NEW c \in Commands
        PROVE  TaskInv(c)'
    <3>1. /\ Begins(a \o t, c) <=> Begins(a, c)
          /\ Ends(a \o t, c) <=> Ends(a, c)
          /\ Undone(a \o t, c) <=> Undone(a, c)
      BY PlainLine
    <3>2. /\ Begins(out[Master], c)' <=> Begins(out[Master], c)
          /\ Ends(out[Master], c)' <=> Ends(out[Master], c)
          /\ Undone(out[Master], c)' <=> Undone(out[Master], c)
      BY <2>1, <2>2, <3>1
    <3>3. (NotYet(c)' <=> NotYet(c)) /\ (Over(c)' <=> Over(c))
      BY <1>1, <1>10, <3>2 DEF NotYet, Over
    <3>4. Head(wire) # TaskFinished(c)
      BY <1>2, <1>10, OrderIs
    <3> QED BY <1>1, <1>4, <1>5, <1>10, <3>3, <3>4 DEF TaskInv
  <2> QED BY <1>3, <1>4, <2>3, <2>4 DEF RequestInv
<1> QED BY <1>7, <1>8, <1>9, <1>10, CommandWrites

-----------------------------------------------------------------------------
(* The log.                                                                *)

LEMMA TailFacts ==
  ASSUME NEW s \in Seq(Events), s # <<>>, NEW c
  PROVE  /\ Begins(Tail(s), c) => Begins(s, c)
         /\ Creates(Head(s), c) => Begins(s, c)
         /\ Ends(s, c) => Ends(Tail(s), c) \/ Deletes(Head(s), c)
         /\ Undone(Tail(s), c) => Undone(s, c)
         /\ Creates(Head(s), c) => Undone(s, c) \/ Ends(Tail(s), c)
         /\ ~(Creates(Head(s), c) /\ Deletes(Head(s), c))
BY TailLine DEF Creates, Deletes

LEMMA IndexStep ==
  ASSUME TypeOK, RequestInv, NEW s \in Sources, Index(s)
  PROVE  RequestInv'
<1> DEFINE e == Head(out[s])
<1>1. /\ out[s] # <<>> /\ out' = [out EXCEPT ![s] = Tail(@)]
      /\ view' = [view EXCEPT ![Master] = EventApply(@, e)]
      /\ in' = [k \in Consumers |-> IF ReactsTo(k, e) THEN Append(in[k], e) ELSE in[k]]
      /\ UNCHANGED <<setup, client, wire, mapping>>
  BY DEF Index
<1>2. PICK a \in Seq(Events) : a = out[s]
  BY DEF TypeOK
<1>3. /\ e \in Events /\ a # <<>> /\ e = Head(a) /\ out'[s] = Tail(a)
      /\ \A r \in Sources : r # s => out'[r] = out[r]
  BY <1>1, <1>2 DEF TypeOK
<1> HIDE DEF e
<1>4. PICK f \in Events : f = e
  BY <1>3
<1>5. view' = [view EXCEPT ![Master] = EventApply(@, f)]
  BY <1>1, <1>4
<1>6. /\ \A k \in Consumers : view'[k] = view[k]
      /\ \A c \in Commands : view'[Master].tasks[c] # NoTask =>
           Creates(f, c) \/ (view[Master].tasks[c] # NoTask /\ ~Deletes(f, c))
  BY <1>5, ViewStep, Places
<1>7. NodesInv'
  <2> SUFFICES ASSUME NEW n \in Nodes PROVE out'[n] \in Seq(Plain)
    BY DEF NodesInv
  <2>1. out[n] \in Seq(Plain)
    BY DEF RequestInv, NodesInv
  <2>2. CASE n = s
    <3>1. out'[n] = Tail(a) /\ a \in Seq(Plain) /\ a # <<>>
      BY <1>2, <1>3, <2>1, <2>2
    <3> QED BY <3>1
  <2>3. CASE n # s
    BY <1>3, <2>1, <2>3, Places
  <2> QED BY <2>2, <2>3
<1>8. s = Master \/ \A c : ~Creates(f, c) /\ ~Deletes(f, c)
  <2>1. CASE s \in Nodes
    <3>1. a \in Seq(Plain)
      BY <1>2, <2>1 DEF RequestInv, NodesInv
    <3>2. f \in Plain
      BY <1>3, <1>4, <3>1
    <3> QED BY <3>2 DEF Plain, Creates, Deletes
  <2> QED BY <2>1, Places
(* What is left of the master's line, and what is added to those of others.  *)
<1>9. ASSUME NEW c
      PROVE  /\ Begins(out[Master], c)' => Begins(out[Master], c)
             /\ Undone(out[Master], c)' => Undone(out[Master], c)
             /\ Ends(out[Master], c) => Ends(out[Master], c)' \/ Deletes(f, c)
             /\ Creates(f, c) => Begins(out[Master], c)
             /\ Creates(f, c) => Undone(out[Master], c) \/ Ends(out[Master], c)'
             /\ ~(Creates(f, c) /\ Deletes(f, c))
  <2>1. CASE s = Master
    <3>1. out[Master] = a /\ out'[Master] = Tail(a) /\ f = Head(a)
      BY <1>2, <1>3, <1>4, <2>1
    <3>2. /\ Begins(Tail(a), c) => Begins(a, c)
          /\ Creates(Head(a), c) => Begins(a, c)
          /\ Ends(a, c) => Ends(Tail(a), c) \/ Deletes(Head(a), c)
          /\ Undone(Tail(a), c) => Undone(a, c)
          /\ Creates(Head(a), c) => Undone(a, c) \/ Ends(Tail(a), c)
          /\ ~(Creates(Head(a), c) /\ Deletes(Head(a), c))
      BY <1>3, TailFacts
    <3> QED BY <3>1, <3>2
  <2>2. CASE s # Master
    <3>1. out'[Master] = out[Master] /\ ~Creates(f, c) /\ ~Deletes(f, c)
      BY <1>3, <1>8, <2>2, Places
    <3> QED BY <3>1
  <2> QED BY <2>1, <2>2
<1>10. ASSUME NEW k \in Consumers, NEW c
       PROVE  \/ /\ Begins(in[k], c)' <=> Begins(in[k], c) \/ Creates(f, c)
                 /\ Ends(in[k], c)' <=> Ends(in[k], c) \/ Deletes(f, c)
                 /\ Undone(in[k], c)' <=> Creates(f, c) \/ (Undone(in[k], c) /\ ~Deletes(f, c))
              \/ in'[k] = <<>>
  <2>1. PICK b \in Seq(Events) : b = in[k]
    BY DEF TypeOK
  <2>2. CASE ReactsTo(k, e)
    <3>1. in'[k] = Append(b, f)
      BY <1>1, <1>4, <2>1, <2>2
    <3>2. /\ Begins(Append(b, f), c) <=> Begins(b, c) \/ Creates(f, c)
          /\ Ends(Append(b, f), c) <=> Ends(b, c) \/ Deletes(f, c)
          /\ Undone(Append(b, f), c) <=> Creates(f, c) \/ (Undone(b, c) /\ ~Deletes(f, c))
      BY AppendLine
    <3> QED BY <2>1, <3>1, <3>2
  <2>3. CASE ~ReactsTo(k, e) /\ Hears(k)
    <3>1. ~Creates(f, c) /\ ~Deletes(f, c)
      BY <1>4, <2>3 DEF ReactsTo, Hears, Creates, Deletes
    <3>2. in'[k] = in[k]
      BY <1>1, <2>3
    <3> QED BY <3>1, <3>2
  <2>4. CASE ~Hears(k)
    <3>1. in[k] = <<>> /\ ~ReactsTo(k, e)
      BY <2>4 DEF RequestInv, HearInv, ReactsTo, Hears
    <3>2. in'[k] = <<>>
      BY <1>1, <3>1
    <3> QED BY <3>2
  <2> QED BY <2>2, <2>3, <2>4
<1>11. HearInv'
  <2> SUFFICES ASSUME NEW k \in Consumers, ~Hears(k)'
               PROVE  in'[k] = <<>> /\ \A c \in Commands : view'[k].tasks[c] = NoTask
    BY DEF HearInv
  <2>1. ~Hears(k)
    BY <1>1, HearingKeeps
  <2>2. in[k] = <<>> /\ \A c \in Commands : view[k].tasks[c] = NoTask
    BY <2>1 DEF RequestInv, HearInv
  <2>3. ~ReactsTo(k, e)
    BY <2>1 DEF ReactsTo, Hears
  <2> QED BY <1>1, <1>6, <2>2, <2>3
<1>12. ASSUME NEW c \in Commands
       PROVE  WireInv(c)' /\ TaskInv(c)'
  <2>1. WireInv(c) /\ TaskInv(c)
    BY DEF RequestInv
  <2>2. WireInv(c)' /\ (Waiting(c)' <=> Waiting(c)) /\ (Reports(c)' <=> Reports(c))
    BY <1>1, <2>1 DEF WireInv, Waiting, Reports, Sends
  <2>3. ASSUME NotYet(c)
        PROVE  NotYet(c)'
    <3>1. c \notin mapping' /\ ~Begins(out[Master], c)' /\ ~Creates(f, c)
      BY <1>1, <1>9, <2>3 DEF NotYet
    <3>2. ASSUME NEW k \in Consumers
          PROVE  ~Begins(in[k], c)' /\ view'[k].tasks[c] = NoTask
      <4>1. ~Begins(in[k], c) /\ view[k].tasks[c] = NoTask
        BY <2>3 DEF NotYet
      <4>2. CASE in'[k] = <<>>
        BY <1>6, <4>1, <4>2, EmptyLine
      <4> QED BY <1>6, <1>10, <3>1, <4>1, <4>2
    <3>3. view'[Master].tasks[c] = NoTask
      BY <1>6, <2>3, <3>1, Places DEF NotYet
    <3>4. \A k \in Sources \cup Consumers : k = Master \/ k \in Consumers
      BY Places
    <3> QED BY <3>1, <3>2, <3>3, <3>4 DEF NotYet
  <2>4. ASSUME Over(c)
        PROVE  Over(c)'
    <3>1. ~Undone(out[Master], c)'
      BY <1>9, <2>4 DEF Over
    <3>2. view'[Master].tasks[c] # NoTask => Ends(out[Master], c)'
      BY <1>6, <1>9, <2>4 DEF Over
    <3>3. ASSUME NEW k \in Consumers
          PROVE  /\ Undone(in[k], c)' => Ends(out[Master], c)'
                 /\ view'[k].tasks[c] # NoTask => Ends(in[k], c)' \/ Ends(out[Master], c)'
      <4>1. /\ Undone(in[k], c) => Ends(out[Master], c)
            /\ view[k].tasks[c] # NoTask => Ends(in[k], c) \/ Ends(out[Master], c)
            /\ ~Undone(out[Master], c)
        BY <2>4 DEF Over
      <4>2. CASE /\ Begins(in[k], c)' <=> Begins(in[k], c) \/ Creates(f, c)
                 /\ Ends(in[k], c)' <=> Ends(in[k], c) \/ Deletes(f, c)
                 /\ Undone(in[k], c)' <=> Creates(f, c) \/ (Undone(in[k], c) /\ ~Deletes(f, c))
        BY <1>6, <1>9, <4>1, <4>2
      <4>3. CASE in'[k] = <<>>
        <5>1. ~Undone(in[k], c)'
          BY <4>3, EmptyLine
        <5>2. ~Hears(k) => view'[k].tasks[c] = NoTask
          BY <1>6 DEF RequestInv, HearInv
        <5>3. Hears(k) => in[k] = <<>> /\ ~Creates(f, c) /\ ~Deletes(f, c)
          <6> SUFFICES ASSUME Hears(k)
                       PROVE  in[k] = <<>> /\ ~Creates(f, c) /\ ~Deletes(f, c)
            OBVIOUS
          <6>1. ~ReactsTo(k, e)
            <7>1. in[k] \in Seq(Events) => Append(in[k], e) # <<>>
              OBVIOUS
            <7> QED BY <1>1, <4>3, <7>1 DEF TypeOK
          <6>2. in[k] = <<>>
            BY <1>1, <4>3, <6>1
          <6> QED BY <1>4, <6>1, <6>2 DEF ReactsTo, Hears, Creates, Deletes
        <5>4. Hears(k) /\ view'[k].tasks[c] # NoTask => Ends(out[Master], c)'
          <6>1. in[k] = <<>> => ~Ends(in[k], c)
            BY EmptyLine
          <6> QED BY <1>6, <1>9, <4>1, <5>3, <6>1
        <5> QED BY <5>1, <5>2, <5>4
      <4> QED BY <1>10, <4>2, <4>3
    <3> QED BY <3>1, <3>2, <3>3 DEF Over
  <2> QED BY <1>1, <2>1, <2>2, <2>3, <2>4 DEF TaskInv
<1> QED BY <1>7, <1>11, <1>12 DEF RequestInv

LEMMA ApplyStep ==
  ASSUME TypeOK, RequestInv, NEW k \in Consumers, in[k] # <<>>,
         in' = [in EXCEPT ![k] = Tail(@)],
         view' = [view EXCEPT ![k] = EventApply(@, Head(in[k]))],
         UNCHANGED <<setup, client, wire, mapping, out>>
  PROVE  RequestInv'
<1>1. PICK a \in Seq(Events) : a = in[k]
  BY DEF TypeOK
<1>2. PICK f \in Events : f = Head(a)
  BY <1>1
<1>3. /\ a # <<>> /\ in'[k] = Tail(a) /\ \A l \in Consumers : l # k => in'[l] = in[l]
      /\ view' = [view EXCEPT ![k] = EventApply(@, f)]
  BY <1>1, <1>2 DEF TypeOK
<1>4. /\ \A l \in Sources \cup Consumers : l # k => view'[l] = view[l]
      /\ \A c \in Commands : view'[k].tasks[c] # NoTask =>
           Creates(f, c) \/ (view[k].tasks[c] # NoTask /\ ~Deletes(f, c))
  BY <1>3, ViewStep
<1>5. ASSUME NEW c
      PROVE  /\ Begins(in[k], c)' => Begins(in[k], c)
             /\ Undone(in[k], c)' => Undone(in[k], c)
             /\ Ends(in[k], c) => Ends(in[k], c)' \/ Deletes(f, c)
             /\ Creates(f, c) => Begins(in[k], c)
             /\ Creates(f, c) => Undone(in[k], c) \/ Ends(in[k], c)'
  <2>1. /\ Begins(Tail(a), c) => Begins(a, c)
        /\ Creates(Head(a), c) => Begins(a, c)
        /\ Ends(a, c) => Ends(Tail(a), c) \/ Deletes(Head(a), c)
        /\ Undone(Tail(a), c) => Undone(a, c)
        /\ Creates(Head(a), c) => Undone(a, c) \/ Ends(Tail(a), c)
    BY <1>3, TailFacts
  <2> QED BY <1>1, <1>2, <1>3, <2>1
<1>6. NodesInv'
  BY DEF RequestInv, NodesInv
<1>7. Hears(k)
  BY DEF RequestInv, HearInv
<1>8. HearInv'
  <2> SUFFICES ASSUME NEW l \in Consumers, ~Hears(l)'
               PROVE  in'[l] = <<>> /\ \A c \in Commands : view'[l].tasks[c] = NoTask
    BY DEF HearInv
  <2>1. ~Hears(l) /\ l # k
    BY <1>7, HearingKeeps
  <2>2. in[l] = <<>> /\ \A c \in Commands : view[l].tasks[c] = NoTask
    BY <2>1 DEF RequestInv, HearInv
  <2> QED BY <1>3, <1>4, <2>1, <2>2
<1>9. k # Master
  BY Places
<1>10. ASSUME NEW c \in Commands
       PROVE  WireInv(c)' /\ TaskInv(c)'
  <2>1. WireInv(c) /\ TaskInv(c)
    BY DEF RequestInv
  <2>2. WireInv(c)' /\ (Waiting(c)' <=> Waiting(c)) /\ (Reports(c)' <=> Reports(c))
    BY <2>1 DEF WireInv, Waiting, Reports, Sends
  <2>3. /\ Begins(out[Master], c)' <=> Begins(out[Master], c)
        /\ Ends(out[Master], c)' <=> Ends(out[Master], c)
        /\ Undone(out[Master], c)' <=> Undone(out[Master], c)
    BY DEF Begins, Ends, Undone
  <2>4. ASSUME NEW l \in Consumers, l # k
        PROVE  /\ Begins(in[l], c)' <=> Begins(in[l], c)
               /\ Ends(in[l], c)' <=> Ends(in[l], c)
               /\ Undone(in[l], c)' <=> Undone(in[l], c)
               /\ view'[l] = view[l]
    <3>1. in'[l] = in[l] /\ view'[l] = view[l]
      BY <1>3, <1>4, <2>4
    <3> QED BY <3>1
  <2>5. ASSUME NotYet(c)
        PROVE  NotYet(c)'
    <3>1. c \notin mapping' /\ ~Begins(out[Master], c)'
      BY <2>3, <2>5 DEF NotYet
    <3>2. ~Begins(in[k], c)' /\ view'[k].tasks[c] = NoTask
      BY <1>4, <1>5, <2>5 DEF NotYet
    <3>3. \A l \in Consumers : ~Begins(in[l], c)'
      BY <2>4, <2>5, <3>2 DEF NotYet
    <3>4. \A l \in Sources \cup Consumers : view'[l].tasks[c] = NoTask
      BY <1>4, <2>5, <3>2 DEF NotYet
    <3> QED BY <3>1, <3>3, <3>4 DEF NotYet
  <2>6. ASSUME Over(c)
        PROVE  Over(c)'
    <3>1. ~Undone(out[Master], c)' /\ (view'[Master].tasks[c] # NoTask => Ends(out[Master], c)')
      BY <1>4, <1>9, <2>3, <2>6, Places DEF Over
    <3>2. /\ Undone(in[k], c)' => Ends(out[Master], c)'
          /\ view'[k].tasks[c] # NoTask => Ends(in[k], c)' \/ Ends(out[Master], c)'
      BY <1>4, <1>5, <2>3, <2>6 DEF Over
    <3>3. ASSUME NEW l \in Consumers
          PROVE  /\ Undone(in[l], c)' => Ends(out[Master], c)'
                 /\ view'[l].tasks[c] # NoTask => Ends(in[l], c)' \/ Ends(out[Master], c)'
      <4>1. CASE l = k
        BY <3>2, <4>1
      <4>2. CASE l # k
        BY <2>3, <2>4, <2>6, <4>2 DEF Over
      <4> QED BY <4>1, <4>2
    <3> QED BY <3>1, <3>3 DEF Over
  <2> QED BY <2>1, <2>2, <2>5, <2>6 DEF TaskInv
<1> QED BY <1>6, <1>8, <1>10 DEF RequestInv

-----------------------------------------------------------------------------
(* Every step is one of these.                                              *)
LEMMA RequestNext ==
  ASSUME TypeOK, RequestInv, [Next]_vars
  PROVE  TypeOK' /\ RequestInv'
<1>1. ASSUME NEW c \in Commands,
             Register(c) \/ Read(c) \/ TextRequest(c) \/ ImageRequest(c) \/ CancelCommand(c) \/ Leave(c)
      PROVE  TypeOK' /\ RequestInv'
  BY <1>1, TypeApi, ClientStep DEF ApiStep
<1>2. CASE ApiApply
  <2>1. /\ in[Api] # <<>> /\ in' = [in EXCEPT ![Api] = Tail(@)]
        /\ view' = [view EXCEPT ![Api] = EventApply(@, Head(in[Api]))]
        /\ UNCHANGED <<setup, client, wire, mapping, out>>
    BY <1>2 DEF ApiApply
  <2>2. RequestInv'
    BY <2>1, ApplyStep, Places
  <2> QED BY <1>2, <2>2, TypeApi DEF ApiStep
<1>3. CASE CommandProcessor
  BY <1>3, TypeMaster, CommandStep DEF MasterStep
<1>4. ASSUME NEW s \in Sources, Index(s)
      PROVE  TypeOK' /\ RequestInv'
  BY <1>4, TypeMaster, IndexStep DEF MasterStep
<1>5. ASSUME NEW i \in Instances, KillInstance(i)
      PROVE  TypeOK' /\ RequestInv'
  <2>1. TypeOK'
    BY <1>5, TypeMaster, Places DEF MasterStep
  <2>2. RequestInv'
    BY <1>5, ReportStep
  <2> QED BY <2>1, <2>2
<1>6. ASSUME NEW i \in Instances, DeleteInstance(i)
      PROVE  TypeOK' /\ RequestInv'
  BY <1>6, TypeMaster, ClientStep
<1>7. ASSUME NEW n \in Nodes, TimeOut(n)
      PROVE  TypeOK' /\ RequestInv'
  BY <1>7, TypeMaster, ReportStep
<1>8. ASSUME NEW n \in Nodes, WorkerApply(n)
      PROVE  RequestInv'
  <2>1. /\ in[n] # <<>> /\ in' = [in EXCEPT ![n] = Tail(@)]
        /\ view' = [view EXCEPT ![n] = EventApply(@, Head(in[n]))]
        /\ UNCHANGED <<setup, client, wire, mapping, out>>
    BY <1>8 DEF WorkerApply
  <2> QED BY <2>1, ApplyStep, Places
<1>9. ASSUME NEW n \in Nodes, WorkerStep(n) \/ \E i \in Instances : Die(n, i)
      PROVE  TypeOK' /\ RequestInv'
  <2>1. TypeOK'
    BY <1>9, TypeWorker
  <2>2. WorkerApply(n) \/ RequestInv'
    BY <1>9, ReportStep DEF WorkerStep
  <2> QED BY <1>8, <2>1, <2>2
<1>10. ASSUME NEW i \in Placed, Revive(i) \/ \E c \in Commands : Answer(i, c)
       PROVE  TypeOK' /\ RequestInv'
  BY <1>10, TypeRanks, ReportStep
<1>11. CASE UNCHANGED vars
  <2>1. TypeOK'
    BY <1>11 DEF vars, changing, TypeOK
  <2>2. RequestInv'
    BY <1>11, PlainKeeps DEF vars, changing
  <2> QED BY <2>1, <2>2
<1>12. CASE SystemStep
  BY <1>1, <1>2, <1>3, <1>4, <1>5, <1>9, <1>10, <1>12 DEF SystemStep, ApiStep, MasterStep
<1>13. CASE Disturbance
  BY <1>1, <1>6, <1>7, <1>9, <1>13 DEF Disturbance
<1> QED BY <1>11, <1>12, <1>13 DEF Next

LEMMA RequestAlways == Spec => [](TypeOK /\ RequestInv)
<1>1. Init => TypeOK /\ RequestInv
  BY TypeInit, RequestInit
<1>2. (TypeOK /\ RequestInv) /\ [Next]_vars => (TypeOK /\ RequestInv)'
  BY RequestNext
<1> QED BY <1>1, <1>2, PTL DEF Spec

(* Every variable of Requests keeps its type: what clients, the API, the     *)
(* master, the workers and their runners hold, and all that is under way     *)
(* between them.                                                           *)
THEOREM RequestTypes == Spec => []TypeOK
<1>1. TypeOK /\ RequestInv => TypeOK
  OBVIOUS
<1> QED BY <1>1, RequestAlways, PTL

(* Once everything that was sent has arrived, a response that has ended has  *)
(* left no task in any State, whatever was cancelled, deleted, timed out or   *)
(* dead on the way: command_task_mapping and the order of the log see to it   *)
(* that the end of a task follows its creation everywhere.                   *)
THEOREM NothingIsLeft == Spec => []EndedLeavesNothing
<1>1. ASSUME TypeOK, RequestInv
      PROVE  EndedLeavesNothing
  <2> SUFFICES ASSUME Settled, NEW c \in Commands, NEW k \in Sources \cup Consumers, client[c] \in Ended
               PROVE  view[k].tasks[c] = NoTask
    BY DEF EndedLeavesNothing, Ended
  <2>1. ~Reports(c)
    BY DEF Settled, Reports, Has
  <2>2. TaskInv(c)
    BY <1>1 DEF RequestInv
  <2>3. Over(c)
    BY <2>1, <2>2 DEF TaskInv
  <2>4. out[Master] = <<>> /\ \A l \in Consumers : in[l] = <<>>
    BY Places DEF Settled
  <2>5. ~Ends(out[Master], c) /\ \A l \in Consumers : ~Ends(in[l], c)
    BY <2>4, EmptyLine
  <2>6. k = Master \/ k \in Consumers
    BY Places
  <2> QED BY <2>3, <2>5, <2>6 DEF Over
<1>2. TypeOK /\ RequestInv => EndedLeavesNothing
  BY <1>1
<1> QED BY <1>2, RequestAlways, PTL

=============================================================================
