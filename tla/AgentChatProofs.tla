--------------------------- MODULE AgentChatProofs ---------------------------
(***************************************************************************)
(* Proofs about AgentChat, for any sessions, requests and scripts, and for *)
(* any limits on messages, inference, rounds, slots and restarts.          *)
(***************************************************************************)
EXTENDS AgentChat, FiniteSetTheorems, TLAPS

Working == {"taken", "begun", "waiting", "streaming", "failing", "closing", "left", "finished"}

InJob == {"queued"} \cup Working

Streamed(r) == KindOf(r) = "stream"

(* Which requests get where.                                               *)
KindFits(r, place) ==
  /\ place \in InJob \ {"begun", "waiting"} => Streamed(r)
  /\ place \in {"begun", "waiting"} => KindOf(r) \in {"stream", "chat"}
  /\ place = "answered" => KindOf(r) = "chat"

KindInv == \A r \in Request : KindFits(r, pc[r])

(* A job is in its session's queue once, or the session's worker is at it.  *)
QueueInv ==
  \A s \in Session :
    /\ \A i \in 1 .. Len(queue[s]) : Target(queue[s][i]) = s /\ pc[queue[s][i]] = "queued"
    /\ \A i, j \in 1 .. Len(queue[s]) : queue[s][i] = queue[s][j] => i = j
    /\ worker[s] # None =>
         Streamed(worker[s]) /\ Target(worker[s]) = s /\ pc[worker[s]] \in Working

JobInv ==
  \A r \in Request : Streamed(r) =>
    /\ pc[r] = "queued" => \E i \in 1 .. Len(queue[Target(r)]) : queue[Target(r)][i] = r
    /\ pc[r] \in Working => worker[Target(r)] = r

PendingInv ==
  \A s \in Session : \A r \in Request :
    r \in pending[s] <=> Streamed(r) /\ Target(r) = s /\ pc[r] \in InJob

ReaderInv ==
  \A r \in Request :
    /\ reader[r].state = "reading" => r \in done \/ (Streamed(r) /\ pc[r] \in InJob)
    /\ r \in done => pc[r] \in {"finished", "over"} /\ Streamed(r)
    /\ pc[r] = "finished" => r \in done

Jobbing == KindInv /\ QueueInv /\ JobInv /\ PendingInv /\ ReaderInv

-----------------------------------------------------------------------------
(* The steps that a request takes outside the queue, or within its work,    *)
(* leave the jobs alone.                                                   *)
Aside(r, b) ==
  /\ pc[r] \notin {"queued", "finished", "over"} /\ b \notin {"queued", "finished"}
  /\ Streamed(r) => (pc[r] \in Working <=> b \in Working)
  /\ KindFits(r, b)

LEMMA MoveKeeps ==
  ASSUME TypeOK, Jobbing, NEW r \in Request, NEW b, Goto(r, b), Aside(r, b),
         UNCHANGED <<script, queue, worker, pending, done, reader>>
  PROVE  Jobbing'
<1> USE DEF Aside
<1>1. /\ pc'[r] = b /\ \A q \in Request \ {r} : pc'[q] = pc[q]
  BY DEF Goto, TypeOK
<1>2. \A q \in Request : Streamed(q)' = Streamed(q) /\ Target(q)' = Target(q) /\ KindOf(q)' = KindOf(q)
  BY DEF Streamed, KindOf, Target
<1>3. /\ \A s \in Session : \A i \in 1 .. Len(queue[s]) : queue[s][i] \in Request
      /\ \A s \in Session : worker[s] # None => worker[s] \in Request
      /\ \A q \in Request : Target(q) \in Session
  BY ScriptsAssumption DEF TypeOK, Target, Call
<1>4. KindInv'
  BY <1>1, <1>2 DEF Jobbing, KindInv, KindFits
<1>5. QueueInv'
  <2> SUFFICES ASSUME NEW s \in Session
               PROVE  /\ \A i \in 1 .. Len(queue[s]) :
                           Target(queue[s][i]) = s /\ pc'[queue[s][i]] = "queued"
                      /\ \A i, j \in 1 .. Len(queue[s]) : queue[s][i] = queue[s][j] => i = j
                      /\ worker[s] # None => /\ Streamed(worker[s]) /\ Target(worker[s]) = s
                                             /\ pc'[worker[s]] \in Working
    BY DEF QueueInv, Streamed, KindOf, Target
  <2> QED BY <1>1, <1>3 DEF Jobbing, QueueInv
<1>6. JobInv'
  BY <1>1, <1>2, <1>3 DEF Jobbing, JobInv
<1>7. PendingInv'
  BY <1>1, <1>2 DEF Jobbing, PendingInv, InJob
<1>8. ReaderInv'
  BY <1>1, <1>2 DEF Jobbing, ReaderInv, InJob
<1> QED BY <1>4, <1>5, <1>6, <1>7, <1>8 DEF Jobbing

(* No step changes what the requests are.                                  *)
LEMMA ScriptStays ==
  ASSUME Next
  PROVE  UNCHANGED script
<1>1. ASSUME NEW r \in Request, Handle(r) PROVE UNCHANGED script
  BY <1>1
  DEF Handle, Admit, Reserve, Store, WantTitle, AutoTitle, Enqueue, CheckPending, Delete, Update,
      WriteModel, Resize, Count, Create, FindSlot, TakeSlot, ChatContext, ChatEnds, ChatAnswer
<1>2. ASSUME NEW r \in Request, Work(r) PROVE UNCHANGED script
  BY <1>2
  DEF Work, Begin, Delta, Persist, ToolRound, Answered, Fails, Failing, Closing, Finish, Settle
<1> QED BY <1>1, <1>2 DEF Next, Read, Take, Restart

LEMMA JobStep ==
  ASSUME TypeOK, Jobbing, Next
  PROVE  Jobbing'
<1>a. \A q \in Request : KindFits(q, pc[q]) /\ Target(q) \in Session
  BY ScriptsAssumption DEF Jobbing, KindInv, TypeOK, Target, Call
<1> USE DEF At
<1>1. ASSUME NEW r \in Request, Admit(r) PROVE Jobbing'
  <2>1. PICK b \in {"refused", "admitted"} : Goto(r, b)
    BY <1>1 DEF Admit, Goto
  <2>2. Aside(r, b) /\ UNCHANGED <<script, queue, worker, pending, done, reader>>
    BY <1>1, <1>a, <2>1
    DEF Admit, Goto, TypeOK, Aside, KindFits, Streamed, Working, InJob, jobVars
  <2> QED BY <2>1, <2>2, MoveKeeps
<1>2. ASSUME NEW r \in Request, Reserve(r) PROVE Jobbing'
  <2>1. PICK b \in {"reserved", "refused"} : Goto(r, b)
    BY <1>2 DEF Reserve, Goto
  <2>2. Aside(r, b) /\ UNCHANGED <<script, queue, worker, pending, done, reader>>
    BY <1>2, <1>a, <2>1
    DEF Reserve, Goto, TypeOK, Aside, KindFits, Streamed, Working, InJob, jobVars
  <2> QED BY <2>1, <2>2, MoveKeeps
<1>3. ASSUME NEW r \in Request, Store(r) PROVE Jobbing'
  <2>1. PICK b \in {"refused", "stored"} : Goto(r, b)
    BY <1>3 DEF Store, Goto
  <2>2. Aside(r, b) /\ UNCHANGED <<script, queue, worker, pending, done, reader>>
    BY <1>3, <1>a, <2>1
    DEF Store, Goto, TypeOK, Aside, KindFits, Streamed, Working, InJob, jobVars
  <2> QED BY <2>1, <2>2, MoveKeeps
<1>4. ASSUME NEW r \in Request, WantTitle(r) PROVE Jobbing'
  <2>1. PICK b \in {"titling", "ready"} : Goto(r, b)
    BY <1>4 DEF WantTitle, Goto
  <2>2. Aside(r, b) /\ UNCHANGED <<script, queue, worker, pending, done, reader>>
    BY <1>4, <1>a, <2>1
    DEF WantTitle, Goto, TypeOK, Aside, KindFits, Streamed, Working, InJob, jobVars
  <2> QED BY <2>1, <2>2, MoveKeeps
<1>5. ASSUME NEW r \in Request, AutoTitle(r) PROVE Jobbing'
  <2>1. PICK b \in {"refused", "ready"} : Goto(r, b)
    BY <1>5 DEF AutoTitle, Goto
  <2>2. Aside(r, b) /\ UNCHANGED <<script, queue, worker, pending, done, reader>>
    BY <1>5, <1>a, <2>1
    DEF AutoTitle, Goto, TypeOK, Aside, KindFits, Streamed, Working, InJob, jobVars
  <2> QED BY <2>1, <2>2, MoveKeeps
<1>6. ASSUME NEW r \in Request, CheckPending(r) PROVE Jobbing'
  <2>1. PICK b \in {"refused", "checked"} : Goto(r, b)
    BY <1>6 DEF CheckPending, Goto
  <2>2. Aside(r, b) /\ UNCHANGED <<script, queue, worker, pending, done, reader>>
    BY <1>6, <1>a, <2>1
    DEF CheckPending, Goto, TypeOK, Aside, KindFits, Streamed, Working, InJob, jobVars
  <2> QED BY <2>1, <2>2, MoveKeeps
<1>7. ASSUME NEW r \in Request, Delete(r) PROVE Jobbing'
  <2>1. PICK b \in {"over", "refused"} : Goto(r, b)
    BY <1>7 DEF Delete, Goto
  <2>2. Aside(r, b) /\ UNCHANGED <<script, queue, worker, pending, done, reader>>
    BY <1>7, <1>a, <2>1
    DEF Delete, Goto, TypeOK, Aside, KindFits, Streamed, Working, InJob, jobVars
  <2> QED BY <2>1, <2>2, MoveKeeps
<1>8. ASSUME NEW r \in Request, Update(r) PROVE Jobbing'
  <2>1. PICK b \in {"refused", "over", "writing"} : Goto(r, b)
    BY <1>8 DEF Update, Goto
  <2>2. Aside(r, b) /\ UNCHANGED <<script, queue, worker, pending, done, reader>>
    BY <1>8, <1>a, <2>1
    DEF Update, Goto, TypeOK, Aside, KindFits, Streamed, Working, InJob, jobVars
  <2> QED BY <2>1, <2>2, MoveKeeps
<1>9. ASSUME NEW r \in Request, WriteModel(r) PROVE Jobbing'
  <2>1. PICK b \in {"over", "refused"} : Goto(r, b)
    BY <1>9 DEF WriteModel, Goto
  <2>2. Aside(r, b) /\ UNCHANGED <<script, queue, worker, pending, done, reader>>
    BY <1>9, <1>a, <2>1
    DEF WriteModel, Goto, TypeOK, Aside, KindFits, Streamed, Working, InJob, jobVars
  <2> QED BY <2>1, <2>2, MoveKeeps
<1>10. ASSUME NEW r \in Request, Resize(r) PROVE Jobbing'
  <2>1. PICK b \in {"over"} : Goto(r, b)
    BY <1>10 DEF Resize, Goto
  <2>2. Aside(r, b) /\ UNCHANGED <<script, queue, worker, pending, done, reader>>
    BY <1>10, <1>a, <2>1
    DEF Resize, Goto, TypeOK, Aside, KindFits, Streamed, Working, InJob, jobVars
  <2> QED BY <2>1, <2>2, MoveKeeps
<1>11. ASSUME NEW r \in Request, Count(r) PROVE Jobbing'
  <2>1. PICK b \in {"refused", "counted"} : Goto(r, b)
    BY <1>11 DEF Count, Goto
  <2>2. Aside(r, b) /\ UNCHANGED <<script, queue, worker, pending, done, reader>>
    BY <1>11, <1>a, <2>1
    DEF Count, Goto, TypeOK, Aside, KindFits, Streamed, Working, InJob, jobVars
  <2> QED BY <2>1, <2>2, MoveKeeps
<1>12. ASSUME NEW r \in Request, Create(r) PROVE Jobbing'
  <2>1. PICK b \in {"over"} : Goto(r, b)
    BY <1>12 DEF Create, Goto
  <2>2. Aside(r, b) /\ UNCHANGED <<script, queue, worker, pending, done, reader>>
    BY <1>12, <1>a, <2>1
    DEF Create, Goto, TypeOK, Aside, KindFits, Streamed, Working, InJob, jobVars
  <2> QED BY <2>1, <2>2, MoveKeeps
<1>13. ASSUME NEW r \in Request, FindSlot(r) PROVE Jobbing'
  <2>1. PICK b \in {"waiting"} : Goto(r, b)
    BY <1>13 DEF FindSlot, Goto
  <2>2. Aside(r, b) /\ UNCHANGED <<script, queue, worker, pending, done, reader>>
    BY <1>13, <1>a, <2>1
    DEF FindSlot, Goto, TypeOK, Aside, KindFits, Streamed, Working, InJob, jobVars
  <2> QED BY <2>1, <2>2, MoveKeeps
<1>14. ASSUME NEW r \in Request, TakeSlot(r) PROVE Jobbing'
  <2>1. PICK b \in {"asking", "streaming"} : Goto(r, b)
    BY <1>14 DEF TakeSlot, Goto
  <2>2. Aside(r, b) /\ UNCHANGED <<script, queue, worker, pending, done, reader>>
    BY <1>14, <1>a, <2>1
    DEF TakeSlot, Goto, TypeOK, Aside, KindFits, Streamed, Working, InJob, jobVars
  <2> QED BY <2>1, <2>2, MoveKeeps
<1>15. ASSUME NEW r \in Request, ChatContext(r) PROVE Jobbing'
  <2>1. PICK b \in {"begun"} : Goto(r, b)
    BY <1>15 DEF ChatContext, Goto
  <2>2. Aside(r, b) /\ UNCHANGED <<script, queue, worker, pending, done, reader>>
    BY <1>15, <1>a, <2>1
    DEF ChatContext, Goto, TypeOK, Aside, KindFits, Streamed, Working, InJob, jobVars
  <2> QED BY <2>1, <2>2, MoveKeeps
<1>16. ASSUME NEW r \in Request, ChatEnds(r) PROVE Jobbing'
  <2>1. PICK b \in {"answered", "refused"} : Goto(r, b)
    BY <1>16 DEF ChatEnds, Goto
  <2>2. Aside(r, b) /\ UNCHANGED <<script, queue, worker, pending, done, reader>>
    BY <1>16, <1>a, <2>1
    DEF ChatEnds, Goto, TypeOK, Aside, KindFits, Streamed, Working, InJob, jobVars
  <2> QED BY <2>1, <2>2, MoveKeeps
<1>17. ASSUME NEW r \in Request, ChatAnswer(r) PROVE Jobbing'
  <2>1. PICK b \in {"refused", "over"} : Goto(r, b)
    BY <1>17 DEF ChatAnswer, Goto
  <2>2. Aside(r, b) /\ UNCHANGED <<script, queue, worker, pending, done, reader>>
    BY <1>17, <1>a, <2>1
    DEF ChatAnswer, Goto, TypeOK, Aside, KindFits, Streamed, Working, InJob, jobVars
  <2> QED BY <2>1, <2>2, MoveKeeps
<1>18. ASSUME NEW r \in Request, Begin(r) PROVE Jobbing'
  <2>1. PICK b \in {"begun", "left"} : Goto(r, b)
    BY <1>18 DEF Begin, Goto
  <2>2. Aside(r, b) /\ UNCHANGED <<script, queue, worker, pending, done, reader>>
    BY <1>18, <1>a, <2>1
    DEF Begin, Goto, TypeOK, Aside, KindFits, Streamed, Working, InJob, jobVars
  <2> QED BY <2>1, <2>2, MoveKeeps
<1>19. ASSUME NEW r \in Request, Answered(r) PROVE Jobbing'
  <2>1. PICK b \in {"closing"} : Goto(r, b)
    BY <1>19 DEF Answered, Goto
  <2>2. Aside(r, b) /\ UNCHANGED <<script, queue, worker, pending, done, reader>>
    BY <1>19, <1>a, <2>1
    DEF Answered, Goto, TypeOK, Aside, KindFits, Streamed, Working, InJob, jobVars
  <2> QED BY <2>1, <2>2, MoveKeeps
<1>20. ASSUME NEW r \in Request, Fails(r) PROVE Jobbing'
  <2>1. PICK b \in {"failing"} : Goto(r, b)
    BY <1>20 DEF Fails, Goto
  <2>2. Aside(r, b) /\ UNCHANGED <<script, queue, worker, pending, done, reader>>
    BY <1>20, <1>a, <2>1
    DEF Fails, Goto, TypeOK, Aside, KindFits, Streamed, Working, InJob, jobVars
  <2> QED BY <2>1, <2>2, MoveKeeps
<1>21. ASSUME NEW r \in Request, Failing(r) PROVE Jobbing'
  <2>1. PICK b \in {"closing"} : Goto(r, b)
    BY <1>21 DEF Failing, Goto
  <2>2. Aside(r, b) /\ UNCHANGED <<script, queue, worker, pending, done, reader>>
    BY <1>21, <1>a, <2>1
    DEF Failing, Goto, TypeOK, Aside, KindFits, Streamed, Working, InJob, jobVars
  <2> QED BY <2>1, <2>2, MoveKeeps
<1>22. ASSUME NEW r \in Request, Closing(r) PROVE Jobbing'
  <2>1. PICK b \in {"left"} : Goto(r, b)
    BY <1>22 DEF Closing, Goto
  <2>2. Aside(r, b) /\ UNCHANGED <<script, queue, worker, pending, done, reader>>
    BY <1>22, <1>a, <2>1
    DEF Closing, Goto, TypeOK, Aside, KindFits, Streamed, Working, InJob, jobVars
  <2> QED BY <2>1, <2>2, MoveKeeps
<1>b. /\ \A q \in Request : Streamed(q)' = Streamed(q) /\ Target(q)' = Target(q) /\ KindOf(q)' = KindOf(q)
      /\ \A s \in Session : \A i \in 1 .. Len(queue[s]) : queue[s][i] \in Request
      /\ \A s \in Session : worker[s] # None => worker[s] \in Request
  <2>1. UNCHANGED script
    BY ScriptStays
  <2> QED BY <2>1 DEF Streamed, KindOf, Target, TypeOK
<1>c. /\ pc \in [Request -> Places] /\ queue \in [Session -> Seq(Request)]
      /\ worker \in [Session -> Request \cup {None}] /\ pending \in [Session -> SUBSET Request]
      /\ done \subseteq Request /\ None \notin Request
      /\ reader \in [Request -> [at : Nat, state : {"none", "reading", "ended", "gone"}]]
  BY RequestAssumption DEF TypeOK, None
<1>23. ASSUME NEW r \in Request, Delta(r) \/ ToolRound(r) PROVE Jobbing'
  BY <1>23, <1>b DEF Delta, ToolRound, Jobbing, KindInv, KindFits, QueueInv, JobInv, PendingInv, ReaderInv
<1>24. ASSUME NEW r \in Request, Persist(r) PROVE Jobbing'
  <2>1. CASE UNCHANGED pc
    BY <1>24, <1>b, <2>1
    DEF Persist, jobVars, Jobbing, KindInv, KindFits, QueueInv, JobInv, PendingInv, ReaderInv
  <2>2. CASE Goto(r, "failing")
    <3>1. Aside(r, "failing") /\ UNCHANGED <<script, queue, worker, pending, done, reader>>
      BY <1>24, <1>a DEF Persist, Aside, KindFits, Streamed, Working, InJob, jobVars
    <3> QED BY <2>2, <3>1, MoveKeeps
  <2> QED BY <1>24, <2>1, <2>2 DEF Persist
<1>25. ASSUME NEW r \in Request, Read(r) PROVE Jobbing'
  <2>1. UNCHANGED <<script, pc, queue, worker, pending, done>>
    BY <1>25 DEF Read
  <2>2. KindInv' /\ QueueInv' /\ JobInv' /\ PendingInv'
    BY <1>b, <2>1 DEF Jobbing, KindInv, KindFits, QueueInv, JobInv, PendingInv
  <2>3. ReaderInv'
    BY <1>25, <1>b, <1>c, <2>1 DEF Read, Jobbing, ReaderInv
  <2> QED BY <2>2, <2>3 DEF Jobbing
<1>26. ASSUME NEW r \in Request, Enqueue(r) PROVE Jobbing'
  <2> DEFINE s == Target(r)
  <2>1. /\ pc[r] = "ready" /\ pc'[r] = "queued" /\ \A q \in Request \ {r} : pc'[q] = pc[q]
    BY <1>26, <1>c DEF Enqueue, Goto
  <2>2. /\ Streamed(r) /\ s \in Session /\ UNCHANGED <<worker, done>>
        /\ pending' = [pending EXCEPT ![s] = @ \cup {r}]
        /\ queue' = [queue EXCEPT ![s] = Append(@, r)]
        /\ reader' = [reader EXCEPT ![r].state = "reading"]
    BY <1>26, <1>a DEF Enqueue, Register, Streamed
  <2> HIDE DEF s
  <2>3. /\ Len(queue'[s]) = Len(queue[s]) + 1 /\ queue'[s][Len(queue[s]) + 1] = r
        /\ \A i \in 1 .. Len(queue[s]) : queue'[s][i] = queue[s][i]
        /\ \A q \in Session \ {s} : queue'[q] = queue[q]
        /\ Len(queue[s]) \in Nat
    BY <1>c, <2>2
  <2>4. KindInv'
    BY <1>b, <2>1, <2>2 DEF Jobbing, KindInv, KindFits
  <2>5. QueueInv'
    <3> SUFFICES ASSUME NEW q \in Session
                 PROVE  /\ \A i \in 1 .. Len(queue'[q]) :
                             Target(queue'[q][i]) = q /\ pc'[queue'[q][i]] = "queued"
                        /\ \A i, j \in 1 .. Len(queue'[q]) : queue'[q][i] = queue'[q][j] => i = j
                        /\ worker[q] # None => /\ Streamed(worker[q]) /\ Target(worker[q]) = q
                                               /\ pc'[worker[q]] \in Working
      <4>1. UNCHANGED <<script, worker>>
        BY <1>26 DEF Enqueue
      <4> QED BY <4>1 DEF QueueInv, Streamed, KindOf, Target
    <3>1. \A i \in 1 .. Len(queue[q]) : Target(queue[q][i]) = q /\ pc[queue[q][i]] = "queued"
      BY DEF Jobbing, QueueInv
    <3>2. worker[q] # None => /\ Streamed(worker[q]) /\ Target(worker[q]) = q
                              /\ pc'[worker[q]] \in Working
      BY <1>b, <2>1 DEF Jobbing, QueueInv, Working
    <3>3. CASE q # s
      BY <1>b, <2>1, <2>3, <3>1, <3>2, <3>3 DEF Jobbing, QueueInv
    <3>4. CASE q = s
      <4>1. \A i \in 1 .. Len(queue'[s]) :
              i \in 1 .. Len(queue[s]) \/ (i = Len(queue[s]) + 1 /\ queue'[s][i] = r)
        BY <2>3
      <4>2. \A i \in 1 .. Len(queue[s]) : queue'[s][i] \in Request \ {r} /\ queue'[s][i] = queue[s][i]
        BY <1>b, <2>1, <2>3, <3>1, <3>4
      <4>3. \A i \in 1 .. Len(queue'[s]) : Target(queue'[s][i]) = s /\ pc'[queue'[s][i]] = "queued"
        BY <2>1, <3>1, <3>4, <4>1, <4>2 DEF s
      <4>4. \A i, j \in 1 .. Len(queue'[s]) : queue'[s][i] = queue'[s][j] => i = j
        BY <2>3, <3>4, <4>1, <4>2 DEF Jobbing, QueueInv
      <4> QED BY <3>2, <3>4, <4>3, <4>4
    <3> QED BY <3>3, <3>4
  <2>6. JobInv'
    <3>1. \A q \in Request \ {r} : Streamed(q) /\ pc[q] = "queued" =>
            \E i \in 1 .. Len(queue'[Target(q)]) : queue'[Target(q)][i] = q
      BY <1>a, <2>3 DEF Jobbing, JobInv
    <3>2. \E i \in 1 .. Len(queue'[s]) : queue'[s][i] = r
      BY <2>3
    <3> QED BY <1>b, <2>1, <2>2, <3>1, <3>2 DEF Jobbing, JobInv, Working, s
  <2>7. PendingInv'
    BY <1>b, <1>c, <2>1, <2>2 DEF Jobbing, PendingInv, InJob, Working, s
  <2>8. ReaderInv'
    BY <1>b, <1>c, <2>1, <2>2 DEF Jobbing, ReaderInv, InJob, Working
  <2> QED BY <2>4, <2>5, <2>6, <2>7, <2>8 DEF Jobbing
<1>27. ASSUME NEW s \in Session, Take(s) PROVE Jobbing'
  <2> DEFINE h == Head(queue[s])
  <2>1. /\ h \in Request /\ queue[s][1] = h /\ Len(queue[s]) \in Nat /\ Len(queue[s]) >= 1
        /\ Len(Tail(queue[s])) = Len(queue[s]) - 1
        /\ \A i \in 1 .. Len(Tail(queue[s])) : Tail(queue[s])[i] = queue[s][i + 1]
    BY <1>27, <1>c DEF Take
  <2>2. /\ worker[s] = None /\ worker' = [worker EXCEPT ![s] = h]
        /\ queue' = [queue EXCEPT ![s] = Tail(@)] /\ UNCHANGED <<pending, done, reader>>
    BY <1>27 DEF Take
  <2>3. /\ pc'[h] = "taken" /\ \A q \in Request \ {h} : pc'[q] = pc[q]
    BY <1>27, <1>c, <2>1 DEF Take, Goto
  <2> HIDE DEF h
  <2>4. pc[h] = "queued" /\ Target(h) = s /\ Streamed(h)
    BY <1>a, <2>1 DEF Jobbing, QueueInv, KindFits, InJob
  <2>5. /\ \A q \in Session \ {s} : queue'[q] = queue[q] /\ worker'[q] = worker[q]
        /\ worker'[s] = h /\ Len(queue'[s]) = Len(queue[s]) - 1
        /\ \A i \in 1 .. Len(queue'[s]) : queue'[s][i] = queue[s][i + 1] /\ i + 1 \in 2 .. Len(queue[s])
    BY <1>c, <2>1, <2>2
  <2>6. \A i \in 2 .. Len(queue[s]) : queue[s][i] \in Request \ {h}
    BY <1>b, <2>1 DEF Jobbing, QueueInv
  <2>7. KindInv'
    BY <1>b, <2>3, <2>4 DEF Jobbing, KindInv, KindFits
  <2>8. QueueInv'
    <3> SUFFICES ASSUME NEW q \in Session
                 PROVE  /\ \A i \in 1 .. Len(queue'[q]) :
                             Target(queue'[q][i]) = q /\ pc'[queue'[q][i]] = "queued"
                        /\ \A i, j \in 1 .. Len(queue'[q]) : queue'[q][i] = queue'[q][j] => i = j
                        /\ worker'[q] # None => /\ Streamed(worker'[q]) /\ Target(worker'[q]) = q
                                                /\ pc'[worker'[q]] \in Working
      <4>1. UNCHANGED script
        BY <1>27 DEF Take
      <4> QED BY <4>1 DEF QueueInv, Streamed, KindOf, Target
    <3>1. \A i \in 1 .. Len(queue[q]) : Target(queue[q][i]) = q /\ pc[queue[q][i]] = "queued"
      BY DEF Jobbing, QueueInv
    <3>2. CASE q # s
      BY <1>b, <2>3, <2>4, <2>5, <3>1, <3>2 DEF Jobbing, QueueInv, Working
    <3>3. CASE q = s
      <4>1. \A i \in 1 .. Len(queue'[s]) : Target(queue'[s][i]) = s /\ pc'[queue'[s][i]] = "queued"
        BY <2>1, <2>3, <2>5, <2>6, <3>1, <3>3
      <4>2. \A i, j \in 1 .. Len(queue'[s]) : queue'[s][i] = queue'[s][j] => i = j
        BY <2>1, <2>5 DEF Jobbing, QueueInv
      <4> QED BY <2>3, <2>4, <2>5, <3>3, <4>1, <4>2 DEF Working
    <3> QED BY <3>2, <3>3
  <2>9. JobInv'
    <3>1. ASSUME NEW q \in Request \ {h}, Streamed(q), pc[q] = "queued"
          PROVE  \E i \in 1 .. Len(queue'[Target(q)]) : queue'[Target(q)][i] = q
      <4> PICK i \in 1 .. Len(queue[Target(q)]) : queue[Target(q)][i] = q
        BY <3>1 DEF Jobbing, JobInv
      <4>1. CASE Target(q) # s
        BY <1>a, <2>5, <4>1
      <4>2. CASE Target(q) = s
        <5>1. i # 1
          BY <2>1, <4>2
        <5>2. i - 1 \in 1 .. Len(queue'[s]) /\ queue'[s][i - 1] = q
          BY <2>1, <2>5, <4>2, <5>1
        <5> QED BY <4>2, <5>2
      <4> QED BY <4>1, <4>2
    <3>2. ASSUME NEW q \in Request \ {h}, Streamed(q), pc[q] \in Working
          PROVE  worker'[Target(q)] = q
      <4>1. worker[Target(q)] = q
        BY <3>2 DEF Jobbing, JobInv
      <4> QED BY <1>a, <1>c, <2>2, <2>5, <4>1
    <3> QED BY <1>b, <2>3, <2>4, <2>5, <3>1, <3>2 DEF JobInv
  <2>10. PendingInv'
    BY <1>b, <2>2, <2>3, <2>4 DEF Jobbing, PendingInv, InJob, Working
  <2>11. ReaderInv'
    BY <1>b, <2>2, <2>3, <2>4 DEF Jobbing, ReaderInv, InJob, Working
  <2> QED BY <2>7, <2>8, <2>9, <2>10, <2>11 DEF Jobbing
<1>28. ASSUME NEW r \in Request, Finish(r) PROVE Jobbing'
  <2>1. /\ pc[r] = "left" /\ pc'[r] = "finished" /\ \A q \in Request \ {r} : pc'[q] = pc[q]
    BY <1>28, <1>c DEF Finish, Goto
  <2>2. UNCHANGED <<script, queue, worker, pending, reader>> /\ done' = done \cup {r} /\ Streamed(r)
    BY <1>28, <1>a, <2>1 DEF Finish, KindFits, InJob, Working
  <2>3. KindInv'
    BY <1>b, <2>1, <2>2 DEF Jobbing, KindInv, KindFits
  <2>4. QueueInv'
    <3>1. ASSUME NEW s \in Session, NEW i \in 1 .. Len(queue[s]) PROVE pc'[queue[s][i]] = "queued"
      BY <1>b, <2>1 DEF Jobbing, QueueInv
    <3>2. ASSUME NEW s \in Session, worker[s] # None PROVE pc'[worker[s]] \in Working
      BY <1>b, <2>1, <3>2 DEF Jobbing, QueueInv, Working
    <3> QED BY <2>2, <3>1, <3>2 DEF Jobbing, QueueInv, Streamed, KindOf, Target
  <2>5. JobInv'
    BY <1>b, <2>1, <2>2 DEF Jobbing, JobInv, Working
  <2>6. PendingInv'
    BY <1>b, <2>1, <2>2 DEF Jobbing, PendingInv, InJob, Working
  <2>7. ReaderInv'
    BY <1>b, <2>1, <2>2 DEF Jobbing, ReaderInv, InJob, Working
  <2> QED BY <2>3, <2>4, <2>5, <2>6, <2>7 DEF Jobbing
<1>29. ASSUME NEW r \in Request, Settle(r) PROVE Jobbing'
  <2> DEFINE s == Target(r)
  <2>1. /\ pc[r] = "finished" /\ pc'[r] = "over" /\ \A q \in Request \ {r} : pc'[q] = pc[q]
    BY <1>29, <1>c DEF Settle, Goto
  <2>2. /\ UNCHANGED <<script, queue, reader, done>> /\ s \in Session
        /\ pending' = [pending EXCEPT ![s] = @ \ {r}] /\ worker' = [worker EXCEPT ![s] = None]
        /\ Streamed(r) /\ worker[s] = r
    BY <1>29, <1>a, <2>1 DEF Settle, KindFits, InJob, Working, Jobbing, JobInv
  <2>3. KindInv'
    BY <1>b, <2>1, <2>2 DEF Jobbing, KindInv, KindFits, InJob, Working
  <2>4. QueueInv'
    <3>1. ASSUME NEW q \in Session, NEW i \in 1 .. Len(queue[q]) PROVE pc'[queue[q][i]] = "queued"
      BY <1>b, <2>1 DEF Jobbing, QueueInv
    <3>2. ASSUME NEW q \in Session, worker'[q] # None
          PROVE  worker'[q] = worker[q] /\ worker[q] # None /\ pc'[worker[q]] \in Working
      <4>1. q # s /\ worker'[q] = worker[q]
        BY <1>c, <2>2, <3>2
      <4>2. worker[q] # r
        BY <2>1, <3>2, <4>1 DEF Jobbing, QueueInv
      <4> QED BY <1>b, <2>1, <3>2, <4>1, <4>2 DEF Jobbing, QueueInv
    <3> QED BY <2>2, <3>1, <3>2 DEF Jobbing, QueueInv, Streamed, KindOf, Target
  <2>5. JobInv'
    <3>1. ASSUME NEW q \in Request \ {r}, Streamed(q), pc[q] \in Working
          PROVE  worker'[Target(q)] = q
      <4>1. worker[Target(q)] = q
        BY <3>1 DEF Jobbing, JobInv
      <4> QED BY <1>a, <1>c, <2>2, <4>1
    <3> QED BY <1>b, <2>1, <2>2, <3>1 DEF Jobbing, JobInv, Working
  <2>6. PendingInv'
    <3>1. \A q \in Session : pending'[q] = IF q = s THEN pending[q] \ {r} ELSE pending[q]
      BY <1>c, <2>2
    <3> QED BY <1>b, <2>1, <2>2, <3>1 DEF Jobbing, PendingInv, InJob, Working
  <2>7. ReaderInv'
    BY <1>b, <2>1, <2>2 DEF Jobbing, ReaderInv, InJob, Working
  <2> QED BY <2>3, <2>4, <2>5, <2>6, <2>7 DEF Jobbing
<1>30. CASE Restart
  <2>1. /\ \A q \in Request : pc'[q] \in {"new", "over", "refused", "lost"}
        /\ \A s \in Session : queue'[s] = <<>> /\ worker'[s] = None /\ pending'[s] = {}
        /\ done' = {} /\ \A q \in Request : reader'[q].state = "gone"
    BY <1>30 DEF Restart
  <2> QED BY <1>b, <2>1
    DEF Jobbing, KindInv, KindFits, QueueInv, JobInv, PendingInv, ReaderInv, InJob, Working
<1> QED
  BY <1>1, <1>2, <1>3, <1>4, <1>5, <1>6, <1>7, <1>8, <1>9, <1>10, <1>11, <1>12, <1>13,
     <1>14, <1>15, <1>16, <1>17, <1>18, <1>19, <1>20, <1>21, <1>22, <1>23, <1>24, <1>25,
     <1>26, <1>27, <1>28, <1>29, <1>30 DEF Next, Handle, Work

-----------------------------------------------------------------------------
(* Types.                                                                  *)

(* What append_message makes of a history (store.py).                      *)
LEMMA AppendedType ==
  ASSUME NEW msgs \in Seq(Message), NEW m \in Message
  PROVE  Appended(msgs, m) \in Seq(Message)
<1> DEFINE more == Append(msgs, m)
           kept == IF MaxMessages > 1 THEN MaxMessages - 1 ELSE 1
           notice == <<Said("system", None, Blank)>>
           rest == SubSeq(more, Len(more) - kept + 1, Len(more))
<1>1. more \in Seq(Message) /\ Len(more) \in Nat
  OBVIOUS
<1>2. kept \in Nat /\ kept <= MaxMessages /\ MaxMessages \in Nat /\ MaxParts \in Nat
  BY BoundsAssumption
<1>3. notice \in Seq(Message)
  <2>1. Said("system", None, Blank) \in Message
    <3>1. Blank \in Text
      BY <1>2 DEF Blank, Text
    <3> QED BY <3>1 DEF Said, Message
  <2> QED BY <2>1
<1> HIDE DEF more, kept, notice
<1>4. Len(more) > MaxMessages => rest \in Seq(Message)
  BY <1>1, <1>2
<1>5. Len(more) > MaxMessages => notice \o rest \in Seq(Message)
  BY <1>3, <1>4
<1> QED BY <1>1, <1>2, <1>5 DEF Appended, Compact, more, kept, notice

(* What update_message makes of it.                                        *)
LEMMA UpdatedType ==
  ASSUME NEW msgs \in Seq(Message), NEW r \in Request, NEW text \in Text
  PROVE  Updated(msgs, r, text) \in Seq(Message)
<1>1. Len(msgs) \in Nat /\ \A i \in 1 .. Len(msgs) : msgs[i] \in Message
  OBVIOUS
<1>2. \A i \in 1 .. Len(msgs) : [msgs[i] EXCEPT !.text = text] \in Message
  BY <1>1 DEF Message
<1> QED BY <1>1, <1>2 DEF Updated

LEMMA TypeStep ==
  ASSUME TypeOK, Jobbing, Next
  PROVE  TypeOK'
<1> USE DEF At, Goto, Places
<1>a. \A r \in Request : Target(r) \in Session /\ turn[r].text \in Text
  BY ScriptsAssumption DEF TypeOK, Target, Call
<1>b. Blank \in Text /\ NoRecord \in Record /\ NoSemaphore \in Semaphore /\ None \in Request \cup {None}
  BY BoundsAssumption DEF Blank, Text, NoRecord, Record, NoSemaphore, Semaphore
<1>e. \A rec \in Record : \A title \in {"user", "auto"} : Renamed(rec, title) \in Record
  BY DEF Renamed, Record
<1>f. ASSUME NEW r \in Request, NEW what \in Seq(Event), Publish(r, what)
      PROVE  events' \in [Request -> Seq(Event)]
  BY <1>f DEF Publish, TypeOK
<1>i. ASSUME NEW r \in Request, NEW tail \in {"", "error", "limit"}
      PROVE  [turn EXCEPT ![r].text.tail = tail] \in [Request -> [text : Text, round : 0 .. MaxRounds]]
  <2>1. turn[r] \in [text : Text, round : 0 .. MaxRounds]
    BY DEF TypeOK
  <2>2. [turn[r].text EXCEPT !.tail = tail] \in Text
    BY <1>a DEF Text
  <2>3. [turn[r] EXCEPT !.text.tail = tail] \in [text : Text, round : 0 .. MaxRounds]
    BY <2>1, <2>2
  <2> QED BY <2>3 DEF TypeOK
<1>k. ASSUME NEW text \in Text, text.parts < MaxParts PROVE [text EXCEPT !.parts = @ + 1] \in Text
  <2>1. MaxParts \in Nat
    BY BoundsAssumption
  <2>2. text.parts \in 0 .. MaxParts /\ text.tail \in {"", "error", "limit"}
    BY DEF Text
  <2> DEFINE n == text.parts
  <2>3. n \in 0 .. MaxParts
    BY <2>2
  <2>4. n < MaxParts
    BY <1>k
  <2>5. text = [parts |-> n, tail |-> text.tail]
    BY DEF Text
  <2> HIDE DEF n
  <2>6. n + 1 \in 0 .. MaxParts
    BY <2>1, <2>3, <2>4
  <2>7. [text EXCEPT !.parts = n + 1] = [parts |-> n + 1, tail |-> text.tail]
    BY <2>5
  <2>8. [text EXCEPT !.parts = n + 1] \in Text
    BY <2>2, <2>6, <2>7 DEF Text
  <2> QED BY <2>8 DEF n
<1>g. \A text \in Text : \A tail \in {"", "error", "limit"} : [text EXCEPT !.tail = tail] \in Text
  BY DEF Text
<1>h. <<"error">> \in Seq(Event) /\ <<"content">> \in Seq(Event) /\ <<"tool">> \in Seq(Event)
  BY DEF Event
<1>1. ASSUME NEW r \in Request, Admit(r) PROVE TypeOK'
  BY <1>1, <1>a, <1>b DEF Admit, TypeOK, storeVars, jobVars, slotVars
<1>2. ASSUME NEW r \in Request, Reserve(r) PROVE TypeOK'
  BY <1>2, <1>a, <1>b DEF Reserve, TypeOK, storeVars, jobVars, slotVars, Allocated
<1>3. ASSUME NEW r \in Request, WantTitle(r) PROVE TypeOK'
  BY <1>3, <1>a, <1>b DEF WantTitle, TypeOK, storeVars, jobVars, slotVars
<1>4. ASSUME NEW r \in Request, AutoTitle(r) PROVE TypeOK'
  <2>1. record' \in [Session -> Record]
    <3>1. UNCHANGED record \/ record' = [record EXCEPT ![Target(r)] = Renamed(@, "auto")]
      BY <1>4 DEF AutoTitle
    <3>2. Renamed(record[Target(r)], "auto") \in Record
      BY <1>a, <1>e DEF TypeOK
    <3> QED BY <1>a, <3>1, <3>2 DEF TypeOK
  <2> QED BY <1>4, <2>1 DEF AutoTitle, TypeOK, jobVars, slotVars
<1>5. ASSUME NEW r \in Request, Enqueue(r) PROVE TypeOK'
  <2>1. queue' \in [Session -> Seq(Request)] /\ pending' \in [Session -> SUBSET Request]
    BY <1>5, <1>a DEF Enqueue, Register, TypeOK
  <2>2. reader' = [reader EXCEPT ![r].state = "reading"]
    BY <1>5 DEF Enqueue
  <2>3. reader' \in [Request -> [at : Nat, state : {"none", "reading", "ended", "gone"}]]
    BY <2>2 DEF TypeOK
  <2> QED BY <1>5, <2>1, <2>3 DEF Enqueue, TypeOK, storeVars, slotVars
<1>6. ASSUME NEW r \in Request, CheckPending(r) PROVE TypeOK'
  BY <1>6, <1>a, <1>b DEF CheckPending, TypeOK, storeVars, jobVars, slotVars
<1>7. ASSUME NEW r \in Request, Delete(r) PROVE TypeOK'
  <2>1. CASE UNCHANGED storeVars
    BY <1>7, <2>1 DEF Delete, TypeOK, storeVars, jobVars, slotVars
  <2>2. CASE Deleted(Target(r))
    <3>1. messages' \in [Session -> Seq(Message)] /\ dirs' \subseteq Session
      BY <1>a, <2>2 DEF Deleted, TypeOK
    <3>2. record' \in [Session -> Record]
      BY <1>a, <1>b, <2>2 DEF Deleted, TypeOK
    <3> QED BY <1>7, <3>1, <3>2 DEF Delete, TypeOK, jobVars, slotVars
  <2> QED BY <1>7, <2>1, <2>2 DEF Delete
<1>8. ASSUME NEW r \in Request, Update(r) PROVE TypeOK'
  <2> DEFINE new == IF KindOf(r) = "model" THEN record[Target(r)] ELSE Renamed(record[Target(r)], "user")
  <2>1. new \in Record
    BY <1>a, <1>e DEF TypeOK
  <2>2. \/ UNCHANGED <<record, copy>>
        \/ record' = [record EXCEPT ![Target(r)] = new] /\ copy' = [copy EXCEPT ![r] = new]
    BY <1>8 DEF Update
  <2> HIDE DEF new
  <2>3. record \in [Session -> Record] /\ copy \in [Request -> Record]
    BY DEF TypeOK
  <2>4. record' \in [Session -> Record] /\ copy' \in [Request -> Record]
    BY <1>a, <2>1, <2>2, <2>3
  <2> QED BY <1>8, <2>4 DEF Update, TypeOK, jobVars, slotVars
<1>9. ASSUME NEW r \in Request, WriteModel(r) PROVE TypeOK'
  <2>1. [copy[r] EXCEPT !.model = TRUE] \in Record
    <3>1. copy[r] \in Record
      BY DEF TypeOK
    <3> QED BY <3>1 DEF Record
  <2>2. record' \in [Session -> Record] /\ copy' \in [Request -> Record]
    BY <1>9, <1>b, <2>1 DEF WriteModel, TypeOK
  <2> QED BY <1>9, <2>2 DEF WriteModel, TypeOK, jobVars, slotVars
<1>10. ASSUME NEW r \in Request, Resize(r) PROVE TypeOK'
  BY <1>10, <1>a, <1>b DEF Resize, TypeOK, storeVars, jobVars, slotVars, Allocated
<1>11. ASSUME NEW r \in Request, Count(r) PROVE TypeOK'
  BY <1>11, <1>a, <1>b DEF Count, TypeOK, storeVars, jobVars, slotVars
<1>12. ASSUME NEW r \in Request, Create(r) PROVE TypeOK'
  BY <1>12, <1>a, <1>b DEF Create, TypeOK, storeVars, jobVars, slotVars, NewRecord, Record
<1>13. ASSUME NEW r \in Request, FindSlot(r) PROVE TypeOK'
  BY <1>13, <1>a, <1>b DEF FindSlot, TypeOK, storeVars, jobVars, slotVars, Allocated, Semaphore
<1>14. ASSUME NEW r \in Request, TakeSlot(r) PROVE TypeOK'
  BY <1>14, <1>a, <1>b DEF TakeSlot, TypeOK, storeVars, jobVars, slotVars
<1>15. ASSUME NEW r \in Request, ChatContext(r) PROVE TypeOK'
  BY <1>15, <1>a, <1>b DEF ChatContext, TypeOK, storeVars, jobVars, slotVars, Allocated
<1>16. ASSUME NEW r \in Request, ChatEnds(r) PROVE TypeOK'
  BY <1>16, <1>a, <1>b DEF ChatEnds, TypeOK, storeVars, jobVars, slotVars, Release
<1>17. ASSUME NEW r \in Request, Begin(r) PROVE TypeOK'
  <2>1. events' \in [Request -> Seq(Event)]
    BY <1>17, <1>f, <1>h DEF Begin, TypeOK
  <2> QED BY <1>17, <2>1 DEF Begin, TypeOK, storeVars, slotVars
<1>18. ASSUME NEW r \in Request, Delta(r) PROVE TypeOK'
  <2>1. events' \in [Request -> Seq(Event)]
    BY <1>18, <1>f, <1>h DEF Delta
  <2>2. [turn[r] EXCEPT !.text.parts = @ + 1] \in [text : Text, round : 0 .. MaxRounds]
    <3>1. turn[r] \in [text : Text, round : 0 .. MaxRounds]
      BY DEF TypeOK
    <3>2. [turn[r].text EXCEPT !.parts = @ + 1] \in Text
      BY <1>18, <1>a, <1>k DEF Delta
    <3> QED BY <3>1, <3>2
  <2>3. turn' \in [Request -> [text : Text, round : 0 .. MaxRounds]]
    BY <1>18, <2>2 DEF Delta, TypeOK
  <2> QED BY <1>18, <2>1, <2>3 DEF Delta, TypeOK, storeVars, slotVars
<1>19. ASSUME NEW r \in Request, ToolRound(r) PROVE TypeOK'
  <2>1. events' \in [Request -> Seq(Event)]
    BY <1>19, <1>f, <1>h DEF ToolRound
  <2>2. turn' \in [Request -> [text : Text, round : 0 .. MaxRounds]]
    <3>1. turn[r] \in [text : Text, round : 0 .. MaxRounds]
      BY DEF TypeOK
    <3>2. [turn[r] EXCEPT !.round = @ + 1] \in [text : Text, round : 0 .. MaxRounds]
      BY <1>19, <3>1, BoundsAssumption DEF ToolRound
    <3> QED BY <1>19, <3>2 DEF ToolRound, TypeOK
  <2> QED BY <1>19, <2>1, <2>2 DEF ToolRound, TypeOK, storeVars, slotVars
<1>20. ASSUME NEW r \in Request, Answered(r) PROVE TypeOK'
  <2>2. UNCHANGED turn \/ turn' = [turn EXCEPT ![r].text.tail = "limit"]
    BY <1>20 DEF Answered
  <2>3. turn' \in [Request -> [text : Text, round : 0 .. MaxRounds]]
    <3>1. [turn EXCEPT ![r].text.tail = "limit"] \in [Request -> [text : Text, round : 0 .. MaxRounds]]
      BY <1>i
    <3> QED BY <2>2, <3>1 DEF TypeOK
  <2> QED BY <1>20, <1>b, <2>3 DEF Answered, Release, TypeOK, storeVars, jobVars
<1>21. ASSUME NEW r \in Request, Fails(r) PROVE TypeOK'
  <2>1. turn[r].text.tail \in {"", "error", "limit"}
    BY <1>a DEF Text
  <2>2. PICK tail \in {"", "error", "limit"} : turn' = [turn EXCEPT ![r].text.tail = tail]
    BY <1>21, <2>1 DEF Fails
  <2>3. turn' \in [Request -> [text : Text, round : 0 .. MaxRounds]]
    BY <1>i, <2>2
  <2> QED BY <1>21, <1>b, <2>3 DEF Fails, Release, TypeOK, storeVars, jobVars
<1>22. ASSUME NEW r \in Request, Finish(r) PROVE TypeOK'
  BY <1>22, <1>a, <1>b DEF Finish, TypeOK, storeVars, jobVars, slotVars
<1>23. ASSUME NEW r \in Request, Settle(r) PROVE TypeOK'
  BY <1>23, <1>a, <1>b DEF Settle, TypeOK, storeVars, jobVars, slotVars
<1>24. ASSUME NEW r \in Request, Read(r) PROVE TypeOK'
  BY <1>24, <1>a, <1>b DEF Read, TypeOK, storeVars, jobVars, slotVars, Seen
<1>c. \A r \in Request : Said("user", r, Blank) \in Message /\ Said("assistant", r, Blank) \in Message
  BY <1>b DEF Said, Message
<1>25. ASSUME NEW r \in Request, Store(r) PROVE TypeOK'
  <2> DEFINE asked == Appended(messages[Target(r)], Said("user", r, Blank))
             both == Appended(asked, Said("assistant", r, Blank))
  <2>1. asked \in Seq(Message) /\ both \in Seq(Message)
    <3>1. asked \in Seq(Message)
      BY <1>a, <1>c, AppendedType DEF TypeOK
    <3> HIDE DEF asked
    <3> QED BY <1>c, <3>1, AppendedType
  <2>2. UNCHANGED messages \/ messages' = [messages EXCEPT ![Target(r)] = IF KindOf(r) = "chat" THEN asked ELSE both]
    BY <1>25 DEF Store
  <2> HIDE DEF asked, both
  <2>3. messages' \in [Session -> Seq(Message)]
    BY <1>a, <2>1, <2>2 DEF TypeOK
  <2> QED BY <1>25, <2>3 DEF Store, TypeOK, jobVars, slotVars
<1>26. ASSUME NEW r \in Request, ChatAnswer(r) PROVE TypeOK'
  <2> DEFINE answer == Said("assistant", r, [Blank EXCEPT !.parts = 1])
  <2>1. answer \in Message
    <3>1. [Blank EXCEPT !.parts = 1] \in Text
      <4>1. 1 \in 0 .. MaxParts
        BY BoundsAssumption
      <4> QED BY <4>1 DEF Blank, Text
    <3> QED BY <3>1 DEF Said, Message
  <2>2. Appended(messages[Target(r)], answer) \in Seq(Message)
    BY <1>a, <2>1, AppendedType DEF TypeOK
  <2>3. UNCHANGED messages \/ messages' = [messages EXCEPT ![Target(r)] = Appended(@, answer)]
    BY <1>26 DEF ChatAnswer
  <2> HIDE DEF answer
  <2>4. messages' \in [Session -> Seq(Message)]
    BY <1>a, <2>2, <2>3 DEF TypeOK
  <2> QED BY <1>26, <2>4 DEF ChatAnswer, TypeOK, jobVars, slotVars
<1>d. ASSUME NEW r \in Request, UNCHANGED messages \/ Keep(r, turn[r].text)
      PROVE  messages' \in [Session -> Seq(Message)]
  <2>1. Updated(messages[Target(r)], r, turn[r].text) \in Seq(Message)
    BY <1>a, UpdatedType DEF TypeOK
  <2> QED BY <1>a, <1>d, <2>1 DEF Keep, TypeOK
<1>27. ASSUME NEW r \in Request, Persist(r) PROVE TypeOK'
  <2>1. messages' \in [Session -> Seq(Message)]
    BY <1>27, <1>d DEF Persist
  <2>2. turn[r].text.tail \in {"", "error", "limit"}
    BY <1>a DEF Text
  <2>3. UNCHANGED turn \/ \E tail \in {"", "error", "limit"} : turn' = [turn EXCEPT ![r].text.tail = tail]
    BY <1>27, <2>2 DEF Persist
  <2>4. turn' \in [Request -> [text : Text, round : 0 .. MaxRounds]]
    <3>1. turn \in [Request -> [text : Text, round : 0 .. MaxRounds]]
      BY DEF TypeOK
    <3>2. \A tail \in {"", "error", "limit"} :
            [turn EXCEPT ![r].text.tail = tail] \in [Request -> [text : Text, round : 0 .. MaxRounds]]
      BY <1>i
    <3> QED BY <2>3, <3>1, <3>2
  <2>5. pc' \in [Request -> Places]
    BY <1>27 DEF Persist, TypeOK
  <2>6. holds' \in [Request -> Semaphore]
    BY <1>27, <1>b DEF Persist, Release, TypeOK
  <2> QED BY <1>27, <2>1, <2>4, <2>5, <2>6 DEF Persist, TypeOK, jobVars
<1>28. ASSUME NEW r \in Request, Failing(r) PROVE TypeOK'
  <2>1. messages' \in [Session -> Seq(Message)]
    BY <1>28, <1>d DEF Failing
  <2>2. events' \in [Request -> Seq(Event)]
    BY <1>28, <1>f, <1>h DEF Failing, TypeOK
  <2> QED BY <1>28, <2>1, <2>2 DEF Failing, TypeOK, slotVars
<1>29. ASSUME NEW r \in Request, Closing(r) PROVE TypeOK'
  <2>1. messages' \in [Session -> Seq(Message)]
    BY <1>29, <1>d DEF Closing, KeepAll
  <2>2. events' \in [Request -> Seq(Event)]
    BY <1>29, <1>f, <1>h DEF Closing, TypeOK
  <2> QED BY <1>29, <2>1, <2>2 DEF Closing, TypeOK, slotVars
<1>30. ASSUME NEW s \in Session, Take(s) PROVE TypeOK'
  <2>1. Head(queue[s]) \in Request /\ Tail(queue[s]) \in Seq(Request)
    BY <1>30 DEF Take, TypeOK
  <2> QED BY <1>30, <2>1 DEF Take, TypeOK, storeVars, slotVars
<1>31. CASE Restart
  <2>1. /\ pc' \in [Request -> Places] /\ restarts' \in 0 .. MaxRestarts
        /\ queue' \in [Session -> Seq(Request)] /\ events' \in [Request -> Seq(Event)]
        /\ turn' \in [Request -> [text : Text, round : 0 .. MaxRounds]]
    BY <1>31, <1>b, BoundsAssumption DEF Restart, TypeOK
  <2> QED BY <1>31, <1>b, <2>1 DEF Restart, TypeOK, storeVars
<1> QED
  BY <1>1, <1>2, <1>3, <1>4, <1>5, <1>6, <1>7, <1>8, <1>9, <1>10, <1>11, <1>12, <1>13,
     <1>14, <1>15, <1>16, <1>17, <1>18, <1>19, <1>20, <1>21, <1>22, <1>23, <1>24, <1>25,
     <1>26, <1>27, <1>28, <1>29, <1>30, <1>31 DEF Next, Handle, Work

-----------------------------------------------------------------------------
(* What the store holds of an answer.                                      *)

Texts(msgs, r) ==
  {msgs[i].text : i \in {j \in 1 .. Len(msgs) : msgs[j].role = "assistant" /\ msgs[j].turn = r}}

TextsOf(r) == Texts(messages[Target(r)], r)

(* append_message adds its message and may drop others (store.py).         *)
LEMMA AppendedTexts ==
  ASSUME NEW msgs \in Seq(Message), NEW m \in Message, NEW r \in Request
  PROVE  Texts(Appended(msgs, m), r) \subseteq
           Texts(msgs, r) \cup (IF m.role = "assistant" /\ m.turn = r THEN {m.text} ELSE {})
<1> DEFINE more == Append(msgs, m)
           kept == IF MaxMessages > 1 THEN MaxMessages - 1 ELSE 1
           notice == Said("system", None, Blank)
           rest == SubSeq(more, Len(more) - kept + 1, Len(more))
           res == Appended(msgs, m)
<1>1. /\ Len(msgs) \in Nat /\ Len(more) = Len(msgs) + 1 /\ more \in Seq(Message)
      /\ \A i \in 1 .. Len(msgs) : more[i] = msgs[i]
      /\ more[Len(msgs) + 1] = m
  OBVIOUS
<1>2. kept \in Nat /\ kept <= MaxMessages /\ MaxMessages \in Nat /\ kept >= 1
  BY BoundsAssumption
<1>3. notice.role = "system"
  BY DEF Said
<1>4. res = IF Len(more) <= MaxMessages THEN more ELSE <<notice>> \o rest
  BY DEF Appended, Compact
<1> HIDE DEF more, kept, notice, res
<1>5. \A i \in 1 .. Len(more) : more[i] = m \/ \E j \in 1 .. Len(msgs) : more[i] = msgs[j]
  BY <1>1
<1>6. ASSUME Len(more) > MaxMessages
      PROVE  \A i \in 1 .. Len(res) :
               res[i] = notice \/ \E j \in 1 .. Len(more) : res[i] = more[j]
  <2>1. Len(more) - kept + 1 \in 1 .. Len(more) /\ Len(more) \in Nat
    BY <1>1, <1>2, <1>6
  <2>2. /\ rest \in Seq(Message) /\ Len(rest) = kept
        /\ \A i \in 1 .. kept : rest[i] = more[Len(more) - kept + i]
    BY <1>1, <1>2, <2>1
  <2>3. \A i \in 1 .. Len(rest) : Len(more) - kept + i \in 1 .. Len(more)
    BY <1>2, <2>1, <2>2
  <2> HIDE DEF rest
  <2>4. res = <<notice>> \o rest
    BY <1>1, <1>2, <1>4, <1>6
  <2>5. \A i \in 1 .. Len(res) : res[i] = notice \/ (i - 1 \in 1 .. Len(rest) /\ res[i] = rest[i - 1])
    BY <1>2, <2>2, <2>4
  <2> QED BY <2>2, <2>3, <2>5
<1>7. \A i \in 1 .. Len(res) :
        res[i] = notice \/ res[i] = m \/ \E j \in 1 .. Len(msgs) : res[i] = msgs[j]
  <2>1. CASE Len(more) <= MaxMessages
    BY <1>4, <1>5, <2>1
  <2>2. CASE Len(more) > MaxMessages
    BY <1>5, <1>6, <2>2
  <2> QED BY <1>1, <1>2, <2>1, <2>2
<1> QED BY <1>3, <1>7 DEF Texts, res

(* update_message changes the text of the messages it is given, and adds   *)
(* none (store.py).                                                        *)
LEMMA UpdatedTexts ==
  ASSUME NEW msgs \in Seq(Message), NEW q \in Request, NEW r \in Request, NEW text \in Text
  PROVE  /\ q # r => Texts(Updated(msgs, q, text), r) \subseteq Texts(msgs, r)
         /\ Texts(Updated(msgs, r, text), r) \subseteq {text}
         /\ Texts(msgs, r) = {} => Texts(Updated(msgs, r, text), r) = {}
<1>1. Len(msgs) \in Nat /\ \A i \in 1 .. Len(msgs) : msgs[i] \in Message
  OBVIOUS
<1>2. ASSUME NEW o \in Request
      PROVE  /\ Len(Updated(msgs, o, text)) = Len(msgs)
             /\ \A i \in 1 .. Len(msgs) :
                  /\ Updated(msgs, o, text)[i].role = msgs[i].role
                  /\ Updated(msgs, o, text)[i].turn = msgs[i].turn
                  /\ Updated(msgs, o, text)[i].text =
                       IF msgs[i].role = "assistant" /\ msgs[i].turn = o THEN text ELSE msgs[i].text
  BY <1>1 DEF Updated, Message
<1>3. q # r => Texts(Updated(msgs, q, text), r) \subseteq Texts(msgs, r)
  BY <1>2 DEF Texts
<1>4. Texts(Updated(msgs, r, text), r) \subseteq {text}
  BY <1>2 DEF Texts
<1>5. Texts(msgs, r) = {} => Texts(Updated(msgs, r, text), r) = {}
  <2>1. ASSUME NEW x \in Texts(Updated(msgs, r, text), r) PROVE Texts(msgs, r) # {}
    <3>1. PICK i \in 1 .. Len(Updated(msgs, r, text)) :
            /\ Updated(msgs, r, text)[i].role = "assistant"
            /\ Updated(msgs, r, text)[i].turn = r
      BY DEF Texts
    <3>2. i \in 1 .. Len(msgs) /\ msgs[i].role = "assistant" /\ msgs[i].turn = r
      BY <1>2, <3>1
    <3>3. msgs[i].text \in Texts(msgs, r)
      BY <3>2 DEF Texts
    <3> QED BY <3>3
  <2> QED BY <2>1
<1> QED BY <1>3, <1>4, <1>5

LEMMA HasTexts ==
  ASSUME TypeOK, NEW r \in Request
  PROVE  Has(Target(r), "assistant", r) <=> TextsOf(r) # {}
BY DEF Has, TextsOf, Texts

Before == {"new", "admitted", "reserved"}

Early == Before \cup {"stored", "titling", "ready", "queued", "taken", "begun", "waiting"}

Contents(es) == {i \in 1 .. Len(es) : es[i] = "content"}

Erred(es) == \E i \in 1 .. Len(es) : es[i] = "error"

(* What is stored of a streamed answer, and what its stream has told of it. *)
TextOf(r) ==
  /\ pc[r] \in Before => TextsOf(r) = {}
  /\ pc[r] \in Early => turn[r].text = Blank /\ TextsOf(r) \subseteq {Blank}
  /\ pc[r] \in {"left", "finished"} \/ r \in done => TextsOf(r) \subseteq {turn[r].text}
  /\ turn[r].text.tail = "error" /\ TextsOf(r) # {} =>
       pc[r] = "failing" \/ Erred(events[r])
  /\ Cardinality(Contents(events[r])) = turn[r].text.parts
  /\ reader[r].state = "ended" => reader[r].at = Len(events[r])

EndedInv == \A r \in Request : reader[r].state = "ended" => r \in done

TextInv == EndedInv /\ \A r \in Request : Streamed(r) => TextOf(r)

(* A step that leaves r's answer and what is told of it alone.             *)
Calm(r) ==
  /\ UNCHANGED <<turn[r], events[r], reader[r].at>> /\ (r \in done' <=> r \in done)
  /\ reader'[r].state = "ended" => reader[r].state = "ended"
  /\ TextsOf(r)' \subseteq TextsOf(r)
  /\ pc'[r] \in Before => pc[r] \in Before
  /\ pc'[r] \in Early => pc[r] \in Early
  /\ pc'[r] \in {"left", "finished"} => pc[r] \in {"left", "finished"}
  /\ pc[r] = "failing" => pc'[r] = "failing"

LEMMA CalmKeeps ==
  ASSUME NEW r \in Request, TextOf(r), Calm(r)
  PROVE  TextOf(r)'
<1>1. /\ turn'[r] = turn[r] /\ events'[r] = events[r] /\ reader'[r].at = reader[r].at
      /\ r \in done' <=> r \in done
  BY DEF Calm
<1>2. Cardinality(Contents(events[r]))' = turn'[r].text.parts
  BY <1>1 DEF TextOf, Contents
<1>3. TextsOf(r)' \subseteq TextsOf(r)
  BY DEF Calm
<1> QED BY <1>1, <1>2, <1>3 DEF TextOf, Calm, Erred

LEMMA CalmTexts ==
  ASSUME TypeOK, Jobbing, NEW q \in Request, NEW r \in Request, Streamed(r),
         Handle(q) \/ Work(q) \/ Read(q),
         q # r \/ (Handle(q) /\ ~Store(q))
  PROVE  TextsOf(r)' \subseteq TextsOf(r)
<1> DEFINE s == Target(q)
<1>a. /\ UNCHANGED script /\ Target(r)' = Target(r) /\ Target(r) \in Session /\ s \in Session
      /\ messages \in [Session -> Seq(Message)] /\ turn[q].text \in Text
  <2>1. UNCHANGED script
    BY ScriptStays DEF Next
  <2> QED BY <2>1, ScriptsAssumption DEF Target, TypeOK, Call
<1>1. CASE UNCHANGED messages
  BY <1>a, <1>1 DEF TextsOf
<1>b. ASSUME NEW msgs \in Seq(Message), messages' = [messages EXCEPT ![s] = msgs],
             Texts(msgs, r) \subseteq Texts(messages[s], r)
      PROVE  TextsOf(r)' \subseteq TextsOf(r)
  BY <1>a, <1>b DEF TextsOf
<1> HIDE DEF s
<1>2. CASE Store(q) /\ q # r
  <2> DEFINE asked == Appended(messages[s], Said("user", q, Blank))
             both == Appended(asked, Said("assistant", q, Blank))
  <2>1. Said("user", q, Blank) \in Message /\ Said("assistant", q, Blank) \in Message
    <3>1. Blank \in Text
      BY BoundsAssumption DEF Blank, Text
    <3> QED BY <3>1 DEF Said, Message
  <2>2. asked \in Seq(Message) /\ Texts(asked, r) \subseteq Texts(messages[s], r)
    <3>1. asked \in Seq(Message)
      BY <1>a, <2>1, AppendedType
    <3>2. Said("user", q, Blank).role # "assistant"
      BY DEF Said
    <3> QED BY <1>a, <2>1, <3>1, <3>2, AppendedTexts
  <2>3. both \in Seq(Message) /\ Texts(both, r) \subseteq Texts(asked, r)
    <3> HIDE DEF asked
    <3>1. both \in Seq(Message)
      BY <2>1, <2>2, AppendedType
    <3>2. Said("assistant", q, Blank).turn # r
      BY <1>2 DEF Said
    <3> QED BY <2>1, <2>2, <3>1, <3>2, AppendedTexts
  <2>4. \/ UNCHANGED messages
        \/ messages' = [messages EXCEPT ![s] = asked]
        \/ messages' = [messages EXCEPT ![s] = both]
    BY <1>2 DEF Store, s
  <2> HIDE DEF asked, both
  <2> QED BY <1>1, <1>b, <2>2, <2>3, <2>4
<1>3. CASE ChatAnswer(q)
  <2> DEFINE answer == Said("assistant", q, [Blank EXCEPT !.parts = 1])
  <2>1. q # r
    BY <1>3 DEF ChatAnswer, At, Jobbing, KindInv, KindFits, Streamed
  <2>2. answer \in Message
    <3>1. 1 \in 0 .. MaxParts
      BY BoundsAssumption
    <3>2. [Blank EXCEPT !.parts = 1] \in Text
      BY <3>1 DEF Blank, Text
    <3> QED BY <3>2 DEF Said, Message
  <2>3. answer.turn # r
    BY <2>1 DEF Said
  <2>4. UNCHANGED messages \/ messages' = [messages EXCEPT ![s] = Appended(messages[s], answer)]
    BY <1>3 DEF ChatAnswer, s
  <2> HIDE DEF answer
  <2>5. /\ Appended(messages[s], answer) \in Seq(Message)
        /\ Texts(Appended(messages[s], answer), r) \subseteq Texts(messages[s], r)
    BY <1>a, <2>2, <2>3, AppendedType, AppendedTexts
  <2> QED BY <1>1, <1>b, <2>4, <2>5
<1>4. CASE Keep(q, turn[q].text) /\ q # r
  <2>1. Updated(messages[s], q, turn[q].text) \in Seq(Message)
    BY <1>a, UpdatedType
  <2>2. Texts(Updated(messages[s], q, turn[q].text), r) \subseteq Texts(messages[s], r)
    BY <1>a, <1>4, UpdatedTexts
  <2> QED BY <1>4, <1>b, <2>1, <2>2 DEF Keep, s
<1>5. CASE messages' = [messages EXCEPT ![s] = <<>>]
  <2>1. <<>> \in Seq(Message) /\ Texts(<<>>, r) = {}
    BY DEF Texts
  <2> QED BY <1>b, <1>5, <2>1
<1>6. ASSUME Handle(q), ~Store(q), ~ChatAnswer(q)
      PROVE  UNCHANGED messages \/ messages' = [messages EXCEPT ![s] = <<>>]
  BY <1>6
  DEF Handle, Admit, Reserve, WantTitle, AutoTitle, Enqueue, CheckPending, Delete, Deleted, Update,
      WriteModel, Resize, Count, Create, FindSlot, TakeSlot, ChatContext, ChatEnds, storeVars, s
<1>7. ASSUME Work(q)
      PROVE  \/ UNCHANGED messages
             \/ Keep(q, turn[q].text) /\ (Persist(q) \/ Failing(q) \/ Closing(q))
  BY <1>7
  DEF Work, Begin, Delta, Persist, ToolRound, Answered, Fails, Failing, Closing, KeepAll, Finish,
      Settle, storeVars
<1>8. ASSUME Read(q) PROVE UNCHANGED messages
  BY <1>8 DEF Read, storeVars
<1> QED BY <1>1, <1>2, <1>3, <1>4, <1>5, <1>6, <1>7, <1>8

(* What a request or its job does is nothing to the answers of others.     *)
LEMMA OthersCalm ==
  ASSUME TypeOK, Jobbing, NEW q \in Request, NEW r \in Request, Streamed(r), q # r,
         Handle(q) \/ Work(q) \/ Read(q)
  PROVE  Calm(r)
<1>1. TextsOf(r)' \subseteq TextsOf(r)
  BY CalmTexts
<1>2. ASSUME Handle(q)
      PROVE  /\ pc'[r] = pc[r] /\ UNCHANGED <<turn, events, done>>
             /\ UNCHANGED reader \/ reader' = [reader EXCEPT ![q].state = "reading"]
  BY <1>2
  DEF Handle, Goto, TypeOK, jobVars, Admit, Reserve, Store, WantTitle, AutoTitle, Enqueue, CheckPending, Delete, Update,
      WriteModel, Resize, Count, Create, FindSlot, TakeSlot, ChatContext, ChatEnds, ChatAnswer
<1>3. ASSUME Work(q)
      PROVE  /\ pc'[r] = pc[r] /\ turn'[r] = turn[r] /\ events'[r] = events[r]
             /\ done' \in {done, done \cup {q}} /\ UNCHANGED reader
  BY <1>3
  DEF Work, Goto, Publish, TypeOK, jobVars, Begin, Delta, Persist, ToolRound, Answered, Fails, Failing, Closing, Finish, Settle
<1>4. ASSUME Read(q)
      PROVE  UNCHANGED <<pc, turn, events, done>> /\ reader'[r] = reader[r]
  BY <1>4 DEF Read, TypeOK
<1>5. UNCHANGED <<pc[r], turn[r], events[r], reader[r]>> /\ (r \in done' <=> r \in done)
  BY <1>2, <1>3, <1>4 DEF TypeOK
<1> QED BY <1>1, <1>5 DEF Calm

(* The thread of a streamed turn that only moves on.                       *)
LEMMA HandleCalm ==
  ASSUME TypeOK, Jobbing, NEW r \in Request, Streamed(r), Handle(r), ~Store(r)
  PROVE  Calm(r)
<1>1. TextsOf(r)' \subseteq TextsOf(r)
  BY CalmTexts
<1>2. UNCHANGED <<turn, events, done>>
  BY DEF Handle, jobVars, Admit, Reserve, Store, WantTitle, AutoTitle, Enqueue, CheckPending, Delete, Update,
      WriteModel, Resize, Count, Create, FindSlot, TakeSlot, ChatContext, ChatEnds, ChatAnswer
<1>3. UNCHANGED reader \/ reader' = [reader EXCEPT ![r].state = "reading"]
  BY DEF Handle, jobVars, Admit, Reserve, Store, WantTitle, AutoTitle, Enqueue, CheckPending, Delete, Update,
      WriteModel, Resize, Count, Create, FindSlot, TakeSlot, ChatContext, ChatEnds, ChatAnswer
<1>4. \E b : /\ Goto(r, b)
             /\ b \in Before => pc[r] \in Before
             /\ b \in Early => pc[r] \in Early
             /\ b \notin {"left", "finished"} /\ pc[r] # "failing"
  BY DEF Handle, Goto, Before, Early, At, Admit, Reserve, Store, WantTitle, AutoTitle, Enqueue, CheckPending, Delete, Update,
      WriteModel, Resize, Count, Create, FindSlot, TakeSlot, ChatContext, ChatEnds, ChatAnswer
<1>5. pc \in [Request -> Places] /\ reader \in [Request -> [at : Nat, state : {"none", "reading", "ended", "gone"}]]
  BY DEF TypeOK
<1> QED BY <1>1, <1>2, <1>3, <1>4, <1>5 DEF Calm, Goto

(* ChatJob.publish (agent_core/jobs.py).                                    *)
LEMMA Published ==
  ASSUME NEW es \in Seq(Event), NEW what \in Event
  PROVE  /\ Cardinality(Contents(es \o <<what>>)) =
              IF what = "content" THEN Cardinality(Contents(es)) + 1 ELSE Cardinality(Contents(es))
         /\ Erred(es) \/ what = "error" => Erred(es \o <<what>>)
<1> DEFINE more == es \o <<what>>
<1>1. /\ Len(es) \in Nat /\ Len(more) = Len(es) + 1 /\ more[Len(es) + 1] = what
      /\ \A i \in 1 .. Len(es) : more[i] = es[i]
  OBVIOUS
<1> HIDE DEF more
<1>2. Contents(more) =
        IF what = "content" THEN Contents(es) \cup {Len(es) + 1} ELSE Contents(es)
  BY <1>1 DEF Contents
<1>3. IsFiniteSet(Contents(es)) /\ Len(es) + 1 \notin Contents(es)
  <2>1. IsFiniteSet(1 .. Len(es))
    BY <1>1, FS_Interval
  <2> QED BY <1>1, <2>1, FS_Subset DEF Contents
<1>5. Cardinality(Contents(more)) =
        IF what = "content" THEN Cardinality(Contents(es)) + 1 ELSE Cardinality(Contents(es))
  <2>1. Cardinality(Contents(es) \cup {Len(es) + 1}) = Cardinality(Contents(es)) + 1
    BY <1>3, FS_AddElement
  <2> QED BY <1>2, <2>1
<1>6. Erred(es) \/ what = "error" => Erred(more)
  BY <1>1 DEF Erred
<1> QED BY <1>5, <1>6 DEF more

(* A streamed turn is stored as it is told.                                *)
LEMMA OwnKeeps ==
  ASSUME TypeOK, Jobbing, EndedInv, NEW r \in Request, Streamed(r), TextOf(r),
         Store(r) \/ Work(r) \/ Read(r)
  PROVE  TextOf(r)'
<1>a. /\ UNCHANGED script /\ Target(r)' = Target(r) /\ Target(r) \in Session
      /\ messages \in [Session -> Seq(Message)] /\ turn[r].text \in Text
      /\ pc \in [Request -> Places] /\ events \in [Request -> Seq(Event)] /\ done \subseteq Request
      /\ turn \in [Request -> [text : Text, round : 0 .. MaxRounds]]
  <2>1. UNCHANGED script
    BY ScriptStays DEF Next, Handle
  <2> QED BY <2>1, ScriptsAssumption DEF Target, TypeOK, Call
<1>b. UNCHANGED messages => TextsOf(r)' = TextsOf(r)
  BY <1>a DEF TextsOf
<1>c. ASSUME Keep(r, turn[r].text)
      PROVE  TextsOf(r)' \subseteq {turn[r].text} /\ (TextsOf(r) = {} => TextsOf(r)' = {})
  <2> DEFINE msgs == Updated(messages[Target(r)], r, turn[r].text)
  <2>1. TextsOf(r)' = Texts(msgs, r)
    BY <1>a, <1>c DEF Keep, TextsOf
  <2>2. messages[Target(r)] \in Seq(Message)
    BY <1>a
  <2>3. /\ Texts(msgs, r) \subseteq {turn[r].text}
        /\ Texts(messages[Target(r)], r) = {} => Texts(msgs, r) = {}
    BY <1>a, <2>2, UpdatedTexts
  <2> HIDE DEF msgs
  <2> QED BY <2>1, <2>3 DEF TextsOf
<1>d. ASSUME NEW what \in Event, Publish(r, <<what>>)
      PROVE  /\ Cardinality(Contents(events'[r])) =
                  IF what = "content" THEN Cardinality(Contents(events[r])) + 1
                  ELSE Cardinality(Contents(events[r]))
             /\ Erred(events[r]) \/ what = "error" => Erred(events'[r])
  <2>1. events'[r] = events[r] \o <<what>>
    BY <1>a, <1>d DEF Publish
  <2> QED BY <1>a, <2>1, Published
<1>e. pc[r] \notin {"finished", "over"} => r \notin done /\ reader[r].state # "ended"
  BY DEF Jobbing, ReaderInv, EndedInv
<1>f. Cardinality(Contents(events[r])) = turn[r].text.parts
  BY DEF TextOf
<1>g. {"content", "tool", "error"} \subseteq Event
  BY DEF Event
<1> HIDE DEF At
<1>1. CASE Store(r)
  <2>1. pc[r] = "reserved" /\ pc'[r] \in {"refused", "stored"} /\ UNCHANGED <<turn, events, done, reader>>
    BY <1>1, <1>a DEF Store, At, Goto, jobVars
  <2>2. TextsOf(r) = {} /\ turn[r].text = Blank
    BY <2>1 DEF TextOf, Before, Early
  <2>3. TextsOf(r)' \subseteq {Blank}
    <3> DEFINE asked == Appended(messages[Target(r)], Said("user", r, Blank))
               both == Appended(asked, Said("assistant", r, Blank))
    <3>1. Said("user", r, Blank) \in Message /\ Said("assistant", r, Blank) \in Message
      BY <1>a, <2>2 DEF Said, Message
    <3>2. asked \in Seq(Message)
      BY <1>a, <3>1, AppendedType
    <3>3. Texts(asked, r) = {}
      <4>1. Said("user", r, Blank).role # "assistant"
        BY DEF Said
      <4> QED BY <1>a, <2>2, <3>1, <4>1, AppendedTexts DEF TextsOf
    <3> HIDE DEF asked
    <3>4. Texts(both, r) \subseteq {Blank}
      <4>1. Said("assistant", r, Blank).text = Blank
        BY DEF Said
      <4> QED BY <3>1, <3>2, <3>3, <4>1, AppendedTexts
    <3>5. UNCHANGED messages \/ messages' = [messages EXCEPT ![Target(r)] = both]
      BY <1>1 DEF Store, asked, Streamed
    <3> HIDE DEF both
    <3> QED BY <1>a, <1>b, <2>2, <3>4, <3>5 DEF TextsOf
  <2>4. Blank.tail # "error"
    BY DEF Blank
  <2> QED BY <1>e, <1>f, <2>1, <2>2, <2>3, <2>4 DEF TextOf, Before, Early
<1>2. CASE Begin(r)
  <2>1. pc[r] = "taken" /\ UNCHANGED <<turn, done, reader>> /\ TextsOf(r)' = TextsOf(r)
    BY <1>2, <1>b DEF Begin, At, storeVars
  <2>2. turn[r].text = Blank /\ TextsOf(r) \subseteq {Blank} /\ Blank.tail # "error"
    BY <2>1 DEF TextOf, Early, Blank
  <2>3. pc'[r] \in {"begun", "left"} /\ Cardinality(Contents(events'[r])) = turn[r].text.parts
    <3>1. CASE UNCHANGED events
      BY <1>2, <1>a, <1>f, <3>1 DEF Begin, Goto
    <3>2. CASE Publish(r, <<"error">>)
      <4>1. Cardinality(Contents(events'[r])) = Cardinality(Contents(events[r]))
        BY <1>d, <1>g, <3>2
      <4> QED BY <1>2, <1>a, <1>f, <4>1 DEF Begin, Goto
    <3> QED BY <1>2, <3>1, <3>2 DEF Begin
  <2>4. r \notin done /\ reader[r].state # "ended"
    BY <1>e, <2>1
  <2> QED BY <2>1, <2>2, <2>3, <2>4 DEF TextOf, Before, Early
<1>h. ASSUME pc[r] \in {"waiting", "streaming", "failing", "closing"}, UNCHANGED <<done, reader>>,
             pc'[r] \in {"streaming", "failing", "closing"},
             turn'[r].text.tail = "error" /\ TextsOf(r)' # {} => pc'[r] = "failing" \/ Erred(events'[r]),
             Cardinality(Contents(events'[r])) = turn'[r].text.parts
      PROVE  TextOf(r)'
  <2>1. r \notin done /\ reader[r].state # "ended"
    BY <1>e, <1>h
  <2> QED BY <1>h, <2>1 DEF TextOf, Before, Early
<1>i. turn[r].text.tail = "error" /\ TextsOf(r) # {} => pc[r] = "failing" \/ Erred(events[r])
  BY DEF TextOf
<1>3. CASE Delta(r)
  <2>1. pc[r] = "streaming" /\ UNCHANGED <<pc, done, reader>> /\ TextsOf(r)' = TextsOf(r)
    BY <1>3, <1>b DEF Delta, At, storeVars
  <2>2. turn'[r].text = [turn[r].text EXCEPT !.parts = @ + 1]
    BY <1>3, <1>a DEF Delta
  <2>3. turn'[r].text.parts = turn[r].text.parts + 1 /\ turn'[r].text.tail = turn[r].text.tail
    BY <1>a, <2>2 DEF Text
  <2>4. /\ Cardinality(Contents(events'[r])) = Cardinality(Contents(events[r])) + 1
        /\ Erred(events[r]) => Erred(events'[r])
    BY <1>3, <1>d, <1>g DEF Delta
  <2> QED BY <1>f, <1>h, <1>i, <2>1, <2>3, <2>4
<1>4. CASE Persist(r)
  <2>1. pc[r] = "streaming" /\ UNCHANGED <<events, done, reader>>
    BY <1>4 DEF Persist, At, jobVars
  <2>2. CASE Keep(r, turn[r].text) /\ UNCHANGED <<pc, turn>>
    BY <1>c, <1>f, <1>h, <1>i, <2>1, <2>2
  <2>3. CASE ~Has(Target(r), "assistant", r)
    <3>1. /\ UNCHANGED messages /\ pc'[r] = "failing"
          /\ \E tail : turn' = [turn EXCEPT ![r].text.tail = tail]
      BY <1>4, <1>a, <2>3 DEF Persist, Goto
    <3>2. turn'[r].text.parts = turn[r].text.parts
      <4> PICK tail : turn' = [turn EXCEPT ![r].text.tail = tail]
        BY <3>1
      <4> QED BY <1>a DEF Text
    <3> QED BY <1>f, <1>h, <2>1, <3>1, <3>2
  <2> QED BY <1>4, <2>2, <2>3 DEF Persist
<1>5. CASE ToolRound(r)
  <2>1. pc[r] = "streaming" /\ UNCHANGED <<pc, done, reader>> /\ TextsOf(r)' = TextsOf(r)
    BY <1>5, <1>b DEF ToolRound, At, storeVars
  <2>2. turn'[r].text = turn[r].text
    BY <1>5, <1>a DEF ToolRound
  <2>3. /\ Cardinality(Contents(events'[r])) = Cardinality(Contents(events[r]))
        /\ Erred(events[r]) => Erred(events'[r])
    BY <1>5, <1>d, <1>g DEF ToolRound
  <2> QED BY <1>f, <1>h, <1>i, <2>1, <2>2, <2>3
<1>6. CASE Answered(r)
  <2>1. pc[r] = "streaming" /\ pc'[r] = "closing" /\ UNCHANGED <<events, done, reader>>
        /\ TextsOf(r)' = TextsOf(r)
    BY <1>6, <1>a, <1>b DEF Answered, At, Goto, storeVars, jobVars
  <2>2. CASE UNCHANGED turn
    BY <1>f, <1>h, <1>i, <2>1, <2>2
  <2>3. CASE turn' = [turn EXCEPT ![r].text.tail = "limit"]
    <3>1. turn'[r].text.parts = turn[r].text.parts /\ turn'[r].text.tail = "limit"
      BY <1>a, <2>3 DEF Text
    <3> QED BY <1>f, <1>h, <2>1, <3>1
  <2> QED BY <1>6, <2>2, <2>3 DEF Answered
<1>7. CASE Fails(r)
  <2>1. /\ pc[r] \in {"waiting", "streaming"} /\ pc'[r] = "failing" /\ UNCHANGED <<events, done, reader>>
        /\ \E tail : turn' = [turn EXCEPT ![r].text.tail = tail]
    BY <1>7, <1>a DEF Fails, At, Goto, jobVars
  <2>2. turn'[r].text.parts = turn[r].text.parts
    <3> PICK tail : turn' = [turn EXCEPT ![r].text.tail = tail]
      BY <2>1
    <3> QED BY <1>a DEF Text
  <2> QED BY <1>f, <1>h, <2>1, <2>2
<1>8. CASE Failing(r)
  <2>1. pc[r] = "failing" /\ pc'[r] = "closing" /\ UNCHANGED <<turn, done, reader>>
    BY <1>8, <1>a DEF Failing, At, Goto
  <2>2. CASE Has(Target(r), "assistant", r)
    <3>1. /\ Cardinality(Contents(events'[r])) = Cardinality(Contents(events[r]))
          /\ Erred(events'[r])
      BY <1>8, <1>d, <1>g, <2>2 DEF Failing
    <3> QED BY <1>f, <1>h, <2>1, <3>1
  <2>3. CASE ~Has(Target(r), "assistant", r)
    <3>1. UNCHANGED events /\ TextsOf(r)' = {}
      BY <1>8, <1>b, <2>3, HasTexts DEF Failing
    <3> QED BY <1>f, <1>h, <2>1, <3>1
  <2> QED BY <2>2, <2>3
<1>9. CASE Closing(r)
  <2>1. pc[r] = "closing" /\ pc'[r] = "left" /\ UNCHANGED <<turn, done, reader>>
    BY <1>9, <1>a DEF Closing, At, Goto
  <2>2. r \notin done /\ reader[r].state # "ended"
    BY <1>e, <2>1
  <2>3. CASE Has(Target(r), "assistant", r)
    <3>1. UNCHANGED events /\ TextsOf(r)' \subseteq {turn[r].text} /\ TextsOf(r) # {}
      BY <1>9, <1>c, <2>3, HasTexts DEF Closing, KeepAll
    <3> QED BY <1>f, <1>i, <2>1, <2>2, <3>1 DEF TextOf, Before, Early
  <2>4. CASE ~Has(Target(r), "assistant", r)
    <3>1. /\ Cardinality(Contents(events'[r])) = Cardinality(Contents(events[r]))
          /\ TextsOf(r)' = {}
      BY <1>9, <1>b, <1>d, <1>g, <2>4, HasTexts DEF Closing
    <3> QED BY <1>f, <2>1, <2>2, <3>1 DEF TextOf, Before, Early
  <2> QED BY <2>3, <2>4
<1>10. CASE Finish(r)
  <2>1. /\ pc[r] = "left" /\ pc'[r] = "finished" /\ UNCHANGED <<turn, events, reader>>
        /\ TextsOf(r)' = TextsOf(r)
    BY <1>10, <1>a, <1>b DEF Finish, At, Goto, storeVars
  <2> QED BY <1>e, <1>f, <2>1 DEF TextOf, Before, Early
<1>11. CASE Settle(r)
  <2>1. /\ pc[r] = "finished" /\ pc'[r] = "over" /\ UNCHANGED <<turn, events, reader, done>>
        /\ TextsOf(r)' = TextsOf(r)
    BY <1>11, <1>a, <1>b DEF Settle, At, Goto, storeVars
  <2> QED BY <1>f, <2>1 DEF TextOf, Before, Early
<1>12. CASE Read(r)
  <2>1. /\ UNCHANGED <<pc, turn, events, done>> /\ TextsOf(r)' = TextsOf(r)
        /\ reader'[r].at = Len(events[r])
    BY <1>12, <1>b DEF Read, Seen, TypeOK, storeVars
  <2> QED BY <1>f, <2>1 DEF TextOf, Erred
<1> QED BY <1>1, <1>2, <1>3, <1>4, <1>5, <1>6, <1>7, <1>8, <1>9, <1>10, <1>11, <1>12 DEF Work

LEMMA TextStep ==
  ASSUME TypeOK, Jobbing, TextInv, Next
  PROVE  TextInv'
<1>a. \A r \in Request : Streamed(r)' = Streamed(r)
  BY ScriptStays DEF Streamed, KindOf
<1>b. reader \in [Request -> [at : Nat, state : {"none", "reading", "ended", "gone"}]] /\ EndedInv
  BY DEF TypeOK, TextInv
<1>1. EndedInv'
  <2>1. ASSUME NEW q \in Request, Handle(q)
        PROVE  done' = done /\ (UNCHANGED reader \/ reader' = [reader EXCEPT ![q].state = "reading"])
    BY <2>1
    DEF Handle, jobVars, Admit, Reserve, Store, WantTitle, AutoTitle, Enqueue, CheckPending, Delete, Update,
        WriteModel, Resize, Count, Create, FindSlot, TakeSlot, ChatContext, ChatEnds, ChatAnswer
  <2>2. ASSUME NEW q \in Request, Work(q)
        PROVE  done \subseteq done' /\ UNCHANGED reader
    BY <2>2
    DEF Work, jobVars, Begin, Delta, Persist, ToolRound, Answered, Fails, Failing, Closing, Finish, Settle
  <2>3. ASSUME NEW q \in Request, Read(q) PROVE EndedInv'
    BY <2>3, <1>b DEF Read, EndedInv
  <2>4. ASSUME NEW s \in Session, Take(s) PROVE UNCHANGED <<done, reader>>
    BY <2>4 DEF Take
  <2>5. CASE Restart
    BY <2>5 DEF Restart, EndedInv
  <2>6. ASSUME NEW q \in Request, Handle(q) PROVE EndedInv'
    BY <1>b, <2>1, <2>6 DEF EndedInv
  <2> QED BY <1>b, <2>2, <2>3, <2>4, <2>5, <2>6 DEF Next, EndedInv
<1>2. ASSUME NEW r \in Request, Streamed(r) PROVE TextOf(r)'
  <2>a. TextOf(r)
    BY <1>2 DEF TextInv
  <2>1. ASSUME NEW q \in Request, Handle(q) \/ Work(q) \/ Read(q) PROVE TextOf(r)'
    <3>1. CASE q # r
      <4>1. Calm(r)
        BY <1>2, <2>1, <3>1, OthersCalm
      <4> QED BY <2>a, <4>1, CalmKeeps
    <3>2. CASE q = r /\ (Store(r) \/ Work(r) \/ Read(r))
      BY <1>b, <1>2, <2>a, <3>2, OwnKeeps
    <3>3. CASE q = r /\ Handle(r) /\ ~Store(r)
      <4>1. Calm(r)
        BY <1>2, <3>3, HandleCalm
      <4> QED BY <2>a, <4>1, CalmKeeps
    <3> QED BY <2>1, <3>1, <3>2, <3>3
  <2>2. ASSUME NEW s \in Session, Take(s) PROVE TextOf(r)'
    <3> DEFINE h == Head(queue[s])
    <3>1. h \in Request /\ pc[h] = "queued"
      <4>1. h \in Request /\ h = queue[s][1] /\ 1 \in 1 .. Len(queue[s])
        BY <2>2 DEF Take, TypeOK
      <4> QED BY <4>1 DEF Jobbing, QueueInv
    <3>2. pc' = [pc EXCEPT ![h] = "taken"] /\ UNCHANGED <<turn, events, reader, done, messages, script>>
      BY <2>2 DEF Take, Goto, storeVars
    <3> HIDE DEF h
    <3>3. pc'[r] = pc[r] \/ (pc[r] = "queued" /\ pc'[r] = "taken")
      BY <3>1, <3>2 DEF TypeOK
    <3>4. Calm(r)
      BY <3>2, <3>3 DEF Calm, TextsOf, Target, Before, Early
    <3> QED BY <2>a, <3>4, CalmKeeps
  <2>3. CASE Restart
    <3>1. /\ pc'[r] = IF pc[r] \in {"new", "over", "refused"} THEN pc[r] ELSE "lost"
          /\ turn'[r].text = Blank /\ events'[r] = <<>> /\ r \notin done' /\ reader'[r].state = "gone"
          /\ UNCHANGED <<messages, script>>
      BY <2>3 DEF Restart, storeVars
    <3>2. TextsOf(r)' = TextsOf(r)
      BY <3>1 DEF TextsOf, Target
    <3>3. Cardinality(Contents(events'[r])) = 0
      <4>1. Contents(events'[r]) = {}
        BY <3>1 DEF Contents
      <4> QED BY <4>1, FS_EmptySet
    <3>4. Blank.parts = 0 /\ Blank.tail = ""
      BY DEF Blank
    <3> QED BY <2>a, <3>1, <3>2, <3>3, <3>4 DEF TextOf, Before, Early
  <2> QED BY <2>1, <2>2, <2>3 DEF Next
<1> QED BY <1>a, <1>1, <1>2 DEF TextInv

-----------------------------------------------------------------------------
(* What the jobs promise.                                                  *)

Inv == TypeOK /\ Jobbing /\ TextInv

LEMMA InitInv ==
  ASSUME Init
  PROVE  Inv
<1> USE DEF Init
<1>1. TypeOK
  <2>1. script \in [Request -> Call]
    BY ScriptsAssumption
  <2>2. /\ 0 \in 0 .. MaxRounds /\ 0 \in 0 .. MaxParts /\ 0 \in 0 .. MaxRestarts
    BY BoundsAssumption
  <2>3. record \in [Session -> Record] /\ copy \in [Request -> Record]
    BY DEF NewRecord, NoRecord, Record
  <2>4. turn \in [Request -> [text : Text, round : 0 .. MaxRounds]]
    BY <2>2 DEF Blank, Text
  <2>5. sem \in [Session -> Semaphore] /\ holds \in [Request -> Semaphore]
    BY DEF NoSemaphore, Semaphore
  <2> QED BY <2>1, <2>2, <2>3, <2>4, <2>5 DEF TypeOK, Places
<1>2. Jobbing
  BY DEF Jobbing, KindInv, KindFits, QueueInv, JobInv, PendingInv, ReaderInv, InJob, Working
<1>3. TextInv
  <2>1. EndedInv
    BY DEF EndedInv
  <2>2. ASSUME NEW r \in Request PROVE TextOf(r)
    <3>1. Target(r) \in Session
      BY <1>1, ScriptsAssumption DEF TypeOK, Target, Call
    <3>2. TextsOf(r) = {} /\ Contents(events[r]) = {}
      BY <3>1 DEF TextsOf, Texts, Contents
    <3>3. Cardinality(Contents(events[r])) = 0 /\ Blank.parts = 0 /\ Blank.tail = ""
      BY <3>2, FS_EmptySet DEF Blank
    <3> QED BY <3>2, <3>3 DEF TextOf, Before, Early
  <2> QED BY <2>1, <2>2 DEF TextInv
<1> QED BY <1>1, <1>2, <1>3 DEF Inv

LEMMA NextInv ==
  ASSUME Inv, [Next]_vars
  PROVE  Inv'
<1>1. CASE Next
  BY <1>1, TypeStep, JobStep, TextStep DEF Inv
<1>2. CASE UNCHANGED vars
  <2>1. TypeOK'
    BY <1>2 DEF Inv, TypeOK, vars
  <2>2. Jobbing'
    BY <1>2
    DEF Inv, vars, Jobbing, KindInv, KindFits, QueueInv, JobInv, PendingInv, ReaderInv, Streamed,
        KindOf, Target
  <2>3. TextInv'
    <3>1. ASSUME NEW r \in Request, Streamed(r) PROVE TextOf(r)'
      <4>1. TextOf(r)
        BY <3>1 DEF Inv, TextInv
      <4>2. Calm(r)
        BY <1>2 DEF vars, Calm, TextsOf, Target
      <4> QED BY <4>1, <4>2, CalmKeeps
    <3>2. EndedInv'
      BY <1>2 DEF vars, Inv, TextInv, EndedInv
    <3>3. \A r \in Request : Streamed(r)' = Streamed(r)
      BY <1>2 DEF vars, Streamed, KindOf
    <3> QED BY <3>1, <3>2, <3>3 DEF TextInv
  <2> QED BY <2>1, <2>2, <2>3 DEF Inv
<1> QED BY <1>1, <1>2

LEMMA Invariant == Spec => []Inv
<1>1. Init => Inv
  BY InitInv
<1>2. Inv /\ [Next]_vars => Inv'
  BY NextInv
<1> QED BY <1>1, <1>2, PTL DEF Spec

(* Every thread is at a place the code has, and the records, histories,     *)
(* semaphores and streams are such as the store, the resource manager and  *)
(* the job manager make them.                                              *)
THEOREM ChatTypes == Spec => []TypeOK
<1>1. Inv => TypeOK
  BY DEF Inv
<1> QED BY <1>1, Invariant, PTL

(* pending_message_ids of agent_core/jobs.py reports exactly the turns that *)
(* the session's worker will still answer or is answering, and a client    *)
(* whose stream has not ended waits for one of these: submit registers a   *)
(* job before it puts it, and _work_session strikes it off after finish.   *)
THEOREM PendingIsTheWork == Spec => []PendingIsWork
<1>1. ASSUME Inv PROVE PendingIsWork
  <2>1. \A r \in Request : Target(r) \in Session
    BY <1>1, ScriptsAssumption DEF Inv, TypeOK, Target, Call
  <2>2. ASSUME NEW s \in Session PROVE pending[s] = Jobs(s)
    <3>1. pending[s] \subseteq Request /\ queue[s] \in Seq(Request) /\ worker[s] \in Request \cup {None}
      BY <1>1 DEF Inv, TypeOK
    <3>2. ASSUME NEW r \in pending[s] PROVE r \in Jobs(s)
      <4>1. r \in Request /\ Streamed(r) /\ Target(r) = s /\ pc[r] \in InJob
        BY <1>1, <3>1 DEF Inv, Jobbing, PendingInv
      <4> QED BY <1>1, <4>1, RequestAssumption DEF Inv, Jobbing, JobInv, InJob, Jobs, None
    <3>3. ASSUME NEW r \in Jobs(s) PROVE r \in pending[s]
      <4>1. CASE r \in {queue[s][i] : i \in 1 .. Len(queue[s])}
        <5>1. r \in Request /\ Target(r) = s /\ pc[r] = "queued"
          BY <1>1, <3>1, <4>1 DEF Inv, Jobbing, QueueInv
        <5> QED BY <1>1, <5>1 DEF Inv, Jobbing, KindInv, KindFits, PendingInv, InJob, Working
      <4>2. CASE r = worker[s] /\ r # None
        <5>1. r \in Request /\ Streamed(r) /\ Target(r) = s /\ pc[r] \in Working
          BY <1>1, <3>1, <4>2 DEF Inv, Jobbing, QueueInv
        <5> QED BY <1>1, <5>1 DEF Inv, Jobbing, PendingInv, InJob
      <4> QED BY <3>3, <4>1, <4>2 DEF Jobs
    <3> QED BY <3>2, <3>3
  <2>3. ASSUME NEW r \in Request, reader[r].state = "reading", r \notin done
        PROVE  r \in pending[Target(r)]
    BY <1>1, <2>1, <2>3 DEF Inv, Jobbing, ReaderInv, PendingInv
  <2> QED BY <2>2, <2>3 DEF PendingIsWork
<1> QED BY <1>1, Invariant, PTL

(* A client of agent_server.py that has read ChatJob.stream to its end has *)
(* the answer that update_message stored: every delta of it, and the error *)
(* if the runner stored one in its place; whatever is appended, compacted, *)
(* renamed, deleted or answered meanwhile.                                 *)
THEOREM ToldIsStored == Spec => []ReadAsStored
<1>1. ASSUME Inv PROVE ReadAsStored
  <2> SUFFICES ASSUME NEW r \in Request, reader[r].state = "ended", Has(Target(r), "assistant", r)
               PROVE  /\ Answer(r).text.parts = Told(r, "content")
                      /\ Answer(r).text.tail = "error" => Told(r, "error") > 0
    BY DEF ReadAsStored
  <2>1. r \in done /\ Streamed(r) /\ pc[r] \in {"finished", "over"}
    BY <1>1 DEF Inv, TextInv, EndedInv, Jobbing, ReaderInv
  <2>2. TextOf(r)
    BY <1>1, <2>1 DEF Inv, TextInv
  <2>3. Answer(r).text \in TextsOf(r)
    <3> DEFINE msgs == messages[Target(r)]
    <3>1. \E m \in {msgs[i] : i \in 1 .. Len(msgs)} : m.role = "assistant" /\ m.turn = r
      BY DEF Has
    <3>2. /\ Answer(r) \in {msgs[i] : i \in 1 .. Len(msgs)}
          /\ Answer(r).role = "assistant" /\ Answer(r).turn = r
      BY <3>1 DEF Answer
    <3>3. PICK i \in 1 .. Len(msgs) : msgs[i] = Answer(r)
      BY <3>2
    <3> QED BY <3>2, <3>3 DEF TextsOf, Texts
  <2>4. Answer(r).text = turn[r].text
    BY <2>1, <2>2, <2>3 DEF TextOf
  <2>5. reader[r].at = Len(events[r])
    BY <2>2 DEF TextOf
  <2>6. Answer(r).text.parts = Told(r, "content")
    BY <2>2, <2>4, <2>5 DEF TextOf, Told, Contents
  <2>7. ASSUME Answer(r).text.tail = "error" PROVE Told(r, "error") > 0
    <3> DEFINE errors == {i \in 1 .. Len(events[r]) : events[r][i] = "error"}
    <3>1. Erred(events[r])
      BY <2>1, <2>2, <2>3, <2>4, <2>7 DEF TextOf
    <3>2. errors # {}
      BY <3>1 DEF Erred
    <3>3. IsFiniteSet(errors)
      <4>1. Len(events[r]) \in Nat
        BY <1>1 DEF Inv, TypeOK
      <4>2. IsFiniteSet(1 .. Len(events[r]))
        BY <4>1, FS_Interval
      <4> QED BY <4>2, FS_Subset
    <3> HIDE DEF errors
    <3>4. Cardinality(errors) \in Nat /\ Cardinality(errors) # 0
      BY <3>2, <3>3, FS_EmptySet, FS_CardinalityType
    <3>5. Told(r, "error") = Cardinality(errors)
      BY <2>5 DEF Told, errors
    <3> QED BY <3>4, <3>5
  <2> QED BY <2>6, <2>7
<1> QED BY <1>1, Invariant, PTL
=============================================================================
