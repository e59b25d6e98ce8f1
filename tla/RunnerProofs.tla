----------------------------- MODULE RunnerProofs -----------------------------
(***************************************************************************)
(* Proofs about RunnerLifecycle, for any number of ranks and any           *)
(* circumstances: any number of retries, failures and events of lag; and   *)
(* about ChildProcess, the process of a runner, whatever it writes.        *)
(***************************************************************************)
EXTENDS RunnerLifecycle, ChildProcess, TLAPS

(* What tells the messages of a runner apart.                              *)
Are(S) == {Status(s) : s \in S}

LEMMA MessageFacts ==
  /\ Ack # Complete
  /\ \A s : Status(s) # Ack /\ Status(s) # Complete /\ Status(s).kind = "status" /\ Status(s).of = s
  /\ Ack.kind = "ack" /\ Complete.kind = "complete"
  /\ \A s, t : Status(s) = Status(t) => s = t
  /\ \A S : Ack \notin Are(S) /\ Complete \notin Are(S) /\ \A s : Status(s) \in Are(S) <=> s \in S
  /\ \A m \in Messages : /\ m.kind = "status" => m.of \in Statuses /\ m = Status(m.of)
                         /\ m.kind = "ack" => m = Ack
                         /\ m.kind = "complete" => m = Complete
  /\ Ack \in Messages /\ Complete \in Messages /\ \A s \in Statuses : Status(s) \in Messages
<1>1. /\ Ack # Complete
      /\ \A s : Status(s) # Ack /\ Status(s) # Complete /\ Status(s).kind = "status" /\ Status(s).of = s
      /\ Ack.kind = "ack" /\ Complete.kind = "complete"
  BY DEF Ack, Complete, Status
<1>2. \A s, t : Status(s) = Status(t) => s = t
  BY <1>1
<1>3. \A S : Ack \notin Are(S) /\ Complete \notin Are(S) /\ \A s : Status(s) \in Are(S) <=> s \in S
  BY <1>1, <1>2 DEF Are
<1>4. \A m \in Messages : m = Ack \/ m = Complete \/ \E s \in Statuses : m = Status(s)
  BY DEF Messages
<1>5. \A m \in Messages : /\ m.kind = "status" => m.of \in Statuses /\ m = Status(m.of)
                          /\ m.kind = "ack" => m = Ack
                          /\ m.kind = "complete" => m = Complete
  BY <1>1, <1>4
<1>6. Ack \in Messages /\ Complete \in Messages /\ \A s \in Statuses : Status(s) \in Messages
  BY DEF Messages
<1> QED BY <1>1, <1>2, <1>3, <1>5, <1>6

-----------------------------------------------------------------------------
(* Types.                                                                  *)

LEMMA BroadcastType ==
  ASSUME TypeOK, NEW e \in Events, Broadcast(e)
  PROVE  in' \in [Ranks -> Seq(Events)]
BY DEF TypeOK, Broadcast

LEMMA EventTypes ==
  /\ InstanceCreated \in Events /\ InstanceDeleted \in Events
  /\ \A n \in Ranks : DownloadCompleted(n) \in Events
  /\ \A n \in Ranks, s \in Statuses : RunnerStatusUpdated(n, s) \in Events
BY DEF Events

LEMMA RetireType ==
  ASSUME TypeOK, NEW n \in Ranks, Retire(n)
  PROVE  /\ sup' \in [Ranks -> [status : Statuses \cup {None}, forward : {"on", "checking", "off"}]]
         /\ late' \in [Ranks -> Nat]
         /\ pipe' \in [Ranks -> Seq(Messages)]
         /\ proc' \in [Ranks -> [phase : Phases, met : BOOLEAN]]
         /\ tasks' \in [Ranks -> Seq(Tasks)]
<1>1. NoSupervisor \in [status : Statuses \cup {None}, forward : {"on", "checking", "off"}]
  BY DEF NoSupervisor
<1>2. NoProcess \in [phase : Phases, met : BOOLEAN]
  BY DEF NoProcess, Phases
<1>3. late' \in [Ranks -> Nat]
  BY DEF TypeOK, Retire
<1> QED BY <1>1, <1>2, <1>3 DEF TypeOK, Retire

LEMMA TypeStep ==
  ASSUME TypeOK, Next
  PROVE  TypeOK'
<1> USE DEF worker, runner
<1>a. ASSUME NEW n \in Ranks, NEW phase \in Phases, Enter(n, phase)
      PROVE  proc' \in [Ranks -> [phase : Phases, met : BOOLEAN]]
  BY <1>a DEF Enter, TypeOK
<1>b. ASSUME NEW n \in Ranks, NEW ms \in Seq(Messages), Send(n, ms)
      PROVE  pipe' \in [Ranks -> Seq(Messages)]
  BY <1>b DEF Send, TypeOK
<1>c. ASSUME NEW n \in Ranks, NEW task \in Tasks, StartTask(n, task)
      PROVE  tasks' \in [Ranks -> Seq(Tasks)] /\ waits' \in [Ranks -> Tasks \cup {None}]
  BY <1>c DEF StartTask, TypeOK
<1>d. \A n \in Ranks : waits[n] \in Tasks \cup {None} /\ proc[n].phase \in Phases /\ store[n] \in {"missing", "fetching", "present", "reported"}
  BY DEF TypeOK
<1>e. /\ \A task \in Tasks : Working(task) \in Statuses /\ Working(task) \in Phases
      /\ \A s \in Collective : After(s) \in Statuses /\ After(s) \in Phases
  BY DEF Tasks, Working, Statuses, Phases, Collective, After
<1>1. CASE DeleteInstance
  BY <1>1, EventTypes, BroadcastType DEF DeleteInstance, TypeOK
<1>2. ASSUME NEW phase \in Collective, Meet(phase) PROVE TypeOK'
  <2>1. phase \in Phases
    BY DEF Collective, Phases, Statuses
  <2>2. proc' \in [Ranks -> [phase : Phases, met : BOOLEAN]]
    BY <1>2, <2>1 DEF Meet
  <2> QED BY <1>2, <2>2 DEF Meet, TypeOK
<1>3. ASSUME NEW n \in Ranks, Apply(n) PROVE TypeOK'
  <2> DEFINE e == Head(in[n])
             View == [instance : BOOLEAN, runners : [Ranks -> Statuses \cup {None}], models : SUBSET Ranks]
  <2>1. e \in Events /\ Tail(in[n]) \in Seq(Events)
    BY <1>3 DEF Apply, TypeOK
  <2>2. view[n] \in View
    BY DEF TypeOK
  <2>3. EventApply(view[n], e) \in View
    <3> HIDE DEF e
    <3>1. CASE e = InstanceCreated
      <4>1. EventApply(view[n], e) = [view[n] EXCEPT !.instance = TRUE]
        BY <3>1 DEF EventApply, InstanceCreated, Event
      <4> QED BY <2>2, <4>1
    <3>4. CASE e = InstanceDeleted
      <4>1. EventApply(view[n], e) = [view[n] EXCEPT !.instance = FALSE]
        BY <3>4 DEF EventApply, InstanceDeleted, Event
      <4> QED BY <2>2, <4>1
    <3>2. CASE \E m \in Ranks : e = DownloadCompleted(m)
      <4> PICK m \in Ranks : e = DownloadCompleted(m)
        BY <3>2
      <4>1. EventApply(view[n], e) = [view[n] EXCEPT !.models = @ \cup {m}]
        BY DEF EventApply, DownloadCompleted, Event
      <4> QED BY <2>2, <4>1
    <3>3. CASE \E m \in Ranks, s \in Statuses : e = RunnerStatusUpdated(m, s)
      <4>1. PICK m \in Ranks : \E s \in Statuses : e = RunnerStatusUpdated(m, s)
        BY <3>3
      <4>2. PICK s \in Statuses : e = RunnerStatusUpdated(m, s)
        BY <4>1
      <4>3. EventApply(view[n], e) = [view[n] EXCEPT !.runners[m] = s]
        BY <4>2 DEF EventApply, RunnerStatusUpdated, Event
      <4>4. [view[n].runners EXCEPT ![m] = s] \in [Ranks -> Statuses \cup {None}]
        BY <2>2
      <4> QED BY <2>2, <4>3, <4>4
    <3> QED BY <2>1, <3>1, <3>2, <3>3, <3>4 DEF Events
  <2> HIDE DEF e, View
  <2>4. view' \in [Ranks -> View] /\ in' \in [Ranks -> Seq(Events)]
    BY <1>3, <2>1, <2>3 DEF Apply, TypeOK, View, e
  <2>5. attempts' \in [Ranks -> 0 .. setup.retries]
    BY <1>3, WorldAssumption DEF Apply, TypeOK
  <2> QED BY <1>3, <2>4, <2>5 DEF Apply, TypeOK, View
<1>4. ASSUME NEW n \in Ranks, Downloaded(n) PROVE TypeOK'
  BY <1>4, EventTypes, BroadcastType DEF Downloaded, TypeOK
<1>5. ASSUME NEW n \in Ranks, KillRunner(n) PROVE TypeOK'
  <2>1. CASE Retire(n) /\ UNCHANGED waits
    BY <1>5, <2>1, RetireType DEF KillRunner, TypeOK
  <2>2. CASE StartTask(n, "Shutdown") /\ UNCHANGED <<sup, late, pipe, proc>>
    <3>1. "Shutdown" \in Tasks
      BY DEF Tasks
    <3> QED BY <1>5, <1>c, <2>2, <3>1 DEF KillRunner, TypeOK
  <2> QED BY <1>5, <2>1, <2>2 DEF KillRunner
<1>6. ASSUME NEW n \in Ranks, Timeout(n) PROVE TypeOK'
  BY <1>6, RetireType DEF Timeout, TypeOK
<1>7. ASSUME NEW n \in Ranks, CreateRunner(n) PROVE TypeOK'
  <2>1. attempts' \in [Ranks -> 0 .. setup.retries]
    BY <1>7, WorldAssumption DEF CreateRunner, RetriesLeft, TypeOK
  <2>2. /\ sup' \in [Ranks -> [status : Statuses \cup {None}, forward : {"on", "checking", "off"}]]
        /\ proc' \in [Ranks -> [phase : Phases, met : BOOLEAN]]
    BY <1>7 DEF CreateRunner, TypeOK, Statuses, Phases
  <2> QED BY <1>7, <2>1, <2>2 DEF CreateRunner, TypeOK
<1>8. ASSUME NEW n \in Ranks, GiveUp(n) PROVE TypeOK'
  BY <1>8 DEF GiveUp, TypeOK
<1>9. ASSUME NEW n \in Ranks, DownloadModel(n) PROVE TypeOK'
  <2>1. in' \in [Ranks -> Seq(Events)]
    <3>1. CASE UNCHANGED in
      BY <3>1 DEF TypeOK
    <3>2. CASE Broadcast(DownloadCompleted(n))
      BY <3>2, EventTypes, BroadcastType
    <3> QED BY <1>9, <3>1, <3>2 DEF DownloadModel
  <2>2. store' \in [Ranks -> {"missing", "fetching", "present", "reported"}]
    BY <1>9 DEF DownloadModel, TypeOK
  <2> QED BY <1>9, <2>1, <2>2 DEF DownloadModel, TypeOK
<1>10. ASSUME NEW n \in Ranks, StartRunnerTask(n) PROVE TypeOK'
  <2>1. {"ConnectToGroup", "LoadModel", "StartWarmup"} \subseteq Tasks
    BY DEF Tasks
  <2> QED BY <1>10, <1>c, <2>1 DEF StartRunnerTask, TypeOK
<1>11. ASSUME NEW n \in Ranks, Boot(n) PROVE TypeOK'
  <2>1. "Idle" \in Statuses /\ "Idle" \in Phases
    BY DEF Statuses, Phases
  <2>2. <<Status("Idle")>> \in Seq(Messages)
    BY <2>1, MessageFacts
  <2> QED BY <1>11, <1>a, <1>b, <2>1, <2>2 DEF Boot, TypeOK
<1>12. ASSUME NEW n \in Ranks, TakeTask(n) PROVE TypeOK'
  <2>1. Head(tasks[n]) \in Tasks /\ Tail(tasks[n]) \in Seq(Tasks)
    BY <1>12 DEF TakeTask, TypeOK
  <2>2. tasks' \in [Ranks -> Seq(Tasks)]
    BY <1>12, <2>1 DEF TakeTask, TypeOK
  <2>3. Announce(Head(tasks[n])) \in Seq(Messages)
    BY <1>e, <2>1, MessageFacts DEF Announce
  <2>4. "raised" \in Phases
    BY DEF Phases
  <2> QED BY <1>12, <1>a, <1>b, <1>e, <2>1, <2>2, <2>3, <2>4 DEF TakeTask, TypeOK
<1>13. ASSUME NEW n \in Ranks, FinishTask(n) PROVE TypeOK'
  <2>1. Conclude(proc[n].phase) \in Seq(Messages)
    BY <1>13, <1>e, MessageFacts DEF FinishTask, Conclude
  <2> QED BY <1>13, <1>a, <1>b, <1>e, <2>1 DEF FinishTask, TypeOK
<1>14. ASSUME NEW n \in Ranks, Exit(n) \/ Raise(n) PROVE TypeOK'
  <2>1. {"exited", "raised"} \subseteq Phases
    BY DEF Phases
  <2>2. failures' \in 0 .. setup.failures
    BY <1>14, WorldAssumption DEF Exit, Raise, TypeOK
  <2> QED BY <1>14, <1>a, <2>1, <2>2 DEF Exit, Raise, TypeOK
<1>15. ASSUME NEW n \in Ranks, Killed(n) PROVE TypeOK'
  <2>1. "killed" \in Phases
    BY DEF Phases
  <2>2. failures' \in 0 .. setup.failures
    BY <1>15, WorldAssumption DEF Killed, TypeOK
  <2>3. pipe' \in [Ranks -> Seq(Messages)]
    <3>1. PICK k \in 0 .. Len(pipe[n]) : pipe' = [pipe EXCEPT ![n] = SubSeq(@, 1, k)]
      BY <1>15 DEF Killed
    <3>2. SubSeq(pipe[n], 1, k) \in Seq(Messages)
      BY DEF TypeOK
    <3> QED BY <3>1, <3>2 DEF TypeOK
  <2> QED BY <1>15, <1>a, <2>1, <2>2, <2>3 DEF Killed, TypeOK
<1>16. ASSUME NEW n \in Ranks, ForwardStatus(n) PROVE TypeOK'
  <2>1. Head(pipe[n]) \in Messages /\ Tail(pipe[n]) \in Seq(Messages)
    BY <1>16 DEF ForwardStatus, TypeOK
  <2>2. Head(pipe[n]).of \in Statuses
    BY <1>16, <2>1, MessageFacts DEF ForwardStatus
  <2>3. in' \in [Ranks -> Seq(Events)]
    BY <1>16, <2>2, EventTypes, BroadcastType DEF ForwardStatus
  <2>4. sup' \in [Ranks -> [status : Statuses \cup {None}, forward : {"on", "checking", "off"}]]
    BY <1>16, <2>2 DEF ForwardStatus, TypeOK
  <2> QED BY <1>16, <2>1, <2>3, <2>4 DEF ForwardStatus, TypeOK
<1>17. ASSUME NEW n \in Ranks, ForwardAck(n) PROVE TypeOK'
  <2>1. Tail(pipe[n]) \in Seq(Messages)
    BY <1>17 DEF ForwardAck, TypeOK
  <2>2. waits' \in [Ranks -> Tasks \cup {None}]
    BY <1>17 DEF ForwardAck, TypeOK
  <2>3. CASE Retire(n)
    BY <1>17, <2>2, <2>3, RetireType DEF ForwardAck, TypeOK
  <2>4. CASE pipe' = [pipe EXCEPT ![n] = Tail(@)] /\ UNCHANGED <<sup, late, proc, tasks>>
    BY <1>17, <2>1, <2>2, <2>4 DEF ForwardAck, TypeOK
  <2> QED BY <1>17, <2>3, <2>4 DEF ForwardAck
<1>18. ASSUME NEW n \in Ranks, ForwardComplete(n) PROVE TypeOK'
  BY <1>18 DEF ForwardComplete, TypeOK
<1>19. ASSUME NEW n \in Ranks, ForwardEnd(n) PROVE TypeOK'
  <2>1. CASE proc[n].phase = "raised"
    <3>1. CASE sup' = [sup EXCEPT ![n].forward = "checking"] /\ pipe' = [pipe EXCEPT ![n] = <<>>] /\ UNCHANGED <<waits, late, proc, tasks>>
      <4>1. sup' \in [Ranks -> [status : Statuses \cup {None}, forward : {"on", "checking", "off"}]]
        BY <3>1 DEF TypeOK
      <4>2. pipe' \in [Ranks -> Seq(Messages)]
        BY <3>1 DEF TypeOK
      <4> QED BY <1>19, <3>1, <4>1, <4>2 DEF ForwardEnd, TypeOK
    <3> QED BY <1>19, <2>1, <3>1 DEF ForwardEnd
  <2>2. CASE Retire(n) /\ waits' = [waits EXCEPT ![n] = None]
    BY <1>19, <2>2, RetireType DEF ForwardEnd, TypeOK
  <2> QED BY <1>19, <2>1, <2>2 DEF ForwardEnd
<1>20. ASSUME NEW n \in Ranks, ReportFailed(n) PROVE TypeOK'
  <2>1. "Failed" \in Statuses
    BY DEF Statuses
  <2>2. in' \in [Ranks -> Seq(Events)] /\ waits' \in [Ranks -> Tasks \cup {None}]
    BY <1>20, <2>1, EventTypes, BroadcastType DEF ReportFailed, ReleasePending, TypeOK
  <2>3. sup' \in [Ranks -> [status : Statuses \cup {None}, forward : {"on", "checking", "off"}]]
    <3>1. \/ sup' = [sup EXCEPT ![n] = NoSupervisor]
          \/ sup' = [sup EXCEPT ![n] = [status |-> "Failed", forward |-> "off"]]
      BY <1>20 DEF ReportFailed
    <3>2. /\ NoSupervisor \in [status : Statuses \cup {None}, forward : {"on", "checking", "off"}]
          /\ [status |-> "Failed", forward |-> "off"]
               \in [status : Statuses \cup {None}, forward : {"on", "checking", "off"}]
      BY <2>1 DEF NoSupervisor
    <3> QED BY <3>1, <3>2 DEF TypeOK
  <2>4. /\ pipe' \in [Ranks -> Seq(Messages)] /\ proc' \in [Ranks -> [phase : Phases, met : BOOLEAN]]
        /\ tasks' \in [Ranks -> Seq(Tasks)]
    <3>1. CASE UNCHANGED <<pipe, proc, tasks>>
      BY <3>1 DEF TypeOK
    <3>2. CASE /\ pipe' = [pipe EXCEPT ![n] = <<>>] /\ proc' = [proc EXCEPT ![n] = NoProcess]
               /\ tasks' = [tasks EXCEPT ![n] = <<>>]
      <4>1. NoProcess \in [phase : Phases, met : BOOLEAN]
        BY DEF NoProcess, Phases
      <4> QED BY <3>2, <4>1 DEF TypeOK
    <3> QED BY <1>20, <3>1, <3>2 DEF ReportFailed
  <2> QED BY <1>20, <2>2, <2>3, <2>4 DEF ReportFailed, TypeOK
<1>21. ASSUME NEW n \in Ranks, LateFailure(n) PROVE TypeOK'
  <2>1. "Failed" \in Statuses
    BY DEF Statuses
  <2>2. in' \in [Ranks -> Seq(Events)]
    BY <1>21, <2>1, EventTypes, BroadcastType DEF LateFailure
  <2>3. late' \in [Ranks -> Nat]
    BY <1>21 DEF LateFailure, TypeOK
  <2> QED BY <1>21, <2>2, <2>3 DEF LateFailure, TypeOK
<1> QED
  BY <1>1, <1>2, <1>3, <1>4, <1>5, <1>6, <1>7, <1>8, <1>9, <1>10, <1>11, <1>12, <1>13, <1>14,
     <1>15, <1>16, <1>17, <1>18, <1>19, <1>20, <1>21
  DEF Next, Plan, Process, Forward, Checked, Watch

-----------------------------------------------------------------------------
(* A runner, its supervisor and the pipe between them.                     *)

Works == Collective \cup {"ShuttingDown"}

Ended == {"raised", "killed", "exited"}

Stable == {"Idle", "Connected", "Loaded", "Ready"}

(* The status the supervisor has, followed by what it has yet to read.     *)
Heard(n, i) == IF i = 0 THEN Status(sup[n].status) ELSE pipe[n][i]

SupervisorInv(n) ==
  /\ sup[n] = NoSupervisor =>
       proc[n] = NoProcess /\ pipe[n] = <<>> /\ tasks[n] = <<>> /\ waits[n] = None
  /\ sup[n] # NoSupervisor => proc[n].phase # None
  /\ sup[n].forward = "on" => sup[n].status \in Statuses \ {"Failed"}
  /\ sup[n].forward = "checking" => proc[n].phase = "raised" /\ sup[n].status \in Statuses \ {"Failed"}
  /\ sup[n].forward = "off" /\ sup[n] # NoSupervisor =>
       sup[n].status = "Failed" /\ proc[n].phase \in {"raised", "killed"} /\ waits[n] = None

(* plan_step waits for one acknowledgement at a time, of the task that is   *)
(* in the queue, or that the runner has taken.                             *)
TaskInv(n) ==
  sup[n].forward = "on" =>
    /\ waits[n] = None => tasks[n] = <<>> /\ \A i \in 1 .. Len(pipe[n]) : pipe[n][i] # Ack
    /\ tasks[n] # <<>> => tasks[n] = <<waits[n]>> /\ \A i \in 1 .. Len(pipe[n]) : pipe[n][i] # Ack
    /\ \A i, j \in 1 .. Len(pipe[n]) : pipe[n][i] = Ack /\ pipe[n][j] = Ack => i = j
    /\ tasks[n] # <<>> /\ proc[n].phase \notin Ended =>
         \/ Accepts(proc[n].phase, waits[n])
         \/ proc[n].phase = "booting" /\ Accepts("Idle", waits[n])

(* What comes before what in the pipe.                                     *)
PipeInv(n) ==
  sup[n].forward = "on" =>
    \A i \in 1 .. Len(pipe[n]) :
      /\ pipe[n][i] # Status("Failed")
      /\ pipe[n][i] = Status("Idle") => i = 1 /\ sup[n].status = "Idle"
      /\ pipe[n][i] = Ack => Heard(n, i - 1) \in Are(Works)
      /\ pipe[n][i] = Complete =>
           \/ i = 1 /\ Heard(n, 0) \in Are(Collective)
           \/ i > 1 /\ pipe[n][i - 1] = Ack /\ Heard(n, i - 2) \in Are(Collective)
      /\ pipe[n][i] \in Are({"Connected", "Loaded", "Ready"}) =>
           \/ i = 1 /\ sup[n].status \in Collective
           \/ i > 1 /\ pipe[n][i - 1] = Complete

(* The pipe ends with what the runner is at.                               *)
PhaseInv(n) ==
  sup[n].forward = "on" =>
    /\ proc[n].phase = "booting" => pipe[n] = <<>> /\ sup[n].status = "Idle"
    /\ proc[n].phase \in Stable => Heard(n, Len(pipe[n])) = Status(proc[n].phase)
    /\ proc[n].phase \in Works =>
         \/ Len(pipe[n]) = 0 /\ sup[n].status = proc[n].phase
         \/ /\ Len(pipe[n]) > 0 /\ pipe[n][Len(pipe[n])] = Ack
            /\ Heard(n, Len(pipe[n]) - 1) = Status(proc[n].phase)
    /\ proc[n].phase \in {"ShuttingDown", "exited"} => waits[n] = "Shutdown"

Local(n) == SupervisorInv(n) /\ TaskInv(n) /\ PipeInv(n) /\ PhaseInv(n)

LocalInv == \A n \in Ranks : Local(n)

LEMMA LocalFrame ==
  ASSUME NEW n \in Ranks, Local(n), UNCHANGED <<sup[n], pipe[n], proc[n], tasks[n], waits[n]>>
  PROVE  Local(n)'
<1>1. SupervisorInv(n)'
  BY DEF Local, SupervisorInv
<1>2. TaskInv(n)'
  BY DEF Local, TaskInv
<1>3. \A i : Heard(n, i)' = Heard(n, i)
  BY DEF Heard
<1>4. PipeInv(n)'
  BY <1>3 DEF Local, PipeInv
<1>5. PhaseInv(n)'
  BY <1>3 DEF Local, PhaseInv
<1> QED BY <1>1, <1>2, <1>4, <1>5 DEF Local

(* A supervisor that is gone leaves nothing behind.                        *)
LEMMA RetireLocal ==
  ASSUME TypeOK, NEW n \in Ranks, Retire(n), waits'[n] = None
  PROVE  Local(n)' /\ sup'[n] = NoSupervisor
<1>1. sup'[n] = NoSupervisor /\ proc'[n] = NoProcess /\ pipe'[n] = <<>> /\ tasks'[n] = <<>>
  BY DEF Retire, TypeOK
<1>2. NoSupervisor.forward = "off"
  BY DEF NoSupervisor
<1> QED BY <1>1, <1>2 DEF Local, SupervisorInv, TaskInv, PipeInv, PhaseInv

(* What plan knows when it waits for nothing: the status of the supervisor  *)
(* is the runner's, or one that calls for no task.                         *)
LEMMA KnownWhenPlanning ==
  ASSUME TypeOK, NEW n \in Ranks, Local(n), sup[n].forward = "on", waits[n] = None,
         proc[n].phase \notin Ended \cup {None}
  PROVE  /\ tasks[n] = <<>> /\ proc[n].phase \in Stable \cup Works \cup {"booting"}
         /\ sup[n].status = "Idle" => proc[n].phase \in {"booting", "Idle"}
         /\ sup[n].status \in {"Connected", "Loaded"} => proc[n].phase = sup[n].status
<1>a. /\ tasks[n] = <<>> /\ \A i \in 1 .. Len(pipe[n]) : pipe[n][i] # Ack
      /\ Len(pipe[n]) \in Nat
  BY DEF Local, TaskInv, TypeOK
<1>b. proc[n].phase \in Stable \cup Works \cup {"booting"}
  BY DEF TypeOK, Phases, Statuses, Stable, Works, Collective, Ended
<1>1. CASE proc[n].phase = "booting"
  BY <1>a, <1>b, <1>1 DEF Local, PhaseInv
<1>2. CASE proc[n].phase \in Works
  <2>1. sup[n].status = proc[n].phase
    BY <1>a, <1>2 DEF Local, PhaseInv
  <2> QED BY <1>a, <1>b, <1>2, <2>1 DEF Works, Collective
<1>3. CASE proc[n].phase \in Stable
  <2> DEFINE k == Len(pipe[n])
  <2>1. Heard(n, k) = Status(proc[n].phase)
    BY <1>3 DEF Local, PhaseInv
  <2>2. CASE k = 0
    <3>1. sup[n].status = proc[n].phase
      BY <2>1, <2>2, MessageFacts DEF Heard
    <3> QED BY <1>a, <1>b, <3>1
  <2>3. CASE k > 0 /\ proc[n].phase = "Idle"
    <3>1. sup[n].status = "Idle"
      BY <1>a, <2>1, <2>3 DEF Heard, Local, PipeInv
    <3> QED BY <1>a, <1>b, <2>3, <3>1
  <2>4. CASE k > 0 /\ proc[n].phase # "Idle"
    <3>1. k \in 1 .. k /\ pipe[n][k] = Status(proc[n].phase)
      BY <1>a, <2>1, <2>4 DEF Heard
    <3>2. pipe[n][k] \in Are({"Connected", "Loaded", "Ready"})
      BY <1>3, <2>4, <3>1, MessageFacts DEF Stable
    <3>3. CASE k = 1 /\ sup[n].status \in Collective
      BY <1>a, <1>b, <3>3 DEF Collective
    <3>4. CASE k > 1 /\ pipe[n][k - 1] = Complete
      <4>1. k - 1 \in 1 .. k
        BY <1>a, <3>4
      <4>2. \/ k - 1 = 1 /\ Heard(n, 0) \in Are(Collective)
            \/ k - 1 > 1 /\ pipe[n][k - 2] = Ack /\ k - 2 \in 1 .. k
        <5>1. \/ k - 1 = 1 /\ Heard(n, 0) \in Are(Collective)
              \/ k - 1 > 1 /\ pipe[n][(k - 1) - 1] = Ack
          BY <3>4, <4>1 DEF Local, PipeInv
        <5>2. (k - 1) - 1 = k - 2 /\ (k - 1 > 1 => k - 2 \in 1 .. k)
          BY <1>a
        <5> QED BY <5>1, <5>2
      <4>3. sup[n].status \in Collective
        BY <1>a, <4>2, MessageFacts DEF Heard
      <4> QED BY <1>a, <1>b, <4>3 DEF Collective
    <3> QED BY <3>1, <3>2, <3>3, <3>4 DEF Local, PipeInv
  <2> QED BY <1>a, <2>2, <2>3, <2>4
<1> QED BY <1>b, <1>1, <1>2, <1>3

LEMMA LocalStep ==
  ASSUME TypeOK, LocalInv, Next
  PROVE  LocalInv'
<1>a. ASSUME NEW n \in Ranks, Local(n)',
             \A m \in Ranks \ {n} : UNCHANGED <<sup[m], pipe[m], proc[m], tasks[m], waits[m]>>
      PROVE  LocalInv'
  <2>1. ASSUME NEW m \in Ranks \ {n} PROVE Local(m)'
    BY <1>a, LocalFrame DEF LocalInv
  <2> QED BY <1>a, <2>1 DEF LocalInv
<1>b. ASSUME UNCHANGED <<sup, pipe, proc, tasks, waits>> PROVE LocalInv'
  BY <1>b, LocalFrame DEF LocalInv
<1>c. ASSUME NEW n \in Ranks, Retire(n), waits'[n] = None,
             \A m \in Ranks \ {n} : waits'[m] = waits[m]
      PROVE  LocalInv'
  <2>1. Local(n)'
    BY <1>c, RetireLocal
  <2>2. \A m \in Ranks \ {n} : UNCHANGED <<sup[m], pipe[m], proc[m], tasks[m], waits[m]>>
    BY <1>c DEF Retire, TypeOK
  <2> QED BY <1>a, <2>1, <2>2
<1>d. \A n \in Ranks : Local(n) /\ (sup[n].forward = "on" => sup[n] # NoSupervisor)
  BY DEF LocalInv, NoSupervisor
<1>e. /\ sup \in [Ranks -> [status : Statuses \cup {None}, forward : {"on", "checking", "off"}]]
      /\ pipe \in [Ranks -> Seq(Messages)] /\ proc \in [Ranks -> [phase : Phases, met : BOOLEAN]]
      /\ tasks \in [Ranks -> Seq(Tasks)] /\ waits \in [Ranks -> Tasks \cup {None}]
  BY DEF TypeOK
<1>1. CASE DeleteInstance
  BY <1>1, <1>b DEF DeleteInstance, runner
<1>2. ASSUME NEW phase \in Collective, Meet(phase) PROVE LocalInv'
  <2>1. UNCHANGED <<sup, pipe, tasks, waits>> /\ \A n \in Ranks : proc'[n].phase = proc[n].phase /\ proc[n].phase # None
    BY <1>2 DEF Meet, worker, Collective, None
  <2>2. ASSUME NEW n \in Ranks PROVE Local(n)'
    <3>1. sup[n] # NoSupervisor
      BY <1>d, <2>1 DEF Local, SupervisorInv, NoProcess
    <3>2. \A i : Heard(n, i)' = Heard(n, i)
      BY <2>1 DEF Heard
    <3>3. SupervisorInv(n)' /\ TaskInv(n)'
      BY <1>d, <2>1, <3>1 DEF Local, SupervisorInv, TaskInv
    <3>4. PipeInv(n)' /\ PhaseInv(n)'
      BY <1>d, <2>1, <3>2 DEF Local, PipeInv, PhaseInv
    <3> QED BY <3>3, <3>4 DEF Local
  <2> QED BY <2>2 DEF LocalInv
<1>3. ASSUME NEW n \in Ranks, Apply(n) \/ Downloaded(n) \/ GiveUp(n) \/ DownloadModel(n) \/ LateFailure(n)
      PROVE  LocalInv'
  BY <1>3, <1>b DEF Apply, Downloaded, GiveUp, DownloadModel, LateFailure, worker, runner
<1>4. ASSUME NEW n \in Ranks, NEW task \in Tasks, StartTask(n, task), UNCHANGED <<sup, pipe, proc>>,
             Planning(n), ~Closed(n), sup[n] # NoSupervisor,
             proc[n].phase \notin Ended =>
               \/ Accepts(proc[n].phase, task)
               \/ proc[n].phase = "booting" /\ Accepts("Idle", task)
      PROVE  LocalInv'
  <2>1. sup[n].forward = "on" /\ waits[n] = None
    BY <1>4, <1>d, <1>e DEF Planning, Closed, Local, SupervisorInv
  <2>2. tasks[n] = <<>> /\ \A i \in 1 .. Len(pipe[n]) : pipe[n][i] # Ack
    BY <1>d, <2>1 DEF Local, TaskInv
  <2>3. tasks'[n] = <<task>> /\ waits'[n] = task
    BY <1>4, <1>e, <2>2 DEF StartTask
  <2>4. \A m \in Ranks \ {n} : UNCHANGED <<sup[m], pipe[m], proc[m], tasks[m], waits[m]>>
    BY <1>4, <1>e DEF StartTask
  <2>5. task # None
    BY DEF Tasks, None
  <2>6. SupervisorInv(n)'
    BY <1>4, <1>d, <2>1 DEF Local, SupervisorInv
  <2>7. TaskInv(n)'
    BY <1>4, <1>d, <2>2, <2>3, <2>5 DEF Local, TaskInv
  <2>8. \A i : Heard(n, i)' = Heard(n, i)
    BY <1>4 DEF Heard
  <2>9. PipeInv(n)'
    BY <1>4, <1>d, <2>8 DEF Local, PipeInv
  <2>10. proc[n].phase \notin {"ShuttingDown", "exited"}
    BY <1>d, <2>1 DEF Local, PhaseInv, None
  <2>11. PhaseInv(n)'
    BY <1>4, <1>d, <2>8, <2>10 DEF Local, PhaseInv
  <2> QED BY <1>a, <2>4, <2>6, <2>7, <2>9, <2>11 DEF Local
<1>5. ASSUME NEW n \in Ranks, KillRunner(n) PROVE LocalInv'
  <2>1. CASE Retire(n) /\ UNCHANGED waits
    BY <1>5, <1>c, <2>1 DEF KillRunner, Planning
  <2>2. CASE ~Closed(n) /\ StartTask(n, "Shutdown") /\ UNCHANGED <<sup, late, pipe, proc>>
    <3>1. "Shutdown" \in Tasks /\ Accepts(proc[n].phase, "Shutdown") /\ Planning(n) /\ sup[n] # NoSupervisor
      BY <1>5 DEF Tasks, Accepts, KillRunner, KillWanted
    <3> QED BY <1>4, <2>2, <3>1
  <2> QED BY <1>5, <2>1, <2>2 DEF KillRunner
<1>6. ASSUME NEW n \in Ranks, Timeout(n) PROVE LocalInv'
  <2>1. waits'[n] = None /\ \A m \in Ranks \ {n} : waits'[m] = waits[m]
    BY <1>6, <1>e DEF Timeout
  <2> QED BY <1>6, <1>c, <2>1 DEF Timeout
<1>7. ASSUME NEW n \in Ranks, CreateRunner(n) PROVE LocalInv'
  <2>1. pipe[n] = <<>> /\ tasks[n] = <<>> /\ waits[n] = None
    BY <1>7, <1>d DEF CreateRunner, CreateWanted, Local, SupervisorInv
  <2>2. /\ sup'[n] = [status |-> "Idle", forward |-> "on"] /\ proc'[n].phase = "booting"
        /\ UNCHANGED <<pipe, tasks, waits>>
        /\ \A m \in Ranks \ {n} : UNCHANGED <<sup[m], proc[m]>>
    BY <1>7, <1>e DEF CreateRunner
  <2>3. sup'[n].status = "Idle" /\ sup'[n].forward = "on" /\ sup'[n] # NoSupervisor
    BY <2>2 DEF NoSupervisor
  <2>4. SupervisorInv(n)'
    BY <2>2, <2>3 DEF SupervisorInv, Statuses, None
  <2>5. TaskInv(n)' /\ PipeInv(n)' /\ PhaseInv(n)'
    BY <2>1, <2>2, <2>3 DEF TaskInv, PipeInv, PhaseInv, Stable, Works, Collective
  <2> QED BY <1>a, <2>2, <2>4, <2>5 DEF Local
<1>8. ASSUME NEW n \in Ranks, StartRunnerTask(n) PROVE LocalInv'
  <2>1. /\ waits[n] = None /\ sup[n] # NoSupervisor /\ ~Closed(n) /\ UNCHANGED <<sup, pipe, proc>>
        /\ sup[n].forward = "on"
    BY <1>8, <1>d, <1>e DEF StartRunnerTask, Running, Planning, Closed, Local, SupervisorInv
  <2>2. PICK task \in {"ConnectToGroup", "LoadModel", "StartWarmup"} :
          /\ StartTask(n, task)
          /\ task = "ConnectToGroup" => sup[n].status = "Idle"
          /\ task = "LoadModel" => sup[n].status \in {"Idle", "Connected"}
          /\ task = "StartWarmup" => sup[n].status = "Loaded"
    BY <1>8 DEF StartRunnerTask, ConnectWanted, LoadWanted, WarmupWanted
  <2>3. task \in Tasks
    BY <2>2 DEF Tasks
  <2>4. proc[n].phase \notin Ended =>
          \/ Accepts(proc[n].phase, task)
          \/ proc[n].phase = "booting" /\ Accepts("Idle", task)
    <3> SUFFICES ASSUME proc[n].phase \notin Ended
                 PROVE  \/ Accepts(proc[n].phase, task)
                        \/ proc[n].phase = "booting" /\ Accepts("Idle", task)
      OBVIOUS
    <3>1. /\ sup[n].status = "Idle" => proc[n].phase \in {"booting", "Idle"}
          /\ sup[n].status \in {"Connected", "Loaded"} => proc[n].phase = sup[n].status
      <4>1. proc[n].phase # None
        BY <1>d, <2>1 DEF Local, SupervisorInv
      <4> QED BY <1>d, <2>1, <4>1, KnownWhenPlanning
    <3> QED BY <2>2, <3>1 DEF Accepts
  <2> QED BY <1>4, <2>1, <2>2, <2>3, <2>4 DEF Planning
<1>9. ASSUME NEW n \in Ranks, Boot(n) PROVE LocalInv'
  <2>1. /\ proc'[n].phase = "Idle" /\ proc[n].phase = "booting" /\ UNCHANGED <<sup, tasks, waits>>
        /\ pipe'[n] = pipe[n] \o <<Status("Idle")>>
        /\ \A m \in Ranks \ {n} : UNCHANGED <<pipe[m], proc[m]>>
    BY <1>9, <1>e DEF Boot, Enter, Send, worker
  <2>2. CASE sup[n].forward # "on"
    <3>1. sup[n] # NoSupervisor /\ sup[n].forward \notin {"checking", "off"}
      BY <1>d, <2>1 DEF Local, SupervisorInv, NoProcess, None
    <3> QED BY <1>e, <2>2, <3>1
  <2>3. CASE sup[n].forward = "on"
    <3>1. pipe[n] = <<>> /\ sup[n].status = "Idle"
      BY <1>d, <2>1, <2>3 DEF Local, PhaseInv
    <3>2. Len(pipe'[n]) = 1 /\ pipe'[n][1] = Status("Idle")
      BY <2>1, <3>1
    <3>3. SupervisorInv(n)'
      BY <1>d, <2>1, <2>3 DEF Local, SupervisorInv, None
    <3>4. TaskInv(n)'
      <4>1. tasks[n] # <<>> => Accepts("Idle", waits[n])
        BY <1>d, <2>1, <2>3 DEF Local, TaskInv, Ended, Accepts
      <4>2. /\ waits[n] = None => tasks[n] = <<>>
            /\ tasks[n] # <<>> => tasks[n] = <<waits[n]>>
        BY <1>d, <2>3 DEF Local, TaskInv
      <4>3. \A i \in 1 .. Len(pipe'[n]) : pipe'[n][i] # Ack
        BY <3>2, MessageFacts
      <4> QED BY <2>1, <4>1, <4>2, <4>3 DEF TaskInv
    <3>5. PipeInv(n)'
      BY <2>1, <3>1, <3>2, MessageFacts DEF PipeInv
    <3>6. PhaseInv(n)'
      BY <2>1, <3>2 DEF PhaseInv, Heard, Stable, Works, Collective
    <3> QED BY <1>a, <2>1, <3>3, <3>4, <3>5, <3>6 DEF Local
  <2> QED BY <2>2, <2>3
<1>10. ASSUME NEW n \in Ranks, TakeTask(n) PROVE LocalInv'
  <2> DEFINE task == Head(tasks[n])
             k == Len(pipe[n])
  <2>1. /\ proc[n].phase \in Stable /\ tasks[n] # <<>> /\ UNCHANGED <<sup, waits>>
        /\ tasks' = [tasks EXCEPT ![n] = Tail(@)]
    BY <1>10 DEF TakeTask, Stable, worker
  <2>2. sup[n].forward = "on"
    BY <1>d, <1>e, <2>1 DEF Local, SupervisorInv, NoProcess, Stable, None
  <2>3. /\ tasks[n] = <<waits[n]>> /\ \A i \in 1 .. k : pipe[n][i] # Ack
        /\ Accepts(proc[n].phase, waits[n])
    BY <1>d, <2>1, <2>2 DEF Local, TaskInv, Stable, Ended
  <2>4. /\ tasks'[n] = <<>> /\ task = waits[n] /\ task \in Tasks
    <3>1. Head(<<waits[n]>>) = waits[n] /\ Tail(<<waits[n]>>) = <<>>
      OBVIOUS
    <3>2. waits[n] # None
      BY <1>d, <2>1, <2>2 DEF Local, TaskInv
    <3> QED BY <1>e, <2>1, <2>3, <3>1, <3>2
  <2>5. /\ proc' = [proc EXCEPT ![n] = [phase |-> Working(task), met |-> FALSE]]
        /\ pipe' = [pipe EXCEPT ![n] = @ \o <<Status(Working(task)), Ack>>]
    BY <1>10, <2>3, <2>4 DEF TakeTask, Enter, Send, Announce
  <2>6. \A m \in Ranks \ {n} : UNCHANGED <<sup[m], pipe[m], proc[m], tasks[m], waits[m]>>
    BY <1>e, <2>1, <2>5
  <2>7. Working(task) \in Works /\ (Working(task) = "ShuttingDown" => waits[n] = "Shutdown")
    BY <2>4 DEF Tasks, Working, Works, Collective
  <2> HIDE DEF task, k
  <2>8. /\ k \in Nat /\ Len(pipe'[n]) = k + 2 /\ pipe'[n][k + 1] = Status(Working(task)) /\ pipe'[n][k + 2] = Ack
        /\ \A i \in 1 .. k : pipe'[n][i] = pipe[n][i]
    BY <1>e, <2>5 DEF k
  <2>9. proc'[n].phase = Working(task)
    BY <1>e, <2>5
  <2>10. \A i \in 0 .. k : Heard(n, i)' = Heard(n, i)
    BY <2>1, <2>8 DEF Heard
  <2>11. \A i \in 1 .. k + 2 : i \in 1 .. k \/ i = k + 1 \/ i = k + 2
    BY <2>8
  <2>12. Working(task) \notin {"Idle", "Failed", "Connected", "Loaded", "Ready", "booting", "raised", "killed", "exited", None}
    BY <2>7 DEF Works, Collective, None
  <2>13. SupervisorInv(n)'
    BY <1>d, <2>1, <2>2, <2>9, <2>12 DEF Local, SupervisorInv, NoSupervisor
  <2>14. TaskInv(n)'
    <3>1. \A i \in 1 .. k + 2 : pipe'[n][i] = Ack => i = k + 2
      BY <2>3, <2>8, <2>11, MessageFacts DEF k
    <3>2. waits[n] # None
      BY <1>d, <2>1, <2>2 DEF Local, TaskInv
    <3> QED BY <2>1, <2>4, <2>8, <3>1, <3>2 DEF TaskInv
  <2>15. PipeInv(n)'
    <3> SUFFICES ASSUME NEW i \in 1 .. k + 2
                 PROVE  /\ pipe'[n][i] # Status("Failed")
                        /\ pipe'[n][i] = Status("Idle") => i = 1 /\ sup[n].status = "Idle"
                        /\ pipe'[n][i] = Ack => Heard(n, i - 1)' \in Are(Works)
                        /\ pipe'[n][i] = Complete =>
                             \/ i = 1 /\ Heard(n, 0)' \in Are(Collective)
                             \/ i > 1 /\ pipe'[n][i - 1] = Ack /\ Heard(n, i - 2)' \in Are(Collective)
                        /\ pipe'[n][i] \in Are({"Connected", "Loaded", "Ready"}) =>
                             \/ i = 1 /\ sup[n].status \in Collective
                             \/ i > 1 /\ pipe'[n][i - 1] = Complete
      BY <2>1, <2>8 DEF PipeInv
    <3>1. CASE i \in 1 .. k
      <4>1. i - 1 \in 0 .. k /\ (i > 1 => i - 1 \in 1 .. k /\ i - 2 \in 0 .. k) /\ 0 \in 0 .. k
        BY <2>8, <3>1
      <4>2. /\ pipe[n][i] # Status("Failed")
            /\ pipe[n][i] = Status("Idle") => i = 1 /\ sup[n].status = "Idle"
            /\ pipe[n][i] = Ack => Heard(n, i - 1) \in Are(Works)
            /\ pipe[n][i] = Complete =>
                 \/ i = 1 /\ Heard(n, 0) \in Are(Collective)
                 \/ i > 1 /\ pipe[n][i - 1] = Ack /\ Heard(n, i - 2) \in Are(Collective)
            /\ pipe[n][i] \in Are({"Connected", "Loaded", "Ready"}) =>
                 \/ i = 1 /\ sup[n].status \in Collective
                 \/ i > 1 /\ pipe[n][i - 1] = Complete
        BY <1>d, <2>2, <3>1 DEF Local, PipeInv, k
      <4>3. /\ pipe'[n][i] = pipe[n][i] /\ Heard(n, i - 1)' = Heard(n, i - 1) /\ Heard(n, 0)' = Heard(n, 0)
            /\ i > 1 => pipe'[n][i - 1] = pipe[n][i - 1] /\ Heard(n, i - 2)' = Heard(n, i - 2)
        BY <2>8, <2>10, <3>1, <4>1
      <4> QED BY <4>2, <4>3
    <3>2. CASE i = k + 1
      BY <2>8, <2>12, <3>2, MessageFacts
    <3>3. CASE i = k + 2
      <4>1. Heard(n, i - 1)' = Status(Working(task))
        BY <2>8, <3>3 DEF Heard
      <4> QED BY <2>7, <2>8, <3>3, <4>1, MessageFacts
    <3> QED BY <2>11, <3>1, <3>2, <3>3
  <2>16. PhaseInv(n)'
    <3>1. Heard(n, Len(pipe[n]) - 1)' = Status(Working(task))
      BY <2>8 DEF Heard
    <3> QED BY <2>1, <2>7, <2>8, <2>9, <2>12, <3>1 DEF PhaseInv, Stable
  <2> QED BY <1>a, <2>6, <2>13, <2>14, <2>15, <2>16 DEF Local
<1>11. ASSUME NEW n \in Ranks, FinishTask(n) PROVE LocalInv'
  <2> DEFINE k == Len(pipe[n])
             old == proc[n].phase
             new == After(old)
  <2>1. /\ old \in Collective /\ UNCHANGED <<sup, tasks, waits>>
        /\ proc' = [proc EXCEPT ![n] = [phase |-> new, met |-> FALSE]]
        /\ pipe' = [pipe EXCEPT ![n] = @ \o <<Complete, Status(new)>>]
    BY <1>11 DEF FinishTask, Enter, Send, Conclude, worker
  <2>2. sup[n].forward = "on"
    <3>1. old \notin {"raised", "killed", None}
      BY <2>1 DEF Collective, None
    <3>2. sup[n] # NoSupervisor
      BY <1>d, <3>1 DEF Local, SupervisorInv, NoProcess
    <3>3. sup[n].forward \notin {"checking", "off"}
      BY <1>d, <3>1, <3>2 DEF Local, SupervisorInv
    <3> QED BY <1>e, <3>3
  <2>3. new \in {"Connected", "Loaded", "Ready"} /\ old \in Works
    BY <2>1 DEF Collective, After, Works
  <2>4. \A m \in Ranks \ {n} : UNCHANGED <<sup[m], pipe[m], proc[m], tasks[m], waits[m]>>
    BY <1>e, <2>1
  <2> HIDE DEF k, new
  <2>5. /\ k \in Nat /\ Len(pipe'[n]) = k + 2 /\ pipe'[n][k + 1] = Complete /\ pipe'[n][k + 2] = Status(new)
        /\ \A i \in 1 .. k : pipe'[n][i] = pipe[n][i]
    BY <1>e, <2>1 DEF k
  <2>6. proc'[n].phase = new
    BY <1>e, <2>1
  <2>7. \A i \in 0 .. k : Heard(n, i)' = Heard(n, i)
    BY <2>1, <2>5 DEF Heard
  <2>8. \A i \in 1 .. k + 2 : i \in 1 .. k \/ i = k + 1 \/ i = k + 2
    BY <2>5
  <2>9. \/ k = 0 /\ sup[n].status = old
        \/ k > 0 /\ pipe[n][k] = Ack /\ Heard(n, k - 1) = Status(old)
    BY <1>d, <2>2, <2>3 DEF Local, PhaseInv, k
  <2>10. SupervisorInv(n)'
    BY <1>d, <2>1, <2>2, <2>3, <2>6 DEF Local, SupervisorInv, NoSupervisor, None
  <2>11. TaskInv(n)'
    <3>1. \A i \in 1 .. k + 2 : pipe'[n][i] = Ack => i \in 1 .. k /\ pipe[n][i] = Ack
      BY <2>5, <2>8, MessageFacts
    <3>2. tasks[n] # <<>> => Accepts(new, waits[n])
      <4>1. tasks[n] # <<>> => Accepts(old, waits[n])
        BY <1>d, <2>1, <2>2 DEF Local, TaskInv, Collective, Ended
      <4> QED BY <2>1, <4>1 DEF Accepts, Collective
    <3> QED BY <1>d, <2>1, <2>2, <2>5, <2>6, <3>1, <3>2 DEF Local, TaskInv, k
  <2>12. PipeInv(n)'
    <3> SUFFICES ASSUME NEW i \in 1 .. k + 2
                 PROVE  /\ pipe'[n][i] # Status("Failed")
                        /\ pipe'[n][i] = Status("Idle") => i = 1 /\ sup[n].status = "Idle"
                        /\ pipe'[n][i] = Ack => Heard(n, i - 1)' \in Are(Works)
                        /\ pipe'[n][i] = Complete =>
                             \/ i = 1 /\ Heard(n, 0)' \in Are(Collective)
                             \/ i > 1 /\ pipe'[n][i - 1] = Ack /\ Heard(n, i - 2)' \in Are(Collective)
                        /\ pipe'[n][i] \in Are({"Connected", "Loaded", "Ready"}) =>
                             \/ i = 1 /\ sup[n].status \in Collective
                             \/ i > 1 /\ pipe'[n][i - 1] = Complete
      BY <2>1, <2>5 DEF PipeInv
    <3>1. CASE i \in 1 .. k
      <4>1. i - 1 \in 0 .. k /\ (i > 1 => i - 1 \in 1 .. k /\ i - 2 \in 0 .. k) /\ 0 \in 0 .. k
        BY <2>5, <3>1
      <4>2. /\ pipe[n][i] # Status("Failed")
            /\ pipe[n][i] = Status("Idle") => i = 1 /\ sup[n].status = "Idle"
            /\ pipe[n][i] = Ack => Heard(n, i - 1) \in Are(Works)
            /\ pipe[n][i] = Complete =>
                 \/ i = 1 /\ Heard(n, 0) \in Are(Collective)
                 \/ i > 1 /\ pipe[n][i - 1] = Ack /\ Heard(n, i - 2) \in Are(Collective)
            /\ pipe[n][i] \in Are({"Connected", "Loaded", "Ready"}) =>
                 \/ i = 1 /\ sup[n].status \in Collective
                 \/ i > 1 /\ pipe[n][i - 1] = Complete
        BY <1>d, <2>2, <3>1 DEF Local, PipeInv, k
      <4>3. /\ pipe'[n][i] = pipe[n][i] /\ Heard(n, i - 1)' = Heard(n, i - 1) /\ Heard(n, 0)' = Heard(n, 0)
            /\ i > 1 => pipe'[n][i - 1] = pipe[n][i - 1] /\ Heard(n, i - 2)' = Heard(n, i - 2)
        BY <2>5, <2>7, <3>1, <4>1
      <4> QED BY <4>2, <4>3
    <3>2. CASE i = k + 1
      <4>1. CASE k = 0 /\ sup[n].status = old
        <5>1. Heard(n, 0)' = Status(old)
          BY <2>1, <4>1 DEF Heard
        <5> QED BY <2>1, <2>5, <3>2, <4>1, <5>1, MessageFacts
      <4>2. CASE k > 0 /\ pipe[n][k] = Ack /\ Heard(n, k - 1) = Status(old)
        <5>1. pipe'[n][i - 1] = Ack /\ Heard(n, i - 2)' = Status(old) /\ i > 1
          <6>1. i - 1 = k /\ i - 2 = k - 1 /\ k \in 1 .. k /\ k - 1 \in 0 .. k
            BY <2>5, <3>2, <4>2
          <6>2. Heard(n, i - 2)' = Heard(n, i - 2) /\ Heard(n, i - 2) = Status(old)
            <7>1. i - 2 \in 0 .. k
              BY <2>5, <6>1
            <7> QED BY <2>7, <4>2, <6>1, <7>1
          <6>3. pipe'[n][i - 1] = pipe[n][i - 1] /\ pipe[n][i - 1] = Ack
            BY <2>5, <4>2, <6>1
          <6>4. i > 1
            BY <2>5, <3>2, <4>2
          <6> QED BY <6>2, <6>3, <6>4
        <5>2. pipe'[n][i] = Complete
          BY <2>5, <3>2
        <5>3. Heard(n, i - 2)' \in Are(Collective)
          BY <2>1, <5>1, MessageFacts
        <5>4. /\ \A s : Complete # Status(s)
              /\ Complete # Ack /\ \A S : Complete \notin Are(S)
          BY MessageFacts
        <5> QED BY <5>1, <5>2, <5>3, <5>4
      <4> QED BY <2>9, <4>1, <4>2
    <3>3. CASE i = k + 2
      <4>1. pipe'[n][i - 1] = Complete /\ i > 1
        BY <2>5, <3>3
      <4> QED BY <2>3, <2>5, <3>3, <4>1, MessageFacts
    <3> QED BY <2>8, <3>1, <3>2, <3>3
  <2>13. PhaseInv(n)'
    <3>1. Heard(n, Len(pipe[n]))' = Status(new)
      BY <2>5 DEF Heard
    <3> QED BY <2>3, <2>6, <3>1 DEF PhaseInv, Works, Collective
  <2> QED BY <1>a, <2>4, <2>10, <2>11, <2>12, <2>13 DEF Local
<1>f. ASSUME NEW n \in Ranks, proc[n].phase \notin Ended \cup {None}
      PROVE  sup[n].forward = "on" /\ sup[n] # NoSupervisor
  <2>1. sup[n] # NoSupervisor
    BY <1>d, <1>f DEF Local, SupervisorInv, NoProcess
  <2>2. sup[n].forward \notin {"checking", "off"}
    BY <1>d, <1>f, <2>1 DEF Local, SupervisorInv, Ended
  <2> QED BY <1>e, <2>1, <2>2
<1>12. ASSUME NEW n \in Ranks, Exit(n) \/ Raise(n) PROVE LocalInv'
  <2>1. /\ proc[n].phase \in Works \cup {"booting"} /\ UNCHANGED <<sup, pipe, tasks, waits>>
        /\ \/ proc[n].phase = "ShuttingDown" /\ proc'[n].phase = "exited"
           \/ proc'[n].phase = "raised"
        /\ \A m \in Ranks \ {n} : UNCHANGED proc[m]
    BY <1>12, <1>e DEF Exit, Raise, Enter, worker, Works
  <2>2. sup[n].forward = "on" /\ sup[n] # NoSupervisor
    BY <1>f, <2>1 DEF Works, Collective, Ended, None
  <2>3. \A i : Heard(n, i)' = Heard(n, i)
    BY <2>1 DEF Heard
  <2>4. SupervisorInv(n)' /\ TaskInv(n)'
    BY <1>d, <2>1, <2>2 DEF Local, SupervisorInv, TaskInv, Ended, None
  <2>5. PipeInv(n)'
    BY <1>d, <2>1, <2>3 DEF Local, PipeInv
  <2>6. PhaseInv(n)'
    BY <1>d, <2>1, <2>2 DEF Local, PhaseInv, Works, Collective, Stable
  <2> QED BY <1>a, <2>1, <2>4, <2>5, <2>6 DEF Local
<1>13. ASSUME NEW n \in Ranks, Killed(n) PROVE LocalInv'
  <2>1. /\ proc[n].phase \notin Ended \cup {None} /\ UNCHANGED <<sup, tasks, waits>>
        /\ proc'[n].phase = "killed" /\ \A m \in Ranks \ {n} : UNCHANGED proc[m]
    BY <1>13, <1>e DEF Killed, Enter, worker, Ended
  <2>2. sup[n].forward = "on" /\ sup[n] # NoSupervisor
    BY <1>f, <2>1
  <2>3. PICK k \in 0 .. Len(pipe[n]) : pipe' = [pipe EXCEPT ![n] = SubSeq(@, 1, k)]
    BY <1>13 DEF Killed
  <2>4. /\ k \in Nat /\ Len(pipe'[n]) = k /\ \A i \in 1 .. k : pipe'[n][i] = pipe[n][i] /\ i \in 1 .. Len(pipe[n])
        /\ \A m \in Ranks \ {n} : UNCHANGED pipe[m]
    BY <1>e, <2>3
  <2>5. \A i \in 0 .. k : Heard(n, i)' = Heard(n, i)
    BY <2>1, <2>4 DEF Heard
  <2>6. SupervisorInv(n)'
    BY <1>d, <2>1, <2>2 DEF Local, SupervisorInv, None
  <2>7. TaskInv(n)'
    <3>1. TaskInv(n) /\ sup[n].forward = "on"
      BY <1>d, <2>2 DEF Local
    <3>2. proc'[n].phase \in Ended /\ UNCHANGED <<sup, tasks, waits>>
      BY <2>1 DEF Ended
    <3>3. \A i \in 1 .. Len(pipe'[n]) : pipe'[n][i] = pipe[n][i] /\ i \in 1 .. Len(pipe[n])
      BY <2>4
    <3> QED BY <3>1, <3>2, <3>3 DEF TaskInv
  <2>8. PipeInv(n)'
    <3> SUFFICES ASSUME NEW i \in 1 .. k
                 PROVE  /\ pipe'[n][i] # Status("Failed")
                        /\ pipe'[n][i] = Status("Idle") => i = 1 /\ sup[n].status = "Idle"
                        /\ pipe'[n][i] = Ack => Heard(n, i - 1)' \in Are(Works)
                        /\ pipe'[n][i] = Complete =>
                             \/ i = 1 /\ Heard(n, 0)' \in Are(Collective)
                             \/ i > 1 /\ pipe'[n][i - 1] = Ack /\ Heard(n, i - 2)' \in Are(Collective)
                        /\ pipe'[n][i] \in Are({"Connected", "Loaded", "Ready"}) =>
                             \/ i = 1 /\ sup[n].status \in Collective
                             \/ i > 1 /\ pipe'[n][i - 1] = Complete
      BY <2>1, <2>4 DEF PipeInv
    <3>1. i - 1 \in 0 .. k /\ (i > 1 => i - 1 \in 1 .. k /\ i - 2 \in 0 .. k) /\ 0 \in 0 .. k
      BY <2>4
    <3>2. /\ pipe[n][i] # Status("Failed")
          /\ pipe[n][i] = Status("Idle") => i = 1 /\ sup[n].status = "Idle"
          /\ pipe[n][i] = Ack => Heard(n, i - 1) \in Are(Works)
          /\ pipe[n][i] = Complete =>
               \/ i = 1 /\ Heard(n, 0) \in Are(Collective)
               \/ i > 1 /\ pipe[n][i - 1] = Ack /\ Heard(n, i - 2) \in Are(Collective)
          /\ pipe[n][i] \in Are({"Connected", "Loaded", "Ready"}) =>
               \/ i = 1 /\ sup[n].status \in Collective
               \/ i > 1 /\ pipe[n][i - 1] = Complete
      BY <1>d, <2>2, <2>4 DEF Local, PipeInv
    <3>3. /\ pipe'[n][i] = pipe[n][i] /\ Heard(n, i - 1)' = Heard(n, i - 1) /\ Heard(n, 0)' = Heard(n, 0)
          /\ i > 1 => pipe'[n][i - 1] = pipe[n][i - 1] /\ Heard(n, i - 2)' = Heard(n, i - 2)
      BY <2>4, <2>5, <3>1
    <3> QED BY <3>2, <3>3
  <2>9. PhaseInv(n)'
    BY <2>1 DEF PhaseInv, Stable, Works, Collective
  <2> QED BY <1>a, <2>1, <2>4, <2>6, <2>7, <2>8, <2>9 DEF Local
<1>g. ASSUME NEW n \in Ranks, pipe[n] # <<>>, pipe' = [pipe EXCEPT ![n] = Tail(@)]
      PROVE  /\ Len(pipe[n]) \in Nat \ {0} /\ Len(pipe'[n]) = Len(pipe[n]) - 1
             /\ pipe[n][1] = Head(pipe[n]) /\ pipe[n][1] \in Messages
             /\ \A i \in 1 .. Len(pipe[n]) - 1 : pipe'[n][i] = pipe[n][i + 1]
             /\ \A m \in Ranks \ {n} : UNCHANGED pipe[m]
  BY <1>e, <1>g
<1>h. ASSUME NEW n \in Ranks, sup[n].forward = "on", NEW i \in 1 .. Len(pipe[n]) - 1
      PROVE  /\ i > 1 => i - 1 \in 1 .. Len(pipe[n]) - 1
             /\ pipe[n][i + 1] # Status("Failed") /\ pipe[n][i + 1] # Status("Idle")
             /\ pipe[n][i + 1] = Ack => Heard(n, i) \in Are(Works)
             /\ pipe[n][i + 1] = Complete => pipe[n][i] = Ack /\ Heard(n, i - 1) \in Are(Collective)
             /\ pipe[n][i + 1] \in Are({"Connected", "Loaded", "Ready"}) => pipe[n][i] = Complete
  <2> DEFINE j == i + 1
  <2>1. j \in 1 .. Len(pipe[n]) /\ j > 1 /\ j - 1 = i /\ j - 2 = i - 1 /\ Len(pipe[n]) \in Nat
        /\ (i > 1 => i - 1 \in 1 .. Len(pipe[n]) - 1)
    BY <1>e
  <2> HIDE DEF j
  <2>2. /\ pipe[n][j] # Status("Failed")
        /\ pipe[n][j] = Status("Idle") => j = 1
        /\ pipe[n][j] = Ack => Heard(n, j - 1) \in Are(Works)
        /\ pipe[n][j] = Complete =>
             \/ j = 1
             \/ j > 1 /\ pipe[n][j - 1] = Ack /\ Heard(n, j - 2) \in Are(Collective)
        /\ pipe[n][j] \in Are({"Connected", "Loaded", "Ready"}) =>
             \/ j = 1
             \/ j > 1 /\ pipe[n][j - 1] = Complete
    BY <1>d, <1>h, <2>1 DEF Local, PipeInv
  <2>3. j # 1
    BY <2>1
  <2> QED BY <2>1, <2>2, <2>3 DEF j
<1>14. ASSUME NEW n \in Ranks, ForwardStatus(n) PROVE LocalInv'
  <2>k. PICK k \in Nat : k = Len(pipe[n])
    BY <1>e
  <2>s. PICK s : s = Head(pipe[n]).of
    OBVIOUS
  <2>1. /\ sup[n].forward = "on" /\ pipe[n] # <<>> /\ Head(pipe[n]).kind = "status"
        /\ pipe' = [pipe EXCEPT ![n] = Tail(@)] /\ sup' = [sup EXCEPT ![n].status = s]
        /\ UNCHANGED <<proc, tasks, waits>>
    BY <1>14, <2>s DEF ForwardStatus
  <2>2. /\ k \in Nat \ {0} /\ Len(pipe'[n]) = k - 1 /\ pipe[n][1] = Head(pipe[n]) /\ pipe[n][1] \in Messages
        /\ \A i \in 1 .. k - 1 : pipe'[n][i] = pipe[n][i + 1]
        /\ \A m \in Ranks \ {n} : UNCHANGED pipe[m]
    BY <1>g, <2>k, <2>1
  <2>3. pipe[n][1] = Status(s) /\ s \in Statuses /\ pipe[n][1] # Ack /\ pipe[n][1] # Complete
    BY <2>1, <2>2, <2>s, MessageFacts
  <2>4. /\ sup'[n].status = s /\ sup'[n].forward = "on"
        /\ \A m \in Ranks \ {n} : UNCHANGED sup[m]
    BY <1>e, <2>1
  <2>5. \A i \in 0 .. k - 1 : Heard(n, i)' = Heard(n, i + 1)
    <3> SUFFICES ASSUME NEW i \in 0 .. k - 1 PROVE Heard(n, i)' = Heard(n, i + 1)
      OBVIOUS
    <3>1. CASE i = 0
      BY <2>3, <2>4, <3>1 DEF Heard
    <3>2. CASE i # 0
      <4>1. i \in 1 .. k - 1 /\ i + 1 # 0
        BY <2>2, <3>2
      <4> QED BY <2>2, <3>2, <4>1 DEF Heard
    <3> QED BY <3>1, <3>2
  <2>6. SupervisorInv(n)'
    <3>1. s # "Failed"
      <4>1. pipe[n][1] # Status("Failed")
        BY <1>d, <2>1, <2>2, <2>k DEF Local, PipeInv
      <4> QED BY <2>3, <4>1
    <3> QED BY <1>d, <2>1, <2>3, <2>4, <3>1 DEF Local, SupervisorInv, NoSupervisor
  <2>7. TaskInv(n)'
    <3>1. \A i \in 1 .. k - 1 : i + 1 \in 1 .. k
      BY <2>2
    <3>2. \A i, j \in 1 .. k - 1 : i + 1 = j + 1 => i = j
      BY <2>2
    <3>3. /\ waits[n] = None => tasks[n] = <<>> /\ \A i \in 1 .. k : pipe[n][i] # Ack
          /\ tasks[n] # <<>> => tasks[n] = <<waits[n]>> /\ \A i \in 1 .. k : pipe[n][i] # Ack
          /\ \A i, j \in 1 .. k : pipe[n][i] = Ack /\ pipe[n][j] = Ack => i = j
          /\ tasks[n] # <<>> /\ proc[n].phase \notin Ended =>
               \/ Accepts(proc[n].phase, waits[n])
               \/ proc[n].phase = "booting" /\ Accepts("Idle", waits[n])
      BY <1>d, <2>1, <2>k DEF Local, TaskInv
    <3>4. ASSUME NEW i \in 1 .. k - 1, NEW j \in 1 .. k - 1, pipe'[n][i] = Ack, pipe'[n][j] = Ack
          PROVE  i = j
      <4>1. pipe[n][i + 1] = Ack /\ pipe[n][j + 1] = Ack /\ i + 1 \in 1 .. k /\ j + 1 \in 1 .. k
        BY <2>2, <3>1, <3>4
      <4>2. i + 1 = j + 1
        BY <3>3, <4>1
      <4> QED BY <3>2, <4>2
    <3>5. (\A i \in 1 .. k : pipe[n][i] # Ack) => \A i \in 1 .. k - 1 : pipe'[n][i] # Ack
      BY <2>2, <3>1
    <3> QED BY <2>1, <2>2, <3>3, <3>4, <3>5 DEF TaskInv
  <2>8. PipeInv(n)'
    <3> SUFFICES ASSUME NEW i \in 1 .. k - 1
                 PROVE  /\ pipe'[n][i] # Status("Failed")
                        /\ pipe'[n][i] = Status("Idle") => i = 1 /\ sup'[n].status = "Idle"
                        /\ pipe'[n][i] = Ack => Heard(n, i - 1)' \in Are(Works)
                        /\ pipe'[n][i] = Complete =>
                             \/ i = 1 /\ Heard(n, 0)' \in Are(Collective)
                             \/ i > 1 /\ pipe'[n][i - 1] = Ack /\ Heard(n, i - 2)' \in Are(Collective)
                        /\ pipe'[n][i] \in Are({"Connected", "Loaded", "Ready"}) =>
                             \/ i = 1 /\ sup'[n].status \in Collective
                             \/ i > 1 /\ pipe'[n][i - 1] = Complete
      BY <2>2 DEF PipeInv
    <3>1. /\ i > 1 => i - 1 \in 1 .. k - 1
          /\ pipe[n][i + 1] # Status("Failed") /\ pipe[n][i + 1] # Status("Idle")
          /\ pipe[n][i + 1] = Ack => Heard(n, i) \in Are(Works)
          /\ pipe[n][i + 1] = Complete => pipe[n][i] = Ack /\ Heard(n, i - 1) \in Are(Collective)
          /\ pipe[n][i + 1] \in Are({"Connected", "Loaded", "Ready"}) => pipe[n][i] = Complete
      BY <1>h, <2>1, <2>k
    <3>2. /\ Heard(n, i - 1)' = Heard(n, i) /\ pipe'[n][i] = pipe[n][i + 1]
          /\ i > 1 => pipe'[n][i - 1] = pipe[n][i] /\ Heard(n, i - 2)' = Heard(n, i - 1)
      <4>1. /\ i - 1 \in 0 .. k - 1 /\ (i - 1) + 1 = i
            /\ i > 1 => i - 2 \in 0 .. k - 1 /\ (i - 2) + 1 = i - 1 /\ i - 1 \in 1 .. k - 1
        BY <2>2
      <4> QED BY <2>2, <2>5, <4>1
    <3>3. i = 1 \/ i > 1
      BY <2>2
    <3> QED BY <2>3, <3>1, <3>2, <3>3
  <2>9. PhaseInv(n)'
    <3>1. CASE proc[n].phase \in Stable
      <4>1. Heard(n, k) = Status(proc[n].phase)
        BY <1>d, <2>1, <3>1, <2>k DEF Local, PhaseInv
      <4>2. k - 1 \in 0 .. k - 1 /\ (k - 1) + 1 = k
        BY <2>2
      <4>3. Heard(n, Len(pipe[n]))' = Status(proc[n].phase)
        BY <2>2, <2>5, <4>1, <4>2 DEF Heard
      <4> QED BY <2>1, <3>1, <4>3 DEF PhaseInv, Stable, Works, Collective
    <3>2. CASE proc[n].phase \in Works
      <4>1. k > 0 /\ pipe[n][k] = Ack /\ Heard(n, k - 1) = Status(proc[n].phase)
        BY <1>d, <2>1, <2>2, <3>2, <2>k DEF Local, PhaseInv
      <4>2. k > 1
        BY <2>2, <2>3, <4>1
      <4>3. k - 1 \in 1 .. k - 1 /\ (k - 1) + 1 = k /\ k - 2 \in 0 .. k - 1 /\ (k - 2) + 1 = k - 1 /\ k - 1 > 0
            /\ (k - 1) - 1 = k - 2
        BY <2>2, <4>2
      <4>4. pipe'[n][k - 1] = pipe[n][(k - 1) + 1] /\ Heard(n, k - 2)' = Heard(n, (k - 2) + 1)
        BY <2>2, <2>5, <4>3
      <4>5. pipe'[n][k - 1] = Ack /\ Heard(n, k - 2)' = Status(proc[n].phase)
        BY <4>1, <4>3, <4>4
      <4>6. Len(pipe[n])' = k - 1 /\ Heard(n, Len(pipe[n]) - 1)' = Heard(n, k - 2)'
        BY <2>2, <4>3 DEF Heard
      <4>7. Len(pipe'[n]) > 0 /\ pipe'[n][Len(pipe'[n])] = Ack
            /\ Heard(n, Len(pipe[n]) - 1)' = Status(proc[n].phase)
        BY <4>3, <4>5, <4>6
      <4> QED BY <1>d, <2>1, <3>2, <4>7 DEF Local, PhaseInv, Stable, Works, Collective
    <3>3. CASE proc[n].phase \notin Stable \cup Works
      BY <1>d, <2>1, <3>3 DEF Local, PhaseInv
    <3> QED BY <3>1, <3>2, <3>3
  <2> QED BY <1>a, <2>1, <2>2, <2>4, <2>6, <2>7, <2>8, <2>9 DEF Local
<1>15. ASSUME NEW n \in Ranks, ForwardAck(n) PROVE LocalInv'
  <2>1. CASE Retire(n)
    <3>1. waits'[n] = None /\ \A m \in Ranks \ {n} : waits'[m] = waits[m]
      BY <1>15, <1>e DEF ForwardAck
    <3> QED BY <1>c, <2>1, <3>1
  <2>2. CASE /\ waits[n] # "Shutdown" /\ pipe' = [pipe EXCEPT ![n] = Tail(@)]
             /\ UNCHANGED <<sup, late, proc, tasks>>
    <3>k. PICK k \in Nat : k = Len(pipe[n])
      BY <1>e
    <3>1. /\ sup[n].forward = "on" /\ pipe[n] # <<>> /\ Head(pipe[n]).kind = "ack"
          /\ waits' = [waits EXCEPT ![n] = None]
      BY <1>15 DEF ForwardAck
    <3>2. /\ k \in Nat \ {0} /\ Len(pipe'[n]) = k - 1 /\ pipe[n][1] = Head(pipe[n]) /\ pipe[n][1] \in Messages
          /\ \A i \in 1 .. k - 1 : pipe'[n][i] = pipe[n][i + 1]
          /\ \A m \in Ranks \ {n} : UNCHANGED pipe[m]
      BY <1>g, <3>k, <2>2, <3>1
    <3>3. pipe[n][1] = Ack
      BY <3>1, <3>2, MessageFacts
    <3>4. waits'[n] = None /\ \A m \in Ranks \ {n} : UNCHANGED waits[m]
      BY <1>e, <3>1
    <3>5. /\ \A i \in 1 .. k : pipe[n][i] = Ack => i = 1
          /\ tasks[n] = <<>>
      <4>1. 1 \in 1 .. k
        BY <3>2
      <4> QED BY <1>d, <3>1, <3>3, <3>k, <4>1 DEF Local, TaskInv
    <3>6. Heard(n, 0)' = Heard(n, 0) /\ \A i \in 1 .. k - 1 : Heard(n, i)' = Heard(n, i + 1)
      <4>1. \A i \in 1 .. k - 1 : i # 0 /\ i + 1 # 0
        BY <3>2
      <4> QED BY <2>2, <3>2, <4>1 DEF Heard
    <3>7. SupervisorInv(n)'
      BY <1>d, <2>2, <3>1, <3>4 DEF Local, SupervisorInv, NoSupervisor
    <3>8. TaskInv(n)'
      <4>1. \A i \in 1 .. k - 1 : i + 1 \in 1 .. k /\ i + 1 # 1
        BY <3>2
      <4>2. \A i \in 1 .. k - 1 : pipe'[n][i] # Ack
        BY <3>2, <3>5, <4>1
      <4> QED BY <2>2, <3>2, <3>4, <3>5, <4>2 DEF TaskInv
    <3>9. PipeInv(n)'
      <4> SUFFICES ASSUME NEW i \in 1 .. k - 1
                   PROVE  /\ pipe'[n][i] # Status("Failed")
                          /\ pipe'[n][i] = Status("Idle") => i = 1 /\ sup'[n].status = "Idle"
                          /\ pipe'[n][i] = Ack => Heard(n, i - 1)' \in Are(Works)
                          /\ pipe'[n][i] = Complete =>
                               \/ i = 1 /\ Heard(n, 0)' \in Are(Collective)
                               \/ i > 1 /\ pipe'[n][i - 1] = Ack /\ Heard(n, i - 2)' \in Are(Collective)
                          /\ pipe'[n][i] \in Are({"Connected", "Loaded", "Ready"}) =>
                               \/ i = 1 /\ sup'[n].status \in Collective
                               \/ i > 1 /\ pipe'[n][i - 1] = Complete
        BY <3>2 DEF PipeInv
      <4>1. /\ i > 1 => i - 1 \in 1 .. k - 1
            /\ pipe[n][i + 1] # Status("Failed") /\ pipe[n][i + 1] # Status("Idle")
            /\ pipe[n][i + 1] = Ack => Heard(n, i) \in Are(Works)
            /\ pipe[n][i + 1] = Complete => pipe[n][i] = Ack /\ Heard(n, i - 1) \in Are(Collective)
            /\ pipe[n][i + 1] \in Are({"Connected", "Loaded", "Ready"}) => pipe[n][i] = Complete
        BY <1>h, <3>1, <3>k
      <4>2. /\ i \in 1 .. k /\ i + 1 \in 1 .. k /\ i + 1 # 1 /\ (i = 1 \/ i > 1) /\ (i = 1 => i - 1 = 0)
            /\ i > 1 => i - 1 \in 1 .. k - 1 /\ (i - 1) + 1 = i
        BY <3>2
      <4>3. /\ pipe'[n][i] = pipe[n][i + 1] /\ pipe'[n][i] # Ack
            /\ pipe[n][i] = Ack => i = 1
            /\ i > 1 => pipe'[n][i - 1] = pipe[n][i]
        BY <3>2, <3>5, <4>2
      <4>4. pipe'[n][i] = Complete => i = 1 /\ Heard(n, 0)' \in Are(Collective)
        BY <3>6, <4>1, <4>2, <4>3
      <4>5. pipe'[n][i] \in Are({"Connected", "Loaded", "Ready"}) => i > 1 /\ pipe'[n][i - 1] = Complete
        BY <3>3, <4>1, <4>2, <4>3, MessageFacts
      <4> QED BY <4>1, <4>3, <4>4, <4>5
    <3>10. PhaseInv(n)'
      <4>1. CASE proc[n].phase \in Stable
        <5>1. Heard(n, k) = Status(proc[n].phase)
          BY <1>d, <3>1, <4>1, <3>k DEF Local, PhaseInv
        <5>2. k # 1
          BY <3>3, <5>1, MessageFacts DEF Heard
        <5>3. k - 1 \in 1 .. k - 1 /\ (k - 1) + 1 = k
          BY <3>2, <5>2
        <5>4. Heard(n, k - 1)' = Heard(n, (k - 1) + 1)
          BY <3>6, <5>3
        <5>5. Heard(n, Len(pipe[n]))' = Status(proc[n].phase)
          BY <3>2, <5>1, <5>3, <5>4 DEF Heard
        <5> QED BY <2>2, <4>1, <5>5 DEF PhaseInv, Stable, Works, Collective
      <4>2. CASE proc[n].phase \in Works
        <5>1. /\ k > 0 /\ pipe[n][k] = Ack /\ Heard(n, k - 1) = Status(proc[n].phase)
              /\ proc[n].phase # "ShuttingDown"
          BY <1>d, <2>2, <3>1, <3>2, <4>2, <3>k DEF Local, PhaseInv
        <5>2. k = 1
          BY <3>2, <3>5, <5>1
        <5>3. Len(pipe'[n]) = 0 /\ sup[n].status = proc[n].phase
          BY <3>2, <5>1, <5>2, MessageFacts DEF Heard
        <5> QED BY <2>2, <4>2, <5>1, <5>3 DEF PhaseInv, Stable, Works, Collective
      <4>3. CASE proc[n].phase \notin Stable \cup Works
        <5>1. proc[n].phase \notin {"booting", "exited"}
          BY <1>d, <2>2, <3>1 DEF Local, PhaseInv
        <5> QED BY <2>2, <4>3, <5>1 DEF PhaseInv, Works
      <4> QED BY <4>1, <4>2, <4>3
    <3> QED BY <1>a, <2>2, <3>2, <3>4, <3>7, <3>8, <3>9, <3>10 DEF Local
  <2> QED BY <1>15, <2>1, <2>2 DEF ForwardAck
<1>16. ASSUME NEW n \in Ranks, ForwardComplete(n) PROVE LocalInv'
  <2>k. PICK k \in Nat : k = Len(pipe[n])
    BY <1>e
  <2>1. /\ sup[n].forward = "on" /\ pipe[n] # <<>> /\ Head(pipe[n]).kind = "complete"
        /\ pipe' = [pipe EXCEPT ![n] = Tail(@)] /\ UNCHANGED <<sup, proc, tasks, waits>>
    BY <1>16 DEF ForwardComplete, worker
  <2>2. /\ k \in Nat \ {0} /\ Len(pipe'[n]) = k - 1 /\ pipe[n][1] = Head(pipe[n]) /\ pipe[n][1] \in Messages
        /\ \A i \in 1 .. k - 1 : pipe'[n][i] = pipe[n][i + 1]
        /\ \A m \in Ranks \ {n} : UNCHANGED pipe[m]
    BY <1>g, <2>k, <2>1
  <2>3. pipe[n][1] = Complete
    BY <2>1, <2>2, MessageFacts
  <2>4. sup[n].status \in Collective
    <3>1. 1 \in 1 .. Len(pipe[n]) /\ ~(1 > 1)
      BY <2>2, <2>k
    <3>2. Heard(n, 0) \in Are(Collective)
      BY <1>d, <2>1, <2>3, <3>1 DEF Local, PipeInv
    <3> QED BY <3>2, MessageFacts DEF Heard
  <2>6. Heard(n, 0)' = Heard(n, 0) /\ \A i \in 1 .. k - 1 : Heard(n, i)' = Heard(n, i + 1)
    <3>1. \A i \in 1 .. k - 1 : i # 0 /\ i + 1 # 0
      BY <2>2
    <3> QED BY <2>1, <2>2, <3>1 DEF Heard
  <2>7. SupervisorInv(n)'
    BY <1>d, <2>1 DEF Local, SupervisorInv, NoSupervisor
  <2>8. TaskInv(n)'
    <3>1. \A i \in 1 .. k - 1 : i + 1 \in 1 .. k
      BY <2>2
    <3>2. \A i, j \in 1 .. k - 1 : i + 1 = j + 1 => i = j
      BY <2>2
    <3>3. /\ waits[n] = None => tasks[n] = <<>> /\ \A i \in 1 .. k : pipe[n][i] # Ack
          /\ tasks[n] # <<>> => tasks[n] = <<waits[n]>> /\ \A i \in 1 .. k : pipe[n][i] # Ack
          /\ \A i, j \in 1 .. k : pipe[n][i] = Ack /\ pipe[n][j] = Ack => i = j
          /\ tasks[n] # <<>> /\ proc[n].phase \notin Ended =>
               \/ Accepts(proc[n].phase, waits[n])
               \/ proc[n].phase = "booting" /\ Accepts("Idle", waits[n])
      BY <1>d, <2>1, <2>k DEF Local, TaskInv
    <3>4. ASSUME NEW i \in 1 .. k - 1, NEW j \in 1 .. k - 1, pipe'[n][i] = Ack, pipe'[n][j] = Ack
          PROVE  i = j
      <4>1. pipe[n][i + 1] = Ack /\ pipe[n][j + 1] = Ack /\ i + 1 \in 1 .. k /\ j + 1 \in 1 .. k
        BY <2>2, <3>1, <3>4
      <4>2. i + 1 = j + 1
        BY <3>3, <4>1
      <4> QED BY <3>2, <4>2
    <3>5. (\A i \in 1 .. k : pipe[n][i] # Ack) => \A i \in 1 .. k - 1 : pipe'[n][i] # Ack
      BY <2>2, <3>1
    <3> QED BY <2>1, <2>2, <3>3, <3>4, <3>5 DEF TaskInv
  <2>9. PipeInv(n)'
    <3> SUFFICES ASSUME NEW i \in 1 .. k - 1
                 PROVE  /\ pipe'[n][i] # Status("Failed")
                        /\ pipe'[n][i] = Status("Idle") => i = 1 /\ sup'[n].status = "Idle"
                        /\ pipe'[n][i] = Ack => Heard(n, i - 1)' \in Are(Works)
                        /\ pipe'[n][i] = Complete =>
                             \/ i = 1 /\ Heard(n, 0)' \in Are(Collective)
                             \/ i > 1 /\ pipe'[n][i - 1] = Ack /\ Heard(n, i - 2)' \in Are(Collective)
                        /\ pipe'[n][i] \in Are({"Connected", "Loaded", "Ready"}) =>
                             \/ i = 1 /\ sup'[n].status \in Collective
                             \/ i > 1 /\ pipe'[n][i - 1] = Complete
      BY <2>2 DEF PipeInv
    <3>1. /\ i > 1 => i - 1 \in 1 .. k - 1
          /\ pipe[n][i + 1] # Status("Failed") /\ pipe[n][i + 1] # Status("Idle")
          /\ pipe[n][i + 1] = Ack => Heard(n, i) \in Are(Works)
          /\ pipe[n][i + 1] = Complete => pipe[n][i] = Ack /\ Heard(n, i - 1) \in Are(Collective)
          /\ pipe[n][i + 1] \in Are({"Connected", "Loaded", "Ready"}) => pipe[n][i] = Complete
      BY <1>h, <2>1, <2>k
    <3>2. /\ i = 1 \/ i > 1
          /\ i > 1 => i - 1 \in 1 .. k - 1 /\ (i - 1) + 1 = i
          /\ i > 1 /\ i # 2 => i - 2 \in 1 .. k - 1 /\ (i - 2) + 1 = i - 1
      BY <2>2
    <3>3. /\ pipe'[n][i] = pipe[n][i + 1]
          /\ i > 1 => pipe'[n][i - 1] = pipe[n][i] /\ Heard(n, i - 1)' = Heard(n, i)
          /\ i > 1 /\ i # 2 => Heard(n, i - 2)' = Heard(n, i - 1)
      BY <2>2, <2>6, <3>2
    <3>4. pipe'[n][i] = Ack => i > 1 /\ Heard(n, i - 1)' \in Are(Works)
      <4>1. Heard(n, 1) \notin Are(Works)
        BY <2>3, MessageFacts DEF Heard
      <4> QED BY <3>1, <3>2, <3>3, <4>1
    <3>5. pipe'[n][i] = Complete => i > 1 /\ pipe'[n][i - 1] = Ack /\ Heard(n, i - 2)' \in Are(Collective)
      <4>1. Heard(n, 1) \notin Are(Collective) /\ pipe[n][1] # Ack
        BY <2>3, MessageFacts DEF Heard
      <4>2. i = 2 => i - 1 = 1
        OBVIOUS
      <4>3. pipe'[n][i] = Complete => i # 1 /\ i # 2
        BY <3>1, <3>3, <4>1, <4>2
      <4> QED BY <3>1, <3>2, <3>3, <4>3
    <3>6. pipe'[n][i] \in Are({"Connected", "Loaded", "Ready"}) =>
            \/ i = 1 /\ sup'[n].status \in Collective
            \/ i > 1 /\ pipe'[n][i - 1] = Complete
      BY <2>1, <2>4, <3>1, <3>2, <3>3
    <3>7. pipe'[n][i] # Status("Failed") /\ pipe'[n][i] # Status("Idle")
      BY <3>1, <3>3
    <3> QED BY <3>4, <3>5, <3>6, <3>7
  <2>10. PhaseInv(n)'
    <3>1. CASE proc[n].phase \in Stable
      <4>1. Heard(n, k) = Status(proc[n].phase)
        BY <1>d, <2>1, <3>1, <2>k DEF Local, PhaseInv
      <4>2. k # 1
        BY <2>3, <4>1, MessageFacts DEF Heard
      <4>3. k - 1 \in 1 .. k - 1 /\ (k - 1) + 1 = k
        BY <2>2, <4>2
      <4>4. Heard(n, k - 1)' = Heard(n, (k - 1) + 1)
        BY <2>6, <4>3
      <4>5. Heard(n, Len(pipe[n]))' = Status(proc[n].phase)
        BY <2>2, <4>1, <4>3, <4>4 DEF Heard
      <4> QED BY <2>1, <3>1, <4>5 DEF PhaseInv, Stable, Works, Collective
    <3>2. CASE proc[n].phase \in Works
      <4>1. k > 0 /\ pipe[n][k] = Ack /\ Heard(n, k - 1) = Status(proc[n].phase)
        BY <1>d, <2>1, <2>2, <3>2, <2>k DEF Local, PhaseInv
      <4>2. k # 1
        BY <2>3, <4>1, MessageFacts
      <4>3. k # 2
        <5>1. Heard(n, 1) # Status(proc[n].phase)
          BY <2>3, MessageFacts DEF Heard
        <5> QED BY <4>1, <5>1
      <4>4. k - 1 \in 1 .. k - 1 /\ (k - 1) + 1 = k /\ k - 2 \in 1 .. k - 1 /\ (k - 2) + 1 = k - 1 /\ k - 1 > 0
            /\ (k - 1) - 1 = k - 2
        BY <2>2, <4>2, <4>3
      <4>5. pipe'[n][k - 1] = pipe[n][(k - 1) + 1] /\ Heard(n, k - 2)' = Heard(n, (k - 2) + 1)
        BY <2>2, <2>6, <4>4
      <4>6. pipe'[n][k - 1] = Ack /\ Heard(n, k - 2)' = Status(proc[n].phase)
        BY <4>1, <4>4, <4>5
      <4>7. Len(pipe[n])' = k - 1 /\ Heard(n, Len(pipe[n]) - 1)' = Heard(n, k - 2)'
        BY <2>2, <4>4 DEF Heard
      <4>8. Len(pipe'[n]) > 0 /\ pipe'[n][Len(pipe'[n])] = Ack
            /\ Heard(n, Len(pipe[n]) - 1)' = Status(proc[n].phase)
        BY <4>4, <4>6, <4>7
      <4> QED BY <1>d, <2>1, <3>2, <4>8 DEF Local, PhaseInv, Stable, Works, Collective
    <3>3. CASE proc[n].phase \notin Stable \cup Works
      BY <1>d, <2>1, <3>3 DEF Local, PhaseInv
    <3> QED BY <3>1, <3>2, <3>3
  <2> QED BY <1>a, <2>1, <2>2, <2>7, <2>8, <2>9, <2>10 DEF Local
<1>17. ASSUME NEW n \in Ranks, ForwardEnd(n) PROVE LocalInv'
  <2>1. CASE /\ sup[n].forward = "on" /\ proc[n].phase = "raised" /\ sup' = [sup EXCEPT ![n].forward = "checking"]
             /\ pipe' = [pipe EXCEPT ![n] = <<>>] /\ UNCHANGED <<waits, late, proc, tasks>>
    <3>1. /\ sup'[n].forward = "checking" /\ sup'[n].status = sup[n].status /\ sup'[n] # NoSupervisor
          /\ \A m \in Ranks \ {n} : UNCHANGED <<sup[m], pipe[m]>>
      BY <1>e, <2>1 DEF NoSupervisor
    <3>2. SupervisorInv(n)'
      BY <1>d, <2>1, <3>1 DEF Local, SupervisorInv, None
    <3>3. TaskInv(n)' /\ PipeInv(n)' /\ PhaseInv(n)'
      BY <3>1 DEF TaskInv, PipeInv, PhaseInv
    <3> QED BY <1>a, <2>1, <3>1, <3>2, <3>3 DEF Local
  <2>2. CASE Retire(n) /\ waits' = [waits EXCEPT ![n] = None]
    <3>1. waits'[n] = None /\ \A m \in Ranks \ {n} : waits'[m] = waits[m]
      BY <1>e, <2>2
    <3> QED BY <1>c, <2>2, <3>1
  <2> QED BY <1>17, <2>1, <2>2 DEF ForwardEnd
<1>18. ASSUME NEW n \in Ranks, ReportFailed(n), proc[n].phase \in {"raised", "killed"} PROVE LocalInv'
  <2>1. waits'[n] = None /\ \A m \in Ranks \ {n} : UNCHANGED waits[m]
    BY <1>18, <1>e DEF ReportFailed, ReleasePending
  <2>2. CASE /\ sup' = [sup EXCEPT ![n] = NoSupervisor] /\ pipe' = [pipe EXCEPT ![n] = <<>>]
             /\ proc' = [proc EXCEPT ![n] = NoProcess] /\ tasks' = [tasks EXCEPT ![n] = <<>>]
    <3>1. /\ sup'[n] = NoSupervisor /\ proc'[n] = NoProcess /\ pipe'[n] = <<>> /\ tasks'[n] = <<>>
          /\ \A m \in Ranks \ {n} : UNCHANGED <<sup[m], pipe[m], proc[m], tasks[m]>>
      BY <1>e, <2>2
    <3>2. NoSupervisor.forward = "off"
      BY DEF NoSupervisor
    <3>3. Local(n)'
      BY <2>1, <3>1, <3>2 DEF Local, SupervisorInv, TaskInv, PipeInv, PhaseInv
    <3> QED BY <1>a, <2>1, <3>1, <3>3
  <2>3. CASE sup' = [sup EXCEPT ![n] = [status |-> "Failed", forward |-> "off"]] /\ UNCHANGED <<pipe, proc, tasks>>
    <3>1. /\ sup'[n] = [status |-> "Failed", forward |-> "off"]
          /\ \A m \in Ranks \ {n} : UNCHANGED sup[m]
      BY <1>e, <2>3
    <3>2. sup'[n].status = "Failed" /\ sup'[n].forward = "off" /\ sup'[n] # NoSupervisor
      BY <3>1 DEF NoSupervisor, None
    <3>3. Local(n)'
      BY <1>18, <2>1, <2>3, <3>2 DEF Local, SupervisorInv, TaskInv, PipeInv, PhaseInv, None
    <3> QED BY <1>a, <2>1, <2>3, <3>1, <3>3
  <2> QED BY <1>18, <2>2, <2>3 DEF ReportFailed
<1>19. ASSUME NEW n \in Ranks, Checked(n) \/ Watch(n) PROVE LocalInv'
  <2>1. ReportFailed(n) /\ proc[n].phase \in {"raised", "killed"}
    BY <1>19, <1>d DEF Checked, Watch, Local, SupervisorInv
  <2> QED BY <1>18, <2>1
<1> QED
  BY <1>1, <1>2, <1>3, <1>5, <1>6, <1>7, <1>8, <1>9, <1>10, <1>11, <1>12, <1>13, <1>14,
     <1>15, <1>16, <1>17, <1>19
  DEF Next, Plan, Process, Forward

LEMMA TypeInit ==
  ASSUME Init
  PROVE  TypeOK
<1>1. setup.retries \in Nat /\ setup.failures \in Nat /\ setup.disks \subseteq {"missing", "present", "reported"}
  BY WorldAssumption DEF Init
<1>2. in \in [Ranks -> Seq(Events)]
  BY EventTypes DEF Init
<1>3. NoSupervisor \in [status : Statuses \cup {None}, forward : {"on", "checking", "off"}]
  BY DEF NoSupervisor
<1>4. NoProcess \in [phase : Phases, met : BOOLEAN]
  BY DEF NoProcess, Phases
<1>5. view \in [Ranks -> [instance : BOOLEAN, runners : [Ranks -> Statuses \cup {None}], models : SUBSET Ranks]]
  <2>1. [m \in Ranks |-> None] \in [Ranks -> Statuses \cup {None}]
    OBVIOUS
  <2> QED BY <2>1 DEF Init
<1>6. store \in [Ranks -> {"missing", "fetching", "present", "reported"}]
  BY <1>1 DEF Init
<1>7. /\ sup \in [Ranks -> [status : Statuses \cup {None}, forward : {"on", "checking", "off"}]]
      /\ proc \in [Ranks -> [phase : Phases, met : BOOLEAN]]
  BY <1>3, <1>4 DEF Init
<1>8. attempts \in [Ranks -> 0 .. setup.retries] /\ failures \in 0 .. setup.failures
  BY <1>1 DEF Init
<1>9. pipe \in [Ranks -> Seq(Messages)] /\ tasks \in [Ranks -> Seq(Tasks)] /\ late \in [Ranks -> Nat]
  BY DEF Init
<1>10. waits \in [Ranks -> Tasks \cup {None}] /\ setup \in Setups /\ exists \in BOOLEAN /\ deleting \in BOOLEAN
  BY DEF Init
<1> QED BY <1>2, <1>5, <1>6, <1>7, <1>8, <1>9, <1>10 DEF TypeOK

LEMMA LocalInit ==
  ASSUME Init
  PROVE  LocalInv
<1> SUFFICES ASSUME NEW n \in Ranks PROVE Local(n)
  BY DEF LocalInv
<1>1. sup[n] = NoSupervisor /\ proc[n] = NoProcess /\ pipe[n] = <<>> /\ tasks[n] = <<>> /\ waits[n] = None
  BY DEF Init
<1>2. NoSupervisor.forward = "off"
  BY DEF NoSupervisor
<1> QED BY <1>1, <1>2 DEF Local, SupervisorInv, TaskInv, PipeInv, PhaseInv

LEMMA LocalFacts ==
  ASSUME TypeOK, LocalInv
  PROVE  NothingUnexpected
<1>1. ASSUME NEW n \in Ranks, NEW i \in 1 .. Len(tasks[n])
      PROVE  \/ Accepts(proc[n].phase, tasks[n][i])
             \/ proc[n].phase = "booting" /\ Accepts("Idle", tasks[n][i])
             \/ proc[n].phase \in {"raised", "killed"}
  <2>1. Local(n) /\ tasks[n] # <<>> /\ sup[n].forward \in {"on", "checking", "off"}
    BY DEF LocalInv, TypeOK
  <2>2. CASE sup[n].forward = "on"
    <3>1. tasks[n] = <<waits[n]>>
      BY <2>1, <2>2 DEF Local, TaskInv
    <3>2. tasks[n][i] = waits[n]
      BY <3>1
    <3>3. CASE proc[n].phase = "exited"
      BY <2>1, <2>2, <3>2, <3>3 DEF Local, PhaseInv, Accepts
    <3>4. CASE proc[n].phase # "exited"
      BY <2>1, <2>2, <3>2, <3>4 DEF Local, TaskInv, Ended
    <3> QED BY <3>3, <3>4
  <2>3. CASE sup[n].forward # "on"
    BY <2>1, <2>3 DEF Local, SupervisorInv
  <2> QED BY <2>2, <2>3
<1>2. ASSUME NEW n \in Ranks, sup[n].forward = "on", pipe[n] # <<>>, Head(pipe[n]).kind = "complete"
      PROVE  sup[n].status \in Expecting
  <2>1. Local(n) /\ 1 \in 1 .. Len(pipe[n]) /\ pipe[n][1] = Head(pipe[n]) /\ pipe[n][1] \in Messages /\ ~(1 > 1)
    BY <1>2 DEF LocalInv, TypeOK
  <2>2. pipe[n][1] = Complete
    BY <1>2, <2>1, MessageFacts
  <2>3. Heard(n, 0) \in Are(Collective)
    BY <1>2, <2>1, <2>2 DEF Local, PipeInv
  <2>4. sup[n].status \in Collective
    BY <2>3, MessageFacts DEF Heard
  <2> QED BY <2>4 DEF Collective, Expecting
<1> QED BY <1>1, <1>2 DEF NothingUnexpected, NoStrayTask, CompletionExpected

(* TypeOK: besides the types, no worker starts the runner of an instance    *)
(* more often than EXO_MAX_INSTANCE_RETRIES allows (plan_step,              *)
(* worker/main.py:207).                                                    *)
THEOREM RunnerTypes == Spec => []TypeOK
<1>1. TypeOK /\ [Next]_vars => TypeOK'
  <2>1. CASE Next
    BY <2>1, TypeStep
  <2>2. CASE UNCHANGED vars
    BY <2>2 DEF vars, changing, worker, runner, TypeOK
  <2> QED BY <2>1, <2>2
<1> QED BY <1>1, TypeInit, PTL DEF Spec

LEMMA LocalAlways == Spec => [](TypeOK /\ LocalInv)
<1>1. TypeOK /\ LocalInv /\ [Next]_vars => LocalInv'
  <2>1. CASE Next
    BY <2>1, LocalStep
  <2>2. ASSUME LocalInv, UNCHANGED vars PROVE LocalInv'
    <3>1. UNCHANGED <<sup, pipe, proc, tasks, waits>>
      BY <2>2 DEF vars, changing, worker, runner
    <3> QED BY <2>2, <3>1, LocalFrame DEF LocalInv
  <2> QED BY <2>1, <2>2
<1> QED BY <1>1, LocalInit, RunnerTypes, PTL DEF Spec

(* NothingUnexpected: a runner is never given a task that handle_first_task *)
(* would refuse (runner.py:317), and the supervisor never reads a           *)
(* completion in a status that its assertion forbids (supervisor.py:337).   *)
THEOREM OnlyTheExpected == Spec => []NothingUnexpected
BY LocalAlways, LocalFacts, PTL

-----------------------------------------------------------------------------
(* The order of the ranks, until a runner fails or the instance is deleted. *)

Fresh == failures = 0 /\ exists

Warm == {"WarmingUp", "Ready"}

(* Nothing has failed, and nobody has heard of a failure or a deletion.     *)
CalmInv(n) ==
  /\ proc[n].phase \notin Ended \cup {"ShuttingDown"}
  /\ sup[n] # NoSupervisor => sup[n].forward = "on" /\ view[n].instance
  /\ late[n] = 0 /\ waits[n] # "Shutdown"
  /\ \A i \in 1 .. Len(in[n]) : in[n][i].status # "Failed" /\ in[n][i] # InstanceDeleted
  /\ \A m \in Ranks : view[n].runners[m] # "Failed"

(* What was true when the task was planned still is.                        *)
PlannedInv(n) ==
  /\ tasks[n] = <<"LoadModel">> /\ N > 1 => proc[n].phase = "Connected"
  /\ tasks[n] = <<"ConnectToGroup">> /\ n = N - 1 => \A m \in Ranks \ {n} : proc[m].phase \in Begun
  /\ tasks[n] = <<"StartWarmup">> /\ n = 0 => \A m \in Ranks \ {n} : proc[m].phase \in Warm

(* Nobody says of a rank that it has got to S before it has: not its        *)
(* supervisor, not a message under way, no worker and no event of the log.  *)
NoRumour(S) ==
  \A m \in Ranks : proc[m].phase \notin S =>
    /\ sup[m].status \notin S
    /\ \A i \in 1 .. Len(pipe[m]) : pipe[m][i] \notin Are(S)
    /\ \A n \in Ranks :
         /\ view[n].runners[m] \notin S
         /\ \A i \in 1 .. Len(in[n]) : in[n][i].rank = m => in[n][i].status \notin S

LastConnects == N > 1 /\ proc[N - 1].phase \in Begun => \A m \in Ranks : proc[m].phase \in Begun

FirstWarms == proc[0].phase \in Warm => \A m \in Ranks : proc[m].phase \in Warm

FreshFacts ==
  /\ \A n \in Ranks : CalmInv(n) /\ PlannedInv(n)
  /\ NoRumour(Begun)
  /\ NoRumour(Warm)
  /\ LastConnects
  /\ FirstWarms

FreshInv == Fresh => FreshFacts

(* The steps of a rank that are left.                                       *)
Moves(n) ==
  \/ Apply(n) \/ Downloaded(n) \/ CreateRunner(n) \/ GiveUp(n) \/ DownloadModel(n) \/ StartRunnerTask(n)
  \/ Boot(n) \/ TakeTask(n) \/ FinishTask(n)
  \/ ForwardStatus(n) \/ (ForwardAck(n) /\ waits[n] # "Shutdown") \/ ForwardComplete(n)

LEMMA EventFacts ==
  /\ \A m, s : RunnerStatusUpdated(m, s).rank = m /\ RunnerStatusUpdated(m, s).status = s
               /\ RunnerStatusUpdated(m, s) # InstanceDeleted /\ RunnerStatusUpdated(m, s).kind = "RunnerStatusUpdated"
  /\ \A m : DownloadCompleted(m).status = None /\ DownloadCompleted(m) # InstanceDeleted
            /\ DownloadCompleted(m).kind = "DownloadCompleted"
  /\ InstanceCreated.status = None /\ InstanceCreated # InstanceDeleted /\ InstanceCreated.kind = "InstanceCreated"
  /\ InstanceDeleted.kind = "InstanceDeleted"
BY DEF RunnerStatusUpdated, DownloadCompleted, InstanceCreated, InstanceDeleted, Event

LEMMA StaysFresh ==
  ASSUME TypeOK, LocalInv, Next, Fresh'
  PROVE  Fresh
<1>0. failures \in Nat
  BY WorldAssumption DEF TypeOK
<1>1. exists' = exists \/ exists' = FALSE
  BY DEF Next, DeleteInstance, Meet, Apply, Downloaded, Plan, Process, Forward, Checked, Watch, ReportFailed,
         LateFailure, KillRunner, Timeout, CreateRunner, GiveUp, DownloadModel, StartRunnerTask, Boot,
         TakeTask, FinishTask, Exit, Raise, Killed, ForwardStatus, ForwardAck, ForwardComplete, ForwardEnd
<1>2. failures' = failures \/ failures' = failures + 1
  BY DEF Next, DeleteInstance, Meet, Apply, Downloaded, Plan, Process, Forward, Checked, Watch, ReportFailed,
         LateFailure, KillRunner, Timeout, CreateRunner, GiveUp, DownloadModel, StartRunnerTask, Boot,
         TakeTask, FinishTask, Exit, Raise, Killed, ForwardStatus, ForwardAck, ForwardComplete, ForwardEnd,
         runner
<1>3. failures = 0
  <2>1. failures' = 0
    BY DEF Fresh
  <2> QED BY <1>0, <1>2, <2>1
<1>4. exists
  <2>1. exists'
    BY DEF Fresh
  <2> QED BY <1>1, <2>1
<1> QED BY <1>3, <1>4 DEF Fresh

(* While nothing fails nothing is killed, cancelled or reported as failed.  *)
LEMMA WhatIsLeft ==
  ASSUME TypeOK, LocalInv, FreshFacts, Next, Fresh, Fresh'
  PROVE  (\E phase \in Collective : Meet(phase)) \/ \E n \in Ranks : Moves(n)
<1>0. failures = 0 /\ failures' = 0 /\ exists' = TRUE
  BY DEF Fresh, TypeOK, Next, DeleteInstance
<1>1. ~DeleteInstance
  BY <1>0 DEF DeleteInstance
<1>2. ASSUME NEW n \in Ranks
      PROVE  /\ CalmInv(n) /\ Local(n)
             /\ sup[n].forward \in {"on", "off"} /\ late[n] = 0
             /\ sup[n].forward = "on" => sup[n] # NoSupervisor
  BY DEF FreshFacts, CalmInv, LocalInv, TypeOK, NoSupervisor, Local, SupervisorInv, Ended
<1>3. ASSUME NEW n \in Ranks PROVE ~KillRunner(n)
  <2>1. ~SiblingFailed(n)
    BY <1>2 DEF CalmInv, SiblingFailed
  <2>2. sup[n] # NoSupervisor => sup[n].status # "Failed" /\ view[n].instance
    BY <1>2 DEF CalmInv, Local, SupervisorInv
  <2> QED BY <2>1, <2>2 DEF KillRunner, KillWanted
<1>4. ASSUME NEW n \in Ranks PROVE ~Timeout(n) /\ ~Exit(n) /\ ~Raise(n) /\ ~Killed(n) /\ ~ForwardEnd(n)
  <2>1. ~Raise(n) /\ ~Killed(n)
    BY <1>0 DEF Raise, Killed
  <2>2. ~Timeout(n) /\ ~Exit(n)
    BY <1>2 DEF CalmInv, Timeout, Exit
  <2>3. ~ForwardEnd(n)
    BY <1>2 DEF CalmInv, ForwardEnd, Ended
  <2> QED BY <2>1, <2>2, <2>3
<1>5. ASSUME NEW n \in Ranks PROVE ~Checked(n) /\ ~Watch(n) /\ ~LateFailure(n)
  <2>1. ~Checked(n) /\ ~Watch(n)
    BY <1>2 DEF CalmInv, Checked, Watch, Ended
  <2>2. ~LateFailure(n)
    BY <1>2 DEF LateFailure
  <2> QED BY <2>1, <2>2
<1>6. ASSUME NEW n \in Ranks, ForwardAck(n) PROVE waits[n] # "Shutdown"
  BY <1>2 DEF CalmInv
<1>7. ASSUME NEW n \in Ranks,
             \/ Apply(n) \/ Downloaded(n) \/ Plan(n) \/ Process(n)
             \/ Raise(n) \/ Killed(n) \/ Forward(n) \/ Checked(n) \/ Watch(n) \/ LateFailure(n)
      PROVE  Moves(n)
  <2>1. ~KillRunner(n) /\ ~Timeout(n) /\ ~Exit(n) /\ ~Raise(n) /\ ~Killed(n) /\ ~ForwardEnd(n)
    BY <1>3, <1>4
  <2>2. ~Checked(n) /\ ~Watch(n) /\ ~LateFailure(n)
    BY <1>5
  <2>3. CASE Plan(n)
    BY <2>1, <2>3 DEF Plan, Moves
  <2>4. CASE Process(n)
    BY <2>1, <2>4 DEF Process, Moves
  <2>5. CASE Forward(n)
    BY <1>6, <2>1, <2>5 DEF Forward, Moves
  <2>6. CASE Apply(n) \/ Downloaded(n)
    BY <2>6 DEF Moves
  <2> QED BY <1>7, <2>1, <2>2, <2>3, <2>4, <2>5, <2>6
<1> QED BY <1>1, <1>7 DEF Next

(* Where a process goes.                                                    *)
LEMMA PhaseMoves ==
  ASSUME TypeOK, LocalInv, NEW n \in Ranks, CalmInv(n), Moves(n)
  PROVE  /\ \A m \in Ranks \ {n} : proc'[m] = proc[m]
         /\ \/ proc'[n].phase = proc[n].phase
            \/ proc[n].phase = None /\ proc'[n].phase = "booting"
            \/ proc[n].phase = "booting" /\ proc'[n].phase = "Idle"
            \/ proc[n].phase \in Collective /\ proc'[n].phase = After(proc[n].phase)
            \/ \E task \in Tasks \ {"Shutdown"} :
                 /\ tasks[n] = <<task>> /\ tasks'[n] = <<>>
                 /\ proc[n].phase \in Stable /\ Accepts(proc[n].phase, task)
                 /\ proc'[n].phase = Working(task)
<1>a. proc \in [Ranks -> [phase : Phases, met : BOOLEAN]] /\ tasks \in [Ranks -> Seq(Tasks)] /\ Local(n)
  BY DEF TypeOK, LocalInv
<1>1. CASE TakeTask(n)
  <2>1. /\ proc[n].phase \in Stable /\ tasks[n] # <<>> /\ tasks' = [tasks EXCEPT ![n] = Tail(@)]
    BY <1>1 DEF TakeTask, Stable
  <2>2. sup[n].forward = "on"
    <3>1. sup[n] # NoSupervisor
      BY <1>a, <2>1 DEF Local, SupervisorInv, NoProcess, Stable, None
    <3> QED BY <3>1 DEF CalmInv
  <2>3. tasks[n] = <<waits[n]>> /\ Accepts(proc[n].phase, waits[n]) /\ waits[n] # "Shutdown"
    BY <1>a, <2>1, <2>2 DEF Local, TaskInv, Stable, Ended, CalmInv
  <2>4. Head(tasks[n]) = waits[n] /\ tasks'[n] = <<>> /\ waits[n] \in Tasks
    <3>1. Head(<<waits[n]>>) = waits[n] /\ Tail(<<waits[n]>>) = <<>>
      OBVIOUS
    <3>2. Head(tasks[n]) \in Tasks
      BY <1>a, <2>1
    <3> QED BY <1>a, <2>1, <2>3, <3>1, <3>2
  <2>5. proc' = [proc EXCEPT ![n] = [phase |-> Working(waits[n]), met |-> FALSE]]
    BY <1>1, <2>3, <2>4 DEF TakeTask, Enter
  <2> QED BY <1>a, <2>1, <2>3, <2>4, <2>5
<1>2. CASE FinishTask(n)
  BY <1>a, <1>2 DEF FinishTask, Enter
<1>3. CASE Boot(n)
  BY <1>a, <1>3 DEF Boot, Enter
<1>4. CASE CreateRunner(n)
  <2>1. proc[n].phase = None
    BY <1>a, <1>4 DEF CreateRunner, CreateWanted, Local, SupervisorInv, NoProcess
  <2> QED BY <1>a, <1>4, <2>1 DEF CreateRunner
<1>5. CASE \/ Apply(n) \/ Downloaded(n) \/ GiveUp(n) \/ DownloadModel(n) \/ StartRunnerTask(n)
           \/ ForwardStatus(n) \/ (ForwardAck(n) /\ waits[n] # "Shutdown") \/ ForwardComplete(n)
  <2>1. UNCHANGED proc
    BY <1>5 DEF Apply, Downloaded, GiveUp, DownloadModel, StartRunnerTask, ForwardStatus, ForwardAck,
                ForwardComplete, runner
  <2> QED BY <2>1
<1> QED BY <1>1, <1>2, <1>3, <1>4, <1>5 DEF Moves

(* No process goes back, fails or shuts down.                               *)
LEMMA PhasesGrow ==
  ASSUME TypeOK, LocalInv, NEW n \in Ranks, CalmInv(n), Moves(n), NEW m \in Ranks
  PROVE  /\ proc[m].phase \in Begun => proc'[m].phase \in Begun
         /\ proc[m].phase \in Warm => proc'[m].phase \in Warm
         /\ proc[m].phase \notin Ended \cup {"ShuttingDown"} => proc'[m].phase \notin Ended \cup {"ShuttingDown"}
<1>1. CASE proc'[m].phase = proc[m].phase
  BY <1>1
<1>2. CASE m = n /\ proc'[n].phase # proc[n].phase
  <2>1. CASE \/ proc[n].phase = None /\ proc'[n].phase = "booting"
             \/ proc[n].phase = "booting" /\ proc'[n].phase = "Idle"
    BY <1>2, <2>1 DEF Begun, Warm, Collective, Ended, None
  <2>2. CASE proc[n].phase \in Collective /\ proc'[n].phase = After(proc[n].phase)
    BY <1>2, <2>2 DEF Begun, Warm, Collective, Ended, After
  <2>3. ASSUME NEW task \in Tasks \ {"Shutdown"}, proc[n].phase \in Stable,
               Accepts(proc[n].phase, task), proc'[n].phase = Working(task)
        PROVE  /\ proc[n].phase \in Begun => proc'[n].phase \in Begun
               /\ proc[n].phase \in Warm => proc'[n].phase \in Warm
               /\ proc'[n].phase \notin Ended \cup {"ShuttingDown"}
    BY <2>3 DEF Tasks, Stable, Accepts, Working, Begun, Warm, Collective, Ended
  <2> QED BY <1>2, <2>1, <2>2, <2>3, PhaseMoves
<1> QED BY <1>1, <1>2, PhaseMoves

(* Where the events of the log, and what the workers know, come from.       *)
LEMMA BroadcastFacts ==
  ASSUME TypeOK, NEW e, Broadcast(e), NEW n \in Ranks, NEW i \in 1 .. Len(in'[n])
  PROVE  in'[n][i] = e \/ \E j \in 1 .. Len(in[n]) : in'[n][i] = in[n][j]
<1>1. in'[n] = Append(in[n], e) /\ in[n] \in Seq(Events)
  BY DEF Broadcast, TypeOK
<1>2. i \in 1 .. Len(in[n]) \/ i = Len(in[n]) + 1
  BY <1>1
<1>3. CASE i \in 1 .. Len(in[n])
  <2>1. in'[n][i] = in[n][i]
    BY <1>1, <1>3
  <2> QED BY <1>3, <2>1
<1>4. CASE i = Len(in[n]) + 1
  BY <1>1, <1>4
<1> QED BY <1>2, <1>3, <1>4

LEMMA LogMoves ==
  ASSUME TypeOK, LocalInv, NEW o \in Ranks, Moves(o), NEW n \in Ranks
  PROVE  \A i \in 1 .. Len(in'[n]) :
            \/ \E j \in 1 .. Len(in[n]) : in'[n][i] = in[n][j]
            \/ in'[n][i] = DownloadCompleted(o)
            \/ /\ in'[n][i] = RunnerStatusUpdated(o, Head(pipe[o]).of)
               /\ pipe[o] # <<>> /\ Head(pipe[o]).kind = "status" /\ sup[o].forward = "on"
<1> SUFFICES ASSUME NEW i \in 1 .. Len(in'[n])
             PROVE  \/ \E j \in 1 .. Len(in[n]) : in'[n][i] = in[n][j]
                    \/ in'[n][i] = DownloadCompleted(o)
                    \/ /\ in'[n][i] = RunnerStatusUpdated(o, Head(pipe[o]).of)
                       /\ pipe[o] # <<>> /\ Head(pipe[o]).kind = "status" /\ sup[o].forward = "on"
  OBVIOUS
<1>1. CASE Apply(o)
  <2>1. in[o] # <<>> /\ in' = [in EXCEPT ![o] = Tail(@)] /\ in \in [Ranks -> Seq(Events)]
    BY <1>1 DEF Apply, TypeOK
  <2>2. CASE n # o
    <3>1. in'[n] = in[n]
      BY <2>1, <2>2
    <3> QED BY <3>1
  <2>3. CASE n = o
    <3>1. i + 1 \in 1 .. Len(in[n]) /\ in'[n][i] = in[n][i + 1]
      BY <2>1, <2>3
    <3> QED BY <3>1
  <2> QED BY <2>2, <2>3
<1>2. CASE Downloaded(o) \/ DownloadModel(o)
  <2>1. Broadcast(DownloadCompleted(o)) \/ UNCHANGED in
    BY <1>2 DEF Downloaded, DownloadModel
  <2> QED BY <2>1, BroadcastFacts
<1>3. CASE ForwardStatus(o)
  <2>1. /\ Broadcast(RunnerStatusUpdated(o, Head(pipe[o]).of))
        /\ pipe[o] # <<>> /\ Head(pipe[o]).kind = "status" /\ sup[o].forward = "on"
    BY <1>3 DEF ForwardStatus
  <2> QED BY <2>1, BroadcastFacts
<1>4. CASE \/ CreateRunner(o) \/ GiveUp(o) \/ StartRunnerTask(o) \/ Boot(o) \/ TakeTask(o) \/ FinishTask(o)
           \/ ForwardAck(o) \/ ForwardComplete(o)
  <2>1. UNCHANGED in
    BY <1>4 DEF CreateRunner, GiveUp, StartRunnerTask, Boot, TakeTask, FinishTask, ForwardAck, ForwardComplete,
                worker
  <2> QED BY <2>1
<1> QED BY <1>1, <1>2, <1>3, <1>4 DEF Moves

LEMMA ViewMoves ==
  ASSUME TypeOK, NEW o \in Ranks, Moves(o), NEW n \in Ranks
  PROVE  /\ \A m \in Ranks :
              \/ view'[n].runners[m] = view[n].runners[m]
              \/ \E j \in 1 .. Len(in[n]) : in[n][j].rank = m /\ view'[n].runners[m] = in[n][j].status
         /\ view[n].instance /\ (\A j \in 1 .. Len(in[n]) : in[n][j] # InstanceDeleted) => view'[n].instance
<1>1. CASE Apply(o)
  <2>1. PICK e : e = Head(in[o])
    OBVIOUS
  <2>2. /\ in[o] # <<>> /\ view' = [view EXCEPT ![o] = EventApply(@, e)] /\ 1 \in 1 .. Len(in[o])
        /\ in[o][1] = e /\ e \in Events
    BY <1>1, <2>1 DEF Apply, TypeOK
  <2>3. CASE n # o
    <3>1. view'[n] = view[n]
      BY <2>2, <2>3 DEF TypeOK
    <3> QED BY <3>1
  <2>4. CASE n = o
    <3>1. view'[n] = EventApply(view[n], e)
      BY <2>2, <2>4 DEF TypeOK
    <3>2. view[n] \in [instance : BOOLEAN, runners : [Ranks -> Statuses \cup {None}], models : SUBSET Ranks]
      BY DEF TypeOK
    <3>3. CASE e = InstanceCreated
      <4>1. view'[n] = [view[n] EXCEPT !.instance = TRUE]
        BY <3>1, <3>3 DEF EventApply, InstanceCreated, Event
      <4>2. view'[n].instance /\ view'[n].runners = view[n].runners
        BY <3>2, <4>1
      <4> QED BY <4>2
    <3>4. CASE e = InstanceDeleted
      <4>1. view'[n] = [view[n] EXCEPT !.instance = FALSE]
        BY <3>1, <3>4 DEF EventApply, InstanceDeleted, Event
      <4>2. view'[n].runners = view[n].runners
        BY <3>2, <4>1
      <4> QED BY <2>2, <2>4, <3>4, <4>2
    <3>5. CASE \E m \in Ranks : e = DownloadCompleted(m)
      <4> PICK m \in Ranks : e = DownloadCompleted(m)
        BY <3>5
      <4>1. view'[n] = [view[n] EXCEPT !.models = @ \cup {m}]
        BY <3>1 DEF EventApply, DownloadCompleted, Event
      <4>2. view'[n].runners = view[n].runners /\ view'[n].instance = view[n].instance
        BY <3>2, <4>1
      <4> QED BY <4>2
    <3>6. CASE \E m \in Ranks, s \in Statuses : e = RunnerStatusUpdated(m, s)
      <4>1. PICK r \in Ranks : \E s \in Statuses : e = RunnerStatusUpdated(r, s)
        BY <3>6
      <4>2. PICK s \in Statuses : e = RunnerStatusUpdated(r, s)
        BY <4>1
      <4>3. view'[n] = [view[n] EXCEPT !.runners[r] = s]
        BY <3>1, <4>2 DEF EventApply, RunnerStatusUpdated, Event
      <4>4. view'[n].instance = view[n].instance
        BY <3>2, <4>3
      <4>5. view'[n].runners = [view[n].runners EXCEPT ![r] = s]
        BY <3>2, <4>3
      <4>6. \A m \in Ranks : view'[n].runners[m] = view[n].runners[m] \/ (m = r /\ view'[n].runners[m] = s)
        <5>1. view[n].runners \in [Ranks -> Statuses \cup {None}]
          BY <3>2
        <5> QED BY <4>5, <5>1
      <4>7. e.rank = r /\ e.status = s
        BY <4>2, EventFacts
      <4> QED BY <2>2, <2>4, <4>4, <4>6, <4>7
    <3> QED BY <2>2, <3>3, <3>4, <3>5, <3>6 DEF Events
  <2> QED BY <2>3, <2>4
<1>2. CASE Moves(o) /\ ~Apply(o)
  <2>1. UNCHANGED view
    BY <1>2 DEF Moves, Downloaded, CreateRunner, GiveUp, DownloadModel, StartRunnerTask, Boot, TakeTask,
                FinishTask, ForwardStatus, ForwardAck, ForwardComplete, worker
  <2> QED BY <2>1
<1> QED BY <1>1, <1>2

(* Where the messages of the runner and the status of the supervisor come   *)
(* from.                                                                    *)
LEMMA SendFacts ==
  ASSUME TypeOK, NEW n \in Ranks, NEW ms \in Seq(Messages), Send(n, ms), NEW m \in Ranks, NEW i \in 1 .. Len(pipe'[m])
  PROVE  \/ \E j \in 1 .. Len(pipe[m]) : pipe'[m][i] = pipe[m][j]
         \/ m = n /\ \E j \in 1 .. Len(ms) : pipe'[m][i] = ms[j]
<1>1. pipe \in [Ranks -> Seq(Messages)] /\ pipe' = [pipe EXCEPT ![n] = @ \o ms]
  BY DEF Send, TypeOK
<1>2. CASE m # n
  <2>1. pipe'[m] = pipe[m]
    BY <1>1, <1>2
  <2> QED BY <2>1
<1>3. CASE m = n
  <2>1. pipe'[n] = pipe[n] \o ms
    BY <1>1
  <2>2. i \in 1 .. Len(pipe[n]) \/ i - Len(pipe[n]) \in 1 .. Len(ms)
    BY <1>1, <1>3, <2>1
  <2>3. CASE i \in 1 .. Len(pipe[n])
    <3>1. pipe'[n][i] = pipe[n][i]
      BY <1>1, <2>1, <2>3
    <3> QED BY <1>3, <2>3, <3>1
  <2>4. CASE i - Len(pipe[n]) \in 1 .. Len(ms)
    <3>1. pipe'[n][i] = ms[i - Len(pipe[n])]
      BY <1>1, <1>3, <2>1, <2>4
    <3> QED BY <1>3, <2>4, <3>1
  <2> QED BY <2>2, <2>3, <2>4
<1> QED BY <1>2, <1>3

LEMMA PipeMoves ==
  ASSUME TypeOK, LocalInv, NEW n \in Ranks, CalmInv(n), Moves(n), NEW m \in Ranks
  PROVE  /\ \A i \in 1 .. Len(pipe'[m]) :
              \/ \E j \in 1 .. Len(pipe[m]) : pipe'[m][i] = pipe[m][j]
              \/ pipe'[m][i] \in {Ack, Complete, Status(proc'[m].phase)}
         /\ \/ sup'[m].status = sup[m].status
            \/ sup'[m].status = "Idle"
            \/ /\ pipe[m] # <<>> /\ Head(pipe[m]).kind = "status"
               /\ sup'[m].status = Head(pipe[m]).of
<1>a. /\ pipe \in [Ranks -> Seq(Messages)] /\ proc \in [Ranks -> [phase : Phases, met : BOOLEAN]]
      /\ sup \in [Ranks -> [status : Statuses \cup {None}, forward : {"on", "checking", "off"}]]
      /\ tasks \in [Ranks -> Seq(Tasks)]
  BY DEF TypeOK
<1>b. ASSUME NEW ms \in Seq(Messages), Send(n, ms),
             \A j \in 1 .. Len(ms) : ms[j] \in {Ack, Complete, Status(proc'[n].phase)},
             NEW i \in 1 .. Len(pipe'[m])
      PROVE  \/ \E j \in 1 .. Len(pipe[m]) : pipe'[m][i] = pipe[m][j]
             \/ pipe'[m][i] \in {Ack, Complete, Status(proc'[m].phase)}
  <2>1. \/ \E j \in 1 .. Len(pipe[m]) : pipe'[m][i] = pipe[m][j]
        \/ m = n /\ \E j \in 1 .. Len(ms) : pipe'[m][i] = ms[j]
    BY <1>b, SendFacts
  <2>2. CASE m = n /\ \E j \in 1 .. Len(ms) : pipe'[m][i] = ms[j]
    BY <1>b, <2>2
  <2> QED BY <2>1, <2>2
<1>1. CASE Boot(n)
  <2>1. <<Status("Idle")>> \in Seq(Messages) /\ proc'[n].phase = "Idle" /\ UNCHANGED sup
        /\ Send(n, <<Status("Idle")>>) /\ \A j \in 1 .. Len(<<Status("Idle")>>) : <<Status("Idle")>>[j] = Status("Idle")
    BY <1>a, <1>1, MessageFacts DEF Boot, Enter, Statuses
  <2>2. \A j \in 1 .. Len(<<Status("Idle")>>) : <<Status("Idle")>>[j] \in {Ack, Complete, Status(proc'[n].phase)}
    BY <2>1
  <2> QED BY <1>b, <2>1, <2>2
<1>2. CASE TakeTask(n)
  <2>1. UNCHANGED sup
    BY <1>2 DEF TakeTask
  <2>2. CASE UNCHANGED pipe
    BY <2>1, <2>2
  <2>3. ASSUME NEW task \in Tasks, Enter(n, Working(task)), Send(n, Announce(task))
        PROVE  \A i \in 1 .. Len(pipe'[m]) :
                  \/ \E j \in 1 .. Len(pipe[m]) : pipe'[m][i] = pipe[m][j]
                  \/ pipe'[m][i] \in {Ack, Complete, Status(proc'[m].phase)}
    <3>1. proc'[n].phase = Working(task)
      BY <1>a, <2>3 DEF Enter
    <3>2. Working(task) \in Statuses
      BY DEF Tasks, Working, Statuses
    <3>3. Announce(task) = <<Status(Working(task)), Ack>> /\ Announce(task) \in Seq(Messages)
      BY <3>2, MessageFacts DEF Announce
    <3>4. \A j \in 1 .. Len(Announce(task)) : Announce(task)[j] \in {Ack, Status(Working(task))}
      BY <3>3
    <3>5. \A j \in 1 .. Len(Announce(task)) : Announce(task)[j] \in {Ack, Complete, Status(proc'[n].phase)}
      BY <3>1, <3>4
    <3> QED BY <1>b, <2>3, <3>3, <3>5
  <2>4. Head(tasks[n]) \in Tasks
    BY <1>a, <1>2 DEF TakeTask
  <2> QED BY <1>2, <2>1, <2>2, <2>3, <2>4 DEF TakeTask
<1>3. CASE FinishTask(n)
  <2>1. UNCHANGED sup /\ proc[n].phase \in Collective /\ Send(n, Conclude(proc[n].phase))
        /\ proc'[n].phase = After(proc[n].phase)
    BY <1>a, <1>3 DEF FinishTask, Enter
  <2>2. After(proc[n].phase) \in Statuses
    BY <2>1 DEF Collective, After, Statuses
  <2>3. Conclude(proc[n].phase) = <<Complete, Status(After(proc[n].phase))>> /\ Conclude(proc[n].phase) \in Seq(Messages)
    BY <2>2, MessageFacts DEF Conclude
  <2>4. \A j \in 1 .. Len(Conclude(proc[n].phase)) :
           Conclude(proc[n].phase)[j] \in {Complete, Status(After(proc[n].phase))}
    BY <2>3
  <2>5. \A j \in 1 .. Len(Conclude(proc[n].phase)) :
           Conclude(proc[n].phase)[j] \in {Ack, Complete, Status(proc'[n].phase)}
    BY <2>1, <2>4
  <2> QED BY <1>b, <2>1, <2>3, <2>5
<1>4. CASE ForwardStatus(n) \/ (ForwardAck(n) /\ waits[n] # "Shutdown") \/ ForwardComplete(n)
  <2>1. pipe[n] # <<>> /\ pipe' = [pipe EXCEPT ![n] = Tail(@)]
    BY <1>4 DEF ForwardStatus, ForwardAck, ForwardComplete
  <2>2. \A i \in 1 .. Len(pipe'[m]) : \E j \in 1 .. Len(pipe[m]) : pipe'[m][i] = pipe[m][j]
    <3>1. CASE m # n
      <4>1. pipe'[m] = pipe[m]
        BY <1>a, <2>1, <3>1
      <4> QED BY <4>1
    <3>2. CASE m = n
      <4>1. \A i \in 1 .. Len(pipe'[m]) : i + 1 \in 1 .. Len(pipe[m]) /\ pipe'[m][i] = pipe[m][i + 1]
        BY <1>a, <2>1, <3>2
      <4> QED BY <4>1
    <3> QED BY <3>1, <3>2
  <2>3. \/ UNCHANGED sup
        \/ Head(pipe[n]).kind = "status" /\ sup' = [sup EXCEPT ![n].status = Head(pipe[n]).of]
    BY <1>4 DEF ForwardStatus, ForwardAck, ForwardComplete
  <2>4. \/ sup'[m].status = sup[m].status
        \/ m = n /\ Head(pipe[n]).kind = "status" /\ sup'[m].status = Head(pipe[n]).of
    BY <1>a, <2>3
  <2> QED BY <2>1, <2>2, <2>4
<1>5. CASE CreateRunner(n)
  <2>1. UNCHANGED pipe /\ (sup'[m].status = sup[m].status \/ sup'[m].status = "Idle")
    BY <1>a, <1>5 DEF CreateRunner
  <2> QED BY <2>1
<1>6. CASE Apply(n) \/ Downloaded(n) \/ GiveUp(n) \/ DownloadModel(n) \/ StartRunnerTask(n)
  <2>1. UNCHANGED <<sup, pipe>>
    BY <1>6 DEF Apply, Downloaded, GiveUp, DownloadModel, StartRunnerTask, runner
  <2> QED BY <2>1
<1> QED BY <1>1, <1>2, <1>3, <1>4, <1>5, <1>6 DEF Moves

(* What is said of a rank it has said itself.                               *)
LEMMA RumourStep ==
  ASSUME TypeOK, LocalInv, NEW o \in Ranks, CalmInv(o), Moves(o),
         NEW S, None \notin S, "Idle" \notin S,
         \A m \in Ranks : proc[m].phase \in S => proc'[m].phase \in S,
         NoRumour(S)
  PROVE  NoRumour(S)'
<1> SUFFICES ASSUME NEW m \in Ranks, proc'[m].phase \notin S
             PROVE  /\ sup'[m].status \notin S
                    /\ \A i \in 1 .. Len(pipe'[m]) : pipe'[m][i] \notin Are(S)
                    /\ \A n \in Ranks :
                         /\ view'[n].runners[m] \notin S
                         /\ \A i \in 1 .. Len(in'[n]) : in'[n][i].rank = m => in'[n][i].status \notin S
  BY DEF NoRumour, Are
<1>1. /\ sup[m].status \notin S
      /\ \A i \in 1 .. Len(pipe[m]) : pipe[m][i] \notin Are(S)
      /\ \A n \in Ranks : /\ view[n].runners[m] \notin S
                          /\ \A i \in 1 .. Len(in[n]) : in[n][i].rank = m => in[n][i].status \notin S
  BY DEF NoRumour
<1>2. ASSUME pipe[m] # <<>>, Head(pipe[m]).kind = "status"
      PROVE  Head(pipe[m]).of \notin S
  <2>1. 1 \in 1 .. Len(pipe[m]) /\ pipe[m][1] = Head(pipe[m]) /\ pipe[m][1] \in Messages
    BY <1>2 DEF TypeOK
  <2>2. pipe[m][1] = Status(Head(pipe[m]).of)
    BY <1>2, <2>1, MessageFacts
  <2> QED BY <1>1, <2>1, <2>2, MessageFacts
<1>3. sup'[m].status \notin S
  BY <1>1, <1>2, PipeMoves
<1>4. ASSUME NEW i \in 1 .. Len(pipe'[m]) PROVE pipe'[m][i] \notin Are(S)
  <2>1. \/ \E j \in 1 .. Len(pipe[m]) : pipe'[m][i] = pipe[m][j]
        \/ pipe'[m][i] \in {Ack, Complete, Status(proc'[m].phase)}
    BY PipeMoves
  <2> QED BY <1>1, <2>1, MessageFacts
<1>5. ASSUME NEW n \in Ranks PROVE view'[n].runners[m] \notin S
  <2>1. \/ view'[n].runners[m] = view[n].runners[m]
        \/ \E j \in 1 .. Len(in[n]) : in[n][j].rank = m /\ view'[n].runners[m] = in[n][j].status
    BY ViewMoves
  <2> QED BY <1>1, <2>1
<1>6. ASSUME NEW n \in Ranks, NEW i \in 1 .. Len(in'[n]), in'[n][i].rank = m
      PROVE  in'[n][i].status \notin S
  <2>1. \/ \E j \in 1 .. Len(in[n]) : in'[n][i] = in[n][j]
        \/ in'[n][i] = DownloadCompleted(o)
        \/ /\ in'[n][i] = RunnerStatusUpdated(o, Head(pipe[o]).of)
           /\ pipe[o] # <<>> /\ Head(pipe[o]).kind = "status" /\ sup[o].forward = "on"
    BY LogMoves
  <2>2. CASE \E j \in 1 .. Len(in[n]) : in'[n][i] = in[n][j]
    BY <1>1, <1>6, <2>2
  <2>3. CASE in'[n][i] = DownloadCompleted(o)
    BY <2>3, EventFacts
  <2>4. CASE /\ in'[n][i] = RunnerStatusUpdated(o, Head(pipe[o]).of)
             /\ pipe[o] # <<>> /\ Head(pipe[o]).kind = "status"
    <3>1. in'[n][i].rank = o /\ in'[n][i].status = Head(pipe[o]).of
      BY <2>4, EventFacts
    <3> QED BY <1>2, <1>6, <2>4, <3>1
  <2> QED BY <2>1, <2>2, <2>3, <2>4
<1> QED BY <1>3, <1>4, <1>5, <1>6

LEMMA CalmStep ==
  ASSUME TypeOK, LocalInv, NEW o \in Ranks, Moves(o), \A n \in Ranks : CalmInv(n), NEW n \in Ranks
  PROVE  CalmInv(n)'
<1>a. /\ CalmInv(n) /\ CalmInv(o) /\ Local(o) /\ Local(n)
      /\ sup \in [Ranks -> [status : Statuses \cup {None}, forward : {"on", "checking", "off"}]]
      /\ waits \in [Ranks -> Tasks \cup {None}]
  BY DEF LocalInv, TypeOK
<1>1. proc'[n].phase \notin Ended \cup {"ShuttingDown"}
  BY <1>a, PhasesGrow DEF CalmInv
<1>2. \A i \in 1 .. Len(in[n]) : in[n][i].status # "Failed" /\ in[n][i] # InstanceDeleted
  BY <1>a DEF CalmInv
<1>3. ASSUME NEW i \in 1 .. Len(in'[n]) PROVE in'[n][i].status # "Failed" /\ in'[n][i] # InstanceDeleted
  <2>1. \/ \E j \in 1 .. Len(in[n]) : in'[n][i] = in[n][j]
        \/ in'[n][i] = DownloadCompleted(o)
        \/ /\ in'[n][i] = RunnerStatusUpdated(o, Head(pipe[o]).of)
           /\ pipe[o] # <<>> /\ Head(pipe[o]).kind = "status" /\ sup[o].forward = "on"
    BY LogMoves
  <2>2. CASE \E j \in 1 .. Len(in[n]) : in'[n][i] = in[n][j]
    BY <1>2, <2>2
  <2>3. CASE in'[n][i] = DownloadCompleted(o)
    BY <2>3, EventFacts DEF None
  <2>4. CASE /\ in'[n][i] = RunnerStatusUpdated(o, Head(pipe[o]).of)
             /\ pipe[o] # <<>> /\ Head(pipe[o]).kind = "status" /\ sup[o].forward = "on"
    <3>1. in'[n][i].status = Head(pipe[o]).of /\ in'[n][i] # InstanceDeleted
      BY <2>4, EventFacts
    <3>2. 1 \in 1 .. Len(pipe[o]) /\ pipe[o][1] = Head(pipe[o]) /\ pipe[o][1] \in Messages
      BY <2>4 DEF TypeOK
    <3>3. pipe[o][1] = Status(Head(pipe[o]).of)
      BY <2>4, <3>2, MessageFacts
    <3>4. pipe[o][1] # Status("Failed")
      BY <1>a, <2>4, <3>2 DEF Local, PipeInv
    <3>5. Head(pipe[o]).of # "Failed"
      BY <3>3, <3>4
    <3> QED BY <3>1, <3>5
  <2> QED BY <2>1, <2>2, <2>3, <2>4
<1>4. ASSUME NEW m \in Ranks PROVE view'[n].runners[m] # "Failed"
  <2>1. \/ view'[n].runners[m] = view[n].runners[m]
        \/ \E j \in 1 .. Len(in[n]) : in[n][j].rank = m /\ view'[n].runners[m] = in[n][j].status
    BY ViewMoves
  <2> QED BY <1>a, <1>2, <2>1 DEF CalmInv
<1>5. view[n].instance => view'[n].instance
  BY <1>2, ViewMoves
<1>6. /\ sup'[n] # NoSupervisor => sup'[n].forward = "on" /\ view[n].instance
      /\ late'[n] = 0 /\ waits'[n] # "Shutdown"
  <2>1. CASE CreateRunner(o)
    <3>1. UNCHANGED <<late, waits>> /\ sup' = [sup EXCEPT ![o] = [status |-> "Idle", forward |-> "on"]]
          /\ view[o].instance
      BY <2>1 DEF CreateRunner, CreateWanted
    <3>2. sup'[n] = sup[n] \/ (n = o /\ sup'[n].forward = "on")
      BY <1>a, <3>1
    <3> QED BY <1>a, <3>1, <3>2 DEF CalmInv
  <2>2. CASE StartRunnerTask(o)
    <3>1. UNCHANGED <<late, sup>>
          /\ \E task \in {"ConnectToGroup", "LoadModel", "StartWarmup"} : waits' = [waits EXCEPT ![o] = task]
      BY <2>2 DEF StartRunnerTask, StartTask
    <3>2. waits'[n] = waits[n] \/ waits'[n] \in {"ConnectToGroup", "LoadModel", "StartWarmup"}
      BY <1>a, <3>1
    <3> QED BY <1>a, <3>1, <3>2 DEF CalmInv
  <2>3. CASE ForwardStatus(o)
    <3>1. UNCHANGED <<late, waits>> /\ sup' = [sup EXCEPT ![o].status = Head(pipe[o]).of] /\ sup[o].forward = "on"
      BY <2>3 DEF ForwardStatus
    <3>2. sup[o] # NoSupervisor
      BY <3>1 DEF NoSupervisor
    <3>3. sup'[n] = sup[n] \/ (n = o /\ sup'[n].forward = "on")
      BY <1>a, <3>1
    <3> QED BY <1>a, <3>1, <3>2, <3>3 DEF CalmInv
  <2>4. CASE ForwardAck(o) /\ waits[o] # "Shutdown"
    <3>1. UNCHANGED <<late, sup>> /\ waits' = [waits EXCEPT ![o] = None]
      BY <2>4 DEF ForwardAck
    <3>2. waits'[n] = waits[n] \/ waits'[n] = None
      BY <1>a, <3>1
    <3> QED BY <1>a, <3>1, <3>2 DEF CalmInv, None
  <2>5. CASE \/ Apply(o) \/ Downloaded(o) \/ GiveUp(o) \/ DownloadModel(o) \/ Boot(o) \/ TakeTask(o)
             \/ FinishTask(o) \/ ForwardComplete(o)
    <3>1. UNCHANGED <<late, sup, waits>>
      BY <2>5 DEF Apply, Downloaded, GiveUp, DownloadModel, Boot, TakeTask, FinishTask, ForwardComplete, worker, runner
    <3> QED BY <1>a, <3>1 DEF CalmInv
  <2> QED BY <2>1, <2>2, <2>3, <2>4, <2>5 DEF Moves
<1> QED BY <1>1, <1>3, <1>4, <1>5, <1>6 DEF CalmInv

(* A rank gets the last place to connect, or the first to warm up, from     *)
(* what its worker was told.                                                *)
LEMMA PlannedStep ==
  ASSUME TypeOK, LocalInv, FreshFacts, NEW o \in Ranks, Moves(o), NEW n \in Ranks
  PROVE  PlannedInv(n)'
<1>a. /\ PlannedInv(n) /\ CalmInv(n) /\ CalmInv(o) /\ Local(n) /\ Local(o)
      /\ tasks \in [Ranks -> Seq(Tasks)] /\ waits \in [Ranks -> Tasks \cup {None}]
  BY DEF LocalInv, FreshFacts, TypeOK
<1>b. \A m \in Ranks : /\ proc[m].phase \in Begun => proc'[m].phase \in Begun
                       /\ proc[m].phase \in Warm => proc'[m].phase \in Warm
  BY <1>a, PhasesGrow
<1>1. CASE tasks'[n] = tasks[n]
  <2>1. ASSUME tasks[n] = <<"LoadModel">>, proc[n].phase = "Connected"
        PROVE  proc'[n].phase = "Connected"
    <3>1. \/ proc'[n].phase = proc[n].phase
          \/ n = o /\ proc[n].phase \in {None, "booting"} \cup Collective
          \/ n = o /\ tasks'[n] = <<>>
      BY <1>a, PhaseMoves
    <3>2. tasks'[n] # <<>>
      BY <1>1, <2>1
    <3>3. proc[n].phase \notin {None, "booting"} \cup Collective
      BY <2>1 DEF None, Collective
    <3> QED BY <2>1, <3>1, <3>2, <3>3
  <2> QED BY <1>a, <1>b, <1>1, <2>1 DEF PlannedInv
<1>2. CASE tasks'[n] = <<>>
  BY <1>2 DEF PlannedInv
<1>3. CASE StartRunnerTask(o)
  <2>1. CASE n # o
    <3>1. tasks'[n] = tasks[n]
      BY <1>a, <1>3, <2>1 DEF StartRunnerTask, StartTask
    <3> QED BY <1>1, <3>1
  <2>2. CASE n = o
    <3>1. /\ waits[n] = None /\ sup[n] # NoSupervisor /\ UNCHANGED proc
      BY <1>3, <2>2 DEF StartRunnerTask, Running, Planning
    <3>2. sup[n].forward = "on"
      BY <1>a, <3>1 DEF CalmInv
    <3>3. proc[n].phase \notin Ended \cup {None}
      BY <1>a, <3>1 DEF CalmInv, Local, SupervisorInv
    <3>4. /\ tasks[n] = <<>> /\ (sup[n].status \in {"Connected", "Loaded"} => proc[n].phase = sup[n].status)
      BY <1>a, <3>1, <3>2, <3>3, KnownWhenPlanning
    <3>5. CASE ConnectWanted(n) /\ StartTask(n, "ConnectToGroup")
      <4>1. tasks'[n] = <<"ConnectToGroup">>
        BY <1>a, <3>4, <3>5 DEF StartTask
      <4>2. ASSUME n = N - 1, NEW m \in Ranks \ {n} PROVE proc[m].phase \in Begun
        <5>1. view[n].runners[m] = "Connecting"
          BY <3>5, <4>2 DEF ConnectWanted, AllRunners
        <5>2. "Connecting" \in Begun
          BY DEF Begun, Collective
        <5> QED BY <5>1, <5>2 DEF FreshFacts, NoRumour
      <4> QED BY <3>1, <4>1, <4>2 DEF PlannedInv
    <3>6. CASE LoadWanted(n) /\ StartTask(n, "LoadModel")
      <4>1. tasks'[n] = <<"LoadModel">>
        BY <1>a, <3>4, <3>6 DEF StartTask
      <4>2. N > 1 => sup[n].status = "Connected"
        <5>1. N > 1 => N # 1
          BY WorldAssumption
        <5> QED BY <3>6, <5>1 DEF LoadWanted
      <4> QED BY <3>1, <3>4, <4>1, <4>2 DEF PlannedInv
    <3>7. CASE WarmupWanted(n) /\ StartTask(n, "StartWarmup")
      <4>1. tasks'[n] = <<"StartWarmup">>
        BY <1>a, <3>4, <3>7 DEF StartTask
      <4>2. ASSUME n = 0, NEW m \in Ranks \ {n} PROVE proc[m].phase \in Warm
        <5>1. view[n].runners[m] \in Warm
          BY <3>7, <4>2 DEF WarmupWanted, AllRunners, Warm
        <5> QED BY <5>1 DEF FreshFacts, NoRumour
      <4> QED BY <3>1, <4>1, <4>2 DEF PlannedInv
    <3> QED BY <1>3, <2>2, <3>5, <3>6, <3>7 DEF StartRunnerTask
  <2> QED BY <2>1, <2>2
<1>4. CASE TakeTask(o)
  <2>1. tasks' = [tasks EXCEPT ![o] = Tail(@)] /\ tasks[o] # <<>> /\ sup[o].forward = "on"
    <3>1. tasks' = [tasks EXCEPT ![o] = Tail(@)] /\ tasks[o] # <<>> /\ proc[o].phase # None
      BY <1>4 DEF TakeTask, None
    <3>2. sup[o] # NoSupervisor
      BY <1>a, <3>1 DEF Local, SupervisorInv, NoProcess
    <3> QED BY <1>a, <3>1, <3>2 DEF CalmInv
  <2>2. tasks[o] = <<waits[o]>>
    BY <1>a, <2>1 DEF Local, TaskInv
  <2>3. Tail(<<waits[o]>>) = <<>>
    OBVIOUS
  <2>4. tasks'[n] = tasks[n] \/ tasks'[n] = <<>>
    BY <1>a, <2>1, <2>2, <2>3
  <2> QED BY <1>1, <1>2, <2>4
<1>5. CASE Moves(o) /\ ~StartRunnerTask(o) /\ ~TakeTask(o)
  <2>1. UNCHANGED tasks
    BY <1>5 DEF Moves, Apply, Downloaded, CreateRunner, GiveUp, DownloadModel, Boot, FinishTask, ForwardStatus,
                ForwardAck, ForwardComplete, runner
  <2> QED BY <1>1, <2>1
<1> QED BY <1>3, <1>4, <1>5

LEMMA FreshStep ==
  ASSUME TypeOK, LocalInv, FreshFacts, NEW o \in Ranks, Moves(o)
  PROVE  FreshFacts'
<1>a. /\ \A n \in Ranks : CalmInv(n) /\ PlannedInv(n)
      /\ 0 \in Ranks /\ N - 1 \in Ranks
      /\ tasks \in [Ranks -> Seq(Tasks)]
  BY WorldAssumption DEF FreshFacts, TypeOK, Ranks
<1>b. ASSUME NEW m \in Ranks
      PROVE  /\ proc[m].phase \in Begun => proc'[m].phase \in Begun
             /\ proc[m].phase \in Warm => proc'[m].phase \in Warm
  BY <1>a, PhasesGrow
<1>1. \A n \in Ranks : CalmInv(n)'
  BY <1>a, CalmStep
<1>2. \A n \in Ranks : PlannedInv(n)'
  BY PlannedStep
<1>3. NoRumour(Begun)'
  <2>1. None \notin Begun /\ "Idle" \notin Begun
    BY DEF Begun, Collective, None
  <2>2. \A m \in Ranks : proc[m].phase \in Begun => proc'[m].phase \in Begun
    BY <1>b
  <2>3. NoRumour(Begun) /\ CalmInv(o)
    BY <1>a DEF FreshFacts
  <2> QED BY <2>1, <2>2, <2>3, RumourStep
<1>4. NoRumour(Warm)'
  <2>1. None \notin Warm /\ "Idle" \notin Warm
    BY DEF Warm, None
  <2>2. \A m \in Ranks : proc[m].phase \in Warm => proc'[m].phase \in Warm
    BY <1>b
  <2>3. NoRumour(Warm) /\ CalmInv(o)
    BY <1>a DEF FreshFacts
  <2> QED BY <2>1, <2>2, <2>3, RumourStep
<1>5. ASSUME NEW S, NEW n \in Ranks, proc'[n].phase \in S, proc[n].phase \notin S, None \notin S, "booting" \notin S,
             "Idle" \notin S, \A s \in Collective : After(s) \in S => s \in S
      PROVE  /\ n = o
             /\ \E task \in Tasks \ {"Shutdown"} : /\ tasks[n] = <<task>> /\ proc[n].phase \in Stable
                                                   /\ Accepts(proc[n].phase, task) /\ Working(task) \in S
  <2>1. n = o
    BY <1>5, <1>a, PhaseMoves
  <2> QED BY <1>5, <1>a, <2>1, PhaseMoves
<1>6. LastConnects'
  <2> SUFFICES ASSUME N > 1, proc'[N - 1].phase \in Begun, NEW m \in Ranks PROVE proc'[m].phase \in Begun
    BY DEF LastConnects, Begun
  <2>1. CASE proc[N - 1].phase \in Begun
    BY <1>b, <2>1 DEF FreshFacts, LastConnects
  <2>2. CASE proc[N - 1].phase \notin Begun
    <3>1. /\ None \notin Begun /\ "booting" \notin Begun /\ "Idle" \notin Begun
          /\ \A s \in Collective : After(s) \in Begun => s \in Begun
      BY DEF Begun, Collective, None
    <3>2. PICK task \in Tasks \ {"Shutdown"} :
             /\ tasks[N - 1] = <<task>> /\ proc[N - 1].phase \in Stable /\ Accepts(proc[N - 1].phase, task)
      BY <1>5, <1>a, <2>2, <3>1
    <3>3. proc[N - 1].phase = "Idle"
      BY <2>2, <3>2 DEF Stable, Begun
    <3>4. task # "LoadModel"
      <4>1. proc[N - 1].phase # "Connected"
        BY <3>3
      <4> QED BY <1>a, <3>2, <4>1 DEF PlannedInv
    <3>5. task = "ConnectToGroup"
      BY <3>2, <3>3, <3>4 DEF Tasks, Accepts
    <3>6. m # N - 1 => proc[m].phase \in Begun
      BY <1>a, <3>2, <3>5 DEF PlannedInv
    <3> QED BY <1>b, <3>6
  <2> QED BY <2>1, <2>2
<1>7. FirstWarms'
  <2> SUFFICES ASSUME proc'[0].phase \in Warm, NEW m \in Ranks PROVE proc'[m].phase \in Warm
    BY DEF FirstWarms, Warm
  <2>1. CASE proc[0].phase \in Warm
    BY <1>b, <2>1 DEF FreshFacts, FirstWarms
  <2>2. CASE proc[0].phase \notin Warm
    <3>1. /\ None \notin Warm /\ "booting" \notin Warm /\ "Idle" \notin Warm
          /\ \A s \in Collective : After(s) \in Warm => s \in Warm
      BY DEF Warm, Collective, After, None
    <3>2. PICK task \in Tasks \ {"Shutdown"} :
             /\ tasks[0] = <<task>> /\ proc[0].phase \in Stable /\ Accepts(proc[0].phase, task)
             /\ Working(task) \in Warm
      BY <1>5, <1>a, <2>2, <3>1
    <3>3. task = "StartWarmup"
      BY <3>2 DEF Tasks, Working, Warm
    <3>4. m # 0 => proc[m].phase \in Warm
      BY <1>a, <3>2, <3>3 DEF PlannedInv
    <3> QED BY <1>b, <3>4
  <2> QED BY <2>1, <2>2
<1> QED BY <1>1, <1>2, <1>3, <1>4, <1>6, <1>7 DEF FreshFacts

LEMMA FreshFrame ==
  ASSUME TypeOK, FreshFacts, UNCHANGED <<in, view, waits, sup, late, pipe, tasks>>,
         \A n \in Ranks : proc'[n].phase = proc[n].phase
  PROVE  FreshFacts'
<1>0. 0 \in Ranks /\ N - 1 \in Ranks
  BY WorldAssumption DEF Ranks
<1>1. \A n \in Ranks : CalmInv(n)'
  BY DEF FreshFacts, CalmInv
<1>2. \A n \in Ranks : PlannedInv(n)'
  BY DEF FreshFacts, PlannedInv
<1>3. NoRumour(Begun)' /\ NoRumour(Warm)'
  BY DEF FreshFacts, NoRumour, Are
<1>4. LastConnects' /\ FirstWarms'
  BY <1>0 DEF FreshFacts, LastConnects, FirstWarms
<1> QED BY <1>1, <1>2, <1>3, <1>4 DEF FreshFacts

LEMMA FreshInit ==
  ASSUME Init
  PROVE  FreshFacts
<1>0. 0 \in Ranks /\ N - 1 \in Ranks
  BY WorldAssumption DEF Ranks
<1>2. \A n \in Ranks :
         /\ sup[n] = NoSupervisor /\ proc[n].phase = None /\ pipe[n] = <<>> /\ tasks[n] = <<>> /\ waits[n] = None
         /\ late[n] = 0 /\ in[n] = <<InstanceCreated>> /\ \A m \in Ranks : view[n].runners[m] = None
  BY DEF Init, NoProcess
<1>3. sup \in [Ranks -> {NoSupervisor}] /\ NoSupervisor.status = None
  BY DEF Init, NoSupervisor
<1>4. \A n \in Ranks : \A i \in 1 .. Len(in[n]) : in[n][i] = InstanceCreated
  BY <1>2
<1>5. \A n \in Ranks : CalmInv(n)
  BY <1>2, <1>4, EventFacts DEF CalmInv, None, Ended
<1>6. \A n \in Ranks : PlannedInv(n)
  BY <1>2 DEF PlannedInv
<1>7. ASSUME NEW S, None \notin S PROVE NoRumour(S)
  BY <1>2, <1>3, <1>4, <1>7, EventFacts DEF NoRumour
<1>8. None \notin Begun /\ None \notin Warm
  BY DEF Begun, Warm, Collective, None
<1>9. LastConnects /\ FirstWarms
  BY <1>0, <1>2, <1>8 DEF LastConnects, FirstWarms
<1> QED BY <1>5, <1>6, <1>7, <1>8, <1>9 DEF FreshFacts

LEMMA FreshAlways == Spec => [](TypeOK /\ LocalInv /\ FreshInv)
<1>1. TypeOK /\ LocalInv /\ FreshInv /\ [Next]_vars => FreshInv'
  <2> SUFFICES ASSUME TypeOK, LocalInv, FreshInv, [Next]_vars, Fresh' PROVE FreshFacts'
    BY DEF FreshInv
  <2>1. CASE UNCHANGED vars
    <3>1. UNCHANGED <<in, view, waits, sup, late, pipe, tasks, proc, exists, failures>>
      BY <2>1 DEF vars, changing, worker, runner
    <3>2. Fresh
      BY <3>1 DEF Fresh
    <3> QED BY <3>1, <3>2, FreshFrame DEF FreshInv
  <2>2. CASE Next
    <3>1. Fresh /\ FreshFacts
      BY <2>2, StaysFresh DEF FreshInv
    <3>2. ASSUME NEW phase \in Collective, Meet(phase) PROVE FreshFacts'
      <4>1. UNCHANGED <<in, view, waits, sup, late, pipe, tasks>> /\ \A n \in Ranks : proc'[n].phase = proc[n].phase
        BY <3>2 DEF Meet, worker
      <4> QED BY <3>1, <4>1, FreshFrame
    <3> QED BY <2>2, <3>1, <3>2, WhatIsLeft, FreshStep
  <2> QED BY <2>1, <2>2
<1>2. Init => FreshInv
  BY FreshInit DEF FreshInv
<1> QED BY <1>1, <1>2, LocalAlways, PTL DEF Spec

(* InStep: until a runner fails or the instance is deleted, the last rank   *)
(* connects after all others (_init_distributed_backend, plan.py:206) and   *)
(* rank 0 warms up after all others (_ready_to_warmup, plan.py:288), for    *)
(* any number of ranks and however far the workers are behind the log.      *)
THEOREM RanksInOrder == Spec => []InStep
<1>1. FreshInv => InStep
  BY DEF FreshInv, Fresh, FreshFacts, LastConnects, FirstWarms, Warm, InStep
<1> QED BY <1>1, FreshAlways, PTL

-----------------------------------------------------------------------------
(* ChildProcess.                                                            *)

(* Where AsyncProcess.run is tells what it knows of the child.              *)
RunInv ==
  /\ run.at = "new" => child = "none"
  /\ child = "none" => run.at \in {"new", "closes", "done"}
  /\ run.at \in {"drains", "closes", "done"} => child # "alive"
  /\ run.at \in {"joins", "terminates", "kills"} => run.cancelled
  /\ run.at \in {"drains", "closes", "done"} /\ ~run.cancelled /\ child # "none" => exitcode

(* A drain that nobody cancelled has closed when nothing was left to pass.  *)
TextInv ==
  \A s \in Streams :
    /\ text[s].passed <= text[s].written
    /\ text[s].drain = "closed" /\ ~run.cancelled /\ child # "none" =>
         child # "alive" /\ text[s].passed = text[s].written
    /\ run.at = "closes" /\ ~run.cancelled /\ child # "none" => text[s].drain = "closed"
    /\ run.at = "done" => text[s].drain = "closed"

(* Of a child that has ended of itself everything is in the pipe, and the   *)
(* end of the channel is the last of it, until the receiver has had it.     *)
EventInv ==
  /\ child # "exited" =>
       /\ receiver # "ended"
       /\ \A i \in 1 .. Len(events.pipe) : events.pipe[i] = "event"
       /\ events.sent = events.received + Len(events.memory) + Len(events.pipe)
  /\ child = "exited" /\ receiver = "ended" =>
       events.pipe = <<>> /\ events.sent = events.received
  /\ child = "exited" /\ receiver # "ended" =>
       /\ events.pipe # <<>> /\ events.pipe[Len(events.pipe)] = EndOfStream
       /\ \A i \in 1 .. Len(events.pipe) - 1 : events.pipe[i] = "event"
       /\ events.sent = events.received + Len(events.pipe) - 1

ChildInv == ChildTypeOK /\ RunInv /\ TextInv /\ EventInv

LEMMA ChildInit ==
  ASSUME YInit
  PROVE  ChildInv
<1>1. ChildTypeOK
  <2>1. events \in Channel
    BY DEF YInit, Channel
  <2>2. run \in Run
    BY DEF YInit, Run
  <2>3. text \in [Streams -> Text]
    BY DEF YInit, Text
  <2> QED
    BY <2>1, <2>2, <2>3 DEF YInit, ChildTypeOK
<1>2. RunInv /\ TextInv
  BY DEF YInit, RunInv, TextInv
<1>3. EventInv
  BY DEF YInit, EventInv
<1> QED
  BY <1>1, <1>2, <1>3 DEF ChildInv

(* Runs and channels with other contents.                                   *)
LEMMA RunWith ==
  ASSUME NEW r \in Run, NEW a \in {"terminates", "kills"}, NEW n \in Nat
  PROVE  [r EXCEPT !.at = a, !.attempt = n] \in Run
BY DEF Run

LEMMA ChannelWithSent ==
  ASSUME NEW e \in Channel, NEW m \in Seq({"event"}), NEW n \in Nat
  PROVE  [e EXCEPT !.sent = n, !.memory = m] \in Channel
BY DEF Channel

LEMMA ChannelWithPiped ==
  ASSUME NEW e \in Channel, NEW m \in Seq({"event"}), NEW q \in Seq({"event", EndOfStream})
  PROVE  [e EXCEPT !.memory = m, !.pipe = q] \in Channel
BY DEF Channel

LEMMA ChannelWithReceived ==
  ASSUME NEW e \in Channel, NEW q \in Seq({"event", EndOfStream}), NEW n \in Nat
  PROVE  [e EXCEPT !.pipe = q, !.received = n] \in Channel
BY DEF Channel

(* Of natural numbers.                                                      *)
LEMMA OneLess ==
  ASSUME NEW n \in Nat, n >= 1, NEW m, m = n - 1, n # 1
  PROVE  1 \in 1 .. n - 1 /\ m \in 1 .. m /\ m + 1 = n /\ m # 0
OBVIOUS

LEMMA ChildKeepsTypes ==
  ASSUME ChildTypeOK, [YNext]_yvars
  PROVE  ChildTypeOK'
<1>1. CASE Start
  BY <1>1 DEF ChildTypeOK, Run, Text, Channel, Start, Goes
<1>2. CASE StartFails
  BY <1>2 DEF ChildTypeOK, Run, Text, Channel, StartFails, Goes
<1>3. CASE Stop
  BY <1>3 DEF ChildTypeOK, Run, Text, Channel, Stop
<1>4. CASE WaitReturns
  BY <1>4 DEF ChildTypeOK, Run, Text, Channel, WaitReturns, Goes
<1>5. CASE DrainsDone
  BY <1>5 DEF ChildTypeOK, Run, Text, Channel, DrainsDone, Goes
<1>6. CASE Cancelled
  BY <1>6 DEF ChildTypeOK, Run, Text, Channel, Cancelled, Goes
<1>7. CASE SeesTheEnd
  BY <1>7 DEF ChildTypeOK, Run, Text, Channel, SeesTheEnd, Goes
<1>8. CASE TimesOut
  <2>1. run' \in Run
    <3>1. AfterAttempt(run.attempt) \in {"terminates", "kills"}
      BY DEF AfterAttempt
    <3>2. run' \in {run, [run EXCEPT !.at = AfterAttempt(run.attempt), !.attempt = @ + 1]}
      BY <1>8 DEF TimesOut
    <3>3. run \in Run /\ run.attempt + 1 \in Nat
      BY DEF ChildTypeOK, Run
    <3>4. \A a \in {"terminates", "kills"} : [run EXCEPT !.at = a, !.attempt = run.attempt + 1] \in Run
      BY <3>3, RunWith
    <3> QED
      BY <3>1, <3>2, <3>3, <3>4
  <2> QED
    BY <1>8, <2>1 DEF ChildTypeOK, TimesOut
<1>9. CASE Close
  BY <1>9 DEF ChildTypeOK, Run, Text, Channel, Close, Goes
<1>10. CASE SendEvent
  <2>1. Append(events.memory, "event") \in Seq({"event"})
    BY DEF ChildTypeOK, Channel
  <2>8. events' = [events EXCEPT !.sent = @ + 1, !.memory = Append(@, "event")]
    BY <1>10 DEF SendEvent
  <2>9. events' \in Channel
    <3>1. events \in Channel /\ events.sent + 1 \in Nat
      BY DEF ChildTypeOK, Channel
    <3>2. <<>> \in Seq({"event"})
      OBVIOUS
    <3> QED
      BY <2>1, <2>8, <3>1, <3>2, ChannelWithSent
  <2> QED
    BY <1>10, <2>9 DEF ChildTypeOK, SendEvent
<1>11. CASE Feed
  <2>1. /\ events.memory \in Seq({"event"}) /\ events.memory # <<>>
        /\ events.pipe \in Seq({"event", EndOfStream})
    BY <1>11 DEF ChildTypeOK, Channel, Feed
  <2>2. Tail(events.memory) \in Seq({"event"}) /\ Head(events.memory) = "event"
    BY <2>1
  <2>3. Append(events.pipe, Head(events.memory)) \in Seq({"event", EndOfStream})
    BY <2>1, <2>2
  <2>8. events' = [events EXCEPT !.memory = Tail(@), !.pipe = Append(@, Head(events.memory))]
    BY <1>11 DEF Feed
  <2>9. events' \in Channel
    <3>1. events \in Channel /\ events.sent + 1 \in Nat
      BY DEF ChildTypeOK, Channel
    <3>2. <<>> \in Seq({"event"})
      OBVIOUS
    <3> QED
      BY <2>2, <2>3, <2>8, <3>1, <3>2, ChannelWithPiped
  <2> QED
    BY <1>11, <2>9 DEF ChildTypeOK, Feed
<1>12. CASE Exits
  <2>1. events.memory \in Seq({"event", EndOfStream}) /\ events.pipe \in Seq({"event", EndOfStream})
    BY DEF ChildTypeOK, Channel
  <2>2. <<EndOfStream>> \in Seq({"event", EndOfStream})
    OBVIOUS
  <2>3. events.pipe \o events.memory \o <<EndOfStream>> \in Seq({"event", EndOfStream})
    BY <2>1, <2>2
  <2>8. events' = [events EXCEPT !.memory = <<>>, !.pipe = @ \o events.memory \o <<EndOfStream>>]
    BY <1>12 DEF Exits
  <2>9. events' \in Channel
    <3>1. events \in Channel /\ events.sent + 1 \in Nat
      BY DEF ChildTypeOK, Channel
    <3>2. <<>> \in Seq({"event"})
      OBVIOUS
    <3> QED
      BY <2>3, <2>8, <3>1, <3>2, ChannelWithPiped
  <2> QED
    BY <1>12, <2>9 DEF ChildTypeOK, Exits
<1>13. CASE Crashes
  BY <1>13 DEF ChildTypeOK, Run, Text, Channel, Crashes
<1>14. CASE Releases
  BY <1>14 DEF ChildTypeOK, Run, Text, Channel, Releases
<1>15. CASE Receive
  <2>1. CASE UNCHANGED events
    BY <1>15, <2>1 DEF ChildTypeOK, Receive, Got
  <2>2. CASE events.pipe # <<>> /\ Got
    <3>1. Tail(events.pipe) \in Seq({"event", EndOfStream})
      BY <2>2 DEF ChildTypeOK, Channel
    <3>2. \E n \in {0, 1} : events' = [events EXCEPT !.pipe = Tail(@), !.received = @ + n]
      BY <2>2 DEF Got
    <3>3. events' \in Channel
      <4>1. events \in Channel /\ \A n \in {0, 1} : events.received + n \in Nat
        BY DEF ChildTypeOK, Channel
      <4> QED
        BY <3>1, <3>2, <4>1, ChannelWithReceived
    <3> QED
      BY <1>15, <2>2, <3>3 DEF ChildTypeOK, Receive, Got
  <2> QED
    BY <1>15, <2>1, <2>2 DEF Receive
<1>16. CASE ReceiverCloses
  BY <1>16 DEF ChildTypeOK, Run, Text, Channel, ReceiverCloses
<1>17. ASSUME NEW s \in Streams, Drain(s)
      PROVE  ChildTypeOK'
  <2>1. text \in [Streams -> Text] /\ text[s] \in Text
    BY DEF ChildTypeOK
  <2>2. text' \in {[text EXCEPT ![s].passed = @ + 1], [text EXCEPT ![s].drain = "closed"]}
    BY <1>17 DEF Drain
  <2>3. text' \in [Streams -> Text]
    BY <2>1, <2>2 DEF Text
  <2> QED
    BY <1>17, <2>3 DEF ChildTypeOK, Drain
<1>18. ASSUME NEW s \in Streams, Writes(s)
      PROVE  ChildTypeOK'
  <2>1. text \in [Streams -> Text] /\ text[s] \in Text
    BY DEF ChildTypeOK
  <2>2. text' = [text EXCEPT ![s].written = @ + 1]
    BY <1>18 DEF Writes
  <2>3. text' \in [Streams -> Text]
    BY <2>1, <2>2 DEF Text
  <2> QED
    BY <1>18, <2>3 DEF ChildTypeOK, Writes
<1>19. CASE UNCHANGED yvars
  BY <1>19 DEF ChildTypeOK, Run, Text, Channel, yvars
<1> QED
  BY <1>1, <1>2, <1>3, <1>4, <1>5, <1>6, <1>7, <1>8, <1>9, <1>10, <1>11, <1>12, <1>13, <1>14, <1>15, <1>16, <1>17, <1>18, <1>19 DEF YNext

LEMMA ChildKeepsRun ==
  ASSUME ChildTypeOK, RunInv, [YNext]_yvars
  PROVE  RunInv'
<1>1. CASE Start
  BY <1>1 DEF ChildTypeOK, Run, RunInv, Start, Goes
<1>2. CASE StartFails
  BY <1>2 DEF ChildTypeOK, Run, RunInv, StartFails, Goes
<1>3. CASE Stop
  BY <1>3 DEF ChildTypeOK, Run, RunInv, Stop
<1>4. CASE WaitReturns
  BY <1>4 DEF ChildTypeOK, Run, RunInv, WaitReturns, Goes
<1>5. CASE DrainsDone
  BY <1>5 DEF ChildTypeOK, Run, RunInv, DrainsDone, Goes
<1>6. CASE Cancelled
  BY <1>6 DEF ChildTypeOK, Run, RunInv, Cancelled, Goes
<1>7. CASE SeesTheEnd
  BY <1>7 DEF ChildTypeOK, Run, RunInv, SeesTheEnd, Goes
<1>8. CASE TimesOut
  BY <1>8 DEF ChildTypeOK, Run, RunInv, TimesOut, Goes, AfterAttempt
<1>9. CASE Close
  BY <1>9 DEF ChildTypeOK, Run, RunInv, Close, Goes
<1>10. CASE SendEvent
  BY <1>10 DEF ChildTypeOK, Run, RunInv, SendEvent
<1>11. CASE Feed
  BY <1>11 DEF ChildTypeOK, Run, RunInv, Feed
<1>12. CASE Exits
  BY <1>12 DEF ChildTypeOK, Run, RunInv, Exits
<1>13. CASE Crashes
  BY <1>13 DEF ChildTypeOK, Run, RunInv, Crashes
<1>14. CASE Releases
  BY <1>14 DEF ChildTypeOK, Run, RunInv, Releases
<1>15. CASE Receive
  BY <1>15 DEF ChildTypeOK, Run, RunInv, Receive, Got
<1>16. CASE ReceiverCloses
  BY <1>16 DEF ChildTypeOK, Run, RunInv, ReceiverCloses
<1>17. CASE \E s \in Streams : Drain(s)
  BY <1>17 DEF ChildTypeOK, Run, RunInv, Drain
<1>18. CASE \E s \in Streams : Writes(s)
  BY <1>18 DEF ChildTypeOK, Run, RunInv, Writes
<1>19. CASE UNCHANGED yvars
  BY <1>19 DEF ChildTypeOK, Run, RunInv, yvars
<1> QED
  BY <1>1, <1>2, <1>3, <1>4, <1>5, <1>6, <1>7, <1>8, <1>9, <1>10, <1>11, <1>12, <1>13, <1>14, <1>15, <1>16, <1>17, <1>18, <1>19 DEF YNext

LEMMA ChildKeepsText ==
  ASSUME ChildTypeOK, RunInv, TextInv, [YNext]_yvars
  PROVE  TextInv'
<1>1. CASE Start
  BY <1>1 DEF ChildTypeOK, Run, Text, RunInv, TextInv, Start, Goes
<1>2. CASE StartFails
  BY <1>2 DEF ChildTypeOK, Run, Text, RunInv, TextInv, StartFails, Goes
<1>3. CASE Stop
  BY <1>3 DEF ChildTypeOK, Run, Text, RunInv, TextInv, Stop
<1>4. CASE WaitReturns
  BY <1>4 DEF ChildTypeOK, Run, Text, RunInv, TextInv, WaitReturns, Goes
<1>5. CASE DrainsDone
  BY <1>5 DEF ChildTypeOK, Run, Text, RunInv, TextInv, DrainsDone, Goes
<1>6. CASE Cancelled
  BY <1>6 DEF ChildTypeOK, Run, Text, RunInv, TextInv, Cancelled, Goes
<1>7. CASE SeesTheEnd
  BY <1>7 DEF ChildTypeOK, Run, Text, RunInv, TextInv, SeesTheEnd, Goes
<1>8. CASE TimesOut
  BY <1>8 DEF ChildTypeOK, Run, Text, RunInv, TextInv, TimesOut, Goes, AfterAttempt
<1>9. CASE Close
  BY <1>9 DEF ChildTypeOK, Run, Text, RunInv, TextInv, Close, Goes
<1>10. CASE SendEvent
  BY <1>10 DEF ChildTypeOK, Run, Text, RunInv, TextInv, SendEvent
<1>11. CASE Feed
  BY <1>11 DEF ChildTypeOK, Run, Text, RunInv, TextInv, Feed
<1>12. CASE Exits
  BY <1>12 DEF ChildTypeOK, Run, Text, RunInv, TextInv, Exits
<1>13. CASE Crashes
  BY <1>13 DEF ChildTypeOK, Run, Text, RunInv, TextInv, Crashes
<1>14. CASE Releases
  BY <1>14 DEF ChildTypeOK, Run, Text, RunInv, TextInv, Releases
<1>15. CASE Receive
  BY <1>15 DEF ChildTypeOK, Run, Text, RunInv, TextInv, Receive, Got
<1>16. CASE ReceiverCloses
  BY <1>16 DEF ChildTypeOK, Run, Text, RunInv, TextInv, ReceiverCloses
<1>17. CASE \E s \in Streams : Drain(s)
  BY <1>17 DEF ChildTypeOK, Run, Text, RunInv, TextInv, Drain
<1>18. CASE \E s \in Streams : Writes(s)
  BY <1>18 DEF ChildTypeOK, Run, Text, RunInv, TextInv, Writes
<1>19. CASE UNCHANGED yvars
  BY <1>19 DEF ChildTypeOK, Run, Text, RunInv, TextInv, yvars
<1> QED
  BY <1>1, <1>2, <1>3, <1>4, <1>5, <1>6, <1>7, <1>8, <1>9, <1>10, <1>11, <1>12, <1>13, <1>14, <1>15, <1>16, <1>17, <1>18, <1>19 DEF YNext

LEMMA ChildKeepsEvents ==
  ASSUME ChildTypeOK, RunInv, EventInv, [YNext]_yvars
  PROVE  EventInv'
<1>1. CASE Start
  BY <1>1 DEF ChildTypeOK, Channel, EventInv, RunInv, Start, Goes
<1>2. CASE StartFails
  BY <1>2 DEF ChildTypeOK, Channel, EventInv, RunInv, StartFails, Goes
<1>3. CASE Stop
  BY <1>3 DEF ChildTypeOK, Channel, EventInv, RunInv, Stop
<1>4. CASE WaitReturns
  BY <1>4 DEF ChildTypeOK, Channel, EventInv, RunInv, WaitReturns, Goes
<1>5. CASE DrainsDone
  BY <1>5 DEF ChildTypeOK, Channel, EventInv, RunInv, DrainsDone, Goes
<1>6. CASE Cancelled
  BY <1>6 DEF ChildTypeOK, Channel, EventInv, RunInv, Cancelled, Goes
<1>7. CASE SeesTheEnd
  BY <1>7 DEF ChildTypeOK, Channel, EventInv, RunInv, SeesTheEnd, Goes
<1>8. CASE TimesOut
  BY <1>8 DEF ChildTypeOK, Channel, EventInv, RunInv, TimesOut, Goes, AfterAttempt
<1>9. CASE Close
  BY <1>9 DEF ChildTypeOK, Channel, EventInv, RunInv, Close, Goes
<1>10. CASE SendEvent
  BY <1>10 DEF ChildTypeOK, Channel, EventInv, RunInv, SendEvent
<1>11. CASE Feed
  BY <1>11 DEF ChildTypeOK, Channel, EventInv, RunInv, Feed
<1>12. CASE Exits
  BY <1>12 DEF ChildTypeOK, Channel, EventInv, RunInv, Exits
<1>13. CASE Crashes
  BY <1>13 DEF ChildTypeOK, Channel, EventInv, RunInv, Crashes
<1>14. CASE Releases
  BY <1>14 DEF ChildTypeOK, Channel, EventInv, RunInv, Releases
<1>15. CASE Receive
  <2>0. /\ events \in [sent : Nat, memory : Seq({"event"}), pipe : Seq({"event", EndOfStream}), received : Nat]
        /\ receiver \in {"looks", "blocked", "ended", "closed"}
    BY DEF ChildTypeOK, Channel
  <2>1. CASE UNCHANGED events /\ receiver # "ended" /\ receiver' # "ended"
    BY <1>15, <2>0, <2>1 DEF EventInv, Receive
  <2>2. CASE events.pipe # <<>> /\ Got
    <3> DEFINE t == Tail(events.pipe)
    <3>1. /\ events.pipe \in Seq({"event", EndOfStream}) /\ events.sent \in Nat /\ events.received \in Nat
          /\ events.memory \in Seq({"event"}) /\ Len(events.memory) \in Nat
      BY <2>0
    <3>2. /\ Len(events.pipe) \in Nat /\ Len(events.pipe) >= 1 /\ Len(t) = Len(events.pipe) - 1 /\ Head(events.pipe) = events.pipe[1]
          /\ t \in Seq({"event", EndOfStream}) /\ \A i \in 1 .. Len(t) : t[i] = events.pipe[i + 1]
      BY <2>2, <3>1
    <3>3. /\ events'.pipe = t /\ events'.sent = events.sent /\ events'.memory = events.memory
          /\ events'.received = events.received + (IF events.pipe[1] = EndOfStream THEN 0 ELSE 1)
          /\ receiver' = (IF events.pipe[1] = EndOfStream THEN "ended" ELSE "looks") /\ child' = child
      BY <1>15, <2>0, <2>2, <3>2 DEF Got, Receive
    <3>4. receiver # "ended" /\ "event" # EndOfStream
      BY <1>15, <2>2 DEF EventInv, Receive, EndOfStream
    <3> HIDE DEF t
    <3>5. CASE child # "exited"
      <4>1. events.pipe[1] = "event" /\ events.sent = events.received + Len(events.memory) + Len(events.pipe)
        BY <3>2, <3>5 DEF EventInv
      <4>2. events'.sent = events'.received + Len(events'.memory) + Len(events'.pipe)
        <5>1. events'.received = events.received + 1
          BY <3>3, <3>4, <4>1
        <5>2. Len(events.pipe) \in Nat /\ Len(events'.pipe) = Len(events.pipe) - 1
          BY <3>2, <3>3
        <5>3. events.received \in Nat /\ Len(events.memory) \in Nat
          BY <3>1
        <5>4. events'.sent = events.sent /\ Len(events'.memory) = Len(events.memory)
          BY <3>3
        <5>5. events.sent = events.received + Len(events.memory) + Len(events.pipe)
          BY <4>1
        <5>6. events.sent = events'.received + Len(events.memory) + Len(events'.pipe)
          <6> DEFINE r == events.received
                     m == Len(events.memory)
                     n == Len(events.pipe)
                     k == Len(events'.pipe)
          <6>1. events.sent = r + m + n /\ events'.received = r + 1 /\ k = n - 1
            BY <5>1, <5>2, <5>5
          <6>2. r \in Nat /\ m \in Nat /\ n \in Nat
            BY <5>2, <5>3
          <6> HIDE DEF r, m, n, k
          <6>3. events.sent = events'.received + m + k
            BY <6>1, <6>2
          <6> QED
            BY <6>3 DEF m, k
        <5> QED
          BY <5>4, <5>6, Zenon
      <4>3. \A i \in 1 .. Len(t) : t[i] = "event"
        <5>1. \A i \in 1 .. Len(t) : i + 1 \in 1 .. Len(events.pipe)
          BY <3>2
        <5> QED
          BY <3>2, <3>5, <5>1 DEF EventInv
      <4> QED
        BY <3>3, <3>4, <3>5, <4>1, <4>2, <4>3 DEF EventInv
    <3>6. CASE child = "exited"
      <4>1. /\ events.pipe[Len(events.pipe)] = EndOfStream /\ \A i \in 1 .. Len(events.pipe) - 1 : events.pipe[i] = "event"
            /\ events.sent = events.received + Len(events.pipe) - 1
        BY <3>4, <3>6 DEF EventInv
      <4>2. CASE Len(events.pipe) = 1
        <5>1. t = <<>>
          BY <3>2, <4>2
        <5>2. events.pipe[1] = EndOfStream /\ events.sent = events.received
          BY <3>1, <4>1, <4>2
        <5> QED
          BY <3>1, <3>3, <3>6, <5>1, <5>2 DEF EventInv
      <4>3. CASE Len(events.pipe) # 1
        <5>1. events.pipe[1] = "event"
          <6>1. 1 \in 1 .. Len(events.pipe) - 1
            BY <3>2, <4>3, OneLess
          <6> QED
            BY <4>1, <6>1
        <5>2. t # <<>> /\ t[Len(t)] = EndOfStream
          <6>1. Len(t) \in 1 .. Len(t) /\ Len(t) + 1 = Len(events.pipe) /\ Len(t) # 0
            BY <3>2, <4>3, OneLess
          <6>2. t # <<>>
            BY <6>1
          <6> QED
            BY <3>2, <4>1, <6>1, <6>2
        <5>3. \A i \in 1 .. Len(t) - 1 : t[i] = "event"
          <6>1. \A i \in 1 .. Len(t) - 1 : i \in 1 .. Len(t) /\ i + 1 \in 1 .. Len(events.pipe) - 1
            BY <3>2
          <6> QED
            BY <3>2, <4>1, <6>1
        <5>4. events'.sent = events'.received + Len(events'.pipe) - 1
          <6>1. events'.received = events.received + 1
            BY <3>3, <3>4, <5>1
          <6>2. Len(events.pipe) \in Nat /\ Len(events'.pipe) = Len(events.pipe) - 1
            BY <3>2, <3>3
          <6>3. events.received \in Nat /\ events'.sent = events.sent
            BY <3>1, <3>3
          <6>4. events.sent = events.received + Len(events.pipe) - 1
            BY <4>1
          <6> QED
            BY <6>1, <6>2, <6>3, <6>4
        <5> QED
          BY <3>3, <3>4, <3>6, <5>1, <5>2, <5>3, <5>4 DEF EventInv
      <4> QED
        BY <4>2, <4>3
    <3> QED
      BY <3>5, <3>6
  <2> QED
    BY <1>15, <2>1, <2>2 DEF Receive
<1>16. CASE ReceiverCloses
  BY <1>16 DEF ChildTypeOK, Channel, EventInv, RunInv, ReceiverCloses
<1>17. CASE \E s \in Streams : Drain(s)
  BY <1>17 DEF ChildTypeOK, Channel, EventInv, RunInv, Drain
<1>18. CASE \E s \in Streams : Writes(s)
  BY <1>18 DEF ChildTypeOK, Channel, EventInv, RunInv, Writes
<1>19. CASE UNCHANGED yvars
  BY <1>19 DEF ChildTypeOK, Channel, EventInv, RunInv, yvars
<1> QED
  BY <1>1, <1>2, <1>3, <1>4, <1>5, <1>6, <1>7, <1>8, <1>9, <1>10, <1>11, <1>12, <1>13, <1>14, <1>15, <1>16, <1>17, <1>18, <1>19 DEF YNext

LEMMA ChildStep ==
  ASSUME ChildInv, [YNext]_yvars
  PROVE  ChildInv'
BY ChildKeepsTypes, ChildKeepsRun, ChildKeepsText, ChildKeepsEvents DEF ChildInv

-----------------------------------------------------------------------------
(* Where AsyncProcess.run is and what it knows of the child, what has been  *)
(* passed on of each stream, and what is in the channel, for any number of  *)
(* attempts and any output.                                                 *)
THEOREM ChildTypes == YSpec => []ChildTypeOK
<1>1. ChildInv => ChildTypeOK
  BY DEF ChildInv
<1> QED
  BY <1>1, ChildInit, ChildStep, PTL DEF YSpec

(* AsyncProcess.run ends only when the child has ended and its streams are  *)
(* closed; unless it was stopped, everything the child wrote was passed on  *)
(* and its exit code is known.                                              *)
THEOREM ChildrenAreGone == YSpec => []ChildIsGone
<1>1. ChildInv => ChildIsGone
  BY DEF ChildInv, RunInv, TextInv, ChildIsGone
<1> QED
  BY <1>1, ChildInit, ChildStep, PTL DEF YSpec

(* A receiver that is blocked when the child has ended of itself has an     *)
(* item to get, and one that was told of the end has had every event.       *)
THEOREM ReceiversAreTold == YSpec => []ReceiverIsTold
<1>1. ChildInv => ReceiverIsTold
  <2>1. ASSUME ChildInv
        PROVE  ReceiverIsTold
    <3>1. EventInv
      BY <2>1 DEF ChildInv
    <3>2. receiver = "ended" => child = "exited"
      BY <3>1 DEF EventInv
    <3> QED
      BY <3>1, <3>2 DEF EventInv, ReceiverIsTold
  <2> QED
    BY <2>1
<1> QED
  BY <1>1, ChildInit, ChildStep, PTL DEF YSpec
=============================================================================
