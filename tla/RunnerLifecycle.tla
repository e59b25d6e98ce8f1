--------------------------- MODULE RunnerLifecycle ---------------------------
(***************************************************************************)
(* The life of one instance: the workers of its nodes (worker/main.py,     *)
(* worker/plan.py), the supervisor each of them keeps for its runner       *)
(* (worker/runner/supervisor.py) and the runner processes                  *)
(* (worker/runner/runner.py, bootstrap.py), from the InstanceCreated event *)
(* to N ranks that are ready, or to the deletion of the instance.          *)
(*                                                                         *)
(* Each node has one rank, so a rank names its node, its worker, its       *)
(* supervisor and its process.  What a worker knows of the other ranks is  *)
(* its State (view), which lags: a status goes from the process to the     *)
(* supervisor (pipe), and from there, through the log, to every worker     *)
(* (in), in the same order for all, as ReplicatedLog promises.             *)
(*                                                                         *)
(* There are no generation tasks here.  The TaskCreated and                *)
(* TaskStatusUpdated events of the tasks below, and the CancelTask steps   *)
(* that follow the deletion of an instance, change nothing that a worker   *)
(* or a runner looks at in this phase; they are left out.                  *)
(***************************************************************************)
EXTENDS Naturals, Sequences

CONSTANTS
  N,         \* world_size: the number of ranks
  Setups     \* the circumstances to start from

\* calm: timing that is assumed (see Boot and Timeout); retries: the value of
\* EXO_MAX_INSTANCE_RETRIES; failures: bound on the processes that fail on their
\* own; lag: bound on the events by which a worker is behind the log; deletes: a
\* DeleteInstance may come from the API; disks: where the model may be when the
\* instance is placed.
ASSUME WorldAssumption ==
  /\ N \in Nat \ {0}
  /\ Setups \subseteq [calm : BOOLEAN, retries : Nat, failures : Nat, lag : Nat, deletes : BOOLEAN,
                       disks : SUBSET {"missing", "present", "reported"}]

None == "none"

Ranks == 0 .. N - 1

\* RunnerStatus; a view also has None, for a runner that is not in State.runners.
Statuses == {"Idle", "Connecting", "Connected", "Loading", "Loaded", "WarmingUp", "Ready",
             "ShuttingDown", "Failed"}

\* The tasks a worker gives to a runner, and the status in which the runner
\* works on each of them.
Tasks == {"ConnectToGroup", "LoadModel", "StartWarmup", "Shutdown"}

Working(task) ==
  CASE task = "ConnectToGroup" -> "Connecting"
    [] task = "LoadModel" -> "Loading"
    [] task = "StartWarmup" -> "WarmingUp"
    [] task = "Shutdown" -> "ShuttingDown"

\* The operations in which a rank waits for all the others, and the status
\* that follows each of them.
Collective == {"Connecting", "Loading", "WarmingUp"}

After(status) ==
  CASE status = "Connecting" -> "Connected"
    [] status = "Loading" -> "Loaded"
    [] status = "WarmingUp" -> "Ready"

\* What a runner sends to its supervisor.
Status(s) == [kind |-> "status", of |-> s]

Ack == [kind |-> "ack", of |-> None]

Complete == [kind |-> "complete", of |-> None]

Messages == {Ack, Complete} \cup {Status(s) : s \in Statuses}

\* The events of the log.
Event(kind, rank, status) == [kind |-> kind, rank |-> rank, status |-> status]

RunnerStatusUpdated(n, s) == Event("RunnerStatusUpdated", n, s)

DownloadCompleted(n) == Event("DownloadCompleted", n, None)

InstanceCreated == Event("InstanceCreated", 0, None)

InstanceDeleted == Event("InstanceDeleted", 0, None)

Events == {InstanceCreated, InstanceDeleted} \cup {DownloadCompleted(n) : n \in Ranks}
            \cup {RunnerStatusUpdated(n, s) : n \in Ranks, s \in Statuses}

VARIABLES
  setup,      \* the circumstances; never change
  exists,     \* the instance is in the master's State
  deleting,   \* a worker has sent DeleteInstance
  in,         \* events of the log that each worker has not applied
  view,       \* the State of each worker: instance, runners and downloads
  store,      \* the model on the node's disk
  attempts,   \* Worker._instance_backoff.attempts of the instance
  waits,      \* the task whose acknowledgement plan_step waits for, or None
  sup,        \* the RunnerSupervisor: its status and its _forward_events task
  late,       \* supervisors that were shut down during their _check_runner
  pipe,       \* messages of the runner that the supervisor has not read
  proc,       \* the runner process: its current_status, and whether all ranks met
  tasks,      \* the tasks in its queue
  failures    \* how many processes have failed on their own

worker == <<in, view, store, attempts, waits>>

runner == <<sup, late, pipe, proc, tasks, failures>>

changing == <<exists, deleting, worker, runner>>

vars == <<setup, changing>>

NoSupervisor == [status |-> None, forward |-> "off"]

NoProcess == [phase |-> None, met |-> FALSE]

\* The states of a process: RunnerStatus, and what comes before and after it.
Phases == (Statuses \ {"Failed"}) \cup {None, "booting", "raised", "killed", "exited"}

\* Types, and the bounds that matter: no worker starts its runner more often than
\* EXO_MAX_INSTANCE_RETRIES allows (plan_step, main.py:207).
TypeOK ==
  /\ setup \in Setups
  /\ exists \in BOOLEAN
  /\ deleting \in BOOLEAN
  /\ in \in [Ranks -> Seq(Events)]
  /\ view \in [Ranks -> [instance : BOOLEAN, runners : [Ranks -> Statuses \cup {None}],
                         models : SUBSET Ranks]]
  /\ store \in [Ranks -> {"missing", "fetching", "present", "reported"}]
  /\ attempts \in [Ranks -> 0 .. setup.retries]
  /\ waits \in [Ranks -> Tasks \cup {None}]
  /\ sup \in [Ranks -> [status : Statuses \cup {None}, forward : {"on", "checking", "off"}]]
  /\ late \in [Ranks -> Nat]
  /\ pipe \in [Ranks -> Seq(Messages)]
  /\ proc \in [Ranks -> [phase : Phases, met : BOOLEAN]]
  /\ tasks \in [Ranks -> Seq(Tasks)]
  /\ failures \in 0 .. setup.failures

\* The master has just placed the instance; the model may be on some disks.
Init ==
  /\ setup \in Setups
  /\ exists = TRUE
  /\ deleting = FALSE
  /\ in = [n \in Ranks |-> <<InstanceCreated>>]
  /\ store \in [Ranks -> setup.disks]
  /\ view = [n \in Ranks |-> [instance |-> FALSE, runners |-> [m \in Ranks |-> None],
                              models |-> {m \in Ranks : store[m] = "reported"}]]
  /\ attempts = [n \in Ranks |-> 0]
  /\ waits = [n \in Ranks |-> None]
  /\ sup = [n \in Ranks |-> NoSupervisor]
  /\ late = [n \in Ranks |-> 0]
  /\ pipe = [n \in Ranks |-> <<>>]
  /\ proc = [n \in Ranks |-> NoProcess]
  /\ tasks = [n \in Ranks |-> <<>>]
  /\ failures = 0

-----------------------------------------------------------------------------
\* The log, and the State that each worker derives from it.

Broadcast(e) ==
  /\ \A m \in Ranks : Len(in[m]) < setup.lag
  /\ in' = [m \in Ranks |-> Append(in[m], e)]

EventApply(v, e) ==
  CASE e.kind = "InstanceCreated" -> [v EXCEPT !.instance = TRUE]
    [] e.kind = "InstanceDeleted" -> [v EXCEPT !.instance = FALSE]
    [] e.kind = "RunnerStatusUpdated" -> [v EXCEPT !.runners[e.rank] = e.status]
    [] e.kind = "DownloadCompleted" -> [v EXCEPT !.models = @ \cup {e.rank}]

SiblingFailed(n) == \E m \in Ranks \ {n} : view[n].runners[m] = "Failed"

\* _event_applier.
Apply(n) ==
  /\ in[n] # <<>>
  /\ LET e == Head(in[n]) IN
       /\ view' = [view EXCEPT ![n] = EventApply(@, e)]
       /\ attempts' = IF e.kind = "InstanceDeleted" THEN [attempts EXCEPT ![n] = 0]
                      ELSE attempts
  /\ in' = [in EXCEPT ![n] = Tail(@)]
  /\ UNCHANGED <<setup, exists, deleting, store, waits, runner>>

\* The master's command processor: DeleteInstance from a worker or the API, for
\* an instance that is there.
DeleteInstance ==
  /\ exists
  /\ deleting \/ setup.deletes
  /\ exists' = FALSE
  /\ deleting' = FALSE
  /\ Broadcast(InstanceDeleted)
  /\ UNCHANGED <<setup, view, store, attempts, waits, runner>>

\* The node's DownloadCoordinator has downloaded the model.
Downloaded(n) ==
  /\ store[n] = "fetching"
  /\ store' = [store EXCEPT ![n] = "reported"]
  /\ Broadcast(DownloadCompleted(n))
  /\ UNCHANGED <<setup, exists, deleting, view, attempts, waits, runner>>

-----------------------------------------------------------------------------
\* plan and plan_step.  A step of the loop takes the first task that plan
\* finds; while it waits for an acknowledgement there is no other.

Planning(n) == waits[n] = None

\* _kill_runner
KillWanted(n) ==
  /\ sup[n] # NoSupervisor
  /\ ~view[n].instance \/ sup[n].status = "Failed" \/ SiblingFailed(n)

\* The supervisor is cancelled and its process stopped.  A _check_runner that
\* is under way is shielded, and will still report the failure.
Retire(n) ==
  /\ sup' = [sup EXCEPT ![n] = NoSupervisor]
  /\ late' = IF sup[n].forward = "checking" THEN [late EXCEPT ![n] = @ + 1] ELSE late
  /\ pipe' = [pipe EXCEPT ![n] = <<>>]
  /\ proc' = [proc EXCEPT ![n] = NoProcess]
  /\ tasks' = [tasks EXCEPT ![n] = <<>>]

\* The supervisor, or a process that has raised, has closed the task channel.
Closed(n) == sup[n].forward = "off" \/ proc[n].phase = "raised"

\* start_task, on a channel that is open.
StartTask(n, task) ==
  /\ tasks' = [tasks EXCEPT ![n] = Append(@, task)]
  /\ waits' = [waits EXCEPT ![n] = task]

\* Shutdown: the supervisor is popped and the runner asked to shut down; on a
\* closed channel start_task returns at once.
KillRunner(n) ==
  /\ Planning(n)
  /\ KillWanted(n)
  /\ IF Closed(n)
     THEN Retire(n) /\ UNCHANGED waits
     ELSE StartTask(n, "Shutdown") /\ UNCHANGED <<sup, late, pipe, proc>>
  /\ UNCHANGED <<setup, exists, deleting, in, view, store, attempts, failures>>

\* fail_after(3): the runner has not acknowledged the Shutdown.  In a calm
\* cluster a process that is terminating ends before that.
Timeout(n) ==
  /\ waits[n] = "Shutdown"
  /\ setup.calm => sup[n].forward # "checking"
  /\ Retire(n)
  /\ waits' = [waits EXCEPT ![n] = None]
  /\ UNCHANGED <<setup, exists, deleting, in, view, store, attempts, failures>>

\* _create_runner
CreateWanted(n) ==
  /\ sup[n] = NoSupervisor
  /\ view[n].instance
  /\ SiblingFailed(n) => view[n].runners[n] = "Failed"

\* plan_step gives up after EXO_MAX_INSTANCE_RETRIES attempts.
RetriesLeft(n) == attempts[n] < setup.retries

\* CreateRunner, once the backoff has passed.
CreateRunner(n) ==
  /\ Planning(n)
  /\ CreateWanted(n)
  /\ RetriesLeft(n)
  /\ attempts' = [attempts EXCEPT ![n] = @ + 1]
  /\ sup' = [sup EXCEPT ![n] = [status |-> "Idle", forward |-> "on"]]
  /\ proc' = [proc EXCEPT ![n] = [phase |-> "booting", met |-> FALSE]]
  /\ UNCHANGED <<setup, exists, deleting, in, view, store, waits, late, pipe, tasks, failures>>

\* The retries are used up: the worker asks for the deletion of the instance, again
\* and again until it hears of it.  A command that comes after the deletion has
\* no effect (delete_instance raises), so none is sent here.
GiveUp(n) ==
  /\ Planning(n)
  /\ CreateWanted(n)
  /\ ~RetriesLeft(n)
  /\ exists
  /\ deleting' = TRUE
  /\ UNCHANGED <<setup, exists, worker, runner>>

Running(n) == Planning(n) /\ sup[n] # NoSupervisor /\ ~KillWanted(n)

\* _model_needs_download, and DownloadModel: a model that is found on disk is
\* reported, one that is not is asked of the coordinator.  To ask again, after
\* the download backoff, changes nothing.
DownloadWanted(n) ==
  /\ sup[n].status = "Idle"
  /\ n \notin view[n].models
  /\ store[n] \in {"missing", "present"}

DownloadModel(n) ==
  /\ Running(n)
  /\ DownloadWanted(n)
  /\ \/ /\ store[n] = "present"
        /\ store' = [store EXCEPT ![n] = "reported"]
        /\ Broadcast(DownloadCompleted(n))
     \/ /\ store[n] = "missing"
        /\ store' = [store EXCEPT ![n] = "fetching"]
        /\ UNCHANGED in
  /\ UNCHANGED <<setup, exists, deleting, view, attempts, waits, runner>>

AllRunners(n, ranks, statuses) == \A m \in ranks : view[n].runners[m] \in statuses

\* Mutant of ConnectWanted: the last rank does not wait for the others.
ConnectUnordered(n) ==
  /\ N > 1
  /\ sup[n].status = "Idle"
  /\ AllRunners(n, Ranks, {"Connecting", "Idle"})

\* _init_distributed_backend
ConnectWanted(n) ==
  /\ N > 1
  /\ sup[n].status = "Idle"
  /\ AllRunners(n, Ranks, {"Connecting", "Idle"})
  /\ n = N - 1 => AllRunners(n, Ranks \ {n}, {"Connecting"})

\* _load_model
LoadWanted(n) ==
  /\ view[n].models = Ranks
  /\ \/ N = 1 /\ sup[n].status = "Idle"
     \/ /\ sup[n].status = "Connected"
        /\ AllRunners(n, Ranks, {"Connected", "Loading", "Loaded"})

\* _ready_to_warmup
WarmupWanted(n) ==
  /\ sup[n].status = "Loaded"
  /\ n > 0 => AllRunners(n, Ranks, {"Loaded", "WarmingUp", "Ready"})
  /\ n = 0 => AllRunners(n, Ranks \ {n}, {"WarmingUp", "Ready"})

\* The task that plan returns for the runner goes to start_task.  On a closed
\* channel the task is dropped, and planned again: nothing changes.
StartRunnerTask(n) ==
  /\ Running(n)
  /\ ~Closed(n)
  /\ ~DownloadWanted(n)
  /\ \/ ConnectWanted(n) /\ StartTask(n, "ConnectToGroup")
     \/ LoadWanted(n) /\ StartTask(n, "LoadModel")
     \/ WarmupWanted(n) /\ StartTask(n, "StartWarmup")
  /\ UNCHANGED <<setup, exists, deleting, in, view, store, attempts, sup, late, pipe, proc,
                 failures>>

-----------------------------------------------------------------------------
\* The runner process.

Send(n, messages) == pipe' = [pipe EXCEPT ![n] = @ \o messages]

Enter(n, phase) == proc' = [proc EXCEPT ![n] = [phase |-> phase, met |-> FALSE]]

\* A failure that a worker has not heard of, or on which it has yet to act.
Unsettled ==
  \E m \in Ranks :
    \/ \E i \in 1 .. Len(in[m]) : in[m][i].status = "Failed"
    \/ SiblingFailed(m) /\ proc[m].phase \notin {None, "booting"}

\* Runner.__init__.  In a calm cluster a new process takes longer to come up
\* than the workers take to shut down the siblings of one that failed.
Boot(n) ==
  /\ proc[n].phase = "booting"
  /\ setup.calm => ~Unsettled
  /\ Enter(n, "Idle")
  /\ Send(n, <<Status("Idle")>>)
  /\ UNCHANGED <<setup, exists, deleting, worker, sup, late, tasks, failures>>

\* The guards of handle_first_task.
Accepts(phase, task) ==
  \/ task = "ConnectToGroup" /\ phase = "Idle"
  \/ task = "LoadModel" /\ phase \in {"Connected", "Idle"}
  \/ task = "StartWarmup" /\ phase = "Loaded"
  \/ task = "Shutdown"

\* Mutant of Announce: the acknowledgement first.
AckFirst(task) == <<Ack, Status(Working(task))>>

\* handle_first_task up to the operation: the status first, then the
\* acknowledgement.  A task that fits no case raises.
Announce(task) == <<Status(Working(task)), Ack>>

TakeTask(n) ==
  /\ proc[n].phase \in {"Idle", "Connected", "Loaded", "Ready"}
  /\ tasks[n] # <<>>
  /\ LET task == Head(tasks[n]) IN
       IF Accepts(proc[n].phase, task)
       THEN Enter(n, Working(task)) /\ Send(n, Announce(task))
       ELSE Enter(n, "raised") /\ UNCHANGED pipe
  /\ tasks' = [tasks EXCEPT ![n] = Tail(@)]
  /\ UNCHANGED <<setup, exists, deleting, worker, sup, late, failures>>

\* mlx.distributed: connecting, the barrier at the end of loading, and warming
\* up return on no rank before all ranks have entered them.
Meet(phase) ==
  /\ \A m \in Ranks : proc[m] = [phase |-> phase, met |-> FALSE]
  /\ proc' = [m \in Ranks |-> [phase |-> phase, met |-> TRUE]]
  /\ UNCHANGED <<setup, exists, deleting, worker, sup, late, pipe, tasks, failures>>

\* The rest of handle_first_task.
Conclude(phase) == <<Complete, Status(After(phase))>>

FinishTask(n) ==
  /\ proc[n].phase \in Collective
  /\ proc[n].met
  /\ Enter(n, After(proc[n].phase))
  /\ Send(n, Conclude(proc[n].phase))
  /\ UNCHANGED <<setup, exists, deleting, worker, sup, late, tasks, failures>>

\* The end of Runner.shutdown, of main and of entrypoint, which closes the
\* channel.  What is sent here is never read: the acknowledgement before it
\* ends the supervisor.
Exit(n) ==
  /\ proc[n].phase = "ShuttingDown"
  /\ Enter(n, "exited")
  /\ UNCHANGED <<setup, exists, deleting, worker, sup, late, pipe, tasks, failures>>

\* An exception: entrypoint sends it, closes the channel and exits.
Raise(n) ==
  /\ proc[n].phase \in Collective \cup {"booting", "ShuttingDown"}
  /\ failures < setup.failures
  /\ failures' = failures + 1
  /\ Enter(n, "raised")
  /\ UNCHANGED <<setup, exists, deleting, worker, sup, late, pipe, tasks>>

\* The process is killed; what its queue has not flushed is lost.
Killed(n) ==
  /\ proc[n].phase \notin {None, "raised", "killed", "exited"}
  /\ failures < setup.failures
  /\ failures' = failures + 1
  /\ Enter(n, "killed")
  /\ \E k \in 0 .. Len(pipe[n]) : pipe' = [pipe EXCEPT ![n] = SubSeq(@, 1, k)]
  /\ UNCHANGED <<setup, exists, deleting, worker, sup, late, tasks>>

-----------------------------------------------------------------------------
\* The supervisor.

\* _forward_events: a status is kept and passed on.
ForwardStatus(n) ==
  /\ sup[n].forward = "on"
  /\ pipe[n] # <<>>
  /\ Head(pipe[n]).kind = "status"
  /\ sup' = [sup EXCEPT ![n].status = Head(pipe[n]).of]
  /\ Broadcast(RunnerStatusUpdated(n, Head(pipe[n]).of))
  /\ pipe' = [pipe EXCEPT ![n] = Tail(@)]
  /\ UNCHANGED <<setup, exists, deleting, view, store, attempts, waits, late, proc, tasks,
                 failures>>

ForwardAck(n) ==
  /\ sup[n].forward = "on"
  /\ pipe[n] # <<>>
  /\ Head(pipe[n]).kind = "ack"
  /\ IF waits[n] = "Shutdown"
     THEN Retire(n)
     ELSE pipe' = [pipe EXCEPT ![n] = Tail(@)] /\ UNCHANGED <<sup, late, proc, tasks>>
  /\ waits' = [waits EXCEPT ![n] = None]
  /\ UNCHANGED <<setup, exists, deleting, in, view, store, attempts, failures>>

\* The statuses in which a completion is expected (the assertion of _forward_events).
Expecting == {"WarmingUp", "Loading", "Connecting", "ShuttingDown"}

ForwardComplete(n) ==
  /\ sup[n].forward = "on"
  /\ pipe[n] # <<>>
  /\ Head(pipe[n]).kind = "complete"
  /\ sup[n].status \in Expecting
  /\ pipe' = [pipe EXCEPT ![n] = Tail(@)]
  /\ UNCHANGED <<setup, exists, deleting, worker, sup, late, proc, tasks, failures>>

\* RunnerTerminationError, or ClosedResourceError, which both sides of a channel
\* raise once one of them has closed it, whatever is still in it.  _check_runner
\* waits for the process to stop; after a Shutdown its exit code is 0.
ForwardEnd(n) ==
  /\ sup[n].forward = "on"
  /\ \/ /\ proc[n].phase = "raised"
        /\ sup' = [sup EXCEPT ![n].forward = "checking"]
        /\ pipe' = [pipe EXCEPT ![n] = <<>>]
        /\ UNCHANGED <<waits, late, proc, tasks>>
     \/ /\ proc[n].phase = "exited"
        /\ Retire(n)
        /\ waits' = [waits EXCEPT ![n] = None]
  /\ UNCHANGED <<setup, exists, deleting, in, view, store, attempts, failures>>

\* Mutant of ReleasePending: nobody is woken.
ForgetPending(n) == UNCHANGED waits

\* The finally of _forward_events: whoever waits for an acknowledgement is
\* woken.
ReleasePending(n) == waits' = [waits EXCEPT ![n] = None]

\* The end of _check_runner, and of the supervisor: the failure is reported.  If
\* plan_step waits for a Shutdown it drops the supervisor.
ReportFailed(n) ==
  /\ Broadcast(RunnerStatusUpdated(n, "Failed"))
  /\ IF waits[n] = "Shutdown"
     THEN /\ sup' = [sup EXCEPT ![n] = NoSupervisor]
          /\ pipe' = [pipe EXCEPT ![n] = <<>>]
          /\ proc' = [proc EXCEPT ![n] = NoProcess]
          /\ tasks' = [tasks EXCEPT ![n] = <<>>]
     ELSE /\ sup' = [sup EXCEPT ![n] = [status |-> "Failed", forward |-> "off"]]
          /\ UNCHANGED <<pipe, proc, tasks>>
  /\ ReleasePending(n)
  /\ UNCHANGED <<setup, exists, deleting, view, store, attempts, late, failures>>

Checked(n) == sup[n].forward = "checking" /\ ReportFailed(n)

\* _watch_runner: every five seconds it looks whether the process is alive.  Its
\* _check_runner cancels the supervisor, which reads nothing more; a message whose
\* read ended in the same turn of the event loop is left out.
Watch(n) ==
  /\ sup[n].forward = "on"
  /\ proc[n].phase \in {"raised", "killed"}
  /\ ReportFailed(n)

\* The _check_runner of a supervisor that has been replaced ends.
LateFailure(n) ==
  /\ late[n] > 0
  /\ late' = [late EXCEPT ![n] = @ - 1]
  /\ Broadcast(RunnerStatusUpdated(n, "Failed"))
  /\ UNCHANGED <<setup, exists, deleting, view, store, attempts, waits, sup, pipe, proc, tasks,
                 failures>>

-----------------------------------------------------------------------------
Plan(n) ==
  KillRunner(n) \/ Timeout(n) \/ CreateRunner(n) \/ GiveUp(n) \/ DownloadModel(n)
    \/ StartRunnerTask(n)

Forward(n) ==
  ForwardStatus(n) \/ ForwardAck(n) \/ ForwardComplete(n) \/ ForwardEnd(n)

Process(n) == Boot(n) \/ TakeTask(n) \/ FinishTask(n) \/ Exit(n)

Next ==
  \/ DeleteInstance
  \/ \E phase \in Collective : Meet(phase)
  \/ \E n \in Ranks :
       \/ Apply(n) \/ Downloaded(n) \/ Plan(n) \/ Process(n)
       \/ Raise(n) \/ Killed(n) \/ Forward(n) \/ Checked(n) \/ Watch(n) \/ LateFailure(n)

Spec == Init /\ [][Next]_vars

\* Steps that nobody can put off for ever: event loops and processes run, timers
\* fire, collective operations that all ranks have entered return, downloads
\* end, and the master handles a command it has been sent.
Progress ==
  \/ deleting /\ DeleteInstance
  \/ \E phase \in Collective : Meet(phase)
  \/ \E n \in Ranks :
       \/ Apply(n) \/ Downloaded(n) \/ Plan(n) \/ Process(n)
       \/ Forward(n) \/ Checked(n) \/ Watch(n) \/ LateFailure(n)

\* No behaviour can take such steps for ever, so that it is enough to ask that
\* one of them is taken when there is one.  Nobody is obliged to fail or to delete.
FairSpec == Spec /\ WF_changing(Progress)

-----------------------------------------------------------------------------
\* A runner is never given a task outside of its state machine, which would raise
\* (handle_first_task, runner.py:317).  plan looks at the supervisor's status,
\* which lags behind the runner's; what makes the two agree is that a runner
\* announces its status before it acknowledges, and that plan_step waits for the
\* acknowledgement.
NoStrayTask ==
  \A n \in Ranks : \A i \in 1 .. Len(tasks[n]) :
    \/ Accepts(proc[n].phase, tasks[n][i])
    \/ proc[n].phase = "booting" /\ Accepts("Idle", tasks[n][i])
    \/ proc[n].phase \in {"raised", "killed"}

\* When _forward_events reads the completion of a task, the supervisor's status is
\* one of a runner at work: the assertion of supervisor.py:337 holds, over
\* restarts of the runner and failures in any phase.
CompletionExpected ==
  \A n \in Ranks :
    sup[n].forward = "on" /\ pipe[n] # <<>> /\ Head(pipe[n]).kind = "complete"
      => sup[n].status \in Expecting

\* Neither side of the pipe between supervisor and runner gets what it cannot take.
NothingUnexpected == NoStrayTask /\ CompletionExpected

Begun == Collective \cup {"Connected", "Loaded", "Ready"}

\* Until a runner fails or the instance is deleted, the last rank connects after
\* all others and rank 0 warms up after all others, although each worker infers
\* the moment from statuses that are out of date (_init_distributed_backend,
\* plan.py:206, and _ready_to_warmup, plan.py:288).
InStep ==
  failures = 0 /\ exists =>
    /\ N > 1 /\ proc[N - 1].phase \in Begun => \A m \in Ranks : proc[m].phase \in Begun
    /\ proc[0].phase \in {"WarmingUp", "Ready"}
         => \A m \in Ranks : proc[m].phase \in {"WarmingUp", "Ready"}

AllReady == \A n \in Ranks : proc[n].phase = "Ready" /\ sup[n].status = "Ready"

Gone == ~exists /\ \A n \in Ranks : proc[n] = NoProcess

\* Whichever runner fails, and whenever, the instance ends up with all ranks ready,
\* or deleted with no runner left: nobody waits for ever for an acknowledgement
\* (supervisor.py:299), for a sibling (plan.py:125) or in a collective operation
\* with a rank that is gone.  It takes the timing of a calm cluster.
ComesUpOrGoes == setup.calm => <>[](AllReady \/ Gone)
==============================================================================
