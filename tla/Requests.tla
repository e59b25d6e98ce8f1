------------------------------- MODULE Requests -------------------------------
(***************************************************************************)
(* The life of a generation request: the API that turns it into a command  *)
(* and waits for its chunks (api/main.py), the master that places it on an *)
(* instance as a task (master/main.py), the workers that hand the task to  *)
(* the runners of that instance (worker/main.py, worker/plan.py), the      *)
(* supervisors that report the death of a runner                           *)
(* (worker/runner/supervisor.py), and the State that all of them derive    *)
(* from the one log of events (shared/apply.py).                           *)
(*                                                                         *)
(* A command makes at most one task, so a command also names its task.     *)
(* All instances serve the model that is asked for, and their runners are  *)
(* ready at first: RunnerLifecycle is about how they get there.  Events go *)
(* through the log in the order of their source, as ReplicatedLog promises;*)
(* a consumer is sent only the events it reacts to.  Workers see at once   *)
(* that a runner is down: one that has not heard yet acts as one that      *)
(* acted a moment before the runner died.                                  *)
(***************************************************************************)
EXTENDS Naturals, Sequences, FiniteSets, FiniteSetsExt, SequencesExt

CONSTANTS
  Commands,   \* the requests
  Instances,
  Nodes,
  Setups      \* the circumstances to start from

\* hosts: the nodes of each instance, rank 0 first; requests: the commands that
\* clients make; kinds: what they ask for; cancels: clients cancel a command, or
\* go away; deletes, timeouts, deaths: bounds on the instances that users
\* delete, the nodes that the master takes for dead, and the runners that die;
\* lag: bound on the events by which a consumer is behind the log; prompt: a
\* response makes its queue before its first chunk comes.
Circumstances ==
  [hosts : [Instances -> Seq(Nodes)], requests : SUBSET Commands,
   kinds : SUBSET {"text", "image"}, cancels : SUBSET {"cancel", "leave"},
   deletes : Nat, timeouts : Nat, deaths : Nat, lag : Nat, prompt : BOOLEAN]

None == "none"

Master == "master"

Api == "api"

\* The master and the API are not nodes; there are finitely many requests.
ASSUME SetupsAssumption ==
  /\ Setups \subseteq Circumstances
  /\ {Master, Api} \cap Nodes = {}
  /\ IsFiniteSet(Commands)

InFlight == {"Pending", "Running"}

NoTask == [instance |-> None, status |-> None]

\* The commands that the API sends to the master.
Command(kind, of) == [kind |-> kind, of |-> of]

\* The events of the log.
Event(kind, of, what) == [kind |-> kind, of |-> of, what |-> what]

TaskCreated(c, i) == Event("TaskCreated", c, i)

TaskStatusUpdated(c, s) == Event("TaskStatusUpdated", c, s)

TaskDeleted(c) == Event("TaskDeleted", c, None)

ChunkGenerated(c, chunk) == Event("ChunkGenerated", c, chunk)

InstanceDeleted(i) == Event("InstanceDeleted", i, None)

NodeTimedOut(n) == Event("NodeTimedOut", n, None)

NodeGatheredInfo(n) == Event("NodeGatheredInfo", n, None)

VARIABLES
  setup,      \* the circumstances; only the bounds change, as they are used up
  client,     \* each request: how far it has come, and then how it ended
  kind,       \* what it asks for
  registered, \* the API's queue for its chunks: in the dictionary, and open
  stream,     \* the chunks in that queue, and its end
  api,        \* FALSE once _apply_state has failed
  wire,       \* commands that the master has not read
  mapping,    \* Master.command_task_mapping
  out,        \* events of the master and the workers that are not yet indexed
  in,         \* indexed events that each consumer has not applied
  view,       \* the State of the master, of the API and of each worker
  sup,        \* the RunnerSupervisor of each instance on each node
  answered    \* tasks whose last chunk rank 0 has sent

changing == <<client, kind, registered, stream, api, wire, mapping, out, in, view, sup, answered>>

vars == <<setup, changing>>

Sources == {Master} \cup Nodes

\* How a response ends: with its last chunk, with an error, with the end of its
\* queue, or because its client went away while it waited, or while it did not.
Outcomes == {"final", "error", "end", "left", "gone"}

Consumers == {Api} \cup Nodes

\* A supervisor: its process; in_progress, completed and cancelled; and of the
\* process, active_tasks and the cancellations it has been sent.
NewSupervisor == [up |-> TRUE, progress |-> {}, completed |-> {}, cancelled |-> {},
                  active |-> {}, told |-> {}]

Hosts(i) == Range(setup.hosts[i])

\* The instances there are at first.
Placed == {i \in Instances : setup.hosts[i] # <<>>}

Init ==
  /\ setup \in Setups
  /\ client = [c \in Commands |-> "new"]
  /\ kind \in [Commands -> setup.kinds]
  /\ registered = [c \in Commands |-> None]
  /\ stream = [c \in Commands |-> <<>>]
  /\ api = TRUE
  /\ wire = <<>>
  /\ mapping = {}
  /\ out = [s \in Sources |-> <<>>]
  /\ in = [k \in Consumers |-> <<>>]
  /\ view = [k \in Sources \cup Consumers |->
               [instances |-> Placed, nodes |-> Nodes,
                tasks |-> [c \in Commands |-> NoTask]]]
  /\ sup = [i \in Instances |-> [n \in Nodes |->
              IF n \in Hosts(i) THEN NewSupervisor ELSE [NewSupervisor EXCEPT !.up = FALSE]]]
  /\ answered = {}

-----------------------------------------------------------------------------
\* The log and the State.

\* A worker's runners and supervisors wait while the event before is on its way.
Send(s, events) ==
  /\ s \in Nodes => out[s] = <<>>
  /\ out' = [out EXCEPT ![s] = @ \o events]

\* Mutant of UpdateStatus: an update of a task that is not there makes one.
UpdateUnknown(v, c, s) ==
  [v EXCEPT !.tasks[c] = IF @ = NoTask THEN [instance |-> CHOOSE i \in Instances : TRUE, status |-> s]
                         ELSE [@ EXCEPT !.status = s]]

\* apply_task_status_updated: an update of a task that is not there is ignored.
UpdateStatus(v, c, s) ==
  IF v.tasks[c] = NoTask THEN v ELSE [v EXCEPT !.tasks[c].status = s]

\* event_apply
EventApply(v, e) ==
  CASE e.kind = "TaskCreated" ->
         [v EXCEPT !.tasks[e.of] = [instance |-> e.what, status |-> "Pending"]]
    [] e.kind = "TaskStatusUpdated" -> UpdateStatus(v, e.of, e.what)
    [] e.kind = "TaskDeleted" -> [v EXCEPT !.tasks[e.of] = NoTask]
    [] e.kind = "InstanceDeleted" -> [v EXCEPT !.instances = @ \ {e.of}]
    [] e.kind = "NodeTimedOut" -> [v EXCEPT !.nodes = @ \ {e.of}]
    [] e.kind = "NodeGatheredInfo" -> [v EXCEPT !.nodes = @ \cup {e.of}]
    [] OTHER -> v

\* The API does not look at the status of a task, nor a worker at the chunks;
\* neither looks at which nodes are alive.  A worker that hosts nothing does
\* nothing with what it knows.
ReactsTo(k, e) ==
  /\ k = Api \/ \E i \in Placed : k \in Hosts(i)
  /\ \/ e.kind \in {"TaskCreated", "TaskDeleted", "InstanceDeleted"}
     \/ k = Api /\ e.kind = "ChunkGenerated"
     \/ k # Api /\ e.kind = "TaskStatusUpdated"

\* Master._event_processor: the event is indexed, applied and sent to everyone.
Index(s) ==
  /\ out[s] # <<>>
  /\ LET e == Head(out[s]) IN
       /\ \A k \in Consumers : ReactsTo(k, e) => Len(in[k]) < setup.lag
       /\ view' = [view EXCEPT ![Master] = EventApply(@, e)]
       /\ in' = [k \in Consumers |-> IF ReactsTo(k, e) THEN Append(in[k], e) ELSE in[k]]
  /\ out' = [out EXCEPT ![s] = Tail(@)]
  /\ UNCHANGED <<setup, client, kind, registered, stream, api, wire, mapping, sup, answered>>

-----------------------------------------------------------------------------
\* The API.

\* _resolve_and_validate_text_model, _validate_image_model: some instance has the model.
Validated == view[Api].instances # {}

\* What the handlers of all wire formats do: they validate the model against the
\* API's State, and send the command.
Accept(c) ==
  /\ api
  /\ c \in setup.requests
  /\ client[c] = "new"
  /\ Validated
  /\ client' = [client EXCEPT ![c] = "sent"]
  /\ wire' = Append(wire, Command("Generate", c))
  /\ UNCHANGED <<setup, kind, registered, stream, api, mapping, out, in, view, sup, answered>>

TextRequest(c) == kind[c] = "text" /\ Accept(c)

ImageRequest(c) == kind[c] = "image" /\ Accept(c)

\* The response starts to iterate, and only now makes its queue.
Register(c) ==
  /\ api
  /\ client[c] = "sent"
  /\ client' = [client EXCEPT ![c] = "open"]
  /\ registered' = [registered EXCEPT ![c] = "open"]
  /\ UNCHANGED <<setup, kind, stream, api, wire, mapping, out, in, view, sup, answered>>

\* _close_streams_for_instance: the queues of the tasks the API knows of.
CloseStreamsForInstance(i) ==
  LET closed == {c \in Commands : registered[c] # None /\ view[Api].tasks[c].instance = i}
  IN  /\ registered' = [c \in Commands |-> IF c \in closed THEN None ELSE registered[c]]
      /\ stream' = [c \in Commands |-> IF c \in closed THEN Append(stream[c], "end") ELSE stream[c]]

\* A chunk goes to the queue of its command; a queue that is closed is dropped.
\* _apply_state asserts that an image queue gets an ImageChunk.
Asserted(e) == kind[e.of] = "image" => e.what # "error"

Deliver(e) ==
  /\ registered' = [registered EXCEPT ![e.of] = IF @ = "closed" THEN None ELSE @]
  /\ stream' = IF registered[e.of] = "open" THEN [stream EXCEPT ![e.of] = Append(@, e.what)] ELSE stream

\* _apply_state
ApiApply ==
  /\ api
  /\ in[Api] # <<>>
  /\ in' = [in EXCEPT ![Api] = Tail(@)]
  /\ LET e == Head(in[Api]) IN
       /\ e.kind = "ChunkGenerated" /\ setup.prompt => client[e.of] # "sent"
       /\ view' = [view EXCEPT ![Api] = EventApply(@, e)]
       /\ \/ e.kind = "ChunkGenerated" /\ Asserted(e) /\ Deliver(e) /\ UNCHANGED api
          \/ /\ e.kind = "ChunkGenerated" /\ ~Asserted(e)
             /\ api' = (registered[e.of] = None)
             /\ UNCHANGED <<registered, stream>>
          \/ e.kind = "InstanceDeleted" /\ CloseStreamsForInstance(e.of) /\ UNCHANGED api
          \/ e.kind \notin {"ChunkGenerated", "InstanceDeleted"} /\ UNCHANGED <<registered, stream, api>>
  /\ UNCHANGED <<setup, client, kind, wire, mapping, out, sup, answered>>

\* _token_chunk_stream and the image streams: the last chunk, an error or the
\* end of the queue ends the response, and the command is reported finished.
Read(c) ==
  /\ api
  /\ client[c] = "open"
  /\ stream[c] # <<>>
  /\ client' = [client EXCEPT ![c] = Head(stream[c])]
  /\ registered' = [registered EXCEPT ![c] = None]
  /\ stream' = [stream EXCEPT ![c] = <<>>]
  /\ wire' = Append(wire, Command("TaskFinished", c))
  /\ UNCHANGED <<setup, kind, api, mapping, out, in, view, sup, answered>>

\* cancel_command: the queue stays in the dictionary, closed.
CancelCommand(c) ==
  /\ api
  /\ "cancel" \in setup.cancels
  /\ registered[c] = "open"
  /\ wire' = Append(wire, Command("TaskCancelled", c))
  /\ registered' = [registered EXCEPT ![c] = "closed"]
  /\ stream' = [stream EXCEPT ![c] = Append(@, "end")]
  /\ UNCHANGED <<setup, client, kind, api, mapping, out, in, view, sup, answered>>

\* The client goes away.  A response that waits for a chunk is cancelled: it
\* sends TaskCancelled, but the send of TaskFinished in its cancelled scope
\* raises again, and its queue stays.  A response that is not waiting is closed
\* later, by the garbage collector, and sends TaskFinished alone.
Leave(c) ==
  /\ api
  /\ "leave" \in setup.cancels
  /\ client[c] = "open"
  /\ \/ /\ stream[c] = <<>>
        /\ client' = [client EXCEPT ![c] = "left"]
        /\ wire' = Append(wire, Command("TaskCancelled", c))
        /\ registered' = [registered EXCEPT ![c] = IF @ = "open" THEN "closed" ELSE @]
     \/ /\ client' = [client EXCEPT ![c] = "gone"]
        /\ wire' = Append(wire, Command("TaskFinished", c))
        /\ registered' = [registered EXCEPT ![c] = None]
  /\ stream' = [stream EXCEPT ![c] = <<>>]
  /\ UNCHANGED <<setup, kind, api, mapping, out, in, view, sup, answered>>

\* The delete_instance handler, for an instance in the API's State.
DeleteInstance(i) ==
  /\ api
  /\ setup.deletes > 0
  /\ i \in view[Api].instances
  /\ setup' = [setup EXCEPT !.deletes = @ - 1]
  /\ wire' = Append(wire, Command("DeleteInstance", i))
  /\ UNCHANGED <<client, kind, registered, stream, api, mapping, out, in, view, sup, answered>>

-----------------------------------------------------------------------------
\* The master.  It decides on its State, which changes only when the events
\* that it sends come back to it through the log.

Load(i) ==
  Cardinality({c \in Commands : /\ view[Master].tasks[c].instance = i
                                /\ view[Master].tasks[c].status \in InFlight})

\* TextGeneration, ImageGeneration, ImageEdits: the least loaded instance; with
\* none, the command raises and leaves no trace.
Place(c) ==
  LET instances == view[Master].instances
  IN  \/ /\ instances = {}
         /\ UNCHANGED <<mapping, out>>
      \/ \E i \in instances :
           /\ \A j \in instances : Load(i) <= Load(j)
           /\ mapping' = mapping \cup {c}
           /\ Send(Master, <<TaskCreated(c, i)>>)

\* delete_instance and get_transition_events: the tasks in flight are cancelled
\* before the instance goes.
Delete(i) ==
  LET v == view[Master]
      tasks == {c \in Commands : v.tasks[c].instance = i /\ v.tasks[c].status \in InFlight}
  IN  IF i \in v.instances
      THEN Send(Master, SetToSeq({TaskStatusUpdated(c, "Cancelled") : c \in tasks})
                          \o <<InstanceDeleted(i)>>)
      ELSE UNCHANGED out

\* _command_processor
CommandProcessor ==
  /\ wire # <<>>
  /\ wire' = Tail(wire)
  /\ LET command == Head(wire)
         c == command.of
     IN  \/ command.kind = "Generate" /\ Place(c)
         \/ /\ command.kind = "TaskCancelled"
            /\ IF c \in mapping THEN Send(Master, <<TaskStatusUpdated(c, "Cancelled")>>) ELSE UNCHANGED out
            /\ UNCHANGED mapping
         \/ /\ command.kind = "TaskFinished"
            /\ IF c \in mapping THEN Send(Master, <<TaskDeleted(c)>>) ELSE UNCHANGED out
            /\ mapping' = mapping \ {c}
         \/ command.kind = "DeleteInstance" /\ Delete(c) /\ UNCHANGED mapping
  /\ UNCHANGED <<setup, client, kind, registered, stream, api, in, view, sup, answered>>

\* _plan, first half: an instance with a node that is not in the topology is
\* deleted, and its tasks are not cancelled.  The loop sends the event again until
\* it is applied, which changes nothing.
KillInstance(i) ==
  /\ i \in view[Master].instances
  /\ ~(Hosts(i) \subseteq view[Master].nodes)
  /\ ~Contains(out[Master], InstanceDeleted(i))
  /\ Send(Master, <<InstanceDeleted(i)>>)
  /\ UNCHANGED <<setup, client, kind, registered, stream, api, wire, mapping, in, view, sup, answered>>

\* _plan, second half: nothing was heard of a node for EXO_NODE_TIMEOUT_SECONDS.
\* The node may only be slow.
TimeOut(n) ==
  /\ setup.timeouts > 0
  /\ n \in view[Master].nodes
  /\ setup' = [setup EXCEPT !.timeouts = @ - 1]
  /\ Send(Master, <<NodeTimedOut(n)>>)
  /\ UNCHANGED <<client, kind, registered, stream, api, wire, mapping, in, view, sup, answered>>

\* _forward_info of a node that was only slow brings it back.
ComeBack(n) ==
  /\ n \notin view[Master].nodes
  /\ out[n] = <<>>
  /\ Send(n, <<NodeGatheredInfo(n)>>)
  /\ UNCHANGED <<setup, client, kind, registered, stream, api, wire, mapping, in, view, sup, answered>>

-----------------------------------------------------------------------------
\* A worker.

\* _event_applier
WorkerApply(n) ==
  /\ in[n] # <<>>
  /\ view' = [view EXCEPT ![n] = EventApply(@, Head(in[n]))]
  /\ in' = [in EXCEPT ![n] = Tail(@)]
  /\ UNCHANGED <<setup, client, kind, registered, stream, api, wire, mapping, out, sup, answered>>

Keeps(n, i) == n \in Hosts(i) /\ sup[i][n].up

\* _cancel_tasks
CancelWanted(n, i, c) ==
  /\ Keeps(n, i)
  /\ view[n].tasks[c] = [instance |-> i, status |-> "Cancelled"]
  /\ c \notin sup[i][n].cancelled

Cancels(n) == \E i \in Instances : \E c \in Commands : CancelWanted(n, i, c)

\* CancelTask, and cancel_task of the supervisor.
CancelTask(n, i, c) ==
  /\ CancelWanted(n, i, c)
  /\ sup' = [sup EXCEPT ![i][n].cancelled = @ \cup {c},
                        ![i][n].told = IF c \in sup[i][n].completed THEN @ ELSE @ \cup {c}]
  /\ UNCHANGED <<setup, client, kind, registered, stream, api, wire, mapping, out, in, view, answered>>

\* _kill_runner: the instance is gone, or a runner of it has failed.
KillWanted(n, i) ==
  /\ Keeps(n, i)
  /\ i \notin view[n].instances \/ \E m \in Hosts(i) : ~sup[i][m].up

\* Shutdown: the process is stopped, and no chunk is sent for what it was doing.
KillRunner(n, i) ==
  /\ ~Cancels(n)
  /\ KillWanted(n, i)
  /\ sup' = [sup EXCEPT ![i][n].up = FALSE]
  /\ UNCHANGED <<setup, client, kind, registered, stream, api, wire, mapping, out, in, view, answered>>

\* Mutant of Startable: a task that another rank has begun is not started.
StartablePending == {"Pending"}

\* The statuses in which _pending_tasks starts a task.
Startable == InFlight

\* _pending_tasks and start_task.  All ranks of the instance must be ready; one
\* that has died unheard of is one that dies a moment later.  The first task of an
\* idle runner is reported to be running.
StartTask(n, i, c) ==
  /\ ~Cancels(n)
  /\ \A j \in Instances : ~KillWanted(n, j)
  /\ Keeps(n, i)
  /\ \A m \in Hosts(i) : sup[i][m].up
  /\ view[n].tasks[c].instance = i
  /\ view[n].tasks[c].status \in Startable
  /\ c \notin sup[i][n].completed \cup sup[i][n].progress
  /\ sup' = [sup EXCEPT ![i][n].progress = @ \cup {c}, ![i][n].active = @ \cup {c}]
  /\ IF sup[i][n].active = {} THEN Send(n, <<TaskStatusUpdated(c, "Running")>>) ELSE UNCHANGED out
  /\ UNCHANGED <<setup, client, kind, registered, stream, api, wire, mapping, in, view, answered>>

-----------------------------------------------------------------------------
\* The runners of an instance.  They work in step: a task advances, and a
\* cancellation counts, only when all ranks have it.

Joined(i, c) == \A m \in Hosts(i) : sup[i][m].up /\ c \in sup[i][m].active

Agreed(i, c) == \A m \in Hosts(i) : c \in sup[i][m].told

\* Rank 0 sends the last chunk of the response.
Answer(i, c) ==
  /\ Joined(i, c)
  /\ c \notin answered
  /\ answered' = answered \cup {c}
  /\ Send(setup.hosts[i][1], <<ChunkGenerated(c, "final")>>)
  /\ UNCHANGED <<setup, client, kind, registered, stream, api, wire, mapping, in, view, sup>>

\* _forward_events, for a task that the runner reports complete.
Completed(s, c) ==
  [s EXCEPT !.active = @ \ {c}, !.progress = @ \ {c}, !.completed = @ \cup {c}]

\* FinishedResponse: each rank reports the task complete on its own, when it is
\* answered or when its prefill was cancelled.
Finish(n, i, c) ==
  /\ sup[i][n].up
  /\ c \in sup[i][n].active
  /\ c \in answered \/ Agreed(i, c)
  /\ sup' = [sup EXCEPT ![i][n] = Completed(@, c)]
  /\ Send(n, <<TaskStatusUpdated(c, "Complete")>>)
  /\ UNCHANGED <<setup, client, kind, registered, stream, api, wire, mapping, in, view, answered>>

\* CancelledResponse: the runner drops the task and reports nothing.
DropCancelled(n, i, c) ==
  /\ sup[i][n].up
  /\ c \in sup[i][n].active
  /\ Agreed(i, c)
  /\ sup' = [sup EXCEPT ![i][n].active = @ \ {c}]
  /\ UNCHANGED <<setup, client, kind, registered, stream, api, wire, mapping, out, in, view, answered>>

\* _check_runner: an error for each task in progress.
Errors(n, i) == SetToSeq({ChunkGenerated(c, "error") : c \in sup[i][n].progress})

\* The process of a runner dies, and its supervisor finds it dead.
Die(n, i) ==
  /\ setup.deaths > 0
  /\ sup[i][n].up
  /\ setup' = [setup EXCEPT !.deaths = @ - 1]
  /\ sup' = [sup EXCEPT ![i][n].up = FALSE]
  /\ Send(n, Errors(n, i))
  /\ UNCHANGED <<client, kind, registered, stream, api, wire, mapping, in, view, answered>>

\* All runners of the instance are down, and come up anew (RunnerLifecycle).
Revive(i) ==
  /\ \A n \in Hosts(i) : ~sup[i][n].up /\ i \in view[n].instances
  /\ sup' = [sup EXCEPT ![i] = [n \in Nodes |-> IF n \in Hosts(i) THEN NewSupervisor ELSE @[n]]]
  /\ answered' = {c \in answered : view[Master].tasks[c].instance # i}
  /\ UNCHANGED <<setup, client, kind, registered, stream, api, wire, mapping, out, in, view>>

-----------------------------------------------------------------------------
ApiStep == ApiApply \/ \E c \in Commands : Register(c) \/ Read(c)

MasterStep == CommandProcessor \/ \E s \in Sources : Index(s) \/ \E i \in Instances : KillInstance(i)

WorkerStep(n) ==
  \/ WorkerApply(n)
  \/ ComeBack(n)
  \/ \E i \in Instances :
       \/ KillRunner(n, i)
       \/ \E c \in Commands :
            CancelTask(n, i, c) \/ StartTask(n, i, c) \/ Finish(n, i, c) \/ DropCancelled(n, i, c)

\* What the system does by itself.
SystemStep ==
  \/ ApiStep
  \/ MasterStep
  \/ \E n \in Nodes : WorkerStep(n)
  \/ \E i \in Placed : Revive(i) \/ \E c \in Commands : Answer(i, c)

\* What its users do, and what goes wrong.
Disturbance ==
  \/ \E c \in Commands : TextRequest(c) \/ ImageRequest(c) \/ CancelCommand(c) \/ Leave(c)
  \/ \E i \in Instances : DeleteInstance(i) \/ \E n \in Nodes : Die(n, i)
  \/ \E n \in Nodes : TimeOut(n)

Next == SystemStep \/ Disturbance

Spec == Init /\ [][Next]_vars

\* The system does not stop while any of its loops has something to do.  No loop
\* can be starved by the others: requests and failures are bounded, and without
\* them there are only finitely many steps to take.
FairSpec == Spec /\ WF_vars(SystemStep)

-----------------------------------------------------------------------------
TaskStatuses == {"Pending", "Running", "Complete", "Cancelled"}

Orders ==
  {Command(k, c) : k \in {"Generate", "TaskCancelled", "TaskFinished"}, c \in Commands}
    \cup {Command("DeleteInstance", i) : i \in Instances}

Events ==
  {TaskCreated(c, i) : c \in Commands, i \in Instances} \cup {TaskDeleted(c) : c \in Commands}
    \cup {TaskStatusUpdated(c, s) : c \in Commands, s \in TaskStatuses}
    \cup {ChunkGenerated(c, x) : c \in Commands, x \in {"final", "error"}}
    \cup {InstanceDeleted(i) : i \in Instances}
    \cup {NodeTimedOut(n) : n \in Nodes} \cup {NodeGatheredInfo(n) : n \in Nodes}

States ==
  [instances : SUBSET Instances, nodes : SUBSET Nodes,
   tasks : [Commands -> [instance : Instances \cup {None}, status : TaskStatuses \cup {None}]]]

Supervisors ==
  [up : BOOLEAN, progress : SUBSET Commands, completed : SUBSET Commands,
   cancelled : SUBSET Commands, active : SUBSET Commands, told : SUBSET Commands]

TypeOK ==
  /\ setup \in Circumstances
  /\ client \in [Commands -> {"new", "sent", "open"} \cup Outcomes]
  /\ kind \in [Commands -> {"text", "image"}]
  /\ registered \in [Commands -> {"open", "closed", None}]
  /\ stream \in [Commands -> Seq({"final", "error", "end"})]
  /\ api \in BOOLEAN
  /\ wire \in Seq(Orders)
  /\ mapping \subseteq Commands
  /\ out \in [Sources -> Seq(Events)]
  /\ in \in [Consumers -> Seq(Events)]
  /\ view \in [Sources \cup Consumers -> States]
  /\ sup \in [Instances -> [Nodes -> Supervisors]]
  /\ answered \subseteq Commands

Settled ==
  /\ wire = <<>>
  /\ \A s \in Sources : out[s] = <<>>
  /\ \A k \in Consumers : in[k] = <<>>

\* Once everything that was sent has arrived, a response that has ended has left no
\* task in any State, in whatever order its cancellation, the reports of its
\* ranks and the end of its instance came (command_task_mapping, TaskFinished, and
\* apply_task_status_updated, which ignores reports that come late).  A client that
\* goes away while its response waits is the exception: its task stays.
EndedLeavesNothing ==
  Settled => \A c \in Commands : \A k \in Sources \cup Consumers :
               client[c] \in Outcomes \ {"left"} => view[k].tasks[c] = NoTask

\* The request has no instance to wait for: it was placed on one that was about
\* to be deleted, or found none.
Stranded(c) ==
  /\ view[Master].instances # Placed
  /\ view[Master].tasks[c].instance \notin view[Master].instances

\* Every request ends, though runners die, clients cancel and go away and ranks
\* begin a task at different times; only the deletion of an instance can leave one
\* that waits for ever, and only one that was placed too late (_pending_tasks,
\* _check_runner, _close_streams_for_instance, _token_chunk_stream).
RequestsEnd ==
  setup.prompt => <>[](\A c \in Commands : client[c] \in {"sent", "open"} => Stranded(c))
=============================================================================
