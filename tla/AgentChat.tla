------------------------------ MODULE AgentChat ------------------------------
(***************************************************************************)
(* The chat server that stands before the cluster: the endpoints of        *)
(* tools/src/exo_tools/agent_server.py that work on sessions, with the     *)
(* job manager, the runner, the store and the resource manager behind them *)
(* (agent_core/jobs.py, runner.py, store.py, resources.py).                *)
(*                                                                         *)
(* Every request has a thread of its own, every session with a streamed    *)
(* turn a worker thread.  Whatever a thread does under one hold of a lock  *)
(* is one step; between two holds anybody else may run.  A request is a    *)
(* turn of a chat or a change of a session; "kind" says which.             *)
(***************************************************************************)
EXTENDS Integers, Sequences, FiniteSets

CONSTANTS
    Session,       \* session ids
    Request,       \* requests, each of which is made once, numbered from 1
    Scripts,       \* what the requests may be: sets of functions to Call
    MaxMessages,   \* AGENTIC_MAX_MESSAGES_PER_SESSION
    MaxInference,  \* AGENTIC_MAX_CONCURRENT_INFERENCE
    MaxRounds,     \* AGENTIC_MAX_TOOL_ROUNDS
    MaxSessions,   \* AGENTIC_MAX_SESSIONS_PER_USER
    MaxParts,      \* bound on the deltas of one answer
    MaxRestarts    \* bound on the restarts of the server

Kind == {"stream", "chat", "rename", "model", "both", "delete", "resize",
         "create", "none"}
Call == [kind : Kind, session : Session]

ASSUME BoundsAssumption ==
    /\ {MaxMessages, MaxInference, MaxSessions, MaxParts} \subseteq Nat \ {0}
    /\ {MaxRounds, MaxRestarts} \subseteq Nat
ASSUME RequestAssumption == Request \subseteq Nat \ {0}
ASSUME ScriptsAssumption == Scripts \subseteq [Request -> Call]

VARIABLES
    script,    \* what the requests are
    record,    \* session.json by session, or NoRecord
    dirs,      \* the sessions that have a directory
    messages,  \* messages.jsonl by session
    pc,        \* where the thread that serves a request is
    copy,      \* the session as update_session has read it
    turn,      \* content_parts and round_index of a streamed turn
    queue,     \* ChatJobManager._queues
    worker,    \* the job a session's worker is at, or None
    pending,   \* ChatJobManager._pending
    events,    \* ChatJob.events
    done,      \* the jobs whose ChatJob.done is set
    reader,    \* what a client has read of a job: [at, state]
    sem,       \* ResourceManager._semaphores: [id, slots] or none
    holds,     \* the semaphore a thread waits for or holds
    slots,     \* compute_slots of resources.json
    restarts

vars == <<script, record, dirs, messages, pc, copy, turn, queue, worker,
          pending, events, done, reader, sem, holds, slots, restarts>>
storeVars == <<record, dirs, messages>>
jobVars == <<queue, worker, pending, events, done, reader>>
slotVars == <<sem, holds, slots>>

None == 0
NoRecord == [title |-> "none", edited |-> FALSE, model |-> FALSE]
NoSemaphore == [id |-> None, slots |-> 0]

Target(r) == script[r].session
KindOf(r) == script[r].kind

\* The text of an answer: how many deltas, and what the runner appended to it.
Text == [parts : 0 .. MaxParts, tail : {"", "error", "limit"}]
Blank == [parts |-> 0, tail |-> ""]
Message == [role : {"user", "assistant", "system"}, turn : Request \cup {None},
            text : Text]

Said(role, r, text) == [role |-> role, turn |-> r, text |-> text]

NewRecord == [title |-> "default", edited |-> FALSE, model |-> FALSE]

Init ==
    /\ script \in Scripts
    /\ dirs = {s \in Session :
                 ~\E r \in Request : script[r] = [kind |-> "create", session |-> s]}
    /\ record = [s \in Session |-> IF s \in dirs THEN NewRecord ELSE NoRecord]
    /\ messages = [s \in Session |-> <<>>]
    /\ pc = [r \in Request |-> "new"]
    /\ copy = [r \in Request |-> NoRecord]
    /\ turn = [r \in Request |-> [text |-> Blank, round |-> 0]]
    /\ queue = [s \in Session |-> <<>>]
    /\ worker = [s \in Session |-> None]
    /\ pending = [s \in Session |-> {}]
    /\ events = [r \in Request |-> <<>>]
    /\ done = {}
    /\ reader = [r \in Request |-> [at |-> 0, state |-> "none"]]
    /\ sem = [s \in Session |-> NoSemaphore]
    /\ holds = [r \in Request |-> NoSemaphore]
    /\ slots = [s \in Session |-> 1]
    /\ restarts = 0

At(r, here) == pc[r] = here
Goto(r, there) == pc' = [pc EXCEPT ![r] = there]

-----------------------------------------------------------------------------
(* The store.                                                              *)

Has(s, role, r) ==
    \E i \in 1 .. Len(messages[s]) :
        messages[s][i].role = role /\ messages[s][i].turn = r

\* compact_session: a notice and the newest messages.
Compact(msgs) ==
    IF Len(msgs) <= MaxMessages THEN msgs
    ELSE LET kept == IF MaxMessages > 1 THEN MaxMessages - 1 ELSE 1
         IN  <<Said("system", None, Blank)>>
                \o SubSeq(msgs, Len(msgs) - kept + 1, Len(msgs))

\* append_message
Appended(msgs, m) == Compact(Append(msgs, m))

\* update_message, of the answer to turn r.
Updated(msgs, r, text) ==
    [i \in 1 .. Len(msgs) |->
        IF msgs[i].role = "assistant" /\ msgs[i].turn = r
        THEN [msgs[i] EXCEPT !.text = text] ELSE msgs[i]]

\* rename_session
Renamed(rec, title) ==
    [rec EXCEPT !.title = title, !.edited = (title = "user")]

\* delete_session: the directory goes with all that is in it.
Deleted(s) ==
    /\ dirs' = dirs \ {s}
    /\ record' = [record EXCEPT ![s] = NoRecord]
    /\ messages' = [messages EXCEPT ![s] = <<>>]

-----------------------------------------------------------------------------
(* Requests.                                                               *)

\* require_session_access, and the wait for disk space of a turn.
Admit(r) ==
    /\ At(r, "new")
    /\ KindOf(r) \notin {"create", "none"}
    /\ Goto(r, IF record[Target(r)] = NoRecord THEN "refused" ELSE "admitted")
    /\ UNCHANGED <<script, copy, turn, restarts, storeVars, jobVars, slotVars>>

\* ResourceManager.get: what it does not find it allocates, directory and all.
Allocated(s) == dirs' = dirs \cup {s}

\* ensure_disk_available, which may find the quota exceeded.
Reserve(r) ==
    /\ At(r, "admitted")
    /\ KindOf(r) \in {"stream", "chat"}
    /\ Allocated(Target(r))
    /\ Goto(r, "reserved") \/ Goto(r, "refused")
    /\ UNCHANGED <<script, record, messages, copy, turn, restarts, jobVars,
                   slotVars>>

\* The message is stored, for a streamed turn with an empty answer.
Store(r) ==
    /\ At(r, "reserved")
    /\ IF record[Target(r)] = NoRecord
       THEN Goto(r, "refused") /\ UNCHANGED messages
       ELSE /\ Goto(r, "stored")
            /\ messages' = [messages EXCEPT ![Target(r)] =
                   LET asked == Appended(@, Said("user", r, Blank))
                   IN  IF KindOf(r) = "chat" THEN asked
                       ELSE Appended(asked, Said("assistant", r, Blank))]
    /\ UNCHANGED <<script, record, dirs, copy, turn, restarts, jobVars, slotVars>>

\* _maybe_auto_title_session up to the call of the title model.
WantTitle(r) ==
    /\ At(r, "stored")
    /\ Goto(r, IF record[Target(r)] # NoRecord /\ ~record[Target(r)].edited
                  /\ record[Target(r)].title = "default"
               THEN "titling" ELSE "ready")
    /\ UNCHANGED <<script, copy, turn, restarts, storeVars, jobVars, slotVars>>

\* The title, or the one made up in its place, is stored.
AutoTitle(r) ==
    /\ At(r, "titling")
    /\ IF record[Target(r)] = NoRecord
       THEN Goto(r, "refused") /\ UNCHANGED record
       ELSE /\ record' = [record EXCEPT ![Target(r)] = Renamed(@, "auto")]
            /\ Goto(r, "ready")
    /\ UNCHANGED <<script, dirs, messages, copy, turn, restarts, jobVars,
                   slotVars>>

\* A mutant: the job is put before it is registered, after a look at the rest.
EnqueueUnregistered(r) ==
    pending' = [pending EXCEPT ![Target(r)] = IF @ = {} THEN {r} ELSE @]

Register(r) == pending' = [pending EXCEPT ![Target(r)] = @ \cup {r}]

\* ChatJobManager.submit, after prepare_chat_turn; the client is given the
\* stream.  The session's worker lives for ever once there is one.
Enqueue(r) ==
    /\ At(r, "ready")
    /\ KindOf(r) = "stream"
    /\ Register(r)
    /\ queue' = [queue EXCEPT ![Target(r)] = Append(@, r)]
    /\ reader' = [reader EXCEPT ![r].state = "reading"]
    /\ Goto(r, "queued")
    /\ UNCHANGED <<script, copy, turn, worker, events, done, restarts,
                   storeVars, slotVars>>

\* update_session and delete_session look for pending answers.
CheckPending(r) ==
    /\ At(r, "admitted")
    /\ KindOf(r) \in {"rename", "model", "both", "delete"}
    /\ Goto(r, IF pending[Target(r)] # {} THEN "refused" ELSE "checked")
    /\ UNCHANGED <<script, copy, turn, restarts, storeVars, jobVars, slotVars>>

\* The rest of delete_session.
Delete(r) ==
    /\ At(r, "checked")
    /\ KindOf(r) = "delete"
    /\ IF Target(r) \in dirs
       THEN Deleted(Target(r)) /\ Goto(r, "over")
       ELSE UNCHANGED storeVars /\ Goto(r, "refused")
    /\ UNCHANGED <<script, copy, turn, restarts, jobVars, slotVars>>

\* update_session reads the session, or renames it and keeps the result.
Update(r) ==
    /\ At(r, "checked")
    /\ KindOf(r) \in {"rename", "model", "both"}
    /\ LET old == record[Target(r)]
           new == IF KindOf(r) = "model" THEN old ELSE Renamed(old, "user")
       IN  IF old = NoRecord
           THEN Goto(r, "refused") /\ UNCHANGED <<record, copy>>
           ELSE /\ record' = [record EXCEPT ![Target(r)] = new]
                /\ copy' = [copy EXCEPT ![r] = new]
                /\ Goto(r, IF KindOf(r) = "rename" THEN "over" ELSE "writing")
    /\ UNCHANGED <<script, dirs, messages, turn, restarts, jobVars, slotVars>>

\* update_session writes what it has read, with the model changed.
WriteModel(r) ==
    /\ At(r, "writing")
    /\ IF Target(r) \in dirs
       THEN /\ record' = [record EXCEPT ![Target(r)] =
                             [copy[r] EXCEPT !.model = TRUE]]
            /\ Goto(r, "over")
       ELSE Goto(r, "refused") /\ UNCHANGED record
    /\ copy' = [copy EXCEPT ![r] = NoRecord]
    /\ UNCHANGED <<script, dirs, messages, turn, restarts, jobVars, slotVars>>

\* update_resources: ResourceManager.allocate drops the semaphore.
Resize(r) ==
    /\ At(r, "admitted")
    /\ KindOf(r) = "resize"
    /\ \E k \in 1 .. 2 : slots' = [slots EXCEPT ![Target(r)] = k]
    /\ Allocated(Target(r))
    /\ sem' = [sem EXCEPT ![Target(r)] = NoSemaphore]
    /\ Goto(r, "over")
    /\ UNCHANGED <<script, record, messages, copy, turn, holds, restarts,
                   jobVars>>

\* create_session counts the user's sessions, and creates one.
Count(r) ==
    /\ At(r, "new")
    /\ KindOf(r) = "create"
    /\ Goto(r, IF Cardinality({s \in Session : record[s] # NoRecord}) >= MaxSessions
               THEN "refused" ELSE "counted")
    /\ UNCHANGED <<script, copy, turn, restarts, storeVars, jobVars, slotVars>>

Create(r) ==
    /\ At(r, "counted")
    /\ record' = [record EXCEPT ![Target(r)] = NewRecord]
    /\ dirs' = dirs \cup {Target(r)}
    /\ Goto(r, "over")
    /\ UNCHANGED <<script, messages, copy, turn, restarts, jobVars, slotVars>>

-----------------------------------------------------------------------------
(* Compute slots.                                                          *)

Users(g) == {q \in Request : holds[q] = g /\ pc[q] \in {"streaming", "asking"}}

\* compute_slot: the semaphore of the session, a new one if there is none or
\* its size is not the allocation's.  For a session that was deleted the
\* directory is made again.
FindSlot(r) ==
    /\ At(r, "begun")
    /\ LET s == Target(r)
           fresh == [id |-> r, slots |-> slots[s]]
           g == IF sem[s] = NoSemaphore \/ sem[s].slots # slots[s] THEN fresh ELSE sem[s]
       IN  /\ sem' = [sem EXCEPT ![s] = g]
           /\ holds' = [holds EXCEPT ![r] = g]
           /\ Allocated(s)
    /\ Goto(r, "waiting")
    /\ UNCHANGED <<script, record, messages, copy, turn, slots, restarts,
                   jobVars>>

TakeSlot(r) ==
    /\ At(r, "waiting")
    /\ Cardinality(Users(holds[r])) < holds[r].slots
    /\ Goto(r, IF KindOf(r) = "chat" THEN "asking" ELSE "streaming")
    /\ UNCHANGED <<script, copy, turn, restarts, storeVars, jobVars, slotVars>>

Release(r) == holds' = [holds EXCEPT ![r] = NoSemaphore]

-----------------------------------------------------------------------------
(* A turn that is not streamed.                                            *)

\* AgentRunner.chat reads its context: any history will do.
ChatContext(r) ==
    /\ At(r, "ready")
    /\ KindOf(r) = "chat"
    /\ Goto(r, "begun")
    /\ Allocated(Target(r))
    /\ UNCHANGED <<script, record, messages, copy, turn, restarts, jobVars,
                   slotVars>>

\* The model answers or fails, or there is no slot in thirty seconds.
ChatEnds(r) ==
    /\ KindOf(r) = "chat"
    /\ \/ At(r, "asking") /\ (Goto(r, "answered") \/ Goto(r, "refused"))
       \/ /\ At(r, "waiting")
          /\ Cardinality(Users(holds[r])) >= holds[r].slots
          /\ Goto(r, "refused")
    /\ Release(r)
    /\ UNCHANGED <<script, copy, turn, sem, slots, restarts, storeVars, jobVars>>

\* The answer is stored.
ChatAnswer(r) ==
    /\ At(r, "answered")
    /\ IF record[Target(r)] = NoRecord
       THEN Goto(r, "refused") /\ UNCHANGED messages
       ELSE /\ messages' = [messages EXCEPT ![Target(r)] =
                   Appended(@, Said("assistant", r, [Blank EXCEPT !.parts = 1]))]
            /\ Goto(r, "over")
    /\ UNCHANGED <<script, record, dirs, copy, turn, restarts, jobVars, slotVars>>

-----------------------------------------------------------------------------
(* A streamed turn, in the session's worker.                               *)

Inferring ==
    {r \in Request : KindOf(r) = "stream"
        /\ pc[r] \in {"begun", "waiting", "streaming", "failing", "closing"}}

Publish(r, what) == events' = [events EXCEPT ![r] = @ \o what]

\* _work_session takes the next job.
Take(s) ==
    /\ worker[s] = None
    /\ queue[s] # <<>>
    /\ worker' = [worker EXCEPT ![s] = Head(queue[s])]
    /\ queue' = [queue EXCEPT ![s] = Tail(@)]
    /\ Goto(Head(queue[s]), "taken")
    /\ UNCHANGED <<script, copy, turn, pending, events, done, reader, restarts,
                   storeVars, slotVars>>

\* The inference semaphore is free: stream_prepared_turn looks up the session
\* and the messages up to the turn's own, before its try block.
Begin(r) ==
    /\ At(r, "taken")
    /\ Cardinality(Inferring) < MaxInference
    /\ IF record[Target(r)] # NoRecord /\ Has(Target(r), "user", r)
       THEN Goto(r, "begun") /\ UNCHANGED events
       ELSE Goto(r, "left") /\ Publish(r, <<"error">>)
    /\ UNCHANGED <<script, copy, turn, queue, worker, pending, done, reader,
                   restarts, storeVars, slotVars>>

\* A delta of the answer.
Delta(r) ==
    /\ At(r, "streaming")
    /\ KindOf(r) = "stream"
    /\ turn[r].text.parts < MaxParts
    /\ turn' = [turn EXCEPT ![r].text.parts = @ + 1]
    /\ Publish(r, <<"content">>)
    /\ UNCHANGED <<script, pc, copy, queue, worker, pending, done, reader,
                   restarts, storeVars, slotVars>>

Keep(r, text) ==
    messages' = [messages EXCEPT ![Target(r)] = Updated(@, r, text)]

\* persist(), a quarter of a second after the last one.
Persist(r) ==
    /\ At(r, "streaming")
    /\ IF Has(Target(r), "assistant", r)
       THEN Keep(r, turn[r].text) /\ UNCHANGED <<pc, turn, holds>>
       ELSE /\ UNCHANGED messages
            /\ Goto(r, "failing")
            /\ Release(r)
            /\ turn' = [turn EXCEPT ![r].text.tail =
                           IF turn[r].text = Blank THEN "error" ELSE @]
    /\ UNCHANGED <<script, record, dirs, copy, sem, slots, restarts, jobVars>>

\* The model calls a tool, and goes on with its result.
ToolRound(r) ==
    /\ At(r, "streaming")
    /\ turn[r].round < MaxRounds
    /\ turn' = [turn EXCEPT ![r].round = @ + 1]
    /\ Publish(r, <<"tool">>)
    /\ UNCHANGED <<script, pc, copy, queue, worker, pending, done, reader,
                   restarts, storeVars, slotVars>>

\* The model has answered, or calls a tool once too often.
Answered(r) ==
    /\ At(r, "streaming")
    /\ \/ UNCHANGED turn
       \/ /\ turn[r].round = MaxRounds
          /\ turn' = [turn EXCEPT ![r].text.tail = "limit"]
    /\ Goto(r, "closing")
    /\ Release(r)
    /\ UNCHANGED <<script, copy, sem, slots, restarts, storeVars, jobVars>>

\* The model fails, or there is no slot in thirty seconds.
Fails(r) ==
    /\ \/ At(r, "streaming")
       \/ At(r, "waiting") /\ Cardinality(Users(holds[r])) >= holds[r].slots
    /\ KindOf(r) = "stream"
    /\ turn' = [turn EXCEPT ![r].text.tail =
                   IF turn[r].text = Blank THEN "error" ELSE @]
    /\ Goto(r, "failing")
    /\ Release(r)
    /\ UNCHANGED <<script, copy, sem, slots, restarts, storeVars, jobVars>>

\* The except clause; what it raises itself goes to the finally clause.
Failing(r) ==
    /\ At(r, "failing")
    /\ IF Has(Target(r), "assistant", r)
       THEN Keep(r, turn[r].text) /\ Publish(r, <<"error">>)
       ELSE UNCHANGED <<messages, events>>
    /\ Goto(r, "closing")
    /\ UNCHANGED <<script, record, dirs, copy, turn, queue, worker, pending, done,
                   reader, restarts, slotVars>>

\* A mutant: what came since the last interval is not stored.
KeepNothing(r) == UNCHANGED messages

KeepAll(r) == Keep(r, turn[r].text)

\* The finally clause; what it raises the worker publishes.
Closing(r) ==
    /\ At(r, "closing")
    /\ IF Has(Target(r), "assistant", r)
       THEN KeepAll(r) /\ UNCHANGED events
       ELSE UNCHANGED messages /\ Publish(r, <<"error">>)
    /\ Goto(r, "left")
    /\ UNCHANGED <<script, record, dirs, copy, turn, queue, worker, pending, done,
                   reader, restarts, slotVars>>

\* ChatJob.finish
Finish(r) ==
    /\ At(r, "left")
    /\ done' = done \cup {r}
    /\ Goto(r, "finished")
    /\ UNCHANGED <<script, copy, turn, queue, worker, pending, events, reader,
                   restarts, storeVars, slotVars>>

\* The job is no longer pending, and the worker turns to the next.
Settle(r) ==
    /\ At(r, "finished")
    /\ pending' = [pending EXCEPT ![Target(r)] = @ \ {r}]
    /\ worker' = [worker EXCEPT ![Target(r)] = None]
    /\ Goto(r, "over")
    /\ UNCHANGED <<script, copy, turn, queue, events, done, reader, restarts,
                   storeVars, slotVars>>

-----------------------------------------------------------------------------
(* Clients, and the server as a whole.                                     *)

Seen(r) == Len(events[r])

\* A mutant: only an event wakes a reader.
AwakeOnEvents(r) == reader[r].at < Len(events[r])

\* Events that wait, or the end, wake a reader.
Awake(r) == (reader[r].at = 0 /\ events[r] # <<>>) \/ r \in done

\* ChatJob.stream: everything there is, and the end when the job is done.  The
\* reads after the first and before the last make no difference and are left
\* out, and so is a client that goes away, which the job does not notice.
Read(r) ==
    /\ reader[r].state = "reading"
    /\ Awake(r)
    /\ reader' = [reader EXCEPT ![r] =
           [at |-> Seen(r), state |-> IF r \in done THEN "ended" ELSE "reading"]]
    /\ UNCHANGED <<script, pc, copy, turn, queue, worker, pending, events, done,
                   restarts, storeVars, slotVars>>

\* The server ends and is started again: only the store remains.
Restart ==
    /\ restarts < MaxRestarts
    /\ restarts' = restarts + 1
    /\ pc' = [r \in Request |->
                 IF pc[r] \in {"new", "over", "refused"} THEN pc[r] ELSE "lost"]
    /\ queue' = [s \in Session |-> <<>>]
    /\ worker' = [s \in Session |-> None]
    /\ pending' = [s \in Session |-> {}]
    /\ events' = [r \in Request |-> <<>>]
    /\ done' = {}
    /\ turn' = [r \in Request |-> [text |-> Blank, round |-> 0]]
    /\ reader' = [r \in Request |-> [at |-> 0, state |-> "gone"]]
    /\ sem' = [s \in Session |-> NoSemaphore]
    /\ holds' = [r \in Request |-> NoSemaphore]
    /\ copy' = [r \in Request |-> NoRecord]
    /\ UNCHANGED <<script, slots, storeVars>>

\* What the thread of a request does next.
Handle(r) ==
    \/ Admit(r) \/ Reserve(r) \/ Store(r) \/ WantTitle(r) \/ AutoTitle(r)
    \/ Enqueue(r) \/ CheckPending(r) \/ Delete(r) \/ Update(r) \/ WriteModel(r)
    \/ Resize(r) \/ Count(r) \/ Create(r)
    \/ FindSlot(r) \/ TakeSlot(r)
    \/ ChatContext(r) \/ ChatEnds(r) \/ ChatAnswer(r)

\* What a session's worker does next with a job.
Work(r) ==
    \/ Begin(r) \/ Delta(r) \/ Persist(r) \/ ToolRound(r) \/ Answered(r)
    \/ Fails(r) \/ Failing(r) \/ Closing(r) \/ Finish(r) \/ Settle(r)

Next ==
    \/ \E r \in Request : Handle(r) \/ Work(r) \/ Read(r)
    \/ \E s \in Session : Take(s)
    \/ Restart

Spec == Init /\ [][Next]_vars

(***************************************************************************)
(* Threads run, and a call of a model ends: urlopen has a timeout and what *)
(* a model says is bounded.                                                *)
(***************************************************************************)
FairSpec ==
    /\ Spec
    /\ \A r \in Request : WF_vars(Handle(r) \/ Work(r)) /\ WF_vars(Read(r))
    /\ \A s \in Session : WF_vars(Take(s))

-----------------------------------------------------------------------------
(* Properties.                                                             *)

\* Where a request's thread, or the worker that serves it, may be.
Places ==
    {"new", "admitted", "reserved", "stored", "titling", "ready", "checked",
     "writing", "counted", "queued", "taken", "begun", "waiting", "streaming",
     "failing", "closing", "left", "finished", "asking", "answered", "over",
     "refused", "lost"}

Record == [title : {"none", "default", "user", "auto"}, edited : BOOLEAN,
           model : BOOLEAN]

Semaphore == [id : Request \cup {None}, slots : Nat]

Event == {"content", "tool", "error"}

TypeOK ==
    /\ script \in [Request -> Call]
    /\ record \in [Session -> Record] /\ copy \in [Request -> Record]
    /\ dirs \subseteq Session
    /\ messages \in [Session -> Seq(Message)]
    /\ pc \in [Request -> Places]
    /\ turn \in [Request -> [text : Text, round : 0 .. MaxRounds]]
    /\ queue \in [Session -> Seq(Request)]
    /\ worker \in [Session -> Request \cup {None}]
    /\ pending \in [Session -> SUBSET Request]
    /\ events \in [Request -> Seq(Event)]
    /\ done \subseteq Request
    /\ reader \in [Request ->
                     [at : Nat, state : {"none", "reading", "ended", "gone"}]]
    /\ sem \in [Session -> Semaphore] /\ holds \in [Request -> Semaphore]
    /\ slots \in [Session -> Nat]
    /\ restarts \in 0 .. MaxRestarts

\* The jobs a session's worker has still to do, or is at.
Jobs(s) == {queue[s][i] : i \in 1 .. Len(queue[s])} \cup ({worker[s]} \ {None})

\* What pending_message_ids reports is what the session's worker will still
\* answer, whatever is submitted, deleted or renamed meanwhile: no message is
\* shown as being answered for ever, none that is being answered is not.
PendingIsWork ==
    \A s \in Session :
        /\ pending[s] = Jobs(s)
        /\ \A r \in Request :
              reader[r].state = "reading" /\ r \notin done => r \in pending[Target(r)]

Answer(r) ==
    CHOOSE m \in {messages[Target(r)][i] : i \in 1 .. Len(messages[Target(r)])} :
        m.role = "assistant" /\ m.turn = r

Told(r, what) ==
    Cardinality({i \in 1 .. reader[r].at : events[r][i] = what})

\* A client that has read its stream to the end has the answer the store has,
\* every delta of it, and was told of an error that is stored in its place.
ReadAsStored ==
    \A r \in Request :
        reader[r].state = "ended" /\ Has(Target(r), "assistant", r) =>
            /\ Answer(r).text.parts = Told(r, "content")
            /\ Answer(r).text.tail = "error" => Told(r, "error") > 0

\* The requests of a script come to an end: every stream ends for its client,
\* and no session is left with an answer pending, so it can be changed and
\* deleted again.
StreamsEnd ==
    <>[](/\ \A r \in Request : reader[r].state # "reading"
         /\ \A s \in Session : pending[s] = {})

=============================================================================
