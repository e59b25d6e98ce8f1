---------------------------- MODULE ChildProcess ----------------------------
(***************************************************************************)
(* The process of a runner: AsyncProcess (utils/async_process.py), which   *)
(* starts a child, passes on what it writes to stdout and stderr, and does *)
(* not end before the child has; and the channel by which the child sends  *)
(* its events (MpSender and MpReceiver, utils/channels.py), a queue of     *)
(* multiprocessing with one flag that either side sets when it closes.     *)
(*                                                                         *)
(* An item of the queue is first in the memory of the child, and a thread  *)
(* writes it to the pipe; a child that ends of itself waits for that       *)
(* thread, one that is killed does not.                                    *)
(***************************************************************************)
EXTENDS Integers, Sequences

CONSTANTS
  Attempts,   \* _TERMINATE_ATTEMPTS
  MaxOutput,  \* bound on what the child writes to a stream
  MaxEvents   \* bound on the events it sends

Streams == {"stdout", "stderr"}

VARIABLES
  run,        \* where AsyncProcess.run is, at which attempt, whether it was cancelled
  child,      \* none, alive, exited, or killed
  held,       \* some process that the child started keeps its pipes open
  exitcode,   \* whether it is known
  text,       \* of each stream: written, passed on, and what its drain does
  events,     \* of the channel: sent, in memory, in the pipe, received
  closed,     \* the flag of the channel
  receiver    \* looks, blocked in get(), or how it has ended

yvars == <<run, child, held, exitcode, text, events, closed, receiver>>

ChildAssumption == Attempts \in Nat \ {0} /\ MaxOutput \in Nat /\ MaxEvents \in Nat

EndOfStream == "end of stream"

Goes(at) == run' = [run EXCEPT !.at = at]

YInit ==
  /\ run = [at |-> "new", attempt |-> 0, cancelled |-> FALSE]
  /\ child = "none" /\ held \in BOOLEAN
  /\ exitcode = FALSE
  /\ text = [s \in Streams |-> [written |-> 0, passed |-> 0, drain |-> "off"]]
  /\ events = [sent |-> 0, memory |-> <<>>, pipe |-> <<>>, received |-> 0]
  /\ closed = FALSE
  /\ receiver = "looks"

-----------------------------------------------------------------------------
(* AsyncProcess *)

Start ==
  /\ run.at = "new"
  /\ child' = "alive"
  /\ Goes("waits")
  /\ text' = [s \in Streams |-> [text[s] EXCEPT !.drain = "on"]]
  /\ UNCHANGED <<held, exitcode, events, closed, receiver>>

\* No pipe or no process can be made: waiters are told, and there is nothing to end.
StartFails ==
  /\ run.at = "new"
  /\ Goes("closes")
  /\ UNCHANGED <<child, held, exitcode, text, events, closed, receiver>>

\* stop, or the cancellation of the task that runs it
Stop ==
  /\ run.at \notin {"new", "done"} /\ ~run.cancelled
  /\ run' = [run EXCEPT !.cancelled = TRUE]
  /\ UNCHANGED <<child, held, exitcode, text, events, closed, receiver>>

\* wait sees that the child has ended; the drains have to end too.
WaitReturns ==
  /\ run.at = "waits" /\ child \in {"exited", "killed"}
  /\ exitcode' = TRUE
  /\ Goes("drains")
  /\ UNCHANGED <<child, held, text, events, closed, receiver>>

DrainsDone ==
  /\ run.at = "drains"
  /\ \A s \in Streams : text[s].drain = "closed"
  /\ Goes("closes")
  /\ UNCHANGED <<child, held, exitcode, text, events, closed, receiver>>

\* The cancellation ends the drains, whatever is left in the pipes; then
\* _terminate_if_still_alive looks for the child, and gives it three seconds.
Cancelled ==
  /\ run.cancelled /\ run.at \in {"waits", "drains"}
  /\ text' = [s \in Streams |-> [text[s] EXCEPT !.drain = "closed"]]
  /\ exitcode' = (child # "alive")
  /\ Goes(IF child = "alive" THEN "joins" ELSE "closes")
  /\ UNCHANGED <<child, held, events, closed, receiver>>

\* The exit code is asked for, and then whether the child is alive: a child that ends
\* between the two leaves the code unknown.
SeesTheEnd ==
  /\ run.at \in {"joins", "terminates", "kills"}
  /\ child # "alive"
  /\ exitcode' \in BOOLEAN
  /\ Goes("closes")
  /\ UNCHANGED <<child, held, text, events, closed, receiver>>

AfterAttempt(attempt) == IF attempt < Attempts THEN "terminates" ELSE "kills"

\* The grace is over: SIGTERM, which the child may ignore, and after so many attempts SIGKILL.
TimesOut ==
  /\ run.at \in {"joins", "terminates", "kills"} /\ child = "alive"
  /\ IF run.at = "kills" THEN UNCHANGED run
     ELSE run' = [run EXCEPT !.at = AfterAttempt(run.attempt), !.attempt = @ + 1]
  /\ child' \in {"alive", "killed"}
  /\ UNCHANGED <<held, exitcode, text, events, closed, receiver>>

\* The finally of run: the streams are closed, and everyone who waits is told.
Close ==
  /\ run.at = "closes"
  /\ text' = [s \in Streams |-> [text[s] EXCEPT !.drain = "closed"]]
  /\ Goes("done")
  /\ UNCHANGED <<child, held, exitcode, events, closed, receiver>>

\* _drain_fd: a chunk, or the end of the pipe once nobody can write to it any more.
Drain(s) ==
  /\ text[s].drain = "on"
  /\ IF text[s].passed < text[s].written
     THEN text' = [text EXCEPT ![s].passed = @ + 1]
     ELSE /\ child # "alive" /\ ~held
          /\ text' = [text EXCEPT ![s].drain = "closed"]
  /\ UNCHANGED <<run, child, held, exitcode, events, closed, receiver>>

-----------------------------------------------------------------------------
(* The child. *)

Writes(s) ==
  /\ child = "alive" /\ text[s].written < MaxOutput
  /\ text' = [text EXCEPT ![s].written = @ + 1]
  /\ UNCHANGED <<run, child, held, exitcode, events, closed, receiver>>

\* MpSender.send, refused once the channel is closed
SendEvent ==
  /\ child = "alive" /\ ~closed /\ events.sent < MaxEvents
  /\ events' = [events EXCEPT !.sent = @ + 1, !.memory = Append(@, "event")]
  /\ UNCHANGED <<run, child, held, exitcode, text, closed, receiver>>

\* The thread of the queue.
Feed ==
  /\ child = "alive" /\ events.memory # <<>>
  /\ events' = [events EXCEPT !.memory = Tail(@), !.pipe = Append(@, Head(events.memory))]
  /\ UNCHANGED <<run, child, held, exitcode, text, closed, receiver>>

\* The finally of entrypoint: close, and join, which writes out what is left.
Exits ==
  /\ child = "alive"
  /\ child' = "exited"
  /\ closed' = TRUE
  /\ events' = [events EXCEPT !.memory = <<>>, !.pipe = @ \o events.memory \o <<EndOfStream>>]
  /\ UNCHANGED <<run, held, exitcode, text, receiver>>

Crashes ==
  /\ child = "alive"
  /\ child' = "killed"
  /\ UNCHANGED <<run, held, exitcode, text, events, closed, receiver>>

\* The process that held the pipes ends.
Releases ==
  /\ held
  /\ held' = FALSE
  /\ UNCHANGED <<run, child, exitcode, text, events, closed, receiver>>

-----------------------------------------------------------------------------
(* MpReceiver *)

Got ==
  /\ events' = [events EXCEPT !.pipe = Tail(@), !.received = @ + (IF Head(events.pipe) = EndOfStream THEN 0 ELSE 1)]
  /\ receiver' = IF Head(events.pipe) = EndOfStream THEN "ended" ELSE "looks"
  /\ closed' = (closed \/ Head(events.pipe) = EndOfStream)

\* receive: a receiver that looks finds the flag first, and what is in the pipe is lost.
Receive ==
  /\ \/ receiver = "looks" /\ closed /\ receiver' = "closed" /\ UNCHANGED <<events, closed>>
     \/ receiver = "looks" /\ ~closed /\ events.pipe = <<>> /\ receiver' = "blocked" /\ UNCHANGED <<events, closed>>
     \/ /\ events.pipe # <<>>
        /\ receiver = "blocked" \/ (receiver = "looks" /\ ~closed)
        /\ Got
  /\ UNCHANGED <<run, child, held, exitcode, text>>

\* The supervisor goes, and closes its side.
ReceiverCloses ==
  /\ receiver \in {"looks", "blocked"}
  /\ receiver' = "closed"
  /\ closed' = TRUE
  /\ UNCHANGED <<run, child, held, exitcode, text, events>>

YNext ==
  \/ Start \/ StartFails \/ Stop \/ WaitReturns \/ DrainsDone \/ Cancelled \/ SeesTheEnd \/ TimesOut
  \/ Close \/ SendEvent \/ Feed \/ Exits \/ Crashes \/ Releases \/ Receive \/ ReceiverCloses
  \/ \E s \in Streams : Drain(s) \/ Writes(s)

YSpec == YInit /\ [][YNext]_yvars

-----------------------------------------------------------------------------
Run ==
  [at : {"new", "waits", "drains", "joins", "terminates", "kills", "closes", "done"},
   attempt : Nat, cancelled : BOOLEAN]

Text == [written : Nat, passed : Nat, drain : {"off", "on", "closed"}]

Channel ==
  [sent : Nat, memory : Seq({"event"}), pipe : Seq({"event", EndOfStream}), received : Nat]

\* The type of every variable.
ChildTypeOK ==
  /\ run \in Run
  /\ child \in {"none", "alive", "exited", "killed"}
  /\ held \in BOOLEAN /\ exitcode \in BOOLEAN /\ closed \in BOOLEAN
  /\ text \in [Streams -> Text]
  /\ events \in Channel
  /\ receiver \in {"looks", "blocked", "ended", "closed"}

\* run ends only when the child has ended, its streams with it; without a stop all that
\* the child wrote has been passed on, and its exit code is known.
ChildIsGone ==
  run.at = "done" =>
    /\ child # "alive"
    /\ \A s \in Streams : text[s].drain = "closed"
    /\ child # "none" /\ ~run.cancelled =>
         exitcode /\ \A s \in Streams : text[s].passed = text[s].written

\* Who waits for an event gets one, or the end of the channel, unless the child was killed;
\* and who is told of the end has had every event.
ReceiverIsTold ==
  /\ receiver = "blocked" /\ child = "exited" => events.pipe # <<>>
  /\ receiver = "ended" => events.received = events.sent
=============================================================================
