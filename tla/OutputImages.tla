---------------------------- MODULE OutputImages ----------------------------
(***************************************************************************)
(* Pictures on their way from the image engine to the clients:             *)
(* ImageEngine and generate_image (worker/engines/image) make a request's  *)
(* pictures one after the other, previews first, and cut each into chunks; *)
(* the API (api/main.py) collects the chunks of a request into pictures,   *)
(* for a stream of previews and pictures or for one response, and keeps    *)
(* those it hands out as URLs for an hour (master/image_store.py).         *)
(*                                                                         *)
(* The engine is the one of the primary output node: the others yield      *)
(* nothing.  Chunks come through the log in their order.  How a request    *)
(* becomes a task and a cancellation reaches the runner is the business    *)
(* of Requests; here a task is at once in the engine's queue.              *)
(***************************************************************************)
EXTENDS Integers, Sequences, FiniteSets, TLC

CONSTANTS
  Commands,   \* the requests
  Setups      \* what they may ask for, see SetupOK

VARIABLES
  setup,      \* the circumstances of this behaviour
  client,     \* new, sent, open, or how the response ended
  queue, gen, \* of the engine: its queue and current_gen
  cancels,    \* the commands that are cancelled, and those the engine has heard of
  log,        \* the chunks that the API has yet to apply
  channel,    \* of each command: in _image_generation_queues, open, what waits in it
  closing,    \* the commands that cancel_command is about to close
  gathered,   \* image_chunks and image_total_chunks
  out,        \* what the client was sent
  store,      \* the pictures that can be fetched
  api         \* whether the API runs

ovars ==
  <<setup, client, queue, gen, cancels, log, channel, closing, gathered, out, store, api>>

\* No generation is under way.
NoGen == [state |-> "none"]

(* ask[c]: images: n; partials: partial_images; steps: of a generation; stream:   *)
(* the pictures are sent as they come; url: response_format; parts[p]: the chunks *)
(* of preview p, and parts[0]: of a picture.  fails: a generation may raise;      *)
(* prompt: a response makes its queue before its first chunk comes; stops: what   *)
(* ends a response early.                                                         *)
SetupOK(s) ==
  /\ DOMAIN s.ask = Commands
  /\ s.fails \in BOOLEAN /\ s.prompt \in BOOLEAN
  /\ s.stops \subseteq {"cancel", "leave", "delete"}
  /\ \A c \in Commands :
       LET a == s.ask[c]
       IN  a.images > 0 /\ a.partials >= 0 /\ a.steps > 0 /\ \A p \in DOMAIN a.parts : a.parts[p] > 0

OutputAssumption == \A s \in Setups : SetupOK(s)

Ask(c) == setup.ask[c]

-----------------------------------------------------------------------------
(* The engine. *)

\* _calculate_capture_steps: after the second step, and then evenly up to the last.
CaptureSteps(partials, init, steps) ==
  LET total == steps - init
      first == init + 1
      range == steps - 1 - first
  IN  IF partials <= 0 \/ total <= 1 THEN {}
      ELSE IF partials >= total - 1 THEN init .. steps - 2
      ELSE {first + ((i * range) \div partials) : i \in 0 .. partials - 1}

\* Previews are made for streams only.
Wanted(a) == IF a.stream THEN a.partials ELSE 0

Previews(c) == Cardinality(CaptureSteps(Wanted(Ask(c)), 0, Ask(c).steps))

\* The results of a generation: the previews, and 0, the picture itself.
After(c, result) ==
  IF result < Previews(c) THEN result + 1 ELSE 0

FirstResult(c) == IF Previews(c) = 0 THEN 0 ELSE 1

Begin(c) == [of |-> c, image |-> 0, result |-> FirstResult(c), part |-> 0, state |-> "runs"]

\* _process_image_response; data stands for the bytes that the chunk carries.
ImageChunk(g) ==
  [of |-> g.of, image |-> g.image, partial |-> g.result # 0, number |-> g.result,
   index |-> g.part, total |-> Ask(g.of).parts[g.result], error |-> FALSE,
   data |-> <<g.image, g.result, g.part>>]

Advanced(g) ==
  IF g.part + 1 < Ask(g.of).parts[g.result] THEN [g EXCEPT !.part = @ + 1]
  ELSE IF g.result # 0 THEN [g EXCEPT !.part = 0, !.result = After(g.of, @)]
  ELSE [g EXCEPT !.part = 0, !.result = FirstResult(g.of), !.image = @ + 1]

\* generate_image asks for a result when the chunks of the last are out; a cancelled
\* generation gives none any more, and neither do those of the images that are left.
AllMade(g) ==
  \/ g.image = Ask(g.of).images
  \/ g.part = 0 /\ g.of \in cancels.heard

Current == IF gen = NoGen THEN Begin(Head(queue)) ELSE gen

\* ImageEngine.step: the next response of the generator, or the first of the next task's.
Yield(g) ==
  /\ g.state = "runs" /\ ~AllMade(g)
  /\ log' = Append(log, ImageChunk(g))
  /\ gen' = Advanced(g)

Finished(g) ==
  /\ \/ g.state = "runs" /\ AllMade(g) /\ gen' = NoGen
     \/ g.state = "raises" /\ gen' = [g EXCEPT !.state = "dead"]
  /\ UNCHANGED log

\* An exception is reported, then the end of the task, and then it ends the runner.
Raise(g) ==
  /\ setup.fails
  /\ g.state = "runs" /\ ~AllMade(g) /\ g.part = 0
  /\ log' = Append(log, [of |-> g.of, error |-> TRUE])
  /\ gen' = [g EXCEPT !.state = "raises"]

Step ==
  /\ gen # NoGen \/ queue # <<>>
  /\ LET g == Current IN Yield(g) \/ Finished(g) \/ Raise(g)
  /\ queue' = IF gen = NoGen THEN Tail(queue) ELSE queue
  /\ UNCHANGED <<setup, client, cancels, channel, closing, gathered, out, store, api>>

\* cancel_checker takes in what the runner was told.
CancelTask(c) ==
  /\ c \in cancels.sent \ cancels.heard
  /\ cancels' = [cancels EXCEPT !.heard = @ \cup {c}]
  /\ UNCHANGED <<setup, client, queue, gen, log, channel, closing, gathered, out, store, api>>

-----------------------------------------------------------------------------
(* The API. *)

NoChannel == [registered |-> FALSE, open |-> FALSE, waiting |-> <<>>]

OInit ==
  /\ setup \in Setups
  /\ client = [c \in Commands |-> "new"]
  /\ queue = <<>> /\ gen = NoGen
  /\ cancels = [sent |-> {}, heard |-> {}]
  /\ log = <<>>
  /\ channel = [c \in Commands |-> NoChannel]
  /\ closing = {}
  /\ gathered = [c \in Commands |-> <<>>]
  /\ out = [c \in Commands |-> <<>>]
  /\ store = {}
  /\ api = TRUE

\* image_generations and image_edits
ImageGeneration(c) ==
  /\ api /\ client[c] = "new"
  /\ client' = [client EXCEPT ![c] = "sent"]
  /\ queue' = Append(queue, c)
  /\ UNCHANGED <<setup, gen, cancels, log, channel, closing, gathered, out, store, api>>

\* The response starts to iterate, and only now makes its queue.
Register(c) ==
  /\ api /\ client[c] = "sent"
  /\ client' = [client EXCEPT ![c] = "open"]
  /\ channel' = [channel EXCEPT ![c] = [registered |-> TRUE, open |-> TRUE, waiting |-> <<>>]]
  /\ UNCHANGED <<setup, queue, gen, cancels, log, closing, gathered, out, store, api>>

\* _apply_state, which asserts that an image's queue gets an ImageChunk; when it stops,
\* so does the API, which closes its queues.
ApplyState ==
  /\ api /\ log # <<>>
  /\ log' = Tail(log)
  /\ LET e == Head(log)
         q == channel[e.of]
     IN  /\ setup.prompt => client[e.of] # "sent"
         /\ \/ /\ q.registered /\ e.error
               /\ api' = FALSE
               /\ channel' = [c \in Commands |-> [channel[c] EXCEPT !.open = FALSE]]
            \/ /\ q.registered /\ ~e.error
               /\ channel' = [channel EXCEPT ![e.of] =
                    IF @.open THEN [@ EXCEPT !.waiting = Append(@, e)]
                    ELSE [@ EXCEPT !.registered = FALSE]]
               /\ UNCHANGED api
            \/ ~q.registered /\ UNCHANGED <<channel, api>>
  /\ UNCHANGED <<setup, client, queue, gen, cancels, closing, gathered, out, store>>

\* The chunks of a picture are kept under its key, which a stream's previews share.
Key(e) == <<e.image, e.partial>>

With(g, e) ==
  LET k == Key(e)
  IN  IF k \in DOMAIN g
      THEN [g EXCEPT ![k].chunks = (e.index :> e.data) @@ @]
      ELSE (k :> [total |-> e.total, chunks |-> e.index :> e.data]) @@ g

Complete(p) == Cardinality(DOMAIN p.chunks) = p.total

Joined(p) == [i \in 1 .. Cardinality(DOMAIN p.chunks) |-> p.chunks[i - 1]]

\* A mutant: the chunks of a picture stay when it is complete.
Kept(g, k) == g

\* Of a stream: what is complete is forgotten.
Cleaned(g, k) == [j \in DOMAIN g \ {k} |-> g[j]]

\* ImageStore.store gives a picture an id of its own.
Url(c, image) == [url |-> <<c, image>>, b64 |-> <<>>]

Stored(c, image, data) == store \cup {[id |-> <<c, image>>, bytes |-> data]}

Inline(data) == [url |-> <<>>, b64 |-> data]

Finals(s) == {i \in DOMAIN s : s[i].type = "final"}

Ended(c, how) ==
  /\ client' = [client EXCEPT ![c] = how]
  /\ channel' = [channel EXCEPT ![c].registered = FALSE]

\* _generate_image_stream, one chunk
StreamChunk(c, e) ==
  LET g == With(gathered[c], e)
      p == g[Key(e)]
      data == IF ~Ask(c).url THEN Inline(Joined(p))
              ELSE IF e.partial THEN Inline(<<>>) ELSE Url(c, e.image)
      event == [type |-> IF e.partial THEN "partial" ELSE "final",
                image |-> e.image, number |-> e.number, data |-> data]
      sent == Append(out[c], event)
      all == Cardinality(Finals(sent)) >= Ask(c).images
  IN  IF ~Complete(p)
      THEN /\ gathered' = [gathered EXCEPT ![c] = g]
           /\ channel' = [channel EXCEPT ![c].waiting = Tail(@)]
           /\ UNCHANGED <<client, out, store>>
      ELSE /\ out' = [out EXCEPT ![c] = IF all THEN Append(sent, [type |-> "done"]) ELSE sent]
           /\ gathered' = [gathered EXCEPT ![c] = IF all THEN g ELSE Cleaned(g, Key(e))]
           /\ store' = IF Ask(c).url /\ ~e.partial THEN Stored(c, e.image, Joined(p)) ELSE store
           /\ IF all THEN Ended(c, "done")
              ELSE channel' = [channel EXCEPT ![c].waiting = Tail(@)] /\ UNCHANGED client

\* _collect_image_chunks, one chunk: previews are passed over, and the response is made
\* of the pictures in the order of their numbers.
CollectChunk(c, e) ==
  LET g == IF e.partial THEN gathered[c] ELSE With(gathered[c], e)
      all == Cardinality({k \in DOMAIN g : Complete(g[k])}) >= Ask(c).images
      picture(i) == Joined(g[<<i - 1, FALSE>>])
      image(i) == IF Ask(c).url THEN Url(c, i - 1) ELSE Inline(picture(i))
  IN  /\ gathered' = [gathered EXCEPT ![c] = g]
      /\ IF all
         THEN /\ out' = [out EXCEPT ![c] = [i \in 1 .. Ask(c).images |->
                           [type |-> "final", image |-> i - 1, number |-> 0, data |-> image(i)]]]
              /\ store' = IF Ask(c).url
                          THEN UNION {Stored(c, i - 1, picture(i)) : i \in 1 .. Ask(c).images}
                          ELSE store
              /\ Ended(c, "done")
         ELSE channel' = [channel EXCEPT ![c].waiting = Tail(@)] /\ UNCHANGED <<client, out, store>>

Read(c) ==
  /\ client[c] = "open" /\ channel[c].waiting # <<>>
  /\ LET e == Head(channel[c].waiting)
     IN  IF Ask(c).stream /\ Ask(c).partials > 0 THEN StreamChunk(c, e) ELSE CollectChunk(c, e)
  /\ UNCHANGED <<setup, queue, gen, cancels, log, closing, api>>

\* The queue is closed and has nothing left: a stream ends without [DONE], and a response
\* that is collected fails as it reads on.
ReadEnd(c) ==
  /\ client[c] = "open" /\ channel[c].waiting = <<>> /\ ~channel[c].open
  /\ Ended(c, "cut off")
  /\ UNCHANGED <<setup, queue, gen, cancels, log, closing, gathered, out, store, api>>

\* cancel_command: workers are told, and then the queue is closed.
CancelCommand(c) ==
  /\ "cancel" \in setup.stops
  /\ api /\ channel[c].registered /\ c \notin closing
  /\ cancels' = [cancels EXCEPT !.sent = @ \cup {c}]
  /\ closing' = closing \cup {c}
  /\ UNCHANGED <<setup, client, queue, gen, log, channel, gathered, out, store, api>>

CloseQueue(c) ==
  /\ c \in closing /\ channel[c].open
  /\ channel' = [channel EXCEPT ![c].open = FALSE]
  /\ UNCHANGED <<setup, client, queue, gen, cancels, log, closing, gathered, out, store, api>>

\* The client disconnects, which cancels the response.
Leave(c) ==
  /\ "leave" \in setup.stops
  /\ client[c] = "open"
  /\ cancels' = [cancels EXCEPT !.sent = @ \cup {c}]
  /\ Ended(c, "left")
  /\ UNCHANGED <<setup, queue, gen, log, closing, gathered, out, store, api>>

\* _close_streams_for_instance; the engine goes with its instance.
DeleteInstance ==
  /\ "delete" \in setup.stops /\ api
  /\ \E c \in Commands : client[c] # "new"
  /\ channel' = [c \in Commands |-> [channel[c] EXCEPT !.registered = FALSE, !.open = FALSE]]
  /\ gen' = NoGen /\ queue' = <<>>
  /\ UNCHANGED <<setup, client, cancels, log, closing, gathered, out, store, api>>

\* _cleanup_expired_images, or get, which finds that the hour is over
Expire ==
  /\ \E s \in store : store' = store \ {s}
  /\ UNCHANGED <<setup, client, queue, gen, cancels, log, channel, closing, gathered, out, api>>

ONext ==
  \/ Step \/ ApplyState \/ DeleteInstance \/ Expire
  \/ \E c \in Commands :
       \/ ImageGeneration(c) \/ Register(c) \/ Read(c) \/ ReadEnd(c)
       \/ CancelCommand(c) \/ CloseQueue(c) \/ CancelTask(c) \/ Leave(c)

OSpec == OInit /\ [][ONext]_ovars

-----------------------------------------------------------------------------
Whole(c, image, result) ==
  [i \in 1 .. Ask(c).parts[result] |-> <<image, result, i - 1>>]

\* A picture comes as it was asked for, and a preview of one that is asked for as a URL
\* comes without its data.
Shown(c, event) ==
  event.data = IF ~Ask(c).url THEN Inline(Whole(c, event.image, event.number))
               ELSE IF event.type = "partial" THEN Inline(<<>>) ELSE Url(c, event.image)

\* A picture that reaches a client is whole, and so is one that can be fetched; previews
\* are, unless a chunk came before the response had its queue.
PicturesWhole ==
  /\ \A c \in Commands : \A i \in DOMAIN out[c] :
       LET event == out[c][i]
       IN  event.type # "done" /\ (event.type = "final" \/ setup.prompt) => Shown(c, event)
  /\ \A s \in store : s.bytes = Whole(s.id[1], s.id[2], 0)

\* A response that is complete has every picture once, and a stream the previews that
\* its number of steps allows, in their order and before the picture.
AllOfThem(c) ==
  LET a == Ask(c)
      previews(i) == SelectSeq(out[c], LAMBDA x : x.type = "partial" /\ x.image = i)
      number == IF a.partials < a.steps - 1 THEN a.partials ELSE a.steps - 1
  IN  /\ \A i \in 0 .. a.images - 1 : \E j \in Finals(out[c]) :
           /\ out[c][j].image = i
           /\ \A k \in DOMAIN out[c] : out[c][k].type # "done" /\ out[c][k].image = i => k <= j
      /\ Cardinality(Finals(out[c])) = a.images
      /\ a.stream /\ setup.prompt => \A i \in 0 .. a.images - 1 :
           /\ Len(previews(i)) = number
           /\ \A j \in 1 .. number : previews(i)[j].number = j

\* A response waits only while the engine, the log or its queue has something for it.
NobodyForgotten ==
  \A c \in Commands :
    /\ setup.prompt /\ api /\ client[c] = "open" /\ channel[c].open /\ c \notin closing
    /\ channel[c].waiting = <<>> /\ queue = <<>> /\ log = <<>>
    => gen # NoGen

PicturesDelivered ==
  /\ PicturesWhole /\ NobodyForgotten
  /\ \A c \in Commands : client[c] = "done" => AllOfThem(c)
=============================================================================
