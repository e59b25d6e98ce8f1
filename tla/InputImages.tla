------------------------------ MODULE InputImages ------------------------------
(***************************************************************************)
(* The images that come with a request.  An API node cuts them into chunks *)
(* and sends them ahead of the command, but an image that it has sent      *)
(* before in this session it names only by its hash (api/main.py).  A      *)
(* worker collects the chunks of each command, keeps the images that are   *)
(* complete, and starts the task once it has all it needs (worker/main.py, *)
(* worker/plan.py).                                                        *)
(*                                                                         *)
(* An election starts a new session with a new log and new workers; an API *)
(* node hears of it later, and meanwhile what it sends goes to the new     *)
(* master.  Handlers run side by side: each wait between two sends lets    *)
(* others, and elections, in.                                              *)
(***************************************************************************)
EXTENDS Integers, Sequences, FiniteSets

CONSTANTS
  Apis,
  Workers,
  Requests,
  Images,
  Size,        \* the number of chunks of each image
  MaxSession,  \* the number of elections
  Uploads      \* which requests are made, where, and with which images

\* Only the edit of an image has a form field for it, and that takes one.
Upload == [api : Apis, kind : {"text", "edit"}, images : Seq(Images)]

ASSUME ImagesAssumption ==
  /\ Size \in [Images -> Nat \ {0}]
  /\ MaxSession \in Nat
  /\ Uploads \subseteq [Requests -> Upload]
  /\ \A u \in Uploads : \A r \in Requests : u[r].kind = "edit" => Len(u[r].images) = 1

VARIABLES
  upload,     \* the requests
  session,    \* the elections there have been
  epoch,      \* the session that each API node is in
  sent,       \* API._sent_image_hashes
  requested,  \* the epoch in which a handler has looked at sent; -1 before
  todo,       \* what a handler has yet to send
  imagelog,   \* the events of the session
  fed,        \* how many of them each worker has applied
  buffer,     \* Worker.input_chunk_buffer: the chunks of each command
  cache,      \* Worker.image_cache
  started     \* the tasks that each worker has given to its runner

ivars ==
  <<upload, session, epoch, sent, requested, todo, imagelog, fed, buffer, cache, started>>

\* The chunks of the images at some places of a request: the place of the image, and the
\* number of the chunk in it.  They stand for the running number and for the data.
Chunks(r, places) == UNION {{n} \X (1 .. Size[upload[r].images[n]]) : n \in places}

\* InputChunkReceived and TaskCreated.
Chunk(r, index, total) == [kind |-> "chunk", of |-> r, index |-> index, total |-> total]

Task(r) == [kind |-> "task", of |-> r, index |-> <<0, 0>>, total |-> 0]

IInit ==
  /\ upload \in Uploads
  /\ session = 0
  /\ epoch = [a \in Apis |-> 0]
  /\ sent = [a \in Apis |-> {}]
  /\ requested = [r \in Requests |-> -1]
  /\ todo = [r \in Requests |-> {}]
  /\ imagelog = <<>>
  /\ fed = [w \in Workers |-> 0]
  /\ buffer = [w \in Workers |-> [r \in Requests |-> {}]]
  /\ cache = [w \in Workers |-> {}]
  /\ started = [w \in Workers |-> {}]

-----------------------------------------------------------------------------
\* The API.

\* The chunks to send, each with their number, and the command after them.
ToSend(r, places) ==
  {Chunk(r, i, Cardinality(Chunks(r, places))) : i \in Chunks(r, places)} \cup {Task(r)}

\* The first places of the images that have not been sent before.
Unsent(r, a) ==
  {n \in DOMAIN upload[r].images :
     /\ upload[r].images[n] \notin sent[a]
     /\ \A m \in 1 .. n - 1 : upload[r].images[m] # upload[r].images[n]}

ImagesOf(r) == {upload[r].images[n] : n \in DOMAIN upload[r].images}

\* _send_text_generation_with_images: only what was not sent before is sent, and it
\* counts as sent from now on.
SendText(r, a) ==
  /\ upload[r].kind = "text"
  /\ sent' = [sent EXCEPT ![a] = @ \cup ImagesOf(r)]
  /\ todo' = [todo EXCEPT ![r] = ToSend(r, Unsent(r, a))]

\* _send_image_edits_command
SendEdit(r) ==
  /\ upload[r].kind = "edit"
  /\ todo' = [todo EXCEPT ![r] = ToSend(r, DOMAIN upload[r].images)]
  /\ UNCHANGED sent

LookAtHashes(r) ==
  LET a == upload[r].api IN
  /\ requested[r] = -1
  /\ requested' = [requested EXCEPT ![r] = epoch[a]]
  /\ SendText(r, a) \/ SendEdit(r)
  /\ UNCHANGED <<upload, session, epoch, imagelog, fed, buffer, cache, started>>

\* Chunks go out in the order of their numbers, and the command last.
Ahead(e, f) ==
  /\ e.kind = "chunk"
  /\ f.kind = "chunk" =>
       e.index[1] < f.index[1] \/ (e.index[1] = f.index[1] /\ e.index[2] < f.index[2])

\* _send, through the master to the log.  While the API is paused nothing is sent;
\* that is a pause before this step.
SendNext(r) ==
  \E e \in todo[r] :
    /\ \A f \in todo[r] \ {e} : Ahead(e, f)
    /\ imagelog' = Append(imagelog, e)
    /\ todo' = [todo EXCEPT ![r] = @ \ {e}]
    /\ UNCHANGED <<upload, session, epoch, sent, requested, fed, buffer, cache, started>>

\* Mutant of ForgetImages: the hashes are kept.
ForgetNoImage(a) == sent[a]

\* What reset leaves of _sent_image_hashes.
ForgetImages(a) == {}

\* API.reset, after an election.
ResetApi(a) ==
  /\ epoch[a] < session
  /\ epoch' = [epoch EXCEPT ![a] = session]
  /\ sent' = [sent EXCEPT ![a] = ForgetImages(a)]
  /\ UNCHANGED <<upload, session, requested, todo, imagelog, fed, buffer, cache, started>>

\* A new session: the log is empty and the workers are new.
NewSession ==
  /\ session < MaxSession
  /\ session' = session + 1
  /\ imagelog' = <<>>
  /\ fed' = [w \in Workers |-> 0]
  /\ buffer' = [w \in Workers |-> [r \in Requests |-> {}]]
  /\ cache' = [w \in Workers |-> {}]
  /\ started' = [w \in Workers |-> {}]
  /\ UNCHANGED <<upload, epoch, sent, requested, todo>>

-----------------------------------------------------------------------------
\* A worker.

\* _event_applier: a command whose chunks are all there has its images cached.
EventApplier(w) ==
  /\ fed[w] < Len(imagelog)
  /\ fed' = [fed EXCEPT ![w] = @ + 1]
  /\ LET e == imagelog[fed[w] + 1]
         chunks == buffer[w][e.of] \cup {e.index}
     IN  \/ /\ e.kind = "chunk"
            /\ buffer' = [buffer EXCEPT ![w] = [@ EXCEPT ![e.of] = chunks]]
            /\ cache' = [cache EXCEPT ![w] =
                 IF Cardinality(chunks) = e.total
                 THEN @ \cup {upload[e.of].images[i[1]] : i \in chunks} ELSE @]
         \/ e.kind = "task" /\ UNCHANGED <<buffer, cache>>
  /\ UNCHANGED <<upload, session, epoch, sent, requested, todo, imagelog, started>>

\* The task is in the worker's State.
Known(w, r) == \E i \in 1 .. fed[w] : imagelog[i] = Task(r)

\* _pending_tasks: a text needs its images, an edit its chunks.
Complete(w, r) ==
  IF upload[r].kind = "text"
  THEN ImagesOf(r) \subseteq cache[w]
  ELSE Cardinality(buffer[w][r]) >= Cardinality(Chunks(r, DOMAIN upload[r].images))

\* plan_step: the task is given to the runner with its images, and the chunks of its
\* command are dropped.
StartTask(w, r) ==
  /\ Known(w, r) /\ r \notin started[w]
  /\ Complete(w, r)
  /\ started' = [started EXCEPT ![w] = @ \cup {r}]
  /\ buffer' = [buffer EXCEPT ![w] = [@ EXCEPT ![r] = {}]]
  /\ UNCHANGED <<upload, session, epoch, sent, requested, todo, imagelog, fed, cache>>

INext ==
  \/ NewSession
  \/ \E r \in Requests : LookAtHashes(r) \/ SendNext(r)
  \/ \E a \in Apis : ResetApi(a)
  \/ \E w \in Workers : EventApplier(w) \/ \E r \in Requests : StartTask(w, r)

ISpec == IInit /\ [][INext]_ivars

-----------------------------------------------------------------------------
ImageEvent == [kind : {"chunk", "task"}, of : Requests, index : Nat \X Nat, total : Nat]

ImagesTypeOK ==
  /\ upload \in Uploads
  /\ session \in Nat
  /\ epoch \in [Apis -> 0 .. session]
  /\ sent \in [Apis -> SUBSET Images]
  /\ requested \in [Requests -> -1 .. session]
  /\ todo \in [Requests -> SUBSET ImageEvent]
  /\ imagelog \in Seq(ImageEvent)
  /\ fed \in [Workers -> 0 .. Len(imagelog)]
  /\ buffer \in [Workers -> [Requests -> SUBSET (Nat \X Nat)]]
  /\ cache \in [Workers -> SUBSET Images]
  /\ started \in [Workers -> SUBSET Requests]

\* Once all handlers have sent what they had to and a worker has applied it, every
\* task of the session has its images there, whichever request brought them and
\* however the uploads were interleaved (_sent_image_hashes against image_cache and
\* input_chunk_buffer).  Left out are the requests whose handler looked at the hashes
\* before the API node joined the session: their images may be in a log that is gone,
\* and such a task waits for ever.
ImagesArrive ==
  \A w \in Workers : \A r \in Requests :
    /\ requested[r] = session
    /\ \A q \in Requests : todo[q] = {}
    /\ fed[w] = Len(imagelog)
    => r \in started[w] \/ Complete(w, r)
=============================================================================
