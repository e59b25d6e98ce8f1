----------------------------- MODULE MCInference -----------------------------
(***************************************************************************)
(* The engines and what becomes of their output, for TLC: the parsers and  *)
(* adapters of a stream of tokens (Streams), the ranks of a language model *)
(* (Ranks) and of an image model (ImagePipeline), the prompts that an      *)
(* engine remembers (PrefixCache), the pictures on their way to a client   *)
(* (OutputImages) and the prompts that requests become (Conversations).    *)
(* They share no state here: a behaviour is one of one of them, and the    *)
(* variables of the others are Off, or ranks that have nothing to do.      *)
(***************************************************************************)
EXTENDS Ranks, TLC

VARIABLES
  part,
  family, count, written, ended, thinker, caller, delivered,
  setup, device, channel, asked, kv,
  model, linked, entries, serving, clock, job, requests, begun, spliced,
  wish, client, queue, gen, stopped, log, chunks, closing, gathered, out, store, api,
  dialect, said, template, pictures, hasImages, prompt

Off == "off"

streams == <<family, count, written, ended, thinker, caller, delivered>>
pipeline == <<setup, device, channel, asked, kv>>
prefixes == <<model, linked, entries, serving, clock, job, requests, begun, spliced>>

images == <<wish, client, queue, gen, stopped, log, chunks, closing, gathered, out, store, api>>
talks == <<dialect, said, template, pictures, hasImages, prompt>>

OffStreams ==
  /\ family = Off /\ count = Off /\ written = Off /\ ended = Off /\ thinker = Off
  /\ caller = Off /\ delivered = Off

OffRanks ==
  /\ engine = Off /\ cancels = Off /\ box = Off /\ skipped = {}
  /\ coming = [r \in Rank |-> {}] /\ rank = [r \in Rank |-> NewRank]

OffPipeline ==
  /\ setup = Off /\ device = Off /\ channel = Off /\ asked = Off /\ kv = Off

OffPrefixes ==
  /\ model = Off /\ linked = Off /\ entries = Off /\ serving = Off /\ clock = Off
  /\ job = Off /\ requests = Off /\ begun = Off /\ spliced = Off

OffImages ==
  /\ wish = Off /\ client = Off /\ queue = Off /\ gen = Off /\ stopped = Off /\ log = Off
  /\ chunks = Off /\ closing = Off /\ gathered = Off /\ out = Off /\ store = Off /\ api = Off

OffTalks ==
  /\ dialect = Off /\ said = Off /\ template = Off /\ pictures = Off /\ hasImages = Off
  /\ prompt = Off

-----------------------------------------------------------------------------
S == INSTANCE Streams WITH Letters <- <<"a", "b", "c", "d1", "f1">>, MaxTokens <- 4

\* The number of tokens of each task: one is longer than the others.
OneLonger == [t \in Tasks |-> IF t = 1 THEN 3 ELSE 2]

\* Pipelines of one to three stages, cut within and between the kinds of blocks.
Pipe(n, cfg, joint, single, ends, cancel) ==
  [stages |-> n, cfg |-> cfg, joint |-> joint, single |-> single, ends |-> ends,
   steps |-> 4, sync |-> 1, rows |-> 5, cancel |-> cancel]

Pipes ==
  {Pipe(1, "sequential", 1, 1, <<2>>, TRUE),
   Pipe(2, "none", 2, 2, <<2, 4>>, TRUE),
   Pipe(2, "none", 1, 3, <<2, 4>>, TRUE),
   Pipe(3, "sequential", 4, 0, <<1, 2, 4>>, TRUE),
   [Pipe(3, "none", 2, 2, <<1, 2, 4>>, TRUE) EXCEPT !.rows = 4],
   Pipe(1, "parallel", 2, 0, <<2>>, TRUE),
   Pipe(2, "parallel", 2, 0, <<1, 2>>, FALSE)}

G == INSTANCE ImagePipeline WITH Setups <- Pipes, Capacity <- 2, rank <- device

\* Prompts that share a beginning, and two that differ in their picture only.
Text(s) == [i \in DOMAIN s |-> <<s[i], "none">>]

Picture(s, image) == [i \in DOMAIN s |-> <<s[i], IF s[i] = "img" THEN image ELSE "none">>]

P == INSTANCE PrefixCache WITH
       Prompts <- {Text(<<"a", "b", "c", "d", "e", "f">>), Text(<<"a", "b", "c", "d">>),
                   Text(<<"a", "b", "c", "x", "y">>),
                   Picture(<<"a", "img", "img", "b", "c">>, "A"),
                   Picture(<<"a", "img", "img", "b", "c">>, "B")},
       StepSize <- 2, MinHit <- 2, RemoteMin <- 3, MaxRequests <- 3, count <- requests

\* Two requests for pictures, with previews or without, of one or two chunks each.
Pictures(n, partials, steps, stream, url, parts) ==
  [images |-> n, partials |-> partials, steps |-> steps, stream |-> stream, url |-> url,
   parts |-> 0 :> 2 @@ parts]

Even == 1 :> 2 @@ 2 :> 2

Growing == 1 :> 1 @@ 2 :> 2

Wish(a, b, fails, early, stops) ==
  [ask |-> "c1" :> a @@ "c2" :> b, fails |-> fails, prompt |-> early, stops |-> stops]

Wishes ==
  {Wish(Pictures(2, 1, 4, TRUE, FALSE, Even), Pictures(1, 1, 4, FALSE, TRUE, Even), FALSE, TRUE, {"cancel"}),
   Wish(Pictures(1, 3, 3, TRUE, FALSE, Growing), Pictures(2, 0, 4, FALSE, TRUE, Even), FALSE, TRUE, {"leave"}),
   Wish(Pictures(1, 2, 5, TRUE, TRUE, Even), Pictures(2, 0, 2, TRUE, FALSE, Even), FALSE, FALSE, {"delete"}),
   Wish(Pictures(1, 1, 4, TRUE, FALSE, Growing), Pictures(1, 0, 4, FALSE, TRUE, Even), TRUE, TRUE, {})}

O == INSTANCE OutputImages WITH
       Commands <- {"c1", "c2"}, Setups <- Wishes, setup <- wish, cancels <- stopped,
       channel <- chunks

T == INSTANCE Conversations WITH
       Dialects <- {"chat", "claude", "ollama", "generate", "responses", "plain"}, MaxMessages <- 3

ASSUME S!StreamsAssumption
ASSUME G!ImageAssumption
ASSUME P!PrefixCacheAssumption
ASSUME O!OutputAssumption
ASSUME T!ConversationsAssumption

-----------------------------------------------------------------------------
MInit ==
  /\ part \in {"streams", "ranks", "pipeline", "prefixes", "images", "talks"}
  /\ IF part = "streams" THEN S!Init ELSE OffStreams
  /\ IF part = "ranks" THEN KInit ELSE OffRanks
  /\ IF part = "pipeline" THEN G!GInit ELSE OffPipeline
  /\ IF part = "prefixes" THEN P!CInit ELSE OffPrefixes
  /\ IF part = "images" THEN O!OInit ELSE OffImages
  /\ IF part = "talks" THEN T!TInit ELSE OffTalks

MNext ==
  \/ part = "streams" /\ S!Next /\ UNCHANGED <<part, kvars, pipeline, prefixes, images, talks>>
  \/ part = "ranks" /\ KNext /\ UNCHANGED <<part, streams, pipeline, prefixes, images, talks>>
  \/ part = "pipeline" /\ G!GNext /\ UNCHANGED <<part, streams, kvars, prefixes, images, talks>>
  \/ part = "prefixes" /\ P!CNext /\ UNCHANGED <<part, streams, kvars, pipeline, images, talks>>
  \/ part = "images" /\ O!ONext /\ UNCHANGED <<part, streams, kvars, pipeline, prefixes, talks>>
  \/ part = "talks" /\ T!TNext /\ UNCHANGED <<part, streams, kvars, pipeline, prefixes, images>>

MSpec == MInit /\ [][MNext]_<<part, streams, kvars, pipeline, prefixes, images, talks>>

-----------------------------------------------------------------------------
\* The properties of each part; those of the ranks are their own.

\* Every character that the model writes reaches the client once, streamed or not.
NothingLost == part = "streams" => S!NothingLost

\* A generation that ends tells its client so, once, in a stream that is well formed.
StreamsEndWell == part = "streams" => S!EveryEndIsTold /\ S!StreamsWellFormed

\* A stage receives the very thing it expects, nobody waits for ever, nothing is left for
\* the next generation, and keys and values are never older than one step.
PipelineInStep ==
  part = "pipeline" => G!MessagesMatch /\ G!NothingLeftOver /\ G!StaleByOneStep

\* What is remembered under a prompt is its beginning, and a prompt that was prefilled
\* here is decoded from all of its tokens, each once; and everything that was said in a
\* request is in its prompt, the pictures in their places.
PromptsAreTrue ==
  /\ part = "prefixes" => P!EntriesAreTrue /\ P!PromptIsWhole
  /\ part = "talks" => T!PromptIsFaithful

\* Pictures and previews reach their clients whole, all of them and in their order, and
\* nobody is left waiting for one.
PicturesDelivered == part = "images" => O!PicturesDelivered
=============================================================================
