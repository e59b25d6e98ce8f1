------------------------------- MODULE Streams -------------------------------
(***************************************************************************)
(* From the tokens of a model to the events of an API: the parsers that    *)
(* find reasoning and tool calls in the text (model_output_parsers.py), the*)
(* stream of chunks that ends with the first final one                     *)
(* (API._token_chunk_stream), and the adapters of the four wire formats,   *)
(* each for a client that streams and for one that does not                *)
(* (api/adapters).                                                         *)
(*                                                                         *)
(* Text is a sequence of characters.  "<s" and "<e" stand for the tags     *)
(* around reasoning, "[" and "]" for those around a tool call, "<d" and "]"*)
(* for the longer ones of DSML; every other character is written once, so  *)
(* that one that is lost, or told twice, is seen.  What the library parser *)
(* of the gpt-oss format finds in a token is chosen freely.                *)
(***************************************************************************)
EXTENDS Integers, Sequences, FiniteSets, SequencesExt

CONSTANTS
  Letters,   \* the characters that stand for themselves, in order of use
  MaxTokens  \* the length of a generation

StreamsAssumption == MaxTokens \in Nat /\ Len(Letters) > MaxTokens

VARIABLES
  family,    \* of the model: "tags", "dsml" or "harmony"
  count,     \* tokens so far
  written,   \* the letters in them
  ended,     \* the token with a finish_reason has come
  thinker,   \* the state of parse_thinking_models
  caller,    \* the state of parse_tool_calls, _parse_dsml_stream or parse_gpt_oss
  delivered  \* the chunks that _token_chunk_stream has yielded

svars == <<family, count, written, ended, thinker, caller, delivered>>

\* GenerationResponse; ToolCallResponse has the text of its calls.
Token(text, fin) == [call |-> FALSE, text |-> text, fin |-> fin, think |-> FALSE]

Call(text) == [call |-> TRUE, text |-> text, fin |-> "tool_calls", think |-> FALSE]

StartsWith(text, mark) == IsPrefix(mark, text)

EndsWith(text, mark) == IsSuffix(mark, text)

\* Where mark begins in text.
Places(text, mark) ==
  {n \in 1..Len(text) : StartsWith(SubSeq(text, n, Len(text)), mark)}

Concat(seqs) == FlattenSeq(seqs)

ThinkStart == <<"<", "s">>

ThinkEnd == <<"<", "e">>

DsmlStart == <<"<", "d">>

CallStart == <<"[">>

CallEnd == <<"]">>

-----------------------------------------------------------------------------
\* The parsers: each maps its state and a response to its next state and the
\* responses that it yields.

Yields(state, out) == [state |-> state, out |-> out]

\* drain_pending
Drained(st) == [n \in DOMAIN st.pending |-> [st.pending[n] EXCEPT !.think = st.thinking]]

\* parse_thinking_models
ParseThinking(st, r) ==
  LET accumulated == st.accumulated \o r.text
      switched == [st EXCEPT !.thinking = ~@, !.accumulated = <<>>, !.pending = <<>>]
  IN  CASE r.fin # "none" ->
             Yields([st EXCEPT !.accumulated = accumulated, !.pending = <<>>],
                    Drained(st) \o <<[r EXCEPT !.think = FALSE]>>)
        [] r.fin = "none" /\ accumulated = (IF st.thinking THEN ThinkEnd ELSE ThinkStart) ->
             Yields(switched, <<>>)
        [] OTHER ->
             IF StartsWith(ThinkStart, accumulated) \/ StartsWith(ThinkEnd, accumulated)
             THEN Yields([st EXCEPT !.accumulated = accumulated, !.pending = Append(@, r)], <<>>)
             ELSE Yields([st EXCEPT !.accumulated = <<>>, !.pending = <<>>],
                         Drained(st) \o <<[r EXCEPT !.think = st.thinking]>>)

\* Mutant of Interrupted: nothing is said of a call that was cut off.
InterruptedSilently(r, text) == <<>>

\* parse_tool_calls, when the generation ends within a call.
Interrupted(r, text) == <<[r EXCEPT !.text = text, !.fin = "error"]>>

\* parse_tool_calls; parses tells whether a complete call can be parsed.
ParseCalls(st, r, parses) ==
  LET inCall == st.inCall \/ StartsWith(r.text, CallStart)
      text == st.text \o r.text
      final == r.fin # "none"
  IN  CASE st.closed -> Yields(st, <<>>)
        [] ~st.closed /\ ~inCall /\ st.calls # <<>> /\ final ->
             Yields([st EXCEPT !.calls = <<>>], <<Call(st.calls)>>)
        [] ~st.closed /\ ~inCall /\ ~(st.calls # <<>> /\ final) -> Yields(st, <<r>>)
        [] ~st.closed /\ inCall /\ EndsWith(r.text, CallEnd) ->
             IF ~parses
             THEN Yields([st EXCEPT !.inCall = FALSE, !.text = <<>>, !.closed = TRUE],
                         <<[r EXCEPT !.text = text, !.fin = "error"]>>)
             ELSE IF final
             THEN Yields([st EXCEPT !.inCall = FALSE, !.text = <<>>, !.calls = <<>>],
                         <<Call(st.calls \o text)>>)
             ELSE Yields([st EXCEPT !.inCall = FALSE, !.text = <<>>, !.calls = @ \o text], <<>>)
        [] ~st.closed /\ inCall /\ ~EndsWith(r.text, CallEnd) ->
             Yields([st EXCEPT !.inCall = TRUE, !.text = text],
                    IF final THEN Interrupted(r, text) ELSE <<>>)

\* _try_parse_tool_call
TryParse(r, text, parses) == IF parses THEN Call(text) ELSE [r EXCEPT !.text = text]

\* Mutant of FirstOf: a response that holds the beginning of the mark is dropped.
FirstOfWhole(pending, n) ==
  SelectSeq(pending, LAMBDA r : \E k \in DOMAIN pending :
                       /\ pending[k] = r
                       /\ Len(Concat([m \in 1..k |-> pending[m].text])) <= n)

\* The held-back responses, up to n characters.
FirstOf(pending, n) ==
  LET before(k) == Len(Concat([m \in 1..(k - 1) |-> pending[m].text]))
      kept == SelectSeq([k \in DOMAIN pending |-> k], LAMBDA k : before(k) < n)
  IN  [m \in DOMAIN kept |->
         LET rest == n - before(kept[m])
         IN  [pending[kept[m]] EXCEPT !.text = IF Len(@) <= rest THEN @ ELSE SubSeq(@, 1, rest)]]

\* _could_be_marker_prefix
CouldBegin(text, mark) ==
  \E n \in 1..Len(text) : StartsWith(mark, SubSeq(text, n, Len(text)))

\* The last response in _parse_dsml_stream.
DsmlEnd(st, r, parses) ==
  LET text == st.text \o r.text
      start == Places(r.text, DsmlStart)
  IN  st.pending \o
      (IF st.inCall
       THEN IF Places(text, CallEnd) # {} THEN <<TryParse(r, text, parses)>>
                                          ELSE <<[r EXCEPT !.text = text]>>
       ELSE IF start # {} /\ Places(r.text, CallEnd) # {}
       THEN LET n == CHOOSE n \in start : \A m \in start : n <= m
            IN  (IF n > 1 THEN <<[r EXCEPT !.text = SubSeq(@, 1, n - 1)]>> ELSE <<>>)
                  \o <<TryParse(r, SubSeq(r.text, n, Len(r.text)), parses)>>
       ELSE <<r>>)

\* _parse_dsml_stream
ParseDsml(st, r, parses) ==
  LET text == st.text \o r.text
      accumulated == st.accumulated \o r.text
      start == Places(accumulated, DsmlStart)
      n == CHOOSE n \in start : \A m \in start : n <= m
      body == SubSeq(accumulated, n, Len(accumulated))
      idle == [st EXCEPT !.accumulated = <<>>, !.pending = <<>>, !.text = <<>>, !.inCall = FALSE]
  IN  CASE st.closed -> Yields(st, <<>>)
        [] ~st.closed /\ r.fin # "none" ->
             Yields([idle EXCEPT !.closed = TRUE], DsmlEnd(st, r, parses))
        [] ~st.closed /\ r.fin = "none" /\ st.inCall ->
             IF Places(text, CallEnd) # {}
             THEN Yields([st EXCEPT !.inCall = FALSE, !.text = <<>>], <<TryParse(r, text, parses)>>)
             ELSE Yields([st EXCEPT !.text = text], <<>>)
        [] ~st.closed /\ r.fin = "none" /\ ~st.inCall ->
             IF start # {}
             THEN LET before == FirstOf(st.pending, n - 1)
                  IN  IF Places(body, CallEnd) # {}
                      THEN Yields(idle, Append(before, TryParse(r, body, parses)))
                      ELSE Yields([idle EXCEPT !.inCall = TRUE, !.text = body], before)
             ELSE IF CouldBegin(accumulated, DsmlStart)
             THEN Yields([st EXCEPT !.accumulated = accumulated, !.pending = Append(@, r)], <<>>)
             ELSE Yields(idle, Append(st.pending, r))

\* parse_gpt_oss; found is what the library parser makes of the token: whether it
\* adds to a message, of which channel, and to which tool the message is addressed.
ParseHarmony(st, r, found) ==
  LET switches == found.tool # st.tool
      told == IF switches /\ st.tool # "none" THEN <<Call(st.text)>> ELSE <<>>
      kept == IF switches THEN <<>> ELSE st.text
      text == IF found.adds THEN kept \o r.text ELSE kept
      final == r.fin # "none"
  IN  CASE st.closed -> Yields(st, <<>>)
        [] ~st.closed /\ found.error -> Yields([st EXCEPT !.closed = TRUE], <<>>)
        [] ~st.closed /\ ~found.error /\ found.tool # "none" ->
             Yields([st EXCEPT !.tool = found.tool, !.text = IF final THEN <<>> ELSE text],
                    told \o (IF final THEN <<[r EXCEPT !.text = text]>> ELSE <<>>))
        [] ~st.closed /\ ~found.error /\ found.tool = "none" ->
             Yields([st EXCEPT !.tool = "none", !.text = kept],
                    told \o (IF found.adds THEN <<[r EXCEPT !.think = found.analysis]>> ELSE <<>>)
                         \o (IF final THEN <<r>> ELSE <<>>))

-----------------------------------------------------------------------------
\* apply_all_parsers: reasoning first, then calls.

NewThinker(thinking) == [thinking |-> thinking, accumulated |-> <<>>, pending |-> <<>>]

NewCaller ==
  [inCall |-> FALSE, text |-> <<>>, calls |-> <<>>, accumulated |-> <<>>, pending |-> <<>>,
   tool |-> "none", closed |-> FALSE]

\* A parser on a sequence of responses.
RunOn(Parse(_, _), st, rs) ==
  FoldLeft(LAMBDA y, r : LET z == Parse(y.state, r) IN Yields(z.state, y.out \o z.out),
           Yields(st, <<>>), rs)

Final(c) == c.fin # "none"

\* map_responses_to_chunks and _token_chunk_stream: nothing is read after the first
\* final chunk, and a tool call is always final.
Deliver(out) ==
  LET all == delivered \o out
      finals == {n \in DOMAIN all : Final(all[n])}
  IN  IF finals = {} THEN all ELSE SubSeq(all, 1, CHOOSE n \in finals : \A m \in finals : n <= m)

\* The texts of the next token.
Texts ==
  LET own == <<Letters[count + 1]>>
  IN  CASE family = "tags" -> {own, ThinkStart, ThinkEnd, <<"<">>, <<"s">>, CallStart, CallEnd, own \o CallEnd}
        [] family = "dsml" -> {own, ThinkEnd, DsmlStart, <<"<">>, <<"d">>, own \o <<"<">>, CallEnd}
        [] family = "harmony" -> {own}

Found ==
  [error : {FALSE}, adds : BOOLEAN, analysis : BOOLEAN, tool : {"none", "f", "g"}]
    \cup {[error |-> TRUE, adds |-> FALSE, analysis |-> FALSE, tool |-> "none"]}

Init ==
  /\ family \in {"tags", "dsml", "harmony"}
  /\ count = 0
  /\ written = {}
  /\ ended = FALSE
  /\ \E thinking \in BOOLEAN : thinker = NewThinker(thinking)
  /\ caller = NewCaller
  /\ delivered = <<>>

Finals == {n \in DOMAIN delivered : Final(delivered[n])}

\* One token goes through the parsers, and what they yield to the client.  After a
\* final chunk nobody listens.
Generate(text, fin) ==
  LET r == Token(text, fin)
      thought == ParseThinking(thinker, r)
      letters == Range(text) \cap Range(Letters)
      Use(called) == caller' = called.state /\ delivered' = Deliver(called.out)
  IN  /\ ~ended
      /\ Finals = {}
      /\ count < MaxTokens
      /\ count' = count + 1
      /\ ended' = (fin # "none")
      /\ \/ /\ family = "tags"
            /\ thinker' = thought.state
            /\ \E parses \in BOOLEAN :
                 Use(RunOn(LAMBDA st, x : ParseCalls(st, x, parses), caller, thought.out))
            /\ written' = written \cup letters
         \/ /\ family = "dsml"
            /\ thinker' = thought.state
            /\ \E parses \in BOOLEAN :
                 Use(RunOn(LAMBDA st, x : ParseDsml(st, x, parses), caller, thought.out))
            /\ written' = written \cup letters
         \/ /\ family = "harmony"
            /\ \E found \in Found :
                 /\ Use(ParseHarmony(caller, r, found))
                 /\ written' = IF found.adds THEN written \cup letters ELSE written
            /\ UNCHANGED thinker
      /\ UNCHANGED family

Next == \E text \in Texts : \E fin \in {"none", "stop"} : Generate(text, fin)

Spec == Init /\ [][Next]_svars

-----------------------------------------------------------------------------
\* The adapters, on the chunks delivered so far: the queue may be closed at any time.

Event(op, index, kind, text) == [op |-> op, index |-> index, kind |-> kind, text |-> text]

Kind(c) == IF c.call THEN "tool" ELSE IF c.think THEN "thinking" ELSE "text"

\* All the text of one kind.
Gather(kind) ==
  Concat([n \in DOMAIN delivered |-> IF Kind(delivered[n]) = kind THEN delivered[n].text ELSE <<>>])

\* The blocks of a message: where the reasoning and the text are, -1 if nowhere.
NoBlocks == [thinking |-> -1, text |-> -1, next |-> 0, events |-> <<>>]

Emit(st, events) == [st EXCEPT !.events = @ \o events]

\* A tool call is a block of its own.
ToolBlock(st, c) ==
  [Emit(st, <<Event("start", st.next, "tool", <<>>), Event("delta", st.next, "tool", c.text),
              Event("stop", st.next, "tool", <<>>)>>) EXCEPT !.next = @ + 1]

Opened(st, kind) ==
  IF st[kind] # -1 THEN st
  ELSE [Emit(st, <<Event("start", st.next, kind, <<>>)>>) EXCEPT ![kind] = st.next, !.next = @ + 1]

\* The reasoning ends where the text begins, or the message.
ThoughtClosed(st) ==
  IF st.thinking # -1 /\ st.text = -1 THEN Emit(st, <<Event("stop", st.thinking, "thinking", <<>>)>>)
  ELSE st

Says(st, kind, c) == Emit(st, <<Event("delta", st[kind], kind, c.text)>>)

\* The loops of generate_claude_stream and generate_responses_stream; an error ends
\* them like the end of the queue.
ClaudeChunk(st, c) ==
  CASE c.fin = "error" -> st
    [] c.fin # "error" /\ c.call -> ToolBlock(st, c)
    [] c.fin # "error" /\ ~c.call /\ c.think -> Says(Opened(st, "thinking"), "thinking", c)
    [] OTHER -> Says(Opened(ThoughtClosed(st), "text"), "text", c)

ResponsesChunk(st, c) == ClaudeChunk(st, c)

Done == Event("done", -1, "message", <<>>)

\* generate_claude_stream, after its loop.
ClaudeEnd(st) ==
  LET closed == ThoughtClosed(st)
      text == IF st.text # -1 THEN <<Event("stop", st.text, "text", <<>>)>> ELSE <<>>
      empty == IF st.text = -1 /\ st.thinking = -1
               THEN <<Event("start", 0, "text", <<>>), Event("stop", 0, "text", <<>>)>> ELSE <<>>
  IN  Emit(closed, text \o empty \o <<Done>>)

\* generate_responses_stream, after its loop: there is always a message item.
ResponsesEnd(st) ==
  LET open == Opened(ThoughtClosed(st), "text")
  IN  Emit(open, <<Event("stop", open.text, "text", <<>>), Done>>)

ClaudeStream == ClaudeEnd(FoldLeft(ClaudeChunk, NoBlocks, delivered)).events

ResponsesStream == ResponsesEnd(FoldLeft(ResponsesChunk, NoBlocks, delivered)).events

\* generate_chat_stream
ChatChunk(c) ==
  IF c.fin = "error" THEN <<Event("error", 0, "text", <<>>), Done>>
  ELSE <<Event("delta", 0, Kind(c), c.text)>> \o (IF Final(c) THEN <<Done>> ELSE <<>>)

\* generate_ollama_chat_stream: a message of reasoning is never the last one, and a
\* call comes with all the reasoning once more.
OllamaChunk(c) ==
  CASE c.fin = "error" -> <<Event("error", 0, "text", <<>>), Done>>
    [] c.call -> <<Event("again", 0, "thinking", Gather("thinking")), Event("delta", 0, "tool", c.text), Done>>
    [] OTHER -> <<Event("delta", 0, Kind(c), c.text)>> \o (IF Final(c) /\ ~c.think THEN <<Done>> ELSE <<>>)

\* generate_ollama_generate_stream: a call is only the end.
OllamaGenerateChunk(c) ==
  CASE c.fin = "error" -> <<Event("error", 0, "text", <<>>), Done>>
    [] c.call -> <<Done>>
    [] OTHER -> <<Event("delta", 0, Kind(c), c.text)>> \o (IF Final(c) /\ ~c.think THEN <<Done>> ELSE <<>>)

EachChunk(Say(_)) == Concat([n \in DOMAIN delivered |-> Say(delivered[n])])

ChatStream == EachChunk(ChatChunk)

OllamaStream == EachChunk(OllamaChunk)

OllamaGenerateStream == EachChunk(OllamaGenerateChunk)

\* The answers of clients that wait: blocks of one kind of text each.
Block(kind) == <<[kind |-> kind, text |-> Gather(kind)]>>

BlockUnlessEmpty(kind) == IF Gather(kind) = <<>> THEN <<>> ELSE Block(kind)

\* collect_chat_response
CollectChat == Block("text") \o BlockUnlessEmpty("thinking") \o BlockUnlessEmpty("tool")

\* collect_claude_response: a message is never without a block.
CollectClaude ==
  LET blocks == BlockUnlessEmpty("thinking") \o BlockUnlessEmpty("text") \o BlockUnlessEmpty("tool")
  IN  IF blocks = <<>> THEN Block("text") ELSE blocks

\* collect_responses_response
CollectResponses == BlockUnlessEmpty("thinking") \o Block("text") \o BlockUnlessEmpty("tool")

\* collect_ollama_chat_response
CollectOllama == Block("text") \o BlockUnlessEmpty("thinking") \o BlockUnlessEmpty("tool")

\* collect_ollama_generate_response: calls are not told.
CollectOllamaGenerate == Block("text") \o BlockUnlessEmpty("thinking")

\* What a client that streams, and one that waits, gets in each format.
Answers ==
  {[stream |-> ChatStream, collected |-> CollectChat],
   [stream |-> ClaudeStream, collected |-> CollectClaude],
   [stream |-> ResponsesStream, collected |-> CollectResponses],
   [stream |-> OllamaStream, collected |-> CollectOllama],
   [stream |-> OllamaGenerateStream, collected |-> CollectOllamaGenerate]}

\* The text of one kind in a stream, and in an answer.
StreamedText(events, kind) ==
  Concat([n \in DOMAIN events |->
            IF events[n].op = "delta" /\ events[n].kind = kind THEN events[n].text ELSE <<>>])

CollectedText(blocks, kind) ==
  Concat([n \in DOMAIN blocks |-> IF blocks[n].kind = kind THEN blocks[n].text ELSE <<>>])

-----------------------------------------------------------------------------
Failed == \E n \in Finals : delivered[n].fin = "error"

Told(chunks) ==
  SelectSeq(Concat([n \in DOMAIN chunks |-> chunks[n].text]), LAMBDA c : c \in Range(Letters))

\* Every character that the model writes before its last token reaches the client
\* once, unless the response fails: held-back prefixes of tags are given out, calls
\* that cannot be parsed come as text, and what a client that streams gets is what
\* one that waits gets, in all formats (drain_pending, pending_buffer,
\* parse_tool_calls, and the two generators of each adapter).
NothingLost ==
  LET told == Told(delivered) IN
  /\ Cardinality(Range(told)) = Len(told)
  /\ ~Failed =>
       /\ Finals # {} => written \ {Letters[count]} \subseteq Range(told)
       /\ \A kind \in {"thinking", "text", "tool"} :
            \A answer \in Answers :
              StreamedText(answer.stream, kind) = CollectedText(answer.collected, kind)

At(events, op, index) == {n \in DOMAIN events : events[n].op = op /\ events[n].index = index}

\* Every block is begun once and ended once, what it says is said in between, and
\* the message ends once, at the end.
WellFormed(events) ==
  /\ {n \in DOMAIN events : events[n].op = "done"} = {Len(events)}
  /\ \A i \in {events[n].index : n \in {m \in DOMAIN events : events[m].op # "done"}} :
       \E b, e \in DOMAIN events :
         /\ At(events, "start", i) = {b}
         /\ At(events, "stop", i) = {e}
         /\ \A n \in At(events, "delta", i) : b < n /\ n < e

\* No reasoning after text.
Ordered ==
  \A m, n \in DOMAIN delivered :
    m < n /\ Kind(delivered[m]) = "text" => Kind(delivered[n]) # "thinking"

OnlyCalls == delivered # <<>> /\ \A n \in DOMAIN delivered : Kind(delivered[n]) = "tool"

\* The event streams of the Claude and the Responses format are well formed whenever
\* the queue is closed and whatever the parsers made of the tokens, unless the
\* model reasons again after text (generate_claude_stream,
\* generate_responses_stream); a Claude message of tool calls alone is the other
\* exception.
StreamsWellFormed ==
  Ordered => WellFormed(ResponsesStream) /\ (~OnlyCalls => WellFormed(ClaudeStream))

\* A generation that ends tells its client so: a final chunk comes, and each stream
\* has its last event once (parse_thinking_models promises it "to avoid hanging the
\* chunk stream").  Two exceptions: a gpt-oss generation that is not in its format
\* ends without a word, and an Ollama stream that is cut off within reasoning.
EveryEndIsTold ==
  ended /\ ~(family = "harmony" /\ caller.closed) =>
    /\ Finals = {Len(delivered)}
    /\ \A events \in {ChatStream} \cup (IF delivered[Len(delivered)].think THEN {}
                                          ELSE {OllamaStream, OllamaGenerateStream}) :
         {n \in DOMAIN events : events[n].op = "done"} = {Len(events)}

=============================================================================
