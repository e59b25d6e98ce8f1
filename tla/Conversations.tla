--------------------------- MODULE Conversations ---------------------------
(***************************************************************************)
(* From a request to a prompt.  Each of the APIs that exo speaks writes a  *)
(* conversation in its own way; an adapter (api/adapters) turns the        *)
(* messages into those of a chat template and collects the pictures, and   *)
(* apply_chat_template (worker/engines/mlx/utils_mlx.py) puts the messages *)
(* of the system first, and leaves the turn of an assistant open who is    *)
(* the last to speak.  Pictures travel by themselves: the k-th place that  *)
(* the prompt keeps for a picture is filled with the k-th picture.         *)
(*                                                                         *)
(* A message is its role, the form of its content and its blocks; a block  *)
(* is only known by its kind and by where it is in the conversation.       *)
(***************************************************************************)
EXTENDS Integers, Sequences, SequencesExt, FiniteSetsExt

CONSTANTS
  Dialects,     \* the APIs, see Inputs
  MaxMessages

VARIABLES
  dialect,
  said,         \* the messages of the request so far
  template,     \* chat_template_messages
  pictures,     \* images
  hasImages,    \* has_images, which responses.py keeps from one message to the next
  prompt        \* the blocks of the prompt, or why there is none

tvars == <<dialect, said, template, pictures, hasImages, prompt>>

ConversationsAssumption ==
  /\ Dialects \subseteq {"chat", "claude", "ollama", "generate", "responses", "plain"}
  /\ MaxMessages \in Nat

-----------------------------------------------------------------------------
(* What clients say.  "blank": a picture without a URL, "lost": one that      *)
(* cannot be fetched, "shown": the result of a tool that has a picture in it. *)

Message(role, form, blocks) == [role |-> role, form |-> form, blocks |-> blocks]

Strings(roles) == {Message(r, "string", <<"text">>) : r \in roles}

Lists(roles, bs) == {Message(r, "list", b) : r \in roles, b \in bs}

Inputs ==
  CASE dialect = "chat" ->
         Strings({"system", "user", "assistant", "developer", "tool"})
           \cup Lists({"system", "user", "assistant", "developer", "tool"},
                      {<<"text", "image">>, <<"image", "text", "image">>, <<"image", "blank">>, <<"blank">>})
           \cup {Message("user", "object", <<"image">>), Message("user", "none", <<>>),
                 Message("assistant", "none", <<"call", "call">>), Message("assistant", "list", <<"image", "call">>),
                 Message("assistant", "string", <<"text", "call">>)}
    [] dialect = "claude" ->
         Strings(IF said = <<>> THEN {"system", "user", "assistant"} ELSE {"user", "assistant"})
           \cup Lists({"user"}, {<<"text", "image">>, <<"image", "lost">>, <<"lost", "text">>, <<"result", "result">>,
                                 <<"result", "text">>, <<"shown">>})
           \cup Lists({"assistant"}, {<<"text", "call", "call">>, <<"call">>, <<"image", "call">>})
    [] dialect = "ollama" ->
         Strings({"system", "user", "assistant", "tool"})
           \cup Lists({"system", "user", "assistant"}, {<<"image", "text">>, <<"image", "image">>})
           \cup Lists({"assistant"}, {<<"text", "call">>, <<"call", "call">>, <<"image", "call">>})
    [] dialect = "responses" ->
         Strings({"system", "user", "assistant", "developer"})
           \cup Lists({"system", "user", "developer"}, {<<"text", "image">>, <<"image", "blank">>, <<"blank", "text">>})
           \cup {Message("item", k, <<k>>) : k \in {"call", "result", "thinking", "summary", "reference"}}
    [] OTHER ->
         IF said = <<>> THEN Strings({"system", "user"}) \cup Lists(IF dialect = "generate" THEN {"user"} ELSE {},
                                                                    {<<"image", "text">>, <<"image">>})
         ELSE IF Last(said).role = "system" THEN Strings({"user"}) ELSE {}

-----------------------------------------------------------------------------
(* The adapters. *)

\* The blocks of the i-th message that are of some kinds.
Of(m, i, kinds) ==
  LET at == SetToSortSeq({j \in DOMAIN m.blocks : m.blocks[j] \in kinds}, <)
  IN  [k \in DOMAIN at |-> [at |-> <<i, at[k]>>, kind |-> m.blocks[at[k]]]]

Has(m, kinds) == \E j \in DOMAIN m.blocks : m.blocks[j] \in kinds

\* A message of the template: list says that its content is one of parts.
Entry(role, list, content, calls) ==
  [role |-> role, list |-> list, content |-> content, calls |-> calls]

Written(m, i) == Entry(m.role, FALSE, Of(m, i, {"text"}), Of(m, i, {"call"}))

Unsaid(m) == m.form = "none" /\ ~Has(m, {"call"})

ChatMessages(m, i) ==
  IF m.role = "system" THEN <<Written(m, i)>>
  ELSE IF Unsaid(m) THEN <<>>
  ELSE IF Has(m, {"image"})
  THEN <<Entry(m.role, TRUE, Of(m, i, {"text", "image", "blank"}), <<>>)>>
  ELSE <<Written(m, i)>>

ClaudeMessages(m, i) ==
  LET results == Of(m, i, {"result", "shown"})
  IN  IF Has(m, {"call"})
      THEN <<Entry("assistant", FALSE, Of(m, i, {"text"}), Of(m, i, {"call"}))>>
      ELSE IF results # <<>>
      THEN [k \in DOMAIN results |-> Entry("tool", FALSE, <<results[k]>>, <<>>)]
      ELSE IF Has(m, {"image"})
      THEN <<Entry(m.role, TRUE, Of(m, i, {"text", "image", "lost"}), <<>>)>>
      ELSE <<Written(m, i)>>

\* The pictures of a message come before its text.
OllamaMessages(m, i) ==
  IF m.role # "system" /\ Has(m, {"image"})
  THEN <<Entry(m.role, TRUE, Of(m, i, {"image"}) \o Of(m, i, {"text"}), <<>>)>>
  ELSE <<Written(m, i)>>

GenerateMessages(m, i) ==
  IF Has(m, {"image"}) THEN <<Entry("user", TRUE, Of(m, i, {"image"}) \o Of(m, i, {"text"}), <<>>)>>
  ELSE <<Written(m, i)>>

\* _append_tool_call: to what the assistant said last.
AppendToolCall(msgs, call) ==
  IF msgs # <<>> /\ Last(msgs).role = "assistant" /\ ~Last(msgs).list
  THEN [msgs EXCEPT ![Len(msgs)].calls = Append(@, call)]
  ELSE Append(msgs, Entry("assistant", FALSE, <<>>, <<call>>))

ResponsesItem(msgs, m, i) ==
  LET block == Of(m, i, {m.form})
  IN  CASE m.form = "call" -> AppendToolCall(msgs, block[1])
        [] m.form = "result" -> Append(msgs, Entry("tool", FALSE, block, <<>>))
        [] m.form = "thinking" -> Append(msgs, Entry("assistant", FALSE, block, <<>>))
        [] m.form = "summary" -> Append(msgs, Entry("system", FALSE, block, <<>>))
        [] m.form = "reference" -> msgs

\* A message after a picture of the system's is taken for one of parts.
ResponsesMessage(m, i, has) ==
  IF m.role # "system" /\ has
  THEN Entry(m.role, TRUE, IF m.form = "list" THEN Of(m, i, {"text", "image", "blank"}) ELSE <<>>, <<>>)
  ELSE Written(m, i)

ResponsesMessages(msgs, m, i, has) ==
  IF m.role = "item" THEN ResponsesItem(msgs, m, i) ELSE Append(msgs, ResponsesMessage(m, i, has))

\* The pictures that an adapter finds.
Found(m, i) == Of(m, i, {"image", "shown"})

\* One message of the request is read.
Convert(m) ==
  LET i == Len(said) + 1
      has == hasImages \/ Has(m, {"image"})
  IN  /\ prompt = <<"none">>
      /\ Len(said) < MaxMessages
      /\ said' = Append(said, m)
      /\ pictures' = pictures \o Found(m, i)
      /\ template' =
           CASE dialect = "chat" -> template \o ChatMessages(m, i)
             [] dialect = "claude" -> template \o ClaudeMessages(m, i)
             [] dialect = "ollama" -> template \o OllamaMessages(m, i)
             [] dialect = "generate" -> template \o GenerateMessages(m, i)
             [] dialect = "responses" -> ResponsesMessages(template, m, i, has)
             [] dialect = "plain" -> Append(template, Written(m, i))
      /\ hasImages' = (dialect = "responses" /\ has /\ m.role \in {"system", "item"})
      \* A picture that is the whole content, and not part of a list, fails an assertion.
      /\ prompt' = IF m.form = "object" THEN <<"refused">> ELSE prompt
      /\ UNCHANGED dialect

-----------------------------------------------------------------------------
(* The prompt. *)

IsSystem(e) == e.role \in {"system", "developer"}

Pieces(entries) == FlattenSeq([k \in DOMAIN entries |-> entries[k].content \o entries[k].calls])

\* consolidate_system_messages
Consolidated ==
  LET systems == SelectSeq(template, IsSystem)
      others == SelectSeq(template, LAMBDA e : ~IsSystem(e))
      content == FlattenSeq([k \in DOMAIN systems |-> systems[k].content])
  IN  IF content = <<>> THEN others ELSE <<Entry("system", FALSE, content, <<>>)>> \o others

\* The content of the system, and of an assistant whose turn is left open, is a string.
NotAString ==
  \/ \E k \in DOMAIN template : IsSystem(template[k]) /\ template[k].list /\ template[k].content # <<>>
  \/ Last(Consolidated).role = "assistant" /\ Last(Consolidated).list /\ Last(Consolidated).content # <<>>

\* Of an open turn only the content is kept.
OpenTurn(e) == e.content

Rendered ==
  LET msgs == Consolidated
  IN  IF Last(msgs).role = "assistant" THEN Pieces(Front(msgs)) \o OpenTurn(Last(msgs)) ELSE Pieces(msgs)

\* apply_chat_template and render_chat_template
Render ==
  /\ prompt = <<"none">>
  /\ template # <<>>
  /\ prompt' = IF Consolidated = <<>> THEN <<"done", <<>>>>
               ELSE IF NotAString THEN <<"refused">> ELSE <<"done", Rendered>>
  /\ UNCHANGED <<dialect, said, template, pictures, hasImages>>

TInit ==
  /\ dialect \in Dialects
  /\ said = <<>> /\ template = <<>> /\ pictures = <<>>
  /\ hasImages = FALSE /\ prompt = <<"none">>

TNext == Render \/ \E m \in Inputs : Convert(m)

TSpec == TInit /\ [][TNext]_tvars

-----------------------------------------------------------------------------
\* What the adapters cannot express: a picture in a message of the system's, beside one
\* that is missing, or in the turn in which an assistant calls a tool; in Claude's dialect
\* anything beside the result of a tool; and the calls of an assistant who speaks last.
Lossy(m) ==
  \/ m.role = "system" /\ Has(m, {"image"})
  \/ Has(m, {"image"}) /\ Has(m, {"blank", "lost", "call"})
  \/ Has(m, {"result", "shown"}) /\ Has(m, {"text", "shown"})

LeftOpen ==
  LET msgs == Consolidated
  IN  msgs # <<>> /\ Last(msgs).role = "assistant" /\ Last(msgs).calls # <<>>

OfSystem(piece) ==
  LET m == said[piece.at[1]] IN m.role \in {"system", "developer"} \/ m.form = "summary"

Earlier(a, b) == a.at[1] < b.at[1] \/ (a.at[1] = b.at[1] /\ a.at[2] < b.at[2])

\* Everything that was said is in the prompt once, the words of the system first and the
\* rest in the order in which it was said; and each picture is where its client put it.
PromptIsFaithful ==
  prompt[1] = "done" /\ ~LeftOpen /\ (\A i \in DOMAIN said : ~Lossy(said[i])) =>
    LET p == prompt[2]
        places == SelectSeq(p, LAMBDA x : x.kind \in {"image", "blank", "lost"})
    IN  /\ places = pictures
        /\ \A i \in DOMAIN said : \A j \in DOMAIN said[i].blocks :
             said[i].blocks[j] \notin {"blank", "lost", "reference"} =>
               \E k \in DOMAIN p : p[k].at = <<i, j>>
        /\ \A k, l \in DOMAIN p : k < l =>
             IF OfSystem(p[k]) = OfSystem(p[l]) THEN Earlier(p[k], p[l]) ELSE OfSystem(p[k])
=============================================================================
