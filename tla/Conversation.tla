---------------------------- MODULE Conversation ----------------------------
(***************************************************************************)
(* From a request to its prompt: the content parts of http/chat.rs, the    *)
(* three dialects' conversation (openai.rs, anthropic.rs, responses.rs),   *)
(* Conversation::render, and the images of http/vision.rs.                 *)
(*                                                                         *)
(* A text is a sequence of words.  A pad word stands for one image marker; *)
(* the code's markers are all alike, here each names its image, so that a  *)
(* property can tell which image ended up where.  A call, its tags and       *)
(* arguments included, is one word; so is the markup of a turn with the    *)
(* line break that follows it.  Every other line break is a Blank.         *)
(***************************************************************************)
EXTENDS Text

CONSTANTS
    Pads,          \* markers of images
    LiteralPad,    \* a marker the caller typed, which no image belongs to
    Respelled(_)   \* parameter_value: a call as its parsed arguments are spelled again

Trim(text) == TrimEnd(TrimStart(text))

-----------------------------------------------------------------------------
(* Content::fold *)

NoContent == [ok |-> TRUE, text |-> << >>, thinking |-> << >>, calls |-> << >>,
              results |-> << >>, images |-> << >>]
RefusedContent == [NoContent EXCEPT !.ok = FALSE]

\* What is there, a line break, and the new piece.
Joined(old, new) == IF old = << >> THEN new ELSE old \o <<Blank>> \o new

\* A part of a message or of a tool result.  "other" is one some provider
\* invented; "unreadable" is the caller's material this server cannot read, or
\* an image that does not decode.
FoldPart(f, part) ==
    CASE part.p = "text"       -> [f EXCEPT !.text = Joined(@, part.text)]
      [] part.p = "thinking"   -> [f EXCEPT !.thinking = Joined(@, part.text)]
      [] part.p = "tool_use"   -> [f EXCEPT !.calls = Append(@, part.name)]
      [] part.p = "image"      -> [f EXCEPT !.text = Joined(@, <<part.pad>>),
                                            !.images = Append(@, part.pad)]
      [] part.p = "other"      -> f
      [] part.p = "unreadable" -> [f EXCEPT !.ok = FALSE]

\* fold_blocks: a result may hold no tool blocks of its own.
ToolResult(parts) ==
    LET tools == \E i \in DOMAIN parts : parts[i].p \in {"tool_use", "tool_result"}
    IN  IF tools THEN RefusedContent ELSE FoldLeft(FoldPart, NoContent, parts)

FoldAny(f, part) ==
    IF part.p # "tool_result" THEN FoldPart(f, part)
    ELSE LET r == ToolResult(part.parts)
         IN  [f EXCEPT !.ok = @ /\ r.ok,
                       !.results = Append(@, [text |-> r.text, images |-> r.images])]

Fold(parts) == FoldLeft(FoldAny, NoContent, parts)

-----------------------------------------------------------------------------
(* The conversation in hand.  system is empty for None. *)

NoTurns == [ok |-> TRUE, system |-> << >>, turns |-> << >>, images |-> << >>]
Refused(c) == [c EXCEPT !.ok = FALSE]

User(text) == [t |-> "user", text |-> text]
System(text) == [t |-> "system", text |-> text]
Assistant(reasoning, content, calls) ==
    [t |-> "assistant", reasoning |-> reasoning, content |-> content, calls |-> calls]
Results(texts) == [t |-> "results", texts |-> texts]

PushTurn(c, turn) == [c EXCEPT !.turns = Append(@, turn)]
LastIs(c, t) == c.turns # << >> /\ Last(c.turns).t = t
ChangeLast(c, turn) == [c EXCEPT !.turns = Append(Front(@), turn)]
PushImages(c, images) == [c EXCEPT !.images = @ \o images]

\* Mutation: the images of a result go after the ones already listed.
PushToolResultLate(c, result) ==
    LET d == [c EXCEPT !.images = result.images \o @]
    IN  IF LastIs(c, "results")
        THEN ChangeLast(d, Results(Append(Last(c.turns).texts, result.text)))
        ELSE PushTurn(d, Results(<<result.text>>))

PushToolResult(c, result) ==
    LET d == PushImages(c, result.images)
    IN  IF LastIs(c, "results")
        THEN ChangeLast(d, Results(Append(Last(c.turns).texts, result.text)))
        ELSE PushTurn(d, Results(<<result.text>>))

PushResults(c, results) == FoldLeft(PushToolResult, c, results)

\* get_or_insert_with, and a line break only after a text.
SystemText(c, text) ==
    IF c.turns # << >> THEN PushTurn(c, System(text))
    ELSE [c EXCEPT !.system = <<Joined(IF @ = << >> THEN << >> ELSE @[1], text)>>]

UserText(c, f) ==
    LET d == PushImages(c, f.images) IN IF f.text = << >> THEN d ELSE PushTurn(d, User(f.text))

-----------------------------------------------------------------------------
(* An entry of a request: kind "message" and a role, or an item of the     *)
(* Responses API; parts, and what the dialect carries beside them.  f is   *)
(* the fold of its parts.                                                  *)

OpenAiMessage(c, m, f) ==
    LET d == PushResults(c, f.results)
    IN  IF ~f.ok \/ (f.images # << >> /\ m.role \notin {"user", "tool"}) THEN Refused(c)
        ELSE CASE m.role \in {"system", "developer"} ->
                    \* The texts are joined at the end, with a break between any two.
                    IF d.turns # << >> THEN PushTurn(d, System(f.text))
                    ELSE [d EXCEPT !.system = IF @ = << >> THEN <<f.text>>
                                              ELSE <<@[1] \o <<Blank>> \o f.text>>]
               [] m.role = "user" -> UserText(d, f)
               [] m.role = "assistant" ->
                    PushTurn(d, Assistant(IF m.reasoning = << >> THEN f.thinking ELSE m.reasoning[1],
                                          f.text, m.calls \o f.calls))
               [] m.role = "tool" -> PushToolResult(d, [text |-> f.text, images |-> f.images])
               [] OTHER -> Refused(c)

AnthropicMessage(c, m, f) ==
    LET results == PushResults(c, f.results)
    IN  IF ~f.ok THEN Refused(c)
        ELSE CASE m.role = "user" ->
                    IF f.results # << >> /\ f.text = << >> THEN results
                    ELSE PushTurn(PushImages(results, f.images), User(f.text))
               [] m.role = "assistant" ->
                    IF f.results # << >> \/ f.images # << >> THEN Refused(c)
                    ELSE PushTurn(c, Assistant(f.thinking, f.text, f.calls))
               [] m.role = "tool" ->
                    IF f.text = << >> THEN results
                    ELSE PushToolResult(results, [text |-> f.text, images |-> f.images])
               [] m.role \in {"system", "developer"} -> SystemText(c, f.text)
               [] OTHER -> Refused(c)

ReplayedCall(c, m) ==
    IF LastIs(c, "assistant")
    THEN ChangeLast(c, [Last(c.turns) EXCEPT !.calls = @ \o m.calls])
    ELSE PushTurn(c, Assistant(<< >>, << >>, m.calls))

ReplayedReasoning(c, f) ==
    LET thinking == IF f.thinking = << >> THEN f.text
                    ELSE IF f.text = << >> THEN f.thinking ELSE Joined(f.thinking, f.text)
    IN  IF ~f.ok THEN Refused(c)
        ELSE IF thinking = << >> THEN c
        ELSE IF LastIs(c, "assistant") /\ Last(c.turns).reasoning = << >>
        THEN ChangeLast(c, [Last(c.turns) EXCEPT !.reasoning = thinking])
        ELSE PushTurn(c, Assistant(thinking, << >>, << >>))

AssistantItem(c, f) ==
    IF LastIs(c, "assistant")
    THEN ChangeLast(c, [Last(c.turns) EXCEPT
            !.reasoning = IF @ = << >> THEN f.thinking ELSE @,
            !.content = IF f.text = << >> THEN @ ELSE Joined(@, f.text),
            !.calls = @ \o f.calls])
    ELSE PushTurn(c, Assistant(f.thinking, f.text, f.calls))

MessageItem(c, m, f) ==
    LET d == PushResults(c, f.results)
    IN  IF ~f.ok \/ (f.images # << >> /\ m.role # "user") THEN Refused(c)
        ELSE CASE m.role \in {"system", "developer"} -> SystemText(d, f.text)
               [] m.role = "user" -> UserText(d, f)
               [] m.role = "assistant" -> AssistantItem(d, f)
               [] OTHER -> Refused(c)

\* "trace" is an item of work a provider did, "reference" one held elsewhere.
ResponsesItem(c, m, f) ==
    CASE m.kind = "message" -> MessageItem(c, m, f)
      [] m.kind = "function_call" -> ReplayedCall(c, m)
      [] m.kind = "function_call_output" ->
            LET r == ToolResult(m.parts)
            IN  IF r.ok THEN PushToolResult(c, [text |-> r.text, images |-> r.images])
                ELSE Refused(c)
      [] m.kind = "reasoning" -> ReplayedReasoning(c, f)
      [] m.kind = "trace" -> c
      [] m.kind = "reference" -> Refused(c)

\* The first refusal ends it, and a request without a turn is refused.
ConversationOf(dialect, entries) ==
    LET entry(c, m) == IF ~c.ok THEN c
                       ELSE CASE dialect = "openai" -> OpenAiMessage(c, m, Fold(m.parts))
                              [] dialect = "anthropic" -> AnthropicMessage(c, m, Fold(m.parts))
                              [] dialect = "responses" -> ResponsesItem(c, m, Fold(m.parts))
        c == FoldLeft(entry, NoTurns, entries)
    IN  IF c.turns = << >> THEN Refused(c) ELSE c

-----------------------------------------------------------------------------
(* Conversation::render *)

\* A user turn that is one tool response is not a question.
IsQuery(turn) ==
    turn.t = "user" /\ LET text == Trim(turn.text)
                       IN  ~(text # << >> /\ Head(text) = "<tool_response>"
                             /\ Last(text) = "</tool_response>")

LastQuery(turns) ==
    LET queries == {i \in DOMAIN turns : IsQuery(turns[i])}
    IN  IF queries = {} THEN Len(turns) ELSE CHOOSE i \in queries : \A j \in queries : j <= i

Paragraph == <<Blank, Blank>>

\* The calls, a line each, set off from a content.
RenderCalls(content, calls) ==
    (IF content # << >> /\ calls # << >> THEN Paragraph ELSE << >>)
    \o FlattenSeq([i \in DOMAIN calls |-> (IF i > 1 THEN <<Blank>> ELSE << >>) \o <<calls[i]>>])

ThinkEnd == <<Blank, "</think>">> \o Paragraph

RenderTurn(turn, replays) ==
    CASE turn.t = "user" -> <<"<user>">> \o Trim(turn.text) \o <<"<end>">>
      [] turn.t = "system" -> <<"<system>">> \o Trim(turn.text) \o <<"<end>">>
      [] turn.t = "assistant" ->
            <<"<assistant>">>
            \o (IF replays THEN <<"<think>">> \o Trim(turn.reasoning) \o ThinkEnd ELSE << >>)
            \o Trim(turn.content)
            \o RenderCalls(Trim(turn.content), [i \in DOMAIN turn.calls |-> Respelled(turn.calls[i])])
            \o <<"<end>">>
      [] turn.t = "results" ->
            <<"<user>">>
            \o FlattenSeq([i \in DOMAIN turn.texts |->
                  <<"<tool_response>">> \o Trim(turn.texts[i]) \o <<"</tool_response>">>])
            \o <<"<end>">>

Render(c, tools, thinking) ==
    LET system == IF c.system = << >> THEN << >> ELSE Trim(c.system[1])
        last == LastQuery(c.turns)
    IN  (IF tools THEN <<"<system>", "# Tools">> \o system \o <<"<end>">>
         ELSE IF system = << >> THEN << >> ELSE <<"<system>">> \o system \o <<"<end>">>)
        \o FlattenSeq([i \in DOMAIN c.turns |-> RenderTurn(c.turns[i], i > last)])
        \o <<"<assistant>", "<think>">> \o (IF thinking THEN << >> ELSE ThinkEnd)

\* expand_images: pads and images are paired in order.
IsPad(word) == word \in Pads \cup {LiteralPad}
PadsIn(prompt) == SelectSeq(prompt, IsPad)
ExpandAccepts(prompt, images) == images = << >> \/ Len(PadsIn(prompt)) <= Len(images)

=============================================================================
