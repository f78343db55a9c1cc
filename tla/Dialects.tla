------------------------------ MODULE Dialects ------------------------------
(***************************************************************************)
(* A client in a tool loop, in each of the three dialects: it sends its    *)
(* history, reads the response as a stream or in one piece, appends what   *)
(* it was given and the results of its tools, and sends the history again. *)
(* The handlers are openai.rs, anthropic.rs and responses.rs of            *)
(* crates/xabe-server/src/http; Generation.tla makes the chunks.           *)
(***************************************************************************)
EXTENDS Conversation, FiniteSets

CONSTANTS
    Openings,        \* requests: dialect, entries, tools, whether to serve, and the
                     \* white space the model ends a piece of text in
    CallNames,       \* tools of the model, group.member for a namespaced one
    Member(_),       \* its name without the group
    MaxChunks,       \* bound: chunks of the first response, one less in each after
    MaxRounds        \* bound: requests of a client, the last only rendered

VARIABLES
    opening, streaming, thinking,  \* the request's shape
    history,         \* entries the client holds
    asked,           \* prompt and images of the request, and whether refused
    stage,           \* "ask", "refused", "serve", "rendered", "ended", "failed"
    chunks,          \* what generation.next returned
    wire,            \* events sent, or the one response object
    blocks,          \* the handler's locals: open, index, calls
    round,
    before           \* history: prompt and output of the request before, and whether
                     \* the model spelled it as the template does; empty if a
                     \* question came between

talkVars == <<opening, streaming, thinking, history, asked, stage, chunks, wire, blocks, round,
              before>>

dialect == opening.dialect
Nothing == "none"

Entry == [kind |-> "message", role |-> "", parts |-> << >>, reasoning |-> << >>, calls |-> << >>]

-----------------------------------------------------------------------------
(* Generation::collect *)

Of(kind) == SelectSeq(chunks, LAMBDA c : c.k = kind)
TextOf(kind) == FlattenSeq([i \in DOMAIN Of(kind) |-> Of(kind)[i].text])
CallsOf == [i \in DOMAIN Of("call") |-> Of("call")[i].name]

\* The events of one chunk.  A block is opened by its first delta, and closed by
\* a delta of another kind or a call, which is a block of its own.
Start(i, kind) == [e |-> "start", i |-> i, kind |-> kind, text |-> << >>]
Delta(i, kind, text) == [e |-> "delta", i |-> i, kind |-> kind, text |-> text]
Sign(i) == [e |-> "sign", i |-> i, kind |-> "thinking", text |-> << >>]
Stop(i, kind, text) == [e |-> "stop", i |-> i, kind |-> kind, text |-> text]

\* Mutation: the open block is taken before it is looked at.
CloseUnsigned(open, i) == IF open = Nothing THEN << >> ELSE <<Stop(i, open, << >>)>>

\* close_block: a thinking block is signed.
CloseBlock(open, i) ==
    IF open = Nothing THEN << >>
    ELSE (IF open = "reasoning" THEN <<Sign(i)>> ELSE << >>) \o <<Stop(i, open, << >>)>>

\* The done events of an item carry all the text of their kind so far.
CloseItem(open, i) == IF open = Nothing THEN << >> ELSE <<Stop(i, open, TextOf(open))>>

Closing(open, i) == IF dialect = "anthropic" THEN CloseBlock(open, i) ELSE CloseItem(open, i)

NextIndex == blocks.index + (IF blocks.open = Nothing THEN 0 ELSE 1)

\* openai.rs: no blocks; calls are counted.
Deltas(c) ==
    <<Delta(IF c.k = "call" THEN blocks.calls ELSE 0, c.k, IF c.k = "call" THEN <<c.name>> ELSE c.text)>>

\* Mutation: the index stays where a call closed a block.
EventsSameIndex(c) ==
    IF dialect = "openai" THEN Deltas(c)
    ELSE Closing(blocks.open, blocks.index)
         \o (IF c.k = "call"
             THEN <<Start(blocks.index, "call"), Delta(blocks.index, "call", <<c.name>>),
                    Stop(blocks.index, "call", <<c.name>>)>>
             ELSE <<Start(NextIndex, c.k), Delta(NextIndex, c.k, c.text)>>)

\* A call's name goes out as the wire carries it (split_namespace), the rest of
\* the chunk as it is.
Events(c) ==
    CASE dialect = "openai" -> Deltas(c)
      [] c.k = "call" ->
            LET name == <<IF dialect = "responses" THEN Member(c.name) ELSE c.name>>
            IN  Closing(blocks.open, blocks.index)
                \o <<Start(NextIndex, "call"), Delta(NextIndex, "call", name),
                     Stop(NextIndex, "call", name)>>
      [] c.k = blocks.open -> <<Delta(blocks.index, c.k, c.text)>>
      [] OTHER -> Closing(blocks.open, blocks.index)
                  \o <<Start(NextIndex, c.k), Delta(NextIndex, c.k, c.text)>>

BlocksAfter(c) ==
    CASE c.k = "call" -> [open |-> Nothing, index |-> NextIndex + 1, calls |-> blocks.calls + 1]
      [] c.k = blocks.open -> blocks
      [] OTHER -> [blocks EXCEPT !.open = c.k, !.index = NextIndex]

\* The end of a stream.  A message of Anthropic's has at least one block.
LastEvents ==
    CASE dialect = "openai" -> << >>
      [] dialect = "anthropic" ->
            IF blocks.open = Nothing /\ blocks.index = 0
            THEN <<Start(0, "text")>> \o CloseBlock("text", 0)
            ELSE CloseBlock(blocks.open, blocks.index)
      [] dialect = "responses" -> CloseItem(blocks.open, blocks.index)

-----------------------------------------------------------------------------
(* The response object, and the last event of a Responses stream. *)

Block(kind, text) == [kind |-> kind, text |-> text]
NonEmpty(kind) == IF TextOf(kind) = << >> THEN << >> ELSE <<Block(kind, TextOf(kind))>>
CallBlocks ==
    [i \in DOMAIN CallsOf |->
        Block("call", <<IF dialect = "responses" THEN Member(CallsOf[i]) ELSE CallsOf[i]>>)]

\* content_blocks: Anthropic's array holds no empty text beside anything else,
\* and is never empty.
ContentBlocks ==
    LET all == NonEmpty("reasoning") \o NonEmpty("text") \o CallBlocks
    IN  IF all = << >> THEN <<Block("text", << >>)>> ELSE all

\* The fields of OpenAI's message: a text where there is no call.
MessageFields ==
    LET text == IF CallsOf = << >> THEN <<Block("text", TextOf("text"))>> ELSE NonEmpty("text")
    IN  NonEmpty("reasoning") \o text \o CallBlocks

\* The output of a Responses object follows the same rule.
ResponseObject == IF dialect = "anthropic" THEN ContentBlocks ELSE MessageFields

-----------------------------------------------------------------------------
(* The client: what it makes of a response, as these APIs' clients do.     *)

\* Deltas are appended to the block of their index; a thinking block without a
\* signature is dropped.
BlockAt(i) ==
    LET own == SelectSeq(wire, LAMBDA e : e.i = i)
        deltas == SelectSeq(own, LAMBDA e : e.e = "delta")
    IN  [kind |-> own[1].kind, text |-> FlattenSeq([j \in DOMAIN deltas |-> deltas[j].text]),
         signed |-> \E j \in DOMAIN own : own[j].e = "sign"]

Kept(b) == dialect = "anthropic" /\ b.kind = "reasoning" => b.signed
Gathered ==
    LET n == Cardinality({wire[j].i : j \in DOMAIN wire})
    IN  SelectSeq([i \in 1..n |-> BlockAt(i - 1)], Kept)

\* OpenAI's deltas are appended to the field they are for, calls to a list.
Field(kind) ==
    LET own == SelectSeq(wire, LAMBDA e : e.kind = kind)
    IN  FlattenSeq([j \in DOMAIN own |-> own[j].text])

Message ==
    IF ~streaming THEN ResponseObject
    ELSE IF dialect # "openai" THEN Gathered
    ELSE (IF Field("reasoning") = << >> THEN << >> ELSE <<Block("reasoning", Field("reasoning"))>>)
         \o <<Block("text", Field("text"))>>
         \o [j \in DOMAIN Field("call") |-> Block("call", <<Field("call")[j]>>)]

Worded(kind) ==
    LET own == SelectSeq(Message, LAMBDA b : b.kind = kind)
    IN  FlattenSeq([j \in DOMAIN own |-> own[j].text])

AsPart(b) ==
    CASE b.kind = "reasoning" -> [p |-> "thinking", text |-> b.text]
      [] b.kind = "text" -> [p |-> "text", text |-> b.text]
      [] b.kind = "call" -> [p |-> "tool_use", name |-> b.text[1]]

AsItem(b) ==
    CASE b.kind = "reasoning" -> [Entry EXCEPT !.kind = "reasoning", !.parts = <<AsPart(b)>>]
      [] b.kind = "text" -> [Entry EXCEPT !.role = "assistant", !.parts = <<AsPart(b)>>]
      [] b.kind = "call" -> [Entry EXCEPT !.kind = "function_call", !.calls = b.text]

\* The response as entries of the next request.
Replayed ==
    CASE dialect = "openai" ->
            <<[Entry EXCEPT !.role = "assistant", !.calls = Worded("call"),
                            !.parts = <<[p |-> "text", text |-> Worded("text")]>>,
                            !.reasoning = IF Worded("reasoning") = << >> THEN << >>
                                          ELSE <<Worded("reasoning")>>]>>
      [] dialect = "anthropic" ->
            <<[Entry EXCEPT !.role = "assistant", !.parts = [j \in DOMAIN Message |-> AsPart(Message[j])]]>>
      [] dialect = "responses" -> [j \in DOMAIN Message |-> AsItem(Message[j])]

\* Images in the parts of an entry, those of its results too.
ImagesIn(parts) ==
    {parts[i].pad : i \in {j \in DOMAIN parts : parts[j].p = "image"}}
ImagesOf(m) ==
    ImagesIn(m.parts)
    \cup UNION {ImagesIn(m.parts[i].parts) : i \in {j \in DOMAIN m.parts : m.parts[j].p = "tool_result"}}

Said(text) == <<[p |-> "text", text |-> text]>>
ToolParts(pad) == IF pad = Nothing THEN Said(<<"o">>) ELSE <<[p |-> "image", pad |-> pad]>>

\* The results of the calls; the first may be an image.
ToolEntries(n, pad) ==
    LET parts(i) == ToolParts(IF i = 1 THEN pad ELSE Nothing)
    IN  CASE dialect = "openai" -> [i \in 1..n |-> [Entry EXCEPT !.role = "tool", !.parts = parts(i)]]
          [] dialect = "anthropic" ->
                <<[Entry EXCEPT !.role = "user",
                     !.parts = [i \in 1..n |-> [p |-> "tool_result", parts |-> parts(i)]]]>>
          [] dialect = "responses" ->
                [i \in 1..n |-> [Entry EXCEPT !.kind = "function_call_output", !.parts = parts(i)]]

-----------------------------------------------------------------------------

\* Requests are rendered, and refused, before anything else happens.
Requested(entries) ==
    LET c == ConversationOf(dialect, entries)
        prompt == Render(c, opening.tools, thinking)
    IN  [ok |-> c.ok /\ ExpandAccepts(prompt, c.images),
         prompt |-> IF c.ok THEN prompt ELSE << >>, images |-> c.images]

TalkInit ==
    /\ opening \in Openings /\ streaming \in BOOLEAN /\ thinking \in BOOLEAN
    /\ opening.serve \/ ~streaming
    /\ history = opening.entries
    /\ asked = [ok |-> FALSE, prompt |-> << >>, images |-> << >>]
    /\ stage = "ask" /\ chunks = << >> /\ wire = << >>
    /\ blocks = [open |-> Nothing, index |-> 0, calls |-> 0]
    /\ round = 0 /\ before = << >>

\* The handler up to Generation::start.
Ask ==
    /\ stage = "ask" /\ round < MaxRounds
    /\ asked' = Requested(history)
    /\ stage' = IF ~asked'.ok THEN "refused"
                ELSE IF opening.serve /\ round + 1 < MaxRounds THEN "serve" ELSE "rendered"
    /\ round' = round + 1
    /\ chunks' = << >> /\ wire' = << >>
    /\ blocks' = [open |-> Nothing, index |-> 0, calls |-> 0]
    /\ UNCHANGED <<opening, streaming, thinking, history, before>>

\* Reasoning comes first, calls only where tools are offered.
Possible(c) ==
    /\ c.k = "reasoning" => thinking /\ \A i \in DOMAIN chunks : chunks[i].k = "reasoning"
    /\ c.k = "call" => opening.tools

AllChunks ==
    {[k |-> "reasoning", text |-> <<"r", Blank>>], [k |-> "text", text |-> <<"t">> \o opening.ends]}
    \cup {[k |-> "call", name |-> n] : n \in CallNames}

Serve(c) ==
    /\ stage = "serve" /\ Len(chunks) <= MaxChunks - round /\ Possible(c)
    /\ chunks' = Append(chunks, c)
    /\ wire' = IF streaming THEN wire \o Events(c) ELSE wire
    /\ blocks' = BlocksAfter(c)
    /\ UNCHANGED <<opening, streaming, thinking, history, asked, stage, round, before>>

EndResponse ==
    /\ stage = "serve"
    /\ stage' = "ended"
    /\ wire' = IF streaming THEN wire \o LastEvents ELSE wire
    /\ UNCHANGED <<opening, streaming, thinking, history, asked, chunks, blocks, round, before>>

\* generation.next returns an error: an error event, whatever is open.
FailResponse ==
    /\ stage = "serve"
    /\ stage' = "failed"
    /\ UNCHANGED <<opening, streaming, thinking, history, asked, chunks, wire, blocks, round, before>>

\* The turn as the model wrote it: the spans as they came, and the white space
\* that generation drops behind `</think>` and between calls, as the template has it.
Output ==
    TextOf("reasoning") \o (IF thinking THEN <<"</think>">> \o Paragraph ELSE << >>)
    \o TextOf("text") \o FoldLeft(Joined, << >>, [i \in DOMAIN CallsOf |-> <<CallsOf[i]>>])

\* The spans end in the white space that the template puts there before calls.
Canonical ==
    /\ thinking => TextOf("reasoning") = Trim(TextOf("reasoning")) \o <<Blank>>
    /\ TextOf("text") # << >> => TextOf("text") = Trim(TextOf("text")) \o Paragraph

\* The model wrote text after a call, or called a tool of a namespace.
TextAfterCall == \E i, j \in DOMAIN chunks : i < j /\ chunks[i].k = "call" /\ chunks[j].k = "text"
CalledNamespace == dialect = "responses" /\ \E i \in DOMAIN CallsOf : Member(CallsOf[i]) # CallsOf[i]

GoOn(entries, loops) ==
    /\ stage = "ended" /\ round < MaxRounds
    /\ stage' = "ask"
    /\ history' = history \o Replayed \o entries
    /\ before' = IF loops /\ ~TextAfterCall /\ ~CalledNamespace
                 THEN <<[text |-> asked.prompt \o Output, canonical |-> Canonical]>>
                 ELSE << >>
    /\ UNCHANGED <<opening, streaming, thinking, asked, chunks, wire, blocks, round>>

UnusedPad == CHOOSE pad \in Pads : \A i \in DOMAIN history : pad \notin ImagesOf(history[i])

AnswerCalls(pad) ==
    /\ CallsOf # << >>
    /\ GoOn(ToolEntries(Len(CallsOf), pad), TRUE)
AskAgain == GoOn(<<[Entry EXCEPT !.role = "user", !.parts = Said(<<"q">>)]>>, FALSE)

TalkNext ==
    \/ Ask
    \/ \E c \in AllChunks : Serve(c)
    \/ EndResponse \/ FailResponse
    \/ AnswerCalls(Nothing) \/ AnswerCalls(UnusedPad)
    \/ AskAgain

-----------------------------------------------------------------------------
(* Properties *)

CountOf(what, n) == Cardinality({j \in 1..n : wire[j].e = what})

\* One block at a time, under consecutive indexes from 0; deltas inside it; a
\* thinking block signed just before it is closed.
BlocksInOrder ==
    \A j \in DOMAIN wire :
        LET opened == CountOf("start", j - 1)
            closed == CountOf("stop", j - 1)
        IN  IF wire[j].e = "start" THEN opened = closed /\ wire[j].i = opened
            ELSE /\ opened = closed + 1 /\ wire[j].i = opened - 1
                 /\ dialect = "anthropic" /\ wire[j].e = "stop" /\ wire[j].kind = "reasoning" =>
                        wire[j - 1].e = "sign"

\* A stream that ended gave its client the reasoning, the text and the calls a
\* response in one piece has, in blocks that follow their protocol; and the done
\* events of a Responses stream list the items its last event does.  Exceptions
\* for the latter: text after a call, whose item repeats the text before it and
\* is moved, and a response without either, whose empty message has no events.
StreamIsCollected ==
    streaming /\ stage = "ended" =>
        /\ Worded("reasoning") = TextOf("reasoning") /\ Worded("text") = TextOf("text")
        /\ Len(Worded("call")) = Len(CallsOf)
        /\ dialect # "openai" =>
               BlocksInOrder /\ CountOf("start", Len(wire)) = CountOf("stop", Len(wire))
        /\ dialect = "responses" /\ ~TextAfterCall /\ TextOf("text") \o CallsOf # << >> =>
               LET done == SelectSeq(wire, LAMBDA e : e.e = "stop")
               IN  [j \in DOMAIN done |-> Block(done[j].kind, done[j].text)] = ResponseObject

\* What a prompt says: its white space, the end of a reasoning that render adds,
\* and the spelling of a call's arguments aside.
IsSaid(word) == word \notin {Blank, "</think>"}
Saying(prompt) == LET words == SelectSeq(prompt, IsSaid) IN [i \in DOMAIN words |-> Respelled(words[i])]

\* A client that answers the model's calls and sends the whole history again
\* shows the model everything it was shown and everything it made of it, its
\* reasoning included, once and in order, before the results.  That is so up to
\* what render changes: it trims a span, sets it off anew, ends a reasoning that
\* a call broke off, and spells a call's arguments again.  Where the model wrote
\* its turn as the template would, and no call is spelled differently, the
\* prompt begins with the last one and the turn character for character.  It is
\* a claim about text: how either is cut into tokens, which decides what the
\* prefix cache finds, is outside of it.  Exceptions: text after a call, which
\* render puts before it, and the calls of a namespace, which come back without
\* their group (responses.rs has no field for it).
LoopExtendsPrompt ==
    stage \in {"serve", "rendered"} =>
        \A i \in DOMAIN before :
            /\ IsPrefix(Saying(before[i].text), Saying(asked.prompt))
            /\ before[i].canonical /\ (\A j \in DOMAIN before[i].text :
                                        Respelled(before[i].text[j]) = before[i].text[j]) =>
                   IsPrefix(before[i].text, asked.prompt)

\* Where an image is dropped rather than refused: a system message of
\* Anthropic's, and a reasoning item.
Drops(m) ==
    \/ dialect = "anthropic" /\ m.role \in {"system", "developer"}
    \/ m.kind \in {"reasoning", "trace"}

\* Of an accepted request with images, every image the client sent is in the
\* list once, and the i-th marker of the prompt is the i-th image's: results
\* before the text beside them, whatever roles, parts and replayed turns there
\* are.
ImagesPlaced ==
    stage \in {"serve", "rendered"} =>
        /\ asked.images # << >> => PadsIn(asked.prompt) = asked.images
        /\ ToSet(asked.images) =
               UNION {ImagesOf(history[i]) : i \in {j \in DOMAIN history : ~Drops(history[j])}}
        /\ Len(asked.images) = Cardinality(ToSet(asked.images))

=============================================================================
