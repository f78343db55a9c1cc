----------------------------- MODULE Generation -----------------------------
(***************************************************************************)
(* From tokens to the response, crates/xabe-server/src/http/generate.rs:   *)
(* the incremental detokenizer, the reasoning span, stop sequences, and    *)
(* the tool parser behind them.  One action is what Generation::next does  *)
(* with one event of its channel.  Server.tla models the channel and the   *)
(* request guard.                                                          *)
(*                                                                         *)
(* A token is a sequence of bytes.  Every character is one byte, except    *)
(* "W", which is two: "w1" and "w2".                                       *)
(***************************************************************************)
EXTENDS ToolParser

CONSTANTS
    ThinkClose,    \* </think>
    Profiles       \* requests and the tokens their model may emit: records
                   \* of thinking, trim, tools, max_call, stop, tokens
                   \* and limit

VARIABLES
    spec,          \* the request, a profile
    tokens,        \* Detokenizer::tokens
    prefixOffset, readOffset,
    pending,       \* decoded and not yet emitted
    reasoningOpen, trimSpanStart,
    parser,        \* tool_parser and what it has queued
    finish,        \* Running, Completed, or the index of the stop sequence met
    reasoning,     \* history: emitted as Chunk::Reasoning
    answer,        \* history: emitted as Chunk::Text, before the tool parser
    decoded,       \* history: everything the detokenizer returned, with
                   \* CloseMark where the special token closed the span
    late           \* history: a stop sequence came in with the delimiter
                   \* that closed the span

detokVars == <<tokens, prefixOffset, readOffset>>
genVars == <<spec, detokVars, pending, reasoningOpen, trimSpanStart, parser, finish,
             reasoning, answer, decoded, late>>

Running == 0
Completed == -1
Broken == "?"      \* U+FFFD
CloseMark == "|"

\* Tokenizer::decode, lossy: a byte of a broken character gives U+FFFD.
Decode(toks) ==
    LET bytes == FlattenSeq(toks)
        char(i) ==
            CASE bytes[i] = "w1" -> IF i < Len(bytes) /\ bytes[i + 1] = "w2"
                                    THEN <<"W">> ELSE <<Broken>>
              [] bytes[i] = "w2" -> IF i > 1 /\ bytes[i - 1] = "w1" THEN << >> ELSE <<Broken>>
              [] OTHER -> <<bytes[i]>>
    IN  FlattenSeq([i \in DOMAIN bytes |-> char(i)])

GenInit ==
    /\ spec \in Profiles
    /\ tokens = << >> /\ prefixOffset = 0 /\ readOffset = 0
    /\ pending = << >>
    /\ reasoningOpen = spec.thinking
    /\ trimSpanStart = spec.trim
    /\ parser = NewParser(spec.tools, spec.max_call)
    /\ finish = Running
    /\ reasoning = << >> /\ answer = << >> /\ decoded = << >>
    /\ late = FALSE

-----------------------------------------------------------------------------
(* Detokenizer::push                                                       *)

\* Mutation: a window that ends inside a character is emitted.
HoldsBackNothing(prefix, whole) == Len(whole) <= Len(prefix)

\* The window grew by nothing, or ends inside a character.
HoldsBack(prefix, whole) == Len(whole) <= Len(prefix) \/ Last(whole) = Broken

\* What a token adds to the text; held if it has to wait for the next.
Pushed(t) ==
    LET prefix == Decode(SubSeq(tokens, prefixOffset + 1, readOffset))
        whole == Decode(SubSeq(Append(tokens, t), prefixOffset + 1, Len(tokens) + 1))
    IN  IF HoldsBack(prefix, whole) THEN [held |-> TRUE, delta |-> << >>]
        ELSE [held |-> FALSE,
              delta |-> IF IsPrefix(prefix, whole) THEN From(whole, Len(prefix)) ELSE whole]

\* The token is in the window; its text came out, and the window moves on.
Push(t, pushed) ==
    /\ tokens' = Append(tokens, t)
    /\ prefixOffset' = readOffset
    /\ readOffset' = Len(tokens) + 1
    /\ decoded' = decoded \o pushed.delta

-----------------------------------------------------------------------------
(* Emitting.                                                               *)

\* chunk: the blanks that open a span are dropped, up to its first text.
Trimmed(text) == IF trimSpanStart THEN TrimStart(text) ELSE text
StillOpening(text) == trimSpanStart /\ Trimmed(text) = << >>

\* A chunk of the open span; answer text goes through the tool parser, which is
\* flushed once the response is over.
Emits(text, over) ==
    LET kept == Trimmed(text)
        fed == IF reasoningOpen \/ kept = << >> THEN parser ELSE ParserPush(parser, kept)
    IN  /\ reasoning' = IF reasoningOpen THEN reasoning \o kept ELSE reasoning
        /\ answer' = IF reasoningOpen THEN answer ELSE answer \o kept
        /\ parser' = IF spec.tools = << >> THEN parser
                     ELSE IF over THEN ParserFinish(fed) ELSE fed

\* Mutation: a delimiter split across two tokens is not waited for.
HeldForStops(text) == HeldBackLen(text, spec.stop)

\* While reasoning, the delimiters that close the span are held back as well.
Held(text) ==
    IF reasoningOpen
    THEN LET a == HeldBackLen(text, spec.stop)
             b == HeldBackLen(text, <<ThinkClose, CallOpen>>)
         IN  IF a > b THEN a ELSE b
    ELSE HeldBackLen(text, spec.stop)

\* The delimiter that closes an open span, 0 if there is none: </think> is
\* looked for first.
Closer(text) ==
    IF ~reasoningOpen THEN 0
    ELSE IF FindIn(text, ThinkClose) >= 0 THEN 1
    ELSE IF FindIn(text, CallOpen) >= 0 THEN 2 ELSE 0

-----------------------------------------------------------------------------
(* raw_next, by what the event does.                                       *)

\* The special token that closes the reasoning span; it is not decoded.
ClosesReasoning(t) == reasoningOpen /\ t = ThinkClose

Emittable(t) ==
    /\ finish = Running
    /\ t \in spec.tokens
    /\ Len(tokens) < spec.limit

CloseOnToken(t) ==
    /\ ClosesReasoning(t)
    /\ Emits(pending, FALSE)
    /\ pending' = << >>
    /\ reasoningOpen' = FALSE
    /\ trimSpanStart' = spec.trim
    /\ decoded' = Append(decoded, CloseMark)
    /\ UNCHANGED <<spec, detokVars, finish, late>>

HoldToken(t, pushed) ==
    /\ pushed.held
    /\ tokens' = Append(tokens, t)
    /\ UNCHANGED <<prefixOffset, readOffset, decoded, spec, pending, reasoningOpen,
                   trimSpanStart, parser, finish, reasoning, answer, late>>

\* The rest stays pending: it is looked at when the next event comes.
CloseOnText(text) ==
    LET think == Closer(text) = 1
        at == FindIn(text, IF think THEN ThinkClose ELSE CallOpen)
        after == From(text, at + Len(ThinkClose))
        rest == IF ~think THEN From(text, at)
                ELSE IF after # << >> /\ Head(after) = Blank THEN Tail(after) ELSE after
    IN  /\ Closer(text) # 0
        /\ Emits(Upto(text, at), FALSE)
        /\ pending' = rest
        /\ reasoningOpen' = FALSE
        /\ trimSpanStart' = (think /\ spec.trim)
        /\ late' = (EarliestOf(rest, spec.stop) # 0)
        /\ UNCHANGED <<spec, finish>>

\* The text before the stop sequence is the end of the response.
MeetStop(text, i) ==
    /\ i # 0
    /\ \E before \in {Upto(text, FindIn(text, spec.stop[i]))} :
          Emits(before, TRUE) /\ trimSpanStart' = StillOpening(before)
    /\ finish' = i
    /\ pending' = << >>
    /\ late' = FALSE
    /\ UNCHANGED <<spec, reasoningOpen>>

EmitSome(text, i) ==
    /\ i = 0
    /\ \E emit \in {Len(text) - Held(text)} :
          /\ Emits(Upto(text, emit), FALSE)
          /\ trimSpanStart' = StillOpening(Upto(text, emit))
          /\ pending' = From(text, emit)
    /\ UNCHANGED <<spec, reasoningOpen, finish, late>>

\* A token that adds text: the span is closed, or a stop sequence ends the
\* response, or what cannot begin either is emitted.
TakeText(t, pushed) ==
    /\ ~pushed.held
    /\ Push(t, pushed)
    /\ \E text \in {pending \o pushed.delta} :
          \/ CloseOnText(text)
          \/ /\ Closer(text) = 0
             /\ \E i \in {EarliestOf(text, spec.stop)} : MeetStop(text, i) \/ EmitSome(text, i)

TakeToken(t) ==
    /\ Emittable(t)
    /\ \/ CloseOnToken(t)
       \/ /\ ~ClosesReasoning(t)
          /\ \E pushed \in {Pushed(t)} : HoldToken(t, pushed) \/ TakeText(t, pushed)

\* ClientEvent::Done: what was held back is flushed.
Done ==
    /\ finish = Running
    /\ Emits(pending, TRUE)
    /\ pending' = << >>
    /\ finish' = Completed
    /\ trimSpanStart' = StillOpening(pending)
    /\ UNCHANGED <<spec, detokVars, reasoningOpen, decoded, late>>

GenNext ==
    \/ \E t \in spec.tokens : TakeToken(t)
    \/ Done

GenSpec == GenInit /\ [][GenNext]_genVars

-----------------------------------------------------------------------------
(* Properties.                                                             *)

IsText(c) == c # CloseMark

\* The detokenizer returns the text of its tokens, never a replacement
\* character for a character that a later token completes, and its window of
\* offsets stays inside them.
DetokenizerExact ==
    LET text == SelectSeq(decoded, IsText)
    IN  /\ prefixOffset <= readOffset /\ readOffset <= Len(tokens)
        /\ text = Decode(SubSeq(tokens, 1, readOffset))
        /\ IsPrefix(text, Decode(tokens))

\* Where the reasoning span ends, told from the whole text: the special token
\* or a delimiter, whichever is complete first.
SpanEnds(text) ==
    {<<FindIn(text, d), d>> : d \in {x \in {<<CloseMark>>, ThinkClose, CallOpen} :
                                        FindIn(text, x) >= 0}}

Split(text) ==
    LET ends == SpanEnds(text)
        first == CHOOSE e \in ends :
                     \A f \in ends : e[1] + Len(e[2]) <= f[1] + Len(f[2])
    IN  IF ~spec.thinking THEN << << >>, IF spec.trim THEN TrimStart(text) ELSE text >>
        ELSE IF ends = {} THEN << TrimStart(text), << >> >>
        ELSE << TrimStart(Upto(text, first[1])),
                IF first[2] = CallOpen THEN From(text, first[1])
                ELSE TrimStart(From(text, first[1] + Len(first[2]))) >>

\* No stop sequence is returned, in whole or its first part before the rest
\* comes (docs/API.md, "Stop sequences").  The exception is one that came in
\* with the delimiter that closed the span, when the response ends there.
NoStopReturned ==
    \A i \in DOMAIN spec.stop :
        /\ FindIn(reasoning, spec.stop[i]) < 0
        /\ late \/ FindIn(answer, spec.stop[i]) < 0

\* How the text was cut into tokens does not show: a completed response is the
\* split of the whole decoded text, and one ended by a stop sequence is the
\* split of the text before it.  Nor is any stop sequence returned.
CutDoesNotShow ==
    /\ finish = Completed => <<reasoning, answer>> = Split(decoded)
    /\ finish > 0 => \E at \in 0 .. Len(decoded) :
                         /\ OccursAt(decoded, spec.stop[finish], at)
                         /\ <<reasoning, answer>> = Split(Upto(decoded, at))
    /\ NoStopReturned

Item(e) == IF IsCall(e) THEN <<e.text>> ELSE e.text
Items(events) == FlattenSeq([i \in DOMAIN events |-> Item(events[i])])

Source(e) ==
    IF ~IsCall(e) THEN e.text
    ELSE (IF e.bare THEN << >> ELSE CallOpen) \o e.text \o CallClose

InHand ==
    (IF ~parser.inCall THEN << >> ELSE IF parser.bare THEN parser.raw ELSE CallOpen \o parser.raw)
        \o parser.pending

\* What the parser finds does not depend on the pieces it was fed, unless a
\* block grew past the limit, which is looked at once a piece.  And between them
\* the events and what the parser holds are the answer, but for blanks: no text
\* is lost, repeated or out of order, whatever blocks turn out not to be calls,
\* and once the response is over the parser holds nothing.  The exception is a
\* block without an opener, which is given back with one.
PiecesDoNotShow ==
    spec.tools # << >> =>
        /\ finish # Running /\ ~parser.overflowed =>
               Items(parser.events) =
                   Items(ParserFinish(ParserPush(NewParser(spec.tools, spec.max_call), answer)).events)
        /\ ~parser.added =>
               WithoutBlanks(FlattenSeq([i \in DOMAIN parser.events |-> Source(parser.events[i])])
                                 \o InHand) = WithoutBlanks(answer)
        /\ finish # Running => parser.pending = << >> /\ ~parser.inCall

=============================================================================
