----------------------------- MODULE ToolParser -----------------------------
(***************************************************************************)
(* ToolCallParser of crates/xabe-server/src/http/tools.rs: answer text in, *)
(* text and tool calls out.  The tools are those the request offers.       *)
(***************************************************************************)
EXTENDS Markup

\* ToolCallParser::new
Openers(tools) == <<CallOpen>> \o [i \in DOMAIN tools |-> FunctionOpen(tools[i].name)]

NewParser(tools, limit) ==
    [tools |-> tools, limit |-> limit,   \* MAX_CALL_BYTES
     pending |-> << >>, inCall |-> FALSE, raw |-> << >>, swallow |-> FALSE,
     events |-> << >>,
     bare |-> FALSE,       \* history: the block in hand began with the function
     added |-> FALSE,      \* history: a block that had no CallOpen was given
                           \* back with one
     overflowed |-> FALSE] \* history: a block grew past the limit

\* A call remembers its block and, for the properties, whether it had the opener.
TextEvent(text) == [call |-> {}, text |-> text, bare |-> FALSE]
CallEvent(raw, call, bare) == [call |-> call, text |-> raw, bare |-> bare]
IsCall(e) == e.call # {}

\* schema_is_string of a parameter; one that is not declared is no string.
IsString(tools, name, key) ==
    \E i \in DOMAIN tools : \E j \in DOMAIN tools[i].params :
        /\ tools[i].name = name
        /\ tools[i].params[j].name = key
        /\ tools[i].params[j].string

\* The value of a parameter: text if its schema says so or it is no JSON.
Argument(tools, name, key, value) ==
    IF ~IsString(tools, name, key) /\ IsJson(TrimEnd(TrimStart(value)))
    THEN AsJson(TrimEnd(TrimStart(value))) ELSE AsText(value)

\* A tag of one of the names and what follows it: none or one.
AfterTag(text, names) ==
    {[name |-> text[2], rest |-> From(text, 2)] :
        one \in {t \in {text} : Len(t) > 1 /\ t[1] = "<" /\ t[2] \in names}}

\* A parameter behind its tag: the newlines around the value are markup.
AfterValue(text) ==
    LET opened == IF text # << >> /\ Head(text) = Blank THEN Tail(text) ELSE text
        end == FindIn(opened, ParamClose)
        value == Upto(opened, end)
    IN  {[value |-> IF value # << >> /\ Last(value) = Blank THEN Front(value) ELSE value,
          rest |-> From(opened, e + Len(ParamClose))] : e \in {x \in {end} : x >= 0}}

\* The loop of parse_call: the call, or none.
RECURSIVE ParseArgs(_, _, _, _)
ParseArgs(tools, name, args, text) ==
    LET rest == TrimStart(text)
    IN  IF IsPrefix(FunctionClose, rest)
        THEN {[name |-> name, args |-> args] :
                 after \in {r \in {From(rest, Len(FunctionClose))} : TrimStart(r) = << >>}}
        ELSE UNION {ParseArgs(tools, name,
                              PutArg(args, tag.name, Argument(tools, name, tag.name, v.value)),
                              v.rest) :
                       tag \in AfterTag(rest, ParamNames), v \in UNION {AfterValue(t.rest) : t \in AfterTag(rest, ParamNames)}}

\* parse_call
ParseCall(tools, raw) ==
    UNION {ParseArgs(tools, tag.name, NoArgs, tag.rest) :
               tag \in AfterTag(TrimEnd(TrimStart(raw)), FunctionNames)}

\* emit_text: blanks between two calls are markup.
EmitText(p, text) ==
    LET kept == IF p.swallow THEN TrimStart(text) ELSE text
    IN  IF kept = << >> THEN p
        ELSE [p EXCEPT !.swallow = FALSE, !.events = Append(@, TextEvent(kept))]

\* A block that was not a call after all goes out as text.  It is given the
\* opener <tool_call> also when it began with the function itself.
GivenBack(p, raw, tail) ==
    EmitText([p EXCEPT !.inCall = FALSE, !.raw = << >>, !.added = @ \/ p.bare],
             CallOpen \o raw \o tail)

\* The loop of push over the pending text.
RECURSIVE Scan(_)

ScanText(p) ==
    LET openers == Openers(p.tools)
        i == EarliestOf(p.pending, openers)
        at == FindIn(p.pending, openers[i])
        emit == Len(p.pending) - HeldBackLen(p.pending, openers)
    IN  IF i = 0
        THEN EmitText([p EXCEPT !.pending = From(@, emit)], Upto(p.pending, emit))
        ELSE Scan([EmitText(p, Upto(p.pending, at)) EXCEPT
                       !.pending = From(p.pending, at + Len(openers[i])),
                       !.inCall = TRUE,
                       !.bare = (i # 1),
                       !.raw = IF i = 1 THEN << >> ELSE openers[i]])

ScanCall(p) ==
    LET at == FindIn(p.pending, CallClose)
        block == p.raw \o Upto(p.pending, at)
        call == ParseCall(p.tools, block)
        closed == [p EXCEPT !.pending = From(@, at + Len(CallClose))]
        take == Len(p.pending) - HeldBackLen(p.pending, <<CallClose>>)
        longer == [p EXCEPT !.pending = From(@, take), !.raw = @ \o Upto(p.pending, take)]
    IN  IF at < 0
        THEN IF Len(longer.raw) > p.limit
             THEN GivenBack([longer EXCEPT !.overflowed = TRUE], longer.raw, << >>)
             ELSE longer
        ELSE IF call # {}
             THEN Scan([closed EXCEPT !.inCall = FALSE, !.raw = << >>, !.swallow = TRUE,
                                      !.events = Append(@, CallEvent(block, call, p.bare))])
             ELSE Scan(GivenBack(closed, block, CallClose))

Scan(p) == IF p.inCall THEN ScanCall(p) ELSE ScanText(p)

\* push
ParserPush(p, text) == Scan([p EXCEPT !.pending = @ \o text])

\* finish: what is held back was never going to be a call.
ParserFinish(p) ==
    IF p.inCall THEN [GivenBack(p, p.raw, p.pending) EXCEPT !.pending = << >>]
    ELSE [EmitText(p, p.pending) EXCEPT !.pending = << >>]

=============================================================================
