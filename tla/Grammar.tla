------------------------------ MODULE Grammar -------------------------------
(***************************************************************************)
(* Grammar-constrained tool calls, crates/xabe-grammar/src: the machine    *)
(* that a request's tools are compiled to, the mask it gives, and the      *)
(* constraint that watches a sequence's output and arms at a trigger.      *)
(*                                                                         *)
(* The code numbers its states and links them.  Here a state is what is    *)
(* left to consume: bytes, and names of the builder's Split states, which  *)
(* an epsilon step replaces by one of their alternatives.  "Until" (free   *)
(* text up to the closing tag) and "Accept" stay.                          *)
(***************************************************************************)
EXTENDS Markup

CONSTANT TrackedParams   \* TRACKED_PARAMS

\* CLOSE
ValueClose == <<Blank>> \o ParamClose \o <<Blank>>

\* A cursor: what is left, how much of ValueClose an Until has matched, the
\* tool and the parameters written.  History: the parameter it is in with the
\* bytes since its tag began, and the calls it has read.
RootCursor ==
    [todo |-> <<"Root">>, k |-> 0, tool |-> 0, written |-> {},
     key |-> "", bytes |-> << >>, calls |-> << >>]

\* param_bit: a parameter past the limit leaves no mark.
ParamBit(i) == IF i <= TrackedParams THEN {i} ELSE {}

Required(tool) == UNION {ParamBit(i) : i \in {j \in DOMAIN tool.params : tool.params[j].required}}

-----------------------------------------------------------------------------
(* Builder: the alternatives of every Split. *)

SomeDigit(next) == {<<d>> \o next : d \in Digit}

\* number and digits.
NumberRules(name, fractional) ==
    CASE name = "Number"    -> {<<"Magnitude">>, <<"-", "Magnitude">>}
      [] name = "Magnitude" -> {<<"0", "Tail">>, <<"1", "Tail">>, <<"1", "Digits", "Tail">>}
      [] name = "Tail"      -> {<<"TailE">>} \cup IF fractional THEN {<<".", "Digits", "TailE">>} ELSE {}
      [] name = "TailE"     -> {<< >>, <<"e", "Signed">>}
      [] name = "Signed"    -> {<<"+", "Digits">>, <<"-", "Digits">>, <<"Digits">>}
      [] name = "Digits"    -> SomeDigit(<<"More">>)
      [] name = "More"      -> {<< >>} \cup SomeDigit(<<"More">>)

NumberNames == {"Number", "Magnitude", "Tail", "TailE", "Signed", "Digits", "More"}

\* value
ValueRules(param) ==
    CASE param.kind = "text"     -> {<<"Until">>}
      [] param.kind = "literals" -> {literal \o ValueClose \o <<"Args">> : literal \in param.literals}
      [] OTHER                   -> {<<"Number">> \o ValueClose \o <<"Args">>}

\* History: a parameter that was read to its end is an argument of the call.
WithArg(c) ==
    LET call  == Last(c.calls)
        value == SubSeq(c.bytes, Len(ParamOpen(c.key)) + 2, Len(c.bytes) - Len(ValueClose))
    IN  IF c.key = "" THEN c
        ELSE [c EXCEPT !.key = "", !.bytes = << >>,
                       !.calls = Append(Front(@), [name |-> call.name,
                                                   args |-> PutArg(call.args, c.key, value)])]

\* EnterTool
EnterTool(tools, c) ==
    {[c EXCEPT !.todo = FunctionOpen(tools[i].name) \o <<Blank, "Args">>,
               !.tool = i, !.written = {},
               !.calls = Append(@, [name |-> tools[i].name, args |-> NoArgs])] :
        i \in DOMAIN tools}

\* Mark
MarkParam(tools, c) ==
    LET params == tools[c.tool].params
    IN  UNION {{[c EXCEPT !.todo = ParamOpen(params[i].name) \o <<Blank>> \o value,
                          !.written = c.written \cup ParamBit(i), !.k = 0,
                          !.key = params[i].name] :
                   value \in ValueRules(params[i])} :
               i \in {j \in DOMAIN params : ParamBit(j) \cap c.written = {}}}

\* Mutation: a call may be closed without its required parameters.
RequireAllNever(tools, c) ==
    {[c EXCEPT !.todo = FunctionClose \o <<Blank>> \o CallClose \o <<"After">>]}

\* RequireAll
RequireAll(tools, c) ==
    {[d EXCEPT !.todo = FunctionClose \o <<Blank>> \o CallClose \o <<"After">>] :
        d \in {e \in {c} : Required(tools[c.tool]) \subseteq c.written}}

\* build, the rest of it: the first call may omit its <tool_call> line, and
\* more calls may follow.
Rules(name) ==
    CASE name = "Root"  -> {CallOpen \o <<Blank, "Entry">>, <<"Entry">>}
      [] name = "After" -> {<<"Accept">>, <<Blank, "After">>, CallOpen \o <<Blank, "Entry">>}

\* One epsilon step of a cursor.
Expand(tools, c) ==
    LET name == Head(c.todo)
        read == WithArg(c)
        params == tools[c.tool].params
        fractional == params[IndexOf(params, c.key)].kind = "number"
        choose(rules) == {[c EXCEPT !.todo = rule \o Tail(c.todo)] : rule \in rules}
    IN  CASE name = "Entry" -> EnterTool(tools, c)
          [] name = "Args" -> MarkParam(tools, read) \cup RequireAll(tools, read)
          [] name \in NumberNames -> choose(NumberRules(name, fractional))
          [] OTHER -> choose(Rules(name))

Splits == {"Root", "Entry", "Args", "After"} \cup NumberNames

\* close: until only states that consume a byte, and Accept, are left.
RECURSIVE CloseOver(_, _)
CloseOver(tools, cursors) ==
    LET open == {c \in cursors : Head(c.todo) \in Splits}
    IN  IF open = {} THEN cursors
        ELSE CloseOver(tools, (cursors \ open) \cup UNION {Expand(tools, c) : c \in open})

-----------------------------------------------------------------------------
(* Running it. *)

RECURSIVE Fallback(_)
RECURSIVE AdvanceClose(_, _)

\* advance_close: a byte more of the search for ValueClose.
AdvanceClose(k, byte) ==
    IF byte = ValueClose[k + 1] THEN k + 1
    ELSE IF k = 0 THEN 0 ELSE AdvanceClose(Fallback(k), byte)

\* kmp_fallback
Fallback(n) == IF n <= 1 THEN 0 ELSE AdvanceClose(Fallback(n - 1), ValueClose[n])

\* What a byte makes of a cursor that takes it.
Until(c, k) == IF k = Len(ValueClose) THEN [c EXCEPT !.todo = <<"Args">>] ELSE [c EXCEPT !.k = k]

Taken(c, byte) ==
    LET read == IF c.key = "" THEN c ELSE [c EXCEPT !.bytes = Append(@, byte)]
    IN  IF Head(c.todo) = "Until" THEN Until(read, AdvanceClose(c.k, byte))
        ELSE [read EXCEPT !.todo = Tail(c.todo)]

\* step
StepByte(tools, cursors, byte) ==
    CloseOver(tools, {Taken(c, byte) : c \in {d \in cursors : Head(d.todo) \in {byte, "Until"}}})

\* Over the bytes of a piece; no cursor is left once the machine has died.
StepPiece(tools, cursors, piece) ==
    FoldLeft(LAMBDA cs, byte : StepByte(tools, cs, byte), cursors, piece)

Survives(tools, cursors, piece) == StepPiece(tools, cursors, piece) # {}

AcceptsEnd(cursors) == \E c \in cursors : Head(c.todo) = "Accept"

IsFreeText(cursors) == \A c \in cursors : Head(c.todo) = "Until" /\ c.k = 0

\* Mutation: in free text every piece is admitted.
MaskFreeText(tools, cursors, pieces) ==
    IF IsFreeText(cursors) THEN pieces ELSE {p \in pieces : Survives(tools, cursors, p)}

\* Vocab::mask, but for the end of the turn: in free text only the pieces that
\* may begin the closing tag are tried, elsewhere all, by a walk of the trie.
Mask(tools, cursors, pieces) ==
    LET breaking == {p \in pieces : ValueClose[1] \in Range(p)}
        tried == IF IsFreeText(cursors) THEN breaking ELSE pieces
    IN  (pieces \ tried) \cup {p \in tried : Survives(tools, cursors, p)}

-----------------------------------------------------------------------------
(* ToolConstraint *)

\* Machine::triggers
Triggers(tools) == <<CallOpen>> \o [i \in DOMAIN tools |-> FunctionOpen(tools[i].name)]

NewConstraint == [tail |-> << >>, cursors |-> {}, armed |-> FALSE, broken |-> FALSE]

IsMasking(w) == w.armed /\ ~w.broken

\* observe_bytes while armed.
Advanced(tools, w, bytes) ==
    LET after == StepPiece(tools, w.cursors, bytes)
    IN  [w EXCEPT !.cursors = after, !.broken = (after = {})]

\* observe: idle, the end of the output is kept, so that a trigger cut by
\* tokens is seen whole; the bytes from the trigger on go to the machine.
ObservePiece(tools, w, piece) ==
    LET triggers == Triggers(tools)
        tail == w.tail \o piece
        i == EarliestOf(tail, triggers)
        keep == Max({Len(triggers[j]) : j \in DOMAIN triggers}) - 1
        armed == [w EXCEPT !.armed = TRUE, !.tail = << >>,
                           !.cursors = CloseOver(tools, {RootCursor})]
    IN  IF w.broken THEN w
        ELSE IF w.armed THEN Advanced(tools, w, piece)
        ELSE IF i # 0 THEN Advanced(tools, armed, From(tail, FindIn(tail, triggers[i])))
        ELSE [w EXCEPT !.tail = From(tail, Max({0, Len(tail) - keep}))]

=============================================================================
