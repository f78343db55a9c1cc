---------------------------- MODULE MCGeneration ----------------------------
(***************************************************************************)
(* A raw completion with two stop sequences that overlap, a chat turn that *)
(* reasons, an answer with tool calls that nothing constrains, and turns   *)
(* under the grammar: two tools and text values, a number, and a turn that *)
(* reasons first.                                                          *)
(***************************************************************************)
EXTENDS Constrained, Dialects

VARIABLE part    \* which of the two a behaviour is about


A == "a"
LT == "<"
SL == "/"

MCThinkClose == <<LT, SL, "k">>

Base == [thinking |-> FALSE, trim |-> TRUE, tools |-> << >>, grammar |-> FALSE, max_call |-> 40,
         stop |-> << >>, tokens |-> {}, limit |-> 5, lead |-> 1]

Raw == [Base EXCEPT !.trim = FALSE, !.stop = << <<A, "b", A>>, <<"b", "b">> >>,
        !.tokens = {<<A>>, <<"b">>, <<A, "b">>, <<Blank>>, <<"w1">>, <<"w2">>, <<"w2", A>>}]

Chat == [Base EXCEPT !.thinking = TRUE, !.stop = << <<A, LT>> >>,
         !.tokens = {<<A>>, <<Blank>>, <<LT>>, <<SL, "k">>, <<"k", A>>, <<"c">>, MCThinkClose}]

Param(name, required, kind) ==
    [name |-> name, required |-> required, kind |-> kind, string |-> kind = "text",
     literals |-> IF kind = "literals" THEN {<<"t">>, <<"0">>} ELSE {}]

NoParams == [name |-> "f", params |-> << >>]

Free == [Base EXCEPT !.tools = <<NoParams>>, !.max_call = 5,
         !.tokens = {<<A>>, <<Blank>>, <<LT>>, <<"c">>, <<"f">>, <<SL, "c">>, <<LT, "c", LT>>,
                     <<"f", LT, SL, "F", LT>>}]

\* Every character of the markup a call may need, and longer pieces of it.
Bytes(bs) == {<<b>> : b \in bs \cup {LT, SL, Blank, "c", "f", "p", "F", "P"}}
Opened == CallOpen \o <<Blank>>
Named(f) == FunctionOpen(f) \o <<Blank>>
Keyed(p) == ParamOpen(p) \o <<Blank>>
Closed == FunctionClose \o <<Blank>> \o CallClose

Texts == [Base EXCEPT !.grammar = TRUE, !.limit = 5,
          !.tools = << [name |-> "f", params |-> <<Param("p", TRUE, "text")>>] >>,
          !.tokens = Bytes({A}) \cup {Opened \o Named("f") \o Keyed("p"), Named("f") \o Keyed("p"),
                                      ValueClose, ValueClose \o <<A>>, Closed}]

Literals == [Base EXCEPT !.grammar = TRUE, !.limit = 9,
             !.tools = << [name |-> "f", params |-> <<Param("p", TRUE, "literals"),
                                                      Param("q", FALSE, "literals")>>],
                          [name |-> "g", params |-> << >>] >>,
             !.tokens = Bytes({"g", "q", "t", "0"})
                            \cup {Opened, Named("f"), Named("g"), Keyed("p") \o <<"t">>,
                                  Keyed("q"), ValueClose, Closed}]

Numbers(kind) ==
    [Base EXCEPT !.grammar = TRUE, !.limit = 8, !.lead = 1,
     !.tools = << [name |-> "f", params |-> <<Param("p", TRUE, kind)>>] >>,
     !.tokens = Bytes({"0", "1", ".", "e", "-", "+"})
                    \cup {Opened \o Named("f") \o Keyed("p"), ValueClose \o Closed}]

Thinks == [Base EXCEPT !.grammar = TRUE, !.thinking = TRUE, !.limit = 5, !.lead = 3,
           !.tools = <<NoParams>>,
           !.tokens = {<<A>>, <<LT>>, <<SL>>, <<Blank>>, <<"c">>, <<"f">>, <<"F">>,
                       <<"c", Blank, LT>>, <<"f", Blank>>, Closed, MCThinkClose}]

MCProfiles == {Raw, Chat, Free, Texts, Literals, Thinks, Numbers("integer"), Numbers("number")}

-----------------------------------------------------------------------------
(* Clients: a question, with and without an image, that is served, and     *)
(* requests of two entries, of every role with images, results, markers    *)
(* and parts that are skipped or refused.                                  *)

MemberOf(name) == IF name = "x.h" THEN "h" ELSE name

\* A call of x.h passes a truth value, which comes back as Python spells it.
RespelledOf(word) == IF word = "x.h" THEN "x.h True" ELSE word

Word(w) == [p |-> "text", text |-> <<w>>]
Image(pad) == [p |-> "image", pad |-> pad]
Result(parts) == [p |-> "tool_result", parts |-> parts]
Of_(role, parts) == [Entry EXCEPT !.role = role, !.parts = parts]

Firsts(d) ==
    {Of_(r, ps) : r \in {"system", "user", "tool", "assistant"},
                  ps \in {<<Word("s")>>, <<Image("i1")>>, <<Result(<<Image("i1")>>)>>}}
    \cup {Of_("assistant", <<[p |-> "thinking", text |-> <<"r">>], Word("s"), [p |-> "tool_use", name |-> "f"]>>),
          Of_("user", << >>), Of_("user", <<Word("<tool_response>"), Word("</tool_response>")>>),
          Of_("critic", <<Word("s")>>)}
    \cup (IF d # "responses" THEN {}
          ELSE {[Entry EXCEPT !.kind = k, !.parts = ps] :
                k \in {"reasoning", "function_call_output", "trace", "reference"},
                ps \in {<<Word("s")>>, <<Word("s"), Image("i1")>>}}
               \cup {[Entry EXCEPT !.kind = "function_call", !.calls = <<"f">>]})
Seconds ==
    {Of_("user", ps) : ps \in {<<Word("q"), Image("i2")>>,
                               <<Image("i2"), Result(<<Word("o"), Image("i3")>>), Word("q")>>,
                               <<Word("lit"), Image("i2")>>, <<[p |-> "other"], Word("q")>>,
                               <<[p |-> "unreadable"]>>, <<Result(<<Result(<< >>)>>)>>}}
    \cup {Of_("tool", <<Result(<<Image("i2")>>), Image("i3")>>), Of_("system", <<Word("q")>>),
          Of_("assistant", <<Word("t")>>)}

Asks(d) == {[dialect |-> d, tools |-> FALSE, serve |-> FALSE, ends |-> << >>, entries |-> <<a, b>>] :
            a \in Firsts(d), b \in Seconds}
\* A model that spells its turns as the template does, and one that does not.
Serves(d) == {[dialect |-> d, tools |-> TRUE, serve |-> TRUE, ends |-> e[1], entries |-> <<Of_("user", e[2])>>] :
              e \in {<<Paragraph, <<Word("q")>>>>, << <<Blank>>, <<Image("i1"), Word("q")>>>>}}
MCOpenings == UNION {Asks(d) \cup Serves(d) : d \in {"openai", "anthropic", "responses"}}

SomeProfile == CHOOSE p \in Profiles : TRUE
SomeOpening == CHOOSE o \in Openings : o.serve

MCInit ==
    /\ part \in {"tokens", "talk"}
    /\ ConstrainedInit /\ TalkInit
    /\ part = "tokens" => opening = SomeOpening /\ ~streaming /\ ~thinking
    /\ part = "talk" => spec = SomeProfile

MCNext ==
    /\ UNCHANGED part
    /\ \/ part = "tokens" /\ ConstrainedNext /\ UNCHANGED talkVars
       \/ part = "talk" /\ TalkNext /\ UNCHANGED constrainedVars

MCSpec == MCInit /\ [][MCNext]_<<part, constrainedVars, talkVars>>

=============================================================================
