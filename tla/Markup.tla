------------------------------- MODULE Markup -------------------------------
(***************************************************************************)
(* The markup of a tool call, which crates/xabe-grammar writes into its    *)
(* machine and http/tools.rs reads back:                                   *)
(*                                                                         *)
(*     <tool_call>                                                         *)
(*     <function=name>                                                     *)
(*     <parameter=key>                                                     *)
(*     value                                                               *)
(*     </parameter>                                                        *)
(*     </function>                                                         *)
(*     </tool_call>                                                        *)
(*                                                                         *)
(* A tag is "<" or "</" and one character for the rest of it, the name     *)
(* included, so tags begin alike and may be cut by a token.                *)
(***************************************************************************)
EXTENDS Text

FunctionNames == {"f", "g", "u"}
ParamNames == {"p", "q"}

CallOpen == <<"<", "c">>
CallClose == <<"<", "/", "c">>
FunctionOpen(name) == <<"<", name>>
FunctionClose == <<"<", "/", "F">>
ParamOpen(name) == <<"<", name>>
ParamClose == <<"<", "/", "P">>

(***************************************************************************)
(* A tool a request offers: its name and its parameters in order, each     *)
(* with its name, whether it is required, whether its schema type is       *)
(* string, and its ValueSpec: "text", "integer", "number", or "literals"   *)
(* (const, enum, booleans and null), the set of JSON texts it admits.      *)
(***************************************************************************)
IndexOf(params, name) == SelectInSeq(params, LAMBDA p : p.name = name)

-----------------------------------------------------------------------------
(* serde_json::from_str, reduced to which texts it takes. *)

Digit == {"0", "1"}
IsDigits(s) == s # << >> /\ \A i \in DOMAIN s : s[i] \in Digit
IsUnsigned(s) == IsDigits(s) /\ (s[1] = "0" => Len(s) = 1)
IsFraction(s) == s = << >> \/ (s[1] = "." /\ IsDigits(Tail(s)))
IsExponent(s) ==
    \/ s = << >>
    \/ /\ s[1] = "e"
       /\ \/ IsDigits(Tail(s))
          \/ Len(s) > 1 /\ s[2] \in {"+", "-"} /\ IsDigits(From(s, 2))

IsJsonNumber(s) ==
    LET u == IF s # << >> /\ s[1] = "-" THEN Tail(s) ELSE s
    IN  \E i \in 1 .. Len(u) : \E j \in i .. Len(u) :
            /\ IsUnsigned(Upto(u, i))
            /\ IsFraction(SubSeq(u, i + 1, j))
            /\ IsExponent(From(u, j))

IsJson(s) == s = <<"t">> \/ IsJsonNumber(s)

\* A value as an argument: text, or what the text says in JSON.
AsText(value) == [json |-> FALSE, text |-> value]
AsJson(value) == [json |-> TRUE, text |-> value]

NoArgs == [k \in {} |-> << >>]

\* Arguments by their name; the last of one name stays.
PutArg(args, key, value) ==
    [k \in DOMAIN args \cup {key} |-> IF k = key THEN value ELSE args[k]]

=============================================================================
