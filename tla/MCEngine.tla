------------------------------ MODULE MCEngine ------------------------------
(***************************************************************************)
(* TLC instances of Engine.  The model predicts the last token flipped, so *)
(* a continuation never repeats itself and a shifted chain is a different  *)
(* one.                                                                    *)
(***************************************************************************)
EXTENDS Engine

MCTokens == {0, 1, 2}

Contents == UNION {[1 .. n -> MCTokens] : n \in 1 .. MaxLen}

MCArgmax == [s \in Contents |-> 1 - (s[Len(s)] % 2)]

OnePrompt == {<<0, 0>>}

\* The second prompt is the first one's greedy continuation, sent back.
TwoPrompts == {<<0, 0>>, <<0, 0, 1, 0>>}

\* And what a chain that lost its first generated token would name.
ShiftedPrompts == TwoPrompts \cup {<<0, 0, 0, 1>>}

EngineSymmetry == Permutations(Requests) \cup Permutations(Workers)

=============================================================================
