---------------------------- MODULE Constrained -----------------------------
(***************************************************************************)
(* A sequence under the tool grammar and the response made of it: the      *)
(* runtime masks, chooses and observes (RuntimeSequence of                 *)
(* crates/xabe-engine/src/runtime.rs), the server decodes and parses       *)
(* (Generation).  Both read the same tokens and neither asks the other.    *)
(***************************************************************************)
EXTENDS Generation, Grammar

VARIABLES
    constraint,    \* ToolConstraint
    ended,         \* history: the model ended its turn, it was not cut off
    hidden         \* history: the call began inside the reasoning

constrainedVars == <<genVars, constraint, ended, hidden>>

Constrains == spec.tools # << >> /\ spec.grammar

\* choose: any token, or any the mask leaves.
Choosable ==
    IF IsMasking(constraint) THEN Mask(spec.tools, constraint.cursors, spec.tokens)
    ELSE spec.tokens

\* The model says something before a call, at most spec.lead tokens.
LeadBound == Constrains /\ ~constraint.armed => Len(tokens) < spec.lead

Emit(t) ==
    /\ LeadBound
    /\ TakeToken(t)
    /\ constraint' = IF Constrains THEN ObservePiece(spec.tools, constraint, t) ELSE constraint
    /\ hidden' = (hidden \/ (~constraint.armed /\ constraint'.armed /\ reasoningOpen'))
    /\ UNCHANGED ended

\* The token that ends the turn, admissible where the grammar is satisfied.
EndOfTurn ==
    /\ ~IsMasking(constraint) \/ AcceptsEnd(constraint.cursors)
    /\ Done
    /\ ended' = TRUE
    /\ UNCHANGED <<constraint, hidden>>

\* The output limit, inside a call.
CutOff ==
    /\ IsMasking(constraint) /\ Len(tokens) = spec.limit
    /\ Done
    /\ UNCHANGED <<constraint, ended, hidden>>

ConstrainedInit == GenInit /\ constraint = NewConstraint /\ ended = FALSE /\ hidden = FALSE

ConstrainedNext ==
    \/ \E t \in Choosable : Emit(t)
    \/ EndOfTurn
    \/ CutOff

ConstrainedSpec == ConstrainedInit /\ [][ConstrainedNext]_constrainedVars

-----------------------------------------------------------------------------
(* Properties. *)

\* Where the grammar masks, the mask leaves exactly the tokens the machine can
\* take whole, by the shortcut for free text too; and it never leaves nothing.
MaskExact ==
    finish = Running /\ IsMasking(constraint) =>
        LET mask == Mask(spec.tools, constraint.cursors, spec.tokens)
        IN  /\ mask = {t \in spec.tokens : Survives(spec.tools, constraint.cursors, t)}
            /\ mask # {} \/ AcceptsEnd(constraint.cursors)

\* The calls the machine read.
Accepted == (CHOOSE c \in constraint.cursors : Head(c.todo) = "Accept").calls

Typed(call) ==
    [name |-> call.name,
     args |-> [k \in DOMAIN call.args |-> Argument(spec.tools, call.name, k, call.args[k])]]

\* A text value may hold a closing tag, where the parser ends it.
Ambiguous(value) == FindIn(value, ParamClose) >= 0 \/ FindIn(value, CallClose) >= 0

Conforms(call) ==
    \E i \in DOMAIN spec.tools :
        /\ spec.tools[i].name = call.name
        /\ \A j \in DOMAIN spec.tools[i].params :
              LET param == spec.tools[i].params[j]
              IN  /\ param.required /\ j <= TrackedParams => param.name \in DOMAIN call.args
                  /\ param.kind # "text" /\ param.name \in DOMAIN call.args =>
                         call.args[param.name].json
        /\ \A k \in DOMAIN call.args : IndexOf(spec.tools[i].params, k) # 0

\* A turn that ended under the grammar reaches the client as the calls the
\* machine read, each of a tool that was offered, with all it requires and
\* values of its types, and nothing of them as text.  Exceptions: a value that
\* holds a closing tag itself, and a call that began, without its opener,
\* inside the reasoning.
CallsAgree ==
    ended /\ IsMasking(constraint) /\ ~hidden =>
        LET calls == SelectSeq(parser.events, IsCall)
        IN  (\A i \in DOMAIN Accepted : \A k \in DOMAIN Accepted[i].args :
                ~Ambiguous(Accepted[i].args[k])) =>
            /\ Len(calls) = Len(Accepted)
            /\ \A i \in DOMAIN calls :
                  /\ calls[i].call = {Typed(Accepted[i])}
                  /\ \A call \in calls[i].call : Conforms(call)
            /\ IsCall(Last(parser.events))

=============================================================================
