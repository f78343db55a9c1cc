------------------------------- MODULE Queues -------------------------------
(***************************************************************************)
(* The list operations of the Vec and VecDeque fields that hold each id at *)
(* most once: removal of an element by value.                              *)
(***************************************************************************)
EXTENDS Integers, SequencesExt

\* iter().position(|x| x == e)
Position(s, e) == CHOOSE i \in DOMAIN s : s[i] = e

\* Vec::remove / VecDeque::remove at that position.
Without(s, e) == RemoveAt(s, Position(s, e))

=============================================================================
