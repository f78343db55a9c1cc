-------------------------------- MODULE Text --------------------------------
(***************************************************************************)
(* Searching a text, as generate.rs and http/tools.rs do: a text is a      *)
(* sequence of characters and positions count the characters before them.  *)
(***************************************************************************)
EXTENDS Integers, SequencesExt

\* The one whitespace character of the model.
Blank == " "

From(text, at) == SubSeq(text, at + 1, Len(text))
Upto(text, at) == SubSeq(text, 1, at)

OccursAt(text, needle, at) ==
    at + Len(needle) <= Len(text) /\ \A j \in DOMAIN needle : text[at + j] = needle[j]

\* str::find: the first position, -1 for None.
FindIn(text, needle) ==
    LET found == {at \in 0 .. Len(text) - Len(needle) : OccursAt(text, needle, at)}
    IN  IF found = {} THEN -1 ELSE CHOOSE at \in found : \A b \in found : at <= b

\* The index of the needle that begins first in the text, the first listed of
\* several; 0 if there is none.
EarliestOf(text, needles) ==
    LET at == [i \in DOMAIN needles |-> FindIn(text, needles[i])]
        hits == {i \in DOMAIN needles : at[i] >= 0}
        before(i, j) == at[i] < at[j] \/ (at[i] = at[j] /\ i <= j)
    IN  IF hits = {} THEN 0 ELSE CHOOSE i \in hits : \A j \in hits : before(i, j)

\* The text ends in the first n characters of the needle, and not the whole.
EndsIn(text, needle, n) == n < Len(needle) /\ OccursAt(text, Upto(needle, n), Len(text) - n)

\* Mutation: the shortest such suffix.
HeldBackShortest(text, needles) ==
    LET held == {n \in 1 .. Len(text) : \E i \in DOMAIN needles : EndsIn(text, needles[i], n)}
    IN  IF held = {} THEN 0 ELSE CHOOSE n \in held : \A k \in held : n <= k

\* Mutation: nothing is held back.
HeldBackNone(text, needles) == 0

\* held_back_len: the longest suffix that is a proper prefix of some needle.
HeldBackLen(text, needles) ==
    LET held == {n \in 1 .. Len(text) : \E i \in DOMAIN needles : EndsIn(text, needles[i], n)}
    IN  IF held = {} THEN 0 ELSE CHOOSE n \in held : \A k \in held : n >= k

\* str::trim_start, str::trim
TrimStart(text) ==
    LET kept == {at \in DOMAIN text : text[at] # Blank}
    IN  IF kept = {} THEN << >>
        ELSE From(text, (CHOOSE at \in kept : \A b \in kept : at <= b) - 1)

TrimEnd(text) == Reverse(TrimStart(Reverse(text)))

NotBlank(c) == c # Blank
WithoutBlanks(text) == SelectSeq(text, NotBlank)

=============================================================================
