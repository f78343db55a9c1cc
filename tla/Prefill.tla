------------------------------ MODULE Prefill -------------------------------
(***************************************************************************)
(* The widths of prefill pieces, crates/xabe-engine/src/runtime.rs.  A     *)
(* forward pass is built at load for a fixed number of tokens, so a slice  *)
(* of a prompt is cut into pieces of the widths that exist; no piece may   *)
(* cross a retention boundary, where the state has to be captured.         *)
(***************************************************************************)
EXTENDS Integers, FiniteSetsExt, WellFoundedInduction, TLAPS

\* A configuration: chunk, interval (0: nothing is retained) and max_batch.

\* The tail shapes load builds: powers of two up to the ceiling that no other
\* shape already serves.  MaxTail is the literal 256.
TailWidths(c, MaxTail) ==
    LET ceiling == Min({c.chunk, Max({c.interval, 1}), MaxTail})
    IN  {w \in {2^k : k \in 1..8} : /\ w <= ceiling
                                     /\ w > c.max_batch
                                     /\ w # c.chunk
                                     /\ w # c.interval}

ToBoundary(c, position) == c.interval - (position % c.interval)

Fits(c, position, width) == c.interval = 0 \/ width <= ToBoundary(c, position)

\* Mutation: the boundary is measured from the slice, not from the sequence.
ChoosePrefillWidthRelative(c, tails, position, remaining) ==
    LET fitting == {w \in tails : w <= remaining}
    IN  IF remaining >= c.chunk THEN c.chunk
        ELSE IF fitting # {} THEN Max(fitting)
        ELSE Min({remaining, c.max_batch})

\* choose_prefill_width.
ChoosePrefillWidth(c, tails, position, remaining) ==
    LET fitting == {w \in tails : w <= remaining /\ Fits(c, position, w)}
        narrow  == {remaining, c.max_batch}
                       \cup IF c.interval = 0 THEN {} ELSE {ToBoundary(c, position)}
    IN  CASE remaining >= c.chunk /\ Fits(c, position, c.chunk) -> c.chunk
          [] /\ ~(remaining >= c.chunk /\ Fits(c, position, c.chunk))
             /\ c.interval > 0 /\ remaining >= c.interval
             /\ position % c.interval = 0 -> c.interval
          [] OTHER -> IF fitting # {} THEN Max(fitting) ELSE Max({Min(narrow), 1})

\* prefill_pass_in: the widths a pass exists for.
Prebuilt(c, tails) ==
    {c.chunk} \cup ({c.interval} \ {0, 1}) \cup tails \cup 1..c.max_batch

\* A piece at `at' that a slice up to `end' may hold: it is not empty, stays in the
\* slice, has a pass built for it and no retention boundary inside.
WellCut(c, tails, at, width, end) ==
    /\ width > 0 /\ at + width <= end
    /\ width \in Prebuilt(c, tails)
    /\ c.interval > 0 =>
           \A b \in (at + 1)..(at + width - 1) : b % c.interval # 0

-----------------------------------------------------------------------------
(* The choice is right for every configuration and any set of tail shapes. *)

\* A set of naturals has a least element.
LEMMA LeastOf ==
    ASSUME NEW S \in SUBSET Nat, S # {}
    PROVE  Min(S) \in S /\ \A y \in S : Min(S) <= y
  <1> DEFINE R == OpToRel(<, Nat)
  <1>1. IsWellFoundedOn(R, Nat)
    BY NatLessThanWellFounded
  <1> HIDE DEF R
  <1>2. PICK x \in S : \A y \in S : ~ (<<y, x>> \in R)
    BY <1>1, WFMin
  <1>3. ASSUME NEW y \in S PROVE x =< y
    <2>1. <<y, x>> \in Nat \X Nat /\ ~ (<<y, x>> \in R)
      BY <1>2
    <2>2. ~ (y < x)
      BY <2>1 DEF R, OpToRel
    <2>3. QED
      BY <2>2
  <1>4. \E z \in S : \A y \in S : z =< y
    BY <1>3
  <1>5. Min(S) \in S /\ \A y \in S : Min(S) =< y
    BY <1>4, Zenon DEF Min
  <1>6. QED
    BY <1>5

\* A bounded set of naturals has a greatest element.
LEMMA GreatestOf ==
    ASSUME NEW n \in Nat, NEW S \in SUBSET (0..n), S # {}
    PROVE  Max(S) \in S
  <1> DEFINE U == {n - i : i \in S}
  <1>1. U \in SUBSET Nat /\ U # {}
    <2>1. \A i \in S : n - i \in Nat
      <3> TAKE i \in S
      <3>1. i \in 0..n
        OBVIOUS
      <3>2. QED
        BY <3>1
    <2>2. QED
      BY <2>1
  <1>2. Min(U) \in U /\ \A y \in U : Min(U) <= y
    BY <1>1, LeastOf
  <1>3. PICK i \in S : Min(U) = n - i
    BY <1>2
  <1>4. ASSUME NEW j \in S PROVE i >= j
    <2>1. n - j \in U /\ n - i <= n - j
      BY <1>2, <1>3
    <2>2. i \in 0..n /\ j \in 0..n
      OBVIOUS
    <2>3. QED
      BY <2>1, <2>2
  <1>5. \E z \in S : \A y \in S : z >= y
    BY <1>4
  <1>6. QED
    BY <1>5, Zenon DEF Max

\* No multiple of the interval lies strictly between a position and the next boundary.
LEMMA NoBoundaryBefore ==
    ASSUME NEW d \in Nat \ {0}, NEW at \in Nat,
           NEW b \in Nat, at < b, b < at + (d - (at % d))
    PROVE  b % d # 0
  <1> DEFINE k == at \div d
             q == b \div d
  <1>1. /\ k \in Nat /\ at % d \in 0..(d - 1) /\ at = d * k + (at % d)
        /\ q \in Nat /\ b % d \in 0..(d - 1) /\ b = d * q + (b % d)
    OBVIOUS
  <1> HIDE DEF k, q
  <1>2. SUFFICES ASSUME b % d = 0 PROVE FALSE
    OBVIOUS
  <1>3. b = d * q /\ d * k <= at /\ at < d * q /\ d * q < d * k + d
    BY <1>1, <1>2
  <1>4. CASE q <= k
    <2>1. d * q <= d * k
      BY <1>1, <1>4
    <2>2. QED
      BY <1>1, <1>3, <2>1
  <1>5. CASE k + 1 <= q
    <2>1. d * (k + 1) <= d * q
      BY <1>1, <1>5
    <2>2. d * (k + 1) = d * k + d
      BY <1>1
    <2>3. QED
      BY <1>1, <1>3, <2>1, <2>2
  <1>6. QED
    BY <1>1, <1>4, <1>5

\* choose_prefill_width never returns an empty piece, one past the slice, one without a
\* pass or one that crosses a retention boundary, at any position, for any chunk, interval
\* and batch and whichever tail shapes were built.
THEOREM PieceIsWellCut ==
    ASSUME NEW c, NEW tails \in SUBSET (Nat \ {0}),
           c.chunk \in Nat \ {0}, c.interval \in Nat, c.max_batch \in Nat \ {0},
           NEW position \in Nat, NEW remaining \in Nat \ {0}
    PROVE  WellCut(c, tails, position, ChoosePrefillWidth(c, tails, position, remaining),
                   position + remaining)
  <1> DEFINE fitting == {w \in tails : w <= remaining /\ Fits(c, position, w)}
             narrow  == {remaining, c.max_batch}
                            \cup IF c.interval = 0 THEN {} ELSE {ToBoundary(c, position)}
             whole   == remaining >= c.chunk /\ Fits(c, position, c.chunk)
             aligned == c.interval > 0 /\ remaining >= c.interval /\ position % c.interval = 0
             width   == ChoosePrefillWidth(c, tails, position, remaining)
  <1>1. c.interval > 0 => ToBoundary(c, position) \in 1..c.interval
    <2>1. c.interval > 0 => position % c.interval \in 0..(c.interval - 1)
      OBVIOUS
    <2>2. QED
      BY <2>1 DEF ToBoundary
  <1>2. ASSUME NEW w \in Nat \ {0}, w <= remaining, Fits(c, position, w), w \in Prebuilt(c, tails)
        PROVE  WellCut(c, tails, position, w, position + remaining)
    <2>1. ASSUME c.interval > 0, NEW b \in (position + 1)..(position + w - 1)
          PROVE  b % c.interval # 0
      <3>1. w <= c.interval - (position % c.interval)
        BY <1>2, <2>1 DEF Fits, ToBoundary
      <3>2. position % c.interval \in 0..(c.interval - 1)
        BY <2>1
      <3>3. b \in Nat /\ position < b /\ b < position + (c.interval - (position % c.interval))
        BY <2>1, <3>1, <3>2
      <3>4. QED
        BY <2>1, <3>3, NoBoundaryBefore
    <2>2. QED
      BY <1>2, <2>1 DEF WellCut
  <1>3. CASE whole
    <2>1. width = c.chunk
      BY <1>3 DEF ChoosePrefillWidth
    <2>2. QED
      BY <1>2, <1>3, <2>1 DEF Prebuilt
  <1>4. CASE ~whole /\ aligned
    <2>1. width = c.interval
      BY <1>4 DEF ChoosePrefillWidth
    <2>2. Fits(c, position, c.interval)
      BY <1>4 DEF Fits, ToBoundary
    <2>3. c.interval \in Prebuilt(c, tails)
      BY <1>4 DEF Prebuilt
    <2>4. QED
      BY <1>2, <1>4, <2>1, <2>2, <2>3
  <1>5. CASE ~whole /\ ~aligned /\ fitting # {}
    <2>1. width = Max(fitting)
      BY <1>5 DEF ChoosePrefillWidth
    <2>2. fitting \in SUBSET (0..remaining)
      <3>1. ASSUME NEW w \in fitting PROVE w \in 0..remaining
        <4>1. w \in Nat /\ w <= remaining
          OBVIOUS
        <4>2. QED
          BY <4>1
      <3>2. fitting \subseteq 0..remaining
        BY <3>1, Zenon
      <3>3. QED
        BY <3>2
    <2>3. Max(fitting) \in fitting
      BY <1>5, <2>2, GreatestOf
    <2>4. QED
      BY <1>2, <2>1, <2>3 DEF Prebuilt
  <1>6. CASE ~whole /\ ~aligned /\ fitting = {}
    <2>1. width = Max({Min(narrow), 1})
      BY <1>6 DEF ChoosePrefillWidth
    <2>2. narrow \in SUBSET (Nat \ {0}) /\ narrow # {}
      BY <1>1
    <2>3. Min(narrow) \in narrow /\ \A y \in narrow : Min(narrow) <= y
      BY <2>2, LeastOf
    <2>4. Min(narrow) \in Nat \ {0}
      BY <2>2, <2>3
    <2>5. Max({Min(narrow), 1}) = Min(narrow)
      <3> DEFINE m == Min(narrow)
      <3> HIDE DEF m
      <3>1. m \in Nat \ {0}
        BY <2>4 DEF m
      <3>2. Max({m, 1}) = m
        <4>1. \A x \in {m, 1} : (\A y \in {m, 1} : x >= y) <=> x = m
          BY <3>1
        <4>2. QED
          BY <4>1 DEF Max
      <3>3. QED
        BY <3>2 DEF m
    <2>6. Min(narrow) <= remaining /\ Min(narrow) <= c.max_batch
      BY <2>3
    <2>7. Fits(c, position, Min(narrow))
      BY <2>3 DEF Fits
    <2>8. Min(narrow) \in Prebuilt(c, tails)
      BY <2>4, <2>6 DEF Prebuilt
    <2>9. QED
      BY <1>2, <2>1, <2>4, <2>5, <2>6, <2>7, <2>8
  <1>7. QED
    BY <1>3, <1>4, <1>5, <1>6

=============================================================================
