-------------------------- MODULE SchedulerProofs --------------------------
(***************************************************************************)
(* The scheduler's inductive invariants and what follows from them, for    *)
(* every configuration and every finite set of requests.                   *)
(***************************************************************************)
EXTENDS Scheduler, SequenceTheorems, FiniteSetTheorems, TLAPS

-----------------------------------------------------------------------------
(* What the list operations do to the set of elements of a list and to its *)
(* freedom from duplicates. *)

\* push_back adds one element and keeps a duplicate-free list duplicate-free.
LEMMA AppendFacts ==
    ASSUME NEW S, NEW s \in Seq(S), NEW x \in S
    PROVE  /\ Append(s, x) \in Seq(S)
           /\ Len(Append(s, x)) = Len(s) + 1
           /\ ToSet(Append(s, x)) = ToSet(s) \cup {x}
           /\ (IsInjective(s) /\ x \notin ToSet(s)) => IsInjective(Append(s, x))
  <1> DEFINE t == Append(s, x)
  <1>1. /\ t \in Seq(S)
        /\ Len(s) \in Nat
        /\ Len(t) = Len(s) + 1
        /\ DOMAIN s = 1 .. Len(s)
        /\ DOMAIN t = 1 .. (Len(s) + 1)
        /\ t[Len(s) + 1] = x
        /\ \A i \in 1 .. Len(s) : t[i] = s[i]
    OBVIOUS
  <1> HIDE DEF t
  <1>2. \A i \in DOMAIN t : i \in DOMAIN s \/ i = Len(s) + 1
    BY <1>1
  <1>3. \A i \in DOMAIN s : i \in DOMAIN t
    BY <1>1
  <1>4. ToSet(t) = ToSet(s) \cup {x}
    BY <1>1, <1>2, <1>3 DEF ToSet
  <1>5. ASSUME IsInjective(s), x \notin ToSet(s)
        PROVE  IsInjective(t)
    <2>1. \A i \in DOMAIN s : t[i] # x
      BY <1>1, <1>5 DEF ToSet
    <2>2. QED
      BY <1>1, <1>2, <1>5, <2>1 DEF IsInjective
  <1>6. QED
    BY <1>1, <1>4, <1>5 DEF t

\* pop_front splits a list into its first element and the others.
LEMMA TailFacts ==
    ASSUME NEW S, NEW s \in Seq(S), s # <<>>
    PROVE  /\ Head(s) \in S
           /\ Tail(s) \in Seq(S)
           /\ ToSet(s) = ToSet(Tail(s)) \cup {Head(s)}
           /\ IsInjective(s) => IsInjective(Tail(s)) /\ Head(s) \notin ToSet(Tail(s))
  <1> DEFINE t == Tail(s)
             h == Head(s)
  <1>1. /\ Len(s) \in Nat
        /\ Len(s) # 0
        /\ h = s[1]
        /\ t \in Seq(S)
        /\ Len(t) = Len(s) - 1
        /\ DOMAIN s = 1 .. Len(s)
        /\ DOMAIN t = 1 .. (Len(s) - 1)
        /\ \A i \in 1 .. (Len(s) - 1) : t[i] = s[i + 1]
    OBVIOUS
  <1>2. h \in S
    BY <1>1
  <1> HIDE DEF t, h
  <1>3. \A i \in DOMAIN s : i = 1 \/ (i - 1 \in DOMAIN t /\ t[i - 1] = s[i])
    BY <1>1
  <1>4. \A i \in DOMAIN t : i + 1 \in DOMAIN s /\ i + 1 # 1 /\ t[i] = s[i + 1]
    BY <1>1
  <1>5. ToSet(s) \subseteq ToSet(t) \cup {h}
    BY <1>1, <1>3 DEF ToSet
  <1>6. ToSet(t) \cup {h} \subseteq ToSet(s)
    BY <1>1, <1>4 DEF ToSet
  <1>7. ASSUME IsInjective(s)
        PROVE  IsInjective(t) /\ h \notin ToSet(t)
    <2>1. h \notin ToSet(t)
      BY <1>1, <1>4, <1>7 DEF IsInjective, ToSet
    <2>2. IsInjective(t)
      BY <1>1, <1>4, <1>7 DEF IsInjective
    <2>3. QED
      BY <2>1, <2>2
  <1>8. QED
    BY <1>1, <1>2, <1>5, <1>6, <1>7 DEF t, h

\* push_front, as preempt uses it.
LEMMA PushFrontFacts ==
    ASSUME NEW S, NEW s \in Seq(S), NEW x \in S
    PROVE  /\ <<x>> \o s \in Seq(S)
           /\ ToSet(<<x>> \o s) = ToSet(s) \cup {x}
           /\ (IsInjective(s) /\ x \notin ToSet(s)) => IsInjective(<<x>> \o s)
  <1> DEFINE t == <<x>> \o s
  <1>1. /\ t \in Seq(S)
        /\ Len(s) \in Nat
        /\ Len(t) = Len(s) + 1
        /\ DOMAIN s = 1 .. Len(s)
        /\ DOMAIN t = 1 .. (Len(s) + 1)
        /\ t[1] = x
        /\ \A i \in 1 .. Len(s) : t[i + 1] = s[i]
        /\ \A i \in 2 .. (Len(s) + 1) : t[i] = s[i - 1]
    OBVIOUS
  <1> HIDE DEF t
  <1>2. ASSUME NEW i \in DOMAIN t PROVE t[i] \in ToSet(s) \cup {x}
    <2>1. CASE i = 1
      BY <1>1, <2>1
    <2>2. CASE i # 1
      <3>1. i - 1 \in DOMAIN s /\ t[i] = s[i - 1]
        BY <1>1, <2>2
      <3>2. QED
        BY <3>1 DEF ToSet
    <2>3. QED
      BY <2>1, <2>2
  <1>3. ASSUME NEW i \in DOMAIN s PROVE s[i] \in ToSet(t)
    BY <1>1 DEF ToSet
  <1>4. x \in ToSet(t)
    BY <1>1 DEF ToSet
  <1>5. ToSet(t) = ToSet(s) \cup {x}
    BY <1>2, <1>3, <1>4 DEF ToSet
  <1>6. ASSUME IsInjective(s), x \notin ToSet(s)
        PROVE  IsInjective(t)
    <2>1. \A i \in DOMAIN t : i = 1 \/ (i - 1 \in DOMAIN s /\ t[i] = s[i - 1])
      BY <1>1
    <2>2. \A i \in DOMAIN s : s[i] # x
      BY <1>6 DEF ToSet
    <2>3. ASSUME NEW i \in DOMAIN t, NEW j \in DOMAIN t, t[i] = t[j]
          PROVE  i = j
      <3>1. CASE i = 1 \/ j = 1
        BY <1>1, <2>1, <2>2, <2>3, <3>1
      <3>2. CASE i # 1 /\ j # 1
        <4>1. i - 1 = j - 1
          BY <1>6, <2>1, <2>3, <3>2 DEF IsInjective
        <4>2. QED
          BY <1>1, <4>1
      <3>3. QED
        BY <3>1, <3>2
    <2>4. QED
      BY <2>3 DEF IsInjective
  <1>7. QED
    BY <1>1, <1>5, <1>6 DEF t

\* Removing an element of a duplicate-free list removes it from the set.
LEMMA WithoutFacts ==
    ASSUME NEW S, NEW s \in Seq(S), NEW x \in ToSet(s)
    PROVE  /\ Without(s, x) \in Seq(S)
           /\ Len(Without(s, x)) = Len(s) - 1
           /\ IsInjective(s) => /\ ToSet(Without(s, x)) = ToSet(s) \ {x}
                                /\ IsInjective(Without(s, x))
  <1> DEFINE p == Position(s, x)
             t == Without(s, x)
  <1>1. p \in 1 .. Len(s) /\ s[p] = x
    BY DEF Position, ToSet
  <1>2. t = SubSeq(s, 1, p - 1) \o SubSeq(s, p + 1, Len(s))
    BY DEF Without, RemoveAt
  <1> HIDE DEF p, t
  <1>3. /\ t \in Seq(S)
        /\ Len(t) = Len(s) - 1
        /\ \A i \in 1 .. Len(s) - 1 : t[i] = IF i < p THEN s[i] ELSE s[i + 1]
    <2> DEFINE a == SubSeq(s, 1, p - 1)
               b == SubSeq(s, p + 1, Len(s))
    <2>1. /\ a \in Seq(S)
          /\ Len(a) = p - 1
          /\ \A i \in 1 .. p - 1 : a[i] = s[i]
      BY <1>1
    <2>2. /\ b \in Seq(S)
          /\ Len(b) = Len(s) - p
          /\ \A i \in 1 .. Len(s) - p : b[i] = s[p + i]
      BY <1>1
    <2>3. t = a \o b
      BY <1>2
    <2> HIDE DEF a, b
    <2>4. /\ t \in Seq(S)
          /\ Len(t) = Len(a) + Len(b)
          /\ \A i \in 1 .. Len(a) + Len(b) :
                 t[i] = IF i <= Len(a) THEN a[i] ELSE b[i - Len(a)]
      BY <2>1, <2>2, <2>3, ConcatProperties
    <2>5. ASSUME NEW i \in 1 .. Len(s) - 1
          PROVE  t[i] = IF i < p THEN s[i] ELSE s[i + 1]
      <3>1. i \in 1 .. Len(a) + Len(b)
        BY <1>1, <2>1, <2>2
      <3>2. CASE i < p
        BY <1>1, <2>1, <2>4, <3>1, <3>2
      <3>3. CASE ~ (i < p)
        <4>1. ~ (i <= Len(a)) /\ i - Len(a) \in 1 .. Len(s) - p
          BY <1>1, <2>1, <3>3
        <4>2. b[i - Len(a)] = s[p + (i - Len(a))]
          BY <2>2, <4>1
        <4>3. p + (i - Len(a)) = i + 1
          BY <1>1, <2>1
        <4>4. t[i] = b[i - Len(a)]
          BY <2>4, <3>1, <4>1
        <4>5. QED
          BY <4>2, <4>3, <4>4, <3>3
      <3>4. QED
        BY <3>2, <3>3
    <2>6. QED
      BY <1>1, <2>1, <2>2, <2>4, <2>5
  <1>4. /\ DOMAIN s = 1 .. Len(s)
        /\ DOMAIN t = 1 .. Len(s) - 1
        /\ Len(s) \in Nat
    BY <1>3
  <1>5. ASSUME IsInjective(s)
        PROVE  ToSet(t) = ToSet(s) \ {x} /\ IsInjective(t)
    <2>1. ASSUME NEW i \in DOMAIN t
          PROVE  t[i] \in ToSet(s) /\ t[i] # x
      BY <1>1, <1>3, <1>4, <1>5 DEF ToSet, IsInjective
    <2>2. ASSUME NEW i \in DOMAIN s, s[i] # x
          PROVE  s[i] \in ToSet(t)
      <3>1. CASE i < p
        BY <1>1, <1>3, <1>4, <3>1 DEF ToSet
      <3>2. CASE i > p
        <4>1. i - 1 \in DOMAIN t /\ t[i - 1] = s[i]
          BY <1>1, <1>3, <1>4, <3>2
        <4>2. QED
          BY <4>1 DEF ToSet
      <3>3. QED
        BY <1>1, <1>4, <2>2, <3>1, <3>2
    <2>3. ToSet(t) = ToSet(s) \ {x}
      BY <2>1, <2>2 DEF ToSet
    <2>4. IsInjective(t)
      BY <1>1, <1>3, <1>4, <1>5 DEF IsInjective
    <2>5. QED
      BY <2>3, <2>4
  <1>6. QED
    BY <1>3, <1>5 DEF t

-----------------------------------------------------------------------------
(* Arithmetic: every quantity of the configuration is a natural number. *)

LEMMA ModType ==
    ASSUME NEW a \in Nat, NEW b \in Nat \ {0}
    PROVE  a % b \in Nat /\ a % b < b
  OBVIOUS

LEMMA DivType ==
    ASSUME NEW a \in Nat, NEW b \in Nat \ {0}
    PROVE  a \div b \in Nat /\ a \div b <= a
  OBVIOUS

LEMMA NeededType ==
    ASSUME NEW n \in Nat
    PROVE  AttentionBlocksNeeded(n) \in Nat
  <1>1. (n + DraftTokens) % (U32Max + 1) \in Nat
    BY ConfigAssumption, ModType
  <1>2. ((n + DraftTokens) % (U32Max + 1)) + BlockSize - 1 \in Nat
    BY <1>1, ConfigAssumption DEF ConfigAccepted
  <1>3. QED
    BY <1>2, ConfigAssumption, DivType DEF AttentionBlocksNeeded, ConfigAccepted

LEMMA HalfBudget == TokenBudget \div 2 \in 0 .. TokenBudget
  <1>1. TokenBudget \in Nat
    BY ConfigAssumption
  <1>2. QED
    BY <1>1

LEMMA SpendType ==
    ASSUME NEW b \in 0 .. TokenBudget, NEW c \in Nat, c <= b
    PROVE  b - c \in 0 .. TokenBudget
  <1>1. TokenBudget \in Nat
    BY ConfigAssumption
  <1>2. QED
    BY <1>1

LEMMA WatermarkType == Watermark \in Nat
  <1>1. WatermarkPercent * TotalBlocks \in Nat
    BY ConfigAssumption DEF ConfigAccepted
  <1>2. QED
    BY <1>1, DivType DEF Watermark

-----------------------------------------------------------------------------
(* The cardinality of the holdings is their sum. *)

\* Request r alone holds n blocks.
LEMMA OneHolding ==
    ASSUME NEW r \in Requests, NEW n \in 0 .. TotalBlocks
    PROVE  /\ IsFiniteSet({r} \X (1 .. n))
           /\ Cardinality({r} \X (1 .. n)) = n
  <1>1. IsFiniteSet({r}) /\ Cardinality({r}) = 1
    BY FS_Singleton
  <1>2. IsFiniteSet(1 .. n) /\ Cardinality(1 .. n) = n
    BY FS_Interval, ConfigAssumption
  <1>3. /\ IsFiniteSet({r} \X (1 .. n))
        /\ Cardinality({r} \X (1 .. n)) = Cardinality({r}) * Cardinality(1 .. n)
    BY <1>1, <1>2, FS_Product, Zenon
  <1>4. QED
    BY <1>1, <1>2, <1>3, ConfigAssumption

LEMMA HoldingsFinite ==
    ASSUME NEW f \in [Requests -> Nat]
    PROVE  /\ IsFiniteSet(Holdings(f))
           /\ Cardinality(Holdings(f)) \in Nat
  <1>1. IsFiniteSet(1 .. TotalBlocks)
    BY FS_Interval, ConfigAssumption
  <1>2. IsFiniteSet(Requests \X (1 .. TotalBlocks))
    BY <1>1, FS_Product, RequestAssumption
  <1>3. Holdings(f) \subseteq Requests \X (1 .. TotalBlocks)
    BY DEF Holdings
  <1>4. QED
    BY <1>2, <1>3, FS_Subset, FS_CardinalityType

\* Changing what one request holds changes the total by the difference.
LEMMA HoldingsUpdate ==
    ASSUME NEW f \in [Requests -> 0 .. TotalBlocks],
           NEW g \in [Requests -> 0 .. TotalBlocks],
           NEW r \in Requests,
           \A q \in Requests \ {r} : g[q] = f[q]
    PROVE  Cardinality(Holdings(g)) = Cardinality(Holdings(f)) - f[r] + g[r]
  <1> DEFINE Others(h) == {x \in Holdings(h) : x[1] # r}
  <1>1. ASSUME NEW h \in [Requests -> 0 .. TotalBlocks]
        PROVE  /\ IsFiniteSet(Others(h))
               /\ Cardinality(Others(h)) \in Nat
               /\ Cardinality(Holdings(h)) = Cardinality(Others(h)) + h[r]
    <2>1. h \in [Requests -> Nat]
      BY ConfigAssumption
    <2>2. IsFiniteSet(Others(h)) /\ Cardinality(Others(h)) \in Nat
      BY <2>1, HoldingsFinite, FS_Subset, FS_CardinalityType
    <2>3. Holdings(h) = Others(h) \cup ({r} \X (1 .. h[r]))
      BY ConfigAssumption DEF Holdings
    <2>4. Others(h) \cap ({r} \X (1 .. h[r])) = {}
      OBVIOUS
    <2>5. h[r] \in 0 .. TotalBlocks
      OBVIOUS
    <2>6. IsFiniteSet({r} \X (1 .. h[r])) /\ Cardinality({r} \X (1 .. h[r])) = h[r]
      BY <2>5, OneHolding
    <2> HIDE DEF Others
    <2>7. Cardinality(Holdings(h)) = Cardinality(Others(h)) + h[r] - 0
      BY <2>2, <2>3, <2>4, <2>6, FS_Union, FS_EmptySet
    <2>8. QED
      BY <2>2, <2>5, <2>7
  <1>2. Others(g) = Others(f)
    BY DEF Holdings
  <1> HIDE DEF Others
  <1>3. QED
    BY <1>1, <1>2, ConfigAssumption

-----------------------------------------------------------------------------
(* Consequences of the invariant that several actions use. *)

LEMMA SeqLenType ==
    ASSUME TypeOK, NEW r \in Requests
    PROVE  FullSeqLen(r) \in Nat /\ AttentionBlocksNeeded(FullSeqLen(r)) \in Nat
  <1>1. req[r].prompt + req[r].output \in Nat
    BY DEF TypeOK, TrackedRequest
  <1>2. FullSeqLen(r) \in Nat
    BY <1>1, ModType, ConfigAssumption DEF FullSeqLen
  <1>3. QED
    BY <1>2, NeededType

LEMMA ElementType ==
    ASSUME NEW S, NEW s \in Seq(S)
    PROVE  ToSet(s) \subseteq S
  BY DEF ToSet

\* The chunk of a request is at most what remains of its prompt and of the
\* budget it may spend.
LEMMA ChunkType ==
    ASSUME TypeOK, NEW r \in Requests, req[r].computed <= req[r].prompt,
           NEW tokens \in Nat
    PROVE  /\ Chunk(r, tokens) \in Nat
           /\ Chunk(r, tokens) <= tokens
           /\ req[r].computed + Chunk(r, tokens) <= req[r].prompt
  <1>1. req[r].computed \in Nat /\ req[r].prompt \in Nat
    BY DEF TypeOK, TrackedRequest
  <1>2. Remaining(r) \in Nat /\ req[r].computed + Remaining(r) = req[r].prompt
    BY <1>1 DEF Remaining
  <1>3. Slice \in Nat
    BY ConfigAssumption DEF Slice
  <1>4. QED
    BY <1>1, <1>2, <1>3 DEF Chunk, Lesser

-----------------------------------------------------------------------------
LEMMA InitInvariant == Init => IInv
  <1> SUFFICES ASSUME Init PROVE IInv
    OBVIOUS
  <1>1. TypeOK
    BY ConfigAssumption, CursorAssumption
       DEF Init, TypeOK, Phases, TrackedRequest, NoRequest, ConfigAccepted
  <1>2. ToSet(waiting) = {} /\ ToSet(running) = {}
    BY DEF Init, ToSet
  <1>3. TrackedOnce /\ PrefixWithinPrompt
    BY <1>2 DEF Init, TrackedOnce, IsInjective, PrefixWithinPrompt
  <1>4. ReservationCoversLifetime /\ \A r \in Requests : req[r].blocks <= TotalBlocks
    BY <1>2, ConfigAssumption DEF Init, ReservationCoversLifetime, NoRequest
  <1>5. Holdings(BlocksOf) = {}
    BY DEF Init, Holdings, BlocksOf, NoRequest
  <1>6. BlocksConserved
    BY <1>5, FS_EmptySet, ConfigAssumption DEF Init, BlocksConserved
  <1>7. QED
    BY <1>1, <1>3, <1>4, <1>6 DEF IInv, Init

\* An action that changes at most the progress of running requests, and the
\* variables of the step, keeps every conjunct but the types.
LEMMA ProgressOnly ==
    ASSUME IInv, TypeOK', UNCHANGED <<waiting, running, free>>,
           \A r \in Requests : /\ req'[r].prompt = req[r].prompt
                                /\ req'[r].output = req[r].output
                                /\ req'[r].blocks = req[r].blocks,
           \A r \in Requests \ ToSet(running) : req'[r] = req[r],
           phase' = "idle" => pos' = 0
    PROVE  IInv'
  <1>1. TrackedOnce'
    BY DEF IInv, TrackedOnce
  <1>2. ToSet(waiting) \subseteq Requests \ ToSet(running)
    BY ElementType DEF IInv, TypeOK, TrackedOnce
  <1>3. PrefixWithinPrompt'
    BY <1>2 DEF IInv, PrefixWithinPrompt
  <1>4. \A r \in Requests : FullSeqLen(r)' = FullSeqLen(r)
    BY DEF FullSeqLen
  <1>5. ReservationCoversLifetime'
    BY <1>4 DEF IInv, ReservationCoversLifetime, AttentionBlocksNeeded
  <1>6. BlocksOf' = BlocksOf
    BY DEF BlocksOf
  <1>7. Holdings(BlocksOf)' = Holdings(BlocksOf)
    BY <1>6 DEF Holdings
  <1>8. BlocksConserved'
    BY <1>7 DEF IInv, BlocksConserved
  <1>9. QED
    BY <1>1, <1>3, <1>5, <1>8 DEF IInv

-----------------------------------------------------------------------------
(* One lemma per action. *)

\* Whatever changes the blocks of one request and the free count by the same
\* amount conserves blocks.
LEMMA ConservationUpdate ==
    ASSUME IInv, NEW r \in Requests,
           req' \in [Requests -> TrackedRequest],
           req'[r].blocks <= TotalBlocks,
           \A q \in Requests \ {r} : req'[q].blocks = req[q].blocks,
           free' = free + req[r].blocks - req'[r].blocks
    PROVE  BlocksConserved'
  <1>1. /\ \A q \in Requests : req[q].blocks \in Nat
        /\ \A q \in Requests : req'[q].blocks \in Nat
    BY DEF IInv, TypeOK, TrackedRequest
  <1>2. \A q \in Requests : req[q].blocks \in 0 .. TotalBlocks
    BY <1>1, ConfigAssumption DEF IInv
  <1>3. \A q \in Requests : req'[q].blocks \in 0 .. TotalBlocks
    BY <1>1, <1>2, ConfigAssumption
  <1>4. /\ BlocksOf \in [Requests -> 0 .. TotalBlocks]
        /\ BlocksOf[r] = req[r].blocks
    BY <1>2 DEF BlocksOf
  <1>5. /\ BlocksOf' \in [Requests -> 0 .. TotalBlocks]
        /\ BlocksOf'[r] = req'[r].blocks
        /\ \A q \in Requests \ {r} : BlocksOf'[q] = BlocksOf[q]
    BY <1>3 DEF BlocksOf
  <1>6. BlocksOf \in [Requests -> Nat]
    BY <1>1 DEF BlocksOf
  <1>7. Cardinality(Holdings(BlocksOf)) \in Nat
    BY <1>6, HoldingsFinite
  <1>8. Cardinality(Holdings(BlocksOf')) =
            Cardinality(Holdings(BlocksOf)) - BlocksOf[r] + BlocksOf'[r]
    BY <1>4, <1>5, HoldingsUpdate
  <1>9. Holdings(BlocksOf)' = Holdings(BlocksOf')
    BY DEF Holdings
  <1>10. free \in Nat
    BY DEF IInv, TypeOK
  <1>11. QED
    BY <1>1, <1>4, <1>5, <1>7, <1>8, <1>9, <1>10, ConfigAssumption
       DEF IInv, BlocksConserved

\* finish_request and preempt: the blocks of r return.
LEMMA ReleaseKeepsConservation ==
    ASSUME IInv, NEW r \in Requests,
           free' = free + req[r].blocks,
           req' \in [Requests -> TrackedRequest],
           req'[r].blocks = 0,
           \A q \in Requests \ {r} : req'[q] = req[q]
    PROVE  BlocksConserved' /\ free' \in Nat
  <1>1. free \in Nat /\ req[r].blocks \in Nat
    BY DEF IInv, TypeOK, TrackedRequest
  <1>2. QED
    BY <1>1, ConservationUpdate, ConfigAssumption

LEMMA FinishKeepsInvariant ==
    ASSUME IInv, NEW r \in Requests, FinishRequest(r), UNCHANGED stepVars,
           phase = "idle"
    PROVE  IInv'
  <1>1. /\ r \in ToSet(running)
        /\ running \in Seq(Requests)
        /\ waiting \in Seq(Requests)
        /\ IsInjective(running)
        /\ req \in [Requests -> TrackedRequest]
    BY DEF FinishRequest, IInv, TypeOK, TrackedOnce
  <1>2. /\ running' \in Seq(Requests)
        /\ ToSet(running') = ToSet(running) \ {r}
        /\ IsInjective(running')
    BY <1>1, WithoutFacts DEF FinishRequest
  <1>3. /\ waiting' = waiting
        /\ req' = [req EXCEPT ![r] = NoRequest]
        /\ free' = free + req[r].blocks
        /\ cursor' = cursor
    BY DEF FinishRequest
  <1>4. /\ req' \in [Requests -> TrackedRequest]
        /\ req'[r] = NoRequest
        /\ \A q \in Requests \ {r} : req'[q] = req[q]
    BY <1>1, <1>3 DEF TrackedRequest, NoRequest
  <1>5. req'[r].blocks = 0
    BY <1>4 DEF NoRequest
  <1>6. BlocksConserved' /\ free' \in Nat
    BY <1>1, <1>3, <1>4, <1>5, ReleaseKeepsConservation
  <1>7. TypeOK' /\ (phase = "idle" => pos = 0)'
    BY <1>2, <1>3, <1>4, <1>6 DEF IInv, TypeOK, stepVars
  <1>8. TrackedOnce'
    BY <1>2, <1>3 DEF IInv, TrackedOnce
  <1>9. PrefixWithinPrompt'
    BY <1>1, <1>3, <1>4, ElementType DEF IInv, TrackedOnce, PrefixWithinPrompt
  <1>10. \A q \in Requests \ {r} : FullSeqLen(q)' = FullSeqLen(q)
    BY <1>4 DEF FullSeqLen
  <1>11. ReservationCoversLifetime'
    BY <1>2, <1>3, <1>4, <1>5, <1>10
       DEF IInv, ReservationCoversLifetime, AttentionBlocksNeeded
  <1>12. \A q \in Requests : req'[q].blocks <= TotalBlocks
    BY <1>4, <1>5, ConfigAssumption DEF IInv
  <1>13. QED
    BY <1>6, <1>7, <1>8, <1>9, <1>11, <1>12 DEF IInv

LEMMA PreemptKeepsInvariant ==
    ASSUME IInv, NEW r \in Requests, Preempt(r), UNCHANGED stepVars,
           phase = "idle"
    PROVE  IInv'
  <1>1. /\ r \in ToSet(running)
        /\ running \in Seq(Requests)
        /\ waiting \in Seq(Requests)
        /\ IsInjective(running)
        /\ IsInjective(waiting)
        /\ r \notin ToSet(waiting)
        /\ req \in [Requests -> TrackedRequest]
    BY DEF Preempt, IInv, TypeOK, TrackedOnce
  <1>2. /\ running' \in Seq(Requests)
        /\ ToSet(running') = ToSet(running) \ {r}
        /\ IsInjective(running')
    BY <1>1, WithoutFacts DEF Preempt
  <1>3. /\ waiting' = <<r>> \o waiting
        /\ req' = [req EXCEPT ![r].blocks = 0, ![r].computed = 0]
        /\ free' = free + req[r].blocks
        /\ cursor' = cursor
    BY DEF Preempt
  <1>4. /\ waiting' \in Seq(Requests)
        /\ ToSet(waiting') = ToSet(waiting) \cup {r}
        /\ IsInjective(waiting')
    BY <1>1, <1>3, PushFrontFacts
  <1>5. /\ req' \in [Requests -> TrackedRequest]
        /\ req'[r].blocks = 0
        /\ req'[r].computed = 0
        /\ \A q \in Requests \ {r} : req'[q] = req[q]
    BY <1>1, <1>3 DEF TrackedRequest
  <1>6. BlocksConserved' /\ free' \in Nat
    BY <1>1, <1>3, <1>5, ReleaseKeepsConservation
  <1>7. TypeOK' /\ (phase = "idle" => pos = 0)'
    BY <1>2, <1>3, <1>4, <1>5, <1>6 DEF IInv, TypeOK, stepVars
  <1>8. TrackedOnce'
    BY <1>1, <1>2, <1>4 DEF IInv, TrackedOnce
  <1>9. req'[r].prompt \in Nat
    BY <1>5 DEF TrackedRequest
  <1>10. PrefixWithinPrompt'
    BY <1>1, <1>4, <1>5, <1>9, ElementType DEF IInv, PrefixWithinPrompt
  <1>11. \A q \in Requests \ {r} : FullSeqLen(q)' = FullSeqLen(q)
    BY <1>5 DEF FullSeqLen
  <1>12. ReservationCoversLifetime'
    BY <1>2, <1>4, <1>5, <1>11
       DEF IInv, ReservationCoversLifetime, AttentionBlocksNeeded
  <1>13. \A q \in Requests : req'[q].blocks <= TotalBlocks
    BY <1>5, ConfigAssumption DEF IInv
  <1>14. QED
    BY <1>6, <1>7, <1>8, <1>10, <1>12, <1>13 DEF IInv

LEMMA CancelWaitingKeepsInvariant ==
    ASSUME IInv, NEW r \in Requests, CancelWaiting(r), UNCHANGED stepVars,
           phase = "idle"
    PROVE  IInv'
  <1>1. /\ r \in ToSet(waiting)
        /\ r \notin ToSet(running)
        /\ waiting \in Seq(Requests)
        /\ IsInjective(waiting)
        /\ req \in [Requests -> TrackedRequest]
        /\ req[r].blocks = 0
        /\ free \in Nat
    BY DEF CancelWaiting, IInv, TypeOK, TrackedOnce, ReservationCoversLifetime
  <1>2. /\ waiting' \in Seq(Requests)
        /\ ToSet(waiting') = ToSet(waiting) \ {r}
        /\ IsInjective(waiting')
    BY <1>1, WithoutFacts DEF CancelWaiting
  <1>3. /\ running' = running
        /\ req' = [req EXCEPT ![r] = NoRequest]
        /\ free' = free
        /\ cursor' = cursor
    BY DEF CancelWaiting
  <1>4. /\ req' \in [Requests -> TrackedRequest]
        /\ req'[r] = NoRequest
        /\ req'[r].blocks = 0
        /\ \A q \in Requests \ {r} : req'[q] = req[q]
    BY <1>1, <1>3 DEF TrackedRequest, NoRequest
  <1>5. free' = free + req[r].blocks
    BY <1>1, <1>3
  <1>6. BlocksConserved'
    BY <1>4, <1>5, ReleaseKeepsConservation
  <1>7. TypeOK' /\ (phase = "idle" => pos = 0)'
    BY <1>2, <1>3, <1>4 DEF IInv, TypeOK, stepVars
  <1>8. TrackedOnce'
    BY <1>2, <1>3 DEF IInv, TrackedOnce
  <1>9. PrefixWithinPrompt'
    BY <1>1, <1>2, <1>4, ElementType DEF IInv, PrefixWithinPrompt
  <1>10. \A q \in Requests \ {r} : FullSeqLen(q)' = FullSeqLen(q)
    BY <1>4 DEF FullSeqLen
  <1>11. ReservationCoversLifetime'
    BY <1>1, <1>2, <1>3, <1>4, <1>10
       DEF IInv, ReservationCoversLifetime, AttentionBlocksNeeded
  <1>12. \A q \in Requests : req'[q].blocks <= TotalBlocks
    BY <1>4, ConfigAssumption DEF IInv
  <1>13. QED
    BY <1>6, <1>7, <1>8, <1>9, <1>11, <1>12 DEF IInv

LEMMA EnqueueKeepsInvariant ==
    ASSUME IInv, NEW r \in Requests, NEW p \in Prompts, NEW m \in Outputs,
           NEW prefix \in CachedPrefixes, Enqueue(r, p, m, prefix),
           UNCHANGED stepVars
    PROVE  IInv'
  <1>1. p \in Nat /\ m \in Nat /\ prefix \in Nat
    BY RequestAssumption
  <1>2. prefix <= p
    BY <1>1 DEF Enqueue, Refusal
  <1>3. /\ r \notin ToSet(waiting)
        /\ r \notin ToSet(running)
        /\ waiting \in Seq(Requests)
        /\ IsInjective(waiting)
        /\ req \in [Requests -> TrackedRequest]
        /\ req[r].blocks = 0
        /\ free \in Nat
    BY DEF Enqueue, IInv, TypeOK, TrackedOnce, ReservationCoversLifetime
  <1>4. /\ running' = running
        /\ req' = [req EXCEPT ![r] = [prompt |-> p, output |-> m,
                                      computed |-> prefix, blocks |-> 0]]
        /\ waiting' = Append(waiting, r)
        /\ free' = free
        /\ cursor' = cursor
    BY DEF Enqueue
  <1>5. /\ waiting' \in Seq(Requests)
        /\ ToSet(waiting') = ToSet(waiting) \cup {r}
        /\ IsInjective(waiting')
    BY <1>3, <1>4, AppendFacts
  <1>6. /\ req' \in [Requests -> TrackedRequest]
        /\ req'[r].blocks = 0
        /\ req'[r].computed = prefix
        /\ req'[r].prompt = p
        /\ \A q \in Requests \ {r} : req'[q] = req[q]
    BY <1>1, <1>3, <1>4 DEF TrackedRequest
  <1>7. free' = free + req[r].blocks
    BY <1>3, <1>4
  <1>8. BlocksConserved'
    BY <1>6, <1>7, ReleaseKeepsConservation
  <1>9. TypeOK' /\ (phase = "idle" => pos = 0)'
    BY <1>4, <1>5, <1>6 DEF IInv, TypeOK, stepVars
  <1>10. TrackedOnce'
    BY <1>3, <1>4, <1>5 DEF IInv, TrackedOnce
  <1>11. PrefixWithinPrompt'
    BY <1>2, <1>3, <1>5, <1>6, ElementType DEF IInv, PrefixWithinPrompt
  <1>12. \A q \in Requests \ {r} : FullSeqLen(q)' = FullSeqLen(q)
    BY <1>6 DEF FullSeqLen
  <1>13. ReservationCoversLifetime'
    BY <1>3, <1>4, <1>5, <1>6, <1>12
       DEF IInv, ReservationCoversLifetime, AttentionBlocksNeeded
  <1>14. \A q \in Requests : req'[q].blocks <= TotalBlocks
    BY <1>6, ConfigAssumption DEF IInv
  <1>15. QED
    BY <1>8, <1>9, <1>10, <1>11, <1>13, <1>14 DEF IInv

LEMMA AdvanceKeepsInvariant ==
    ASSUME IInv, NEW r \in Requests, NEW n \in Nat, AdvanceSpeculative(r, n),
           UNCHANGED stepVars
    PROVE  IInv'
  <1>1. req \in [Requests -> TrackedRequest] /\ FullSeqLen(r) \in Nat
    BY SeqLenType DEF IInv, TypeOK
  <1> DEFINE c == Lesser(Lesser(req[r].computed + n, U32Max), FullSeqLen(r))
  <1>2. c \in Nat
    BY <1>1, ConfigAssumption DEF Lesser, TrackedRequest
  <1>3. req' = [req EXCEPT ![r].computed = c]
    BY DEF AdvanceSpeculative
  <1> HIDE DEF c
  <1>4. /\ req' \in [Requests -> TrackedRequest]
        /\ \A q \in Requests : /\ req'[q].prompt = req[q].prompt
                                /\ req'[q].output = req[q].output
                                /\ req'[q].blocks = req[q].blocks
        /\ \A q \in Requests \ {r} : req'[q] = req[q]
    BY <1>1, <1>2, <1>3 DEF TrackedRequest
  <1>5. TypeOK' /\ (phase' = "idle" => pos' = 0)
    BY <1>4 DEF IInv, TypeOK, AdvanceSpeculative, stepVars
  <1>6. QED
    BY <1>4, <1>5, ProgressOnly DEF AdvanceSpeculative

\* The actions of step_into that only move the step's own variables.
LEMMA ControlKeepsInvariant ==
    ASSUME IInv, BeginStep \/ EndDecodes \/ EndPrefills \/ EndAdmissions \/ ReturnBatch
    PROVE  IInv'
  <1>1. /\ UNCHANGED <<waiting, running, req, free>>
        /\ phase' = "idle" => pos' = 0
    BY DEF BeginStep, EndDecodes, EndPrefills, EndAdmissions, ReturnBatch
  <1>2. TypeOK'
    <2> USE DEF IInv, TypeOK, Phases
    <2>1. CASE BeginStep
      BY <2>1, ConfigAssumption DEF BeginStep
    <2>2. CASE EndDecodes
      <3>1. TokenBudget \div 2 \in 0 .. TokenBudget
        BY HalfBudget
      <3>2. reserve' \in 0 .. TokenBudget
        BY <2>2, <3>1, ConfigAssumption DEF EndDecodes
      <3>3. QED
        BY <2>2, <3>2 DEF EndDecodes
    <2>3. CASE EndPrefills
      <3>1. (cursor + 1) % CursorPeriod \in 0 .. (CursorPeriod - 1)
        BY ModType, CursorAssumption
      <3>2. cursor' \in 0 .. (CursorPeriod - 1)
        BY <2>3, <3>1 DEF EndPrefills
      <3>3. QED
        BY <2>3, <3>2 DEF EndPrefills
    <2>4. CASE EndAdmissions
      BY <2>4 DEF EndAdmissions
    <2>5. CASE ReturnBatch
      BY <2>5, ConfigAssumption DEF ReturnBatch
    <2>6. QED
      BY <2>1, <2>2, <2>3, <2>4, <2>5
  <1>3. QED
    BY <1>1, <1>2, ProgressOnly

\* A grant of n tokens changes the progress of one request and nothing else.
LEMMA GrantFacts ==
    ASSUME req \in [Requests -> TrackedRequest], NEW r \in Requests, NEW n \in Nat,
           req' = [req EXCEPT ![r].computed = @ + n]
    PROVE  /\ req' \in [Requests -> TrackedRequest]
           /\ \A q \in Requests : /\ req'[q].prompt = req[q].prompt
                                   /\ req'[q].output = req[q].output
                                   /\ req'[q].blocks = req[q].blocks
           /\ \A q \in Requests \ {r} : req'[q] = req[q]
  BY DEF TrackedRequest

LEMMA DecodeKeepsInvariant ==
    ASSUME IInv, NEW i \in 1 .. Len(running), DecodeOne(i)
    PROVE  IInv'
  <1> DEFINE r == running[i]
  <1>1. /\ r \in Requests
        /\ r \in ToSet(running)
        /\ req \in [Requests -> TrackedRequest]
        /\ decodes \in Seq(Requests)
    BY DEF IInv, TypeOK, ToSet
  <1>2. /\ req' = [req EXCEPT ![r].computed = @ + 1]
        /\ decodes' = Append(decodes, r)
        /\ budget' = budget - TokensPerDecodeStep
        /\ budget >= TokensPerDecodeStep
        /\ pos' = i + 1
        /\ phase' = "decode"
        /\ UNCHANGED <<waiting, running, free, cursor, reserve, prefills>>
    BY DEF DecodeOne
  <1> HIDE DEF r
  <1>3. /\ req' \in [Requests -> TrackedRequest]
        /\ \A q \in Requests : /\ req'[q].prompt = req[q].prompt
                                /\ req'[q].output = req[q].output
                                /\ req'[q].blocks = req[q].blocks
        /\ \A q \in Requests \ {r} : req'[q] = req[q]
    BY <1>1, <1>2, GrantFacts
  <1>4. decodes' \in Seq(Requests)
    BY <1>1, <1>2
  <1>5. budget \in 0 .. TokenBudget /\ TokensPerDecodeStep \in Nat
    BY ConfigAssumption DEF TokensPerDecodeStep, IInv, TypeOK
  <1>6. budget' \in 0 .. TokenBudget
    BY <1>2, <1>5, ConfigAssumption
  <1>7. TypeOK' /\ (phase' = "idle" => pos' = 0)
    BY <1>2, <1>3, <1>4, <1>6 DEF IInv, TypeOK, Phases
  <1>8. QED
    BY <1>1, <1>2, <1>3, <1>7, ProgressOnly

LEMMA PrefillKeepsInvariant ==
    ASSUME IInv, NEW o \in 0 .. (Len(running) - 1), PrefillOne(o)
    PROVE  IInv'
  <1> DEFINE r == Rotated(o)
             chunk == Chunk(r, Spendable)
  <1>1. /\ req' = [req EXCEPT ![r].computed = @ + chunk]
        /\ prefills' = Append(prefills, [id |-> r, tokens |-> chunk])
        /\ budget' = budget - chunk
        /\ pos' = o + 1
        /\ phase' = "prefill"
        /\ UNCHANGED <<waiting, running, free, cursor, reserve, decodes>>
        /\ Spendable > 0
        /\ ~ IsDecodeReady(r)
    BY DEF PrefillOne, NextPrefill
  <1>2. /\ Len(running) \in Nat \ {0}
        /\ cursor \in Nat
        /\ req \in [Requests -> TrackedRequest]
        /\ budget \in 0 .. TokenBudget
        /\ reserve \in Nat
        /\ prefills \in Seq(PrefillItem)
    BY ConfigAssumption, CursorAssumption DEF IInv, TypeOK
  <1>3. r \in Requests /\ r \in ToSet(running)
    <2>1. (cursor % Len(running)) \in Nat
      BY <1>2, ModType
    <2>2. /\ (((cursor % Len(running)) + o) % Len(running)) \in Nat
          /\ (((cursor % Len(running)) + o) % Len(running)) < Len(running)
      BY <1>2, <2>1, ModType
    <2>3. (((cursor % Len(running)) + o) % Len(running)) + 1 \in DOMAIN running
      BY <2>2, <1>2 DEF IInv, TypeOK
    <2>4. QED
      BY <2>3 DEF Rotated, ToSet, IInv, TypeOK
  <1> HIDE DEF r
  <1>4. req[r].computed <= req[r].prompt
    BY <1>1, <1>2, <1>3 DEF IsDecodeReady, TrackedRequest
  <1>5. Spendable \in Nat /\ Spendable <= budget
    <2>1. TokenBudget \in Nat
      BY ConfigAssumption
    <2>2. budget \in Nat /\ reserve \in Nat /\ Spendable > 0
      BY <1>1, <1>2, <2>1
    <2>3. QED
      BY ONLY <2>2 DEF Spendable
  <1>6. chunk \in Nat /\ chunk <= Spendable
    BY <1>3, <1>4, <1>5, ChunkType DEF IInv
  <1> HIDE DEF chunk
  <1>7. /\ req' \in [Requests -> TrackedRequest]
        /\ \A q \in Requests : /\ req'[q].prompt = req[q].prompt
                                /\ req'[q].output = req[q].output
                                /\ req'[q].blocks = req[q].blocks
        /\ \A q \in Requests \ {r} : req'[q] = req[q]
    BY <1>1, <1>2, <1>3, <1>6, GrantFacts
  <1>8. prefills' \in Seq(PrefillItem)
    BY <1>1, <1>2, <1>3, <1>6 DEF PrefillItem
  <1>9. budget' \in 0 .. TokenBudget
    <2>1. budget \in Nat
      BY <1>2, ConfigAssumption
    <2>2. chunk <= budget
      BY <1>5, <1>6, <2>1
    <2>3. QED
      BY <1>1, <1>2, <1>6, <2>2, SpendType
  <1>10. TypeOK' /\ (phase' = "idle" => pos' = 0)
    BY <1>1, <1>7, <1>8, <1>9 DEF IInv, TypeOK, Phases
  <1>11. QED
    BY <1>1, <1>3, <1>7, <1>10, ProgressOnly

\* The record of a request phase 3 admits.
LEMMA ReserveFacts ==
    ASSUME req \in [Requests -> TrackedRequest], NEW r \in Requests,
           NEW n \in Nat, NEW c \in Nat,
           req' = [req EXCEPT ![r] = [prompt |-> req[r].prompt, output |-> req[r].output,
                                      computed |-> req[r].computed + c, blocks |-> n]]
    PROVE  /\ req' \in [Requests -> TrackedRequest]
           /\ req'[r].blocks = n
           /\ req'[r].prompt = req[r].prompt
           /\ req'[r].output = req[r].output
           /\ \A q \in Requests \ {r} : req'[q] = req[q]
  BY DEF TrackedRequest

\* Phase 3 is the only action that takes blocks.
LEMMA AdmitKeepsInvariant ==
    ASSUME IInv, AdmitOne,
           NEW r, r = Head(waiting),
           NEW needed, needed = AttentionBlocksNeeded(FullSeqLen(r)),
           NEW chunk, chunk = Chunk(r, budget)
    PROVE  IInv'
  <1>1. /\ waiting' = Tail(waiting)
        /\ running' = Append(running, r)
        /\ free' = free - needed
        /\ req' = [req EXCEPT ![r] = [prompt |-> req[r].prompt, output |-> req[r].output,
                                      computed |-> req[r].computed + chunk,
                                      blocks |-> needed]]
        /\ prefills' = Append(prefills, [id |-> r, tokens |-> chunk])
        /\ budget' = budget - chunk
        /\ phase' \in {"planned", "admit"}
        /\ UNCHANGED <<cursor, reserve, pos, decodes>>
        /\ waiting # <<>>
        /\ free >= needed + Watermark
    BY DEF AdmitOne, AdmitFrom, AdmitGuard, AdmissionCanProceed
  <1>2. /\ waiting \in Seq(Requests)
        /\ running \in Seq(Requests)
        /\ prefills \in Seq(PrefillItem)
        /\ req \in [Requests -> TrackedRequest]
        /\ budget \in 0 .. TokenBudget
        /\ free \in Nat
        /\ IsInjective(waiting)
        /\ IsInjective(running)
        /\ ToSet(waiting) \cap ToSet(running) = {}
    BY DEF IInv, TypeOK, TrackedOnce
  <1>3. budget \in Nat
    BY <1>2, ConfigAssumption
  <1>4. /\ r \in Requests
        /\ waiting' \in Seq(Requests)
        /\ ToSet(waiting) = ToSet(waiting') \cup {r}
        /\ IsInjective(waiting')
        /\ r \notin ToSet(waiting')
    BY <1>1, <1>2, TailFacts
  <1>5. needed \in Nat /\ Watermark \in Nat
    BY <1>4, SeqLenType, WatermarkType DEF IInv
  <1>6. r \in ToSet(waiting) /\ r \notin ToSet(running)
    BY <1>2, <1>4
  <1>7. /\ running' \in Seq(Requests)
        /\ ToSet(running') = ToSet(running) \cup {r}
        /\ IsInjective(running')
        /\ Len(running') = Len(running) + 1
    BY <1>1, <1>2, <1>4, <1>6, AppendFacts
  <1>8. /\ req[r].computed <= req[r].prompt
        /\ req[r].blocks = 0
    BY <1>4, <1>6 DEF IInv, PrefixWithinPrompt, ReservationCoversLifetime
  <1>9. chunk \in Nat /\ chunk <= budget
    BY <1>3, <1>4, <1>8, ChunkType DEF IInv
  <1>10. /\ req' \in [Requests -> TrackedRequest]
         /\ req'[r].blocks = needed
         /\ req'[r].prompt = req[r].prompt
         /\ req'[r].output = req[r].output
         /\ \A q \in Requests \ {r} : req'[q] = req[q]
    BY <1>1, <1>2, <1>4, <1>5, <1>9, ReserveFacts
  <1>11. FullSeqLen(r)' = FullSeqLen(r)
    BY <1>10 DEF FullSeqLen
  <1>12. needed = AttentionBlocksNeeded(FullSeqLen(r)')
    BY <1>11
  <1>13. free <= TotalBlocks
    <2>1. BlocksOf \in [Requests -> Nat]
      BY <1>2 DEF BlocksOf, TrackedRequest
    <2>2. Cardinality(Holdings(BlocksOf)) \in Nat
      BY <2>1, HoldingsFinite
    <2>3. QED
      BY <1>2, <2>2, ConfigAssumption DEF IInv, BlocksConserved
  <1>14. needed <= TotalBlocks /\ free' \in Nat
    <2>1. TotalBlocks \in Nat
      BY ConfigAssumption
    <2>2. QED
      BY <1>1, <1>2, <1>5, <1>13, <2>1
  <1>15. BlocksConserved'
    <2>1. free' = free + req[r].blocks - req'[r].blocks
      BY <1>1, <1>2, <1>5, <1>8, <1>10
    <2>2. req'[r].blocks <= TotalBlocks
      BY <1>10, <1>14
    <2>3. QED
      BY <1>4, <1>10, <2>1, <2>2, ConservationUpdate
  <1>16. prefills' \in Seq(PrefillItem)
    BY <1>1, <1>2, <1>4, <1>9 DEF PrefillItem
  <1>17. budget' \in 0 .. TokenBudget
    BY <1>1, <1>2, <1>9, SpendType
  <1>18. TypeOK' /\ (phase' = "idle" => pos' = 0)
    BY <1>1, <1>4, <1>7, <1>10, <1>14, <1>16, <1>17 DEF IInv, TypeOK, Phases
  <1>19. TrackedOnce'
    BY <1>2, <1>4, <1>7 DEF TrackedOnce
  <1>20. PrefixWithinPrompt'
    BY <1>4, <1>10, <1>2, ElementType DEF IInv, PrefixWithinPrompt
  <1>21. \A q \in Requests \ {r} : FullSeqLen(q)' = FullSeqLen(q)
    BY <1>10 DEF FullSeqLen
  <1>22. ReservationCoversLifetime'
    <2> SUFFICES ASSUME NEW q \in Requests
                 PROVE  /\ q \in ToSet(running') =>
                              req'[q].blocks = AttentionBlocksNeeded(FullSeqLen(q)')
                        /\ q \notin ToSet(running') => req'[q].blocks = 0
                        /\ q \notin ToSet(running') \cup ToSet(waiting') =>
                              req'[q] = NoRequest
      BY DEF ReservationCoversLifetime, AttentionBlocksNeeded, NoRequest
    <2>1. CASE q = r
      BY <1>7, <1>12, <1>10, <2>1
    <2>2. CASE q # r
      BY <1>4, <1>7, <1>10, <1>21, <2>2 DEF IInv, ReservationCoversLifetime
    <2>3. QED
      BY <2>1, <2>2
  <1>23. \A q \in Requests : req'[q].blocks <= TotalBlocks
    BY <1>10, <1>14 DEF IInv
  <1>24. QED
    BY <1>15, <1>18, <1>19, <1>20, <1>22, <1>23 DEF IInv

LEMMA StepKeepsInvariant == ASSUME IInv, Step PROVE IInv'
  BY ControlKeepsInvariant, DecodeKeepsInvariant, PrefillKeepsInvariant,
     AdmitKeepsInvariant DEF Step, PlanStep

LEMMA StutterKeepsInvariant == ASSUME IInv, UNCHANGED vars PROVE IInv'
  <1>1. TypeOK' /\ (phase' = "idle" => pos' = 0)
    BY DEF IInv, TypeOK, vars
  <1>2. QED
    BY <1>1, ProgressOnly DEF vars

LEMMA NextKeepsInvariant == ASSUME IInv, [Next]_vars PROVE IInv'
  <1>1. CASE Step
    BY <1>1, StepKeepsInvariant
  <1>2. ASSUME NEW r \in Requests, Admit(r) PROVE IInv'
    BY <1>2, EnqueueKeepsInvariant DEF Admit, Call
  <1>3. ASSUME NEW r \in Requests, Finish(r) PROVE IInv'
    BY <1>3, FinishKeepsInvariant DEF Finish, Call
  <1>4. ASSUME NEW r \in Requests, Cancel(r) PROVE IInv'
    BY <1>4, FinishKeepsInvariant, CancelWaitingKeepsInvariant
       DEF Cancel, CancelRequest, Call
  <1>5. ASSUME NEW r \in Requests, DoPreempt(r) PROVE IInv'
    BY <1>5, PreemptKeepsInvariant DEF DoPreempt, Call
  <1>6. ASSUME NEW r \in Requests, Accept(r) PROVE IInv'
    <2>1. PICK n \in 1 .. DraftTokens : Call(AdvanceSpeculative(r, n))
      BY <1>6 DEF Accept
    <2>2. n \in Nat
      BY ConfigAssumption
    <2>3. QED
      BY <2>1, <2>2, AdvanceKeepsInvariant DEF Call
  <1>7. CASE UNCHANGED vars
    BY <1>7, StutterKeepsInvariant
  <1>8. QED
    BY <1>1, <1>2, <1>3, <1>4, <1>5, <1>6, <1>7 DEF Next

-----------------------------------------------------------------------------
\* The inductive invariant holds in every reachable state, whatever the
\* configuration SchedulerConfig::new accepts and whatever its caller does.
THEOREM InvariantHolds == Spec => []IInv
  <1>1. Init => IInv
    BY InitInvariant
  <1>2. IInv /\ [Next]_vars => IInv'
    BY NextKeepsInvariant
  <1>3. QED
    BY <1>1, <1>2, PTL DEF Spec

\* Type correctness; in particular free_attention_blocks, budget and the chunk of
\* a prompt never underflow their unsigned subtractions.
THEOREM TypeCorrect == Spec => []TypeOK
  <1>1. IInv => TypeOK
    BY DEF IInv
  <1>2. QED
    BY <1>1, InvariantHolds, PTL

\* Free blocks and reservations add up to the pool for every number of requests.
THEOREM Conservation == Spec => []BlocksConserved
  <1>1. IInv => BlocksConserved
    BY DEF IInv
  <1>2. QED
    BY <1>1, InvariantHolds, PTL

\* No request is lost into both lists or held twice in one.
THEOREM SingleTracking == Spec => []TrackedOnce
  <1>1. IInv => TrackedOnce
    BY DEF IInv
  <1>2. QED
    BY <1>1, InvariantHolds, PTL

\* A running request holds the blocks of its whole lifetime, a queued one none.
THEOREM LifetimeReserved == Spec => []ReservationCoversLifetime
  <1>1. IInv => ReservationCoversLifetime
    BY DEF IInv
  <1>2. QED
    BY <1>1, InvariantHolds, PTL

-----------------------------------------------------------------------------
(* The batch a step plans *)

LEMMA ModWrap ==
    ASSUME NEW n \in Nat \ {0}, NEW a \in 0 .. (n - 1), NEW o \in 0 .. (n - 1)
    PROVE  (a + o) % n = IF a + o < n THEN a + o ELSE a + o - n
  <1>1. CASE a + o < n
    BY <1>1
  <1>2. CASE ~(a + o < n)
    <2>1. a + o - n \in 0 .. (n - 1)
      BY <1>2
    <2>2. a + o = n * 1 + (a + o - n)
      OBVIOUS
    <2>3. QED
      BY <1>2, <2>1, <2>2
  <1>3. QED
    BY <1>1, <1>2

\* Phase 2 visits nobody twice.
LEMMA RotatedInjective ==
    ASSUME running \in Seq(Requests), IsInjective(running), cursor \in Nat,
           NEW o \in 0 .. (Len(running) - 1), NEW k \in 0 .. (Len(running) - 1),
           Rotated(o) = Rotated(k)
    PROVE  o = k
  <1> DEFINE n == Len(running)
             a == cursor % n
             At(i) == (a + i) % n
  <1>1. n \in Nat \ {0}
    OBVIOUS
  <1>2. a \in 0 .. (n - 1)
    BY <1>1, ModType
  <1> HIDE DEF a, n
  <1>3. At(o) \in 0 .. (n - 1) /\ At(k) \in 0 .. (n - 1)
    BY <1>1, <1>2, ModType DEF n
  <1>4. At(o) + 1 \in DOMAIN running /\ At(k) + 1 \in DOMAIN running
    BY <1>3, <1>1 DEF n
  <1>5. running[At(o) + 1] = running[At(k) + 1]
    BY DEF Rotated, a, n
  <1>6. At(o) + 1 = At(k) + 1
    BY <1>4, <1>5 DEF IsInjective
  <1>7. At(o) = IF a + o < n THEN a + o ELSE a + o - n
    BY <1>1, <1>2, ModWrap DEF n
  <1>8. At(k) = IF a + k < n THEN a + k ELSE a + k - n
    BY <1>1, <1>2, ModWrap DEF n
  <1>9. At(o) = At(k)
    BY <1>3, <1>6, <1>1
  <1> HIDE DEF At
  <1>10. o \in Nat /\ k \in Nat /\ o < n /\ k < n
    BY <1>1 DEF n
  <1>11. QED
    BY <1>1, <1>2, <1>7, <1>8, <1>9, <1>10

LEMMA GrantedFinite ==
    ASSUME NEW s \in Seq(PrefillItem)
    PROVE  IsFiniteSet(Granted(s)) /\ Cardinality(Granted(s)) \in Nat
  <1>1. DOMAIN s = 1 .. Len(s) /\ Len(s) \in Nat /\ TokenBudget \in Nat
    BY ConfigAssumption
  <1>2. IsFiniteSet(1 .. Len(s)) /\ IsFiniteSet(1 .. TokenBudget)
    BY <1>1, FS_Interval
  <1>3. IsFiniteSet((1 .. Len(s)) \X (1 .. TokenBudget))
    BY <1>2, FS_Product, Zenon
  <1>4. Granted(s) \subseteq (1 .. Len(s)) \X (1 .. TokenBudget)
    BY <1>1 DEF Granted
  <1>5. QED
    BY <1>3, <1>4, FS_Subset, FS_CardinalityType

LEMMA OneRow ==
    ASSUME NEW x, NEW n \in Nat
    PROVE  /\ IsFiniteSet({x} \X (1 .. n))
           /\ Cardinality({x} \X (1 .. n)) = n
  <1>1. IsFiniteSet({x}) /\ Cardinality({x}) = 1
    BY FS_Singleton
  <1>2. IsFiniteSet(1 .. n) /\ Cardinality(1 .. n) = n
    BY FS_Interval
  <1>3. /\ IsFiniteSet({x} \X (1 .. n))
        /\ Cardinality({x} \X (1 .. n)) = Cardinality({x}) * Cardinality(1 .. n)
    BY <1>1, <1>2, FS_Product, Zenon
  <1>4. QED
    BY <1>1, <1>2, <1>3

\* An item adds what it grants to the sum.
LEMMA GrantedAppend ==
    ASSUME NEW s \in Seq(PrefillItem), NEW item \in PrefillItem, item.tokens <= TokenBudget
    PROVE  Cardinality(Granted(Append(s, item))) = Cardinality(Granted(s)) + item.tokens
  <1> DEFINE n == Len(s) + 1
             t == Append(s, item)
             k == item.tokens
             new == {n} \X (1 .. k)
  <1>1. /\ n \in Nat /\ DOMAIN s = 1 .. (n - 1) /\ DOMAIN t = 1 .. n
        /\ \A i \in DOMAIN s : t[i] = s[i]
        /\ t[n].tokens = k
    OBVIOUS
  <1>2. k \in Nat /\ TokenBudget \in Nat /\ k <= TokenBudget
    BY ConfigAssumption DEF PrefillItem
  <1>3. DOMAIN t = (DOMAIN s) \cup {n} /\ n \notin DOMAIN s
    BY <1>1
  <1>4. 1 .. k \subseteq 1 .. TokenBudget /\ \A i \in 1 .. TokenBudget : i <= k <=> i \in 1 .. k
    BY <1>2
  <1> HIDE DEF n, t, k
  <1>5. Granted(t) = Granted(s) \cup new
    BY <1>1, <1>3, <1>4 DEF Granted
  <1>6. Granted(s) \cap new = {}
    BY <1>3 DEF Granted
  <1>7. IsFiniteSet(new) /\ Cardinality(new) = k
    BY <1>2, OneRow
  <1>8. IsFiniteSet(Granted(s)) /\ Cardinality(Granted(s)) \in Nat
    BY GrantedFinite
  <1> HIDE DEF new
  <1>9. Cardinality(Granted(s) \cap new) = 0
    BY <1>6, FS_EmptySet
  <1>10. Cardinality(Granted(t)) = Cardinality(Granted(s)) + Cardinality(new)
        - Cardinality(Granted(s) \cap new)
    BY <1>5, <1>7, <1>8, FS_Union
  <1>11. QED
    BY <1>2, <1>7, <1>8, <1>9, <1>10 DEF t, k

LEMMA PrefillIdsAppend ==
    ASSUME prefills \in Seq(PrefillItem), NEW r \in Requests, NEW n \in Nat,
           prefills' = Append(prefills, [id |-> r, tokens |-> n])
    PROVE  /\ ToSet(PrefillIds') = ToSet(PrefillIds) \cup {r}
           /\ IsInjective(PrefillIds) /\ r \notin ToSet(PrefillIds) => IsInjective(PrefillIds')
  <1> DEFINE k == Len(prefills) + 1
  <1>1. [id |-> r, tokens |-> n] \in PrefillItem
    BY DEF PrefillItem
  <1>2. /\ k \in Nat /\ DOMAIN prefills = 1 .. (k - 1) /\ DOMAIN prefills' = 1 .. k
        /\ \A i \in 1 .. (k - 1) : prefills'[i] = prefills[i]
        /\ prefills'[k] = [id |-> r, tokens |-> n]
    BY <1>1
  <1>3. DOMAIN prefills' = (DOMAIN prefills) \cup {k} /\ k \notin DOMAIN prefills
    BY <1>2
  <1>4. DOMAIN PrefillIds = DOMAIN prefills /\ DOMAIN PrefillIds' = DOMAIN prefills'
    BY DEF PrefillIds
  <1>5. /\ \A i \in DOMAIN prefills : PrefillIds'[i] = PrefillIds[i]
        /\ PrefillIds'[k] = r
    BY <1>2, <1>3 DEF PrefillIds
  <1> HIDE DEF k
  <1>6. ToSet(PrefillIds') = ToSet(PrefillIds) \cup {r}
    <2>1. \A x : x \in ToSet(PrefillIds) => x \in ToSet(PrefillIds')
      BY <1>3, <1>4, <1>5 DEF ToSet
    <2>2. r \in ToSet(PrefillIds')
      BY <1>3, <1>4, <1>5 DEF ToSet
    <2>3. \A x \in ToSet(PrefillIds') : x = r \/ x \in ToSet(PrefillIds)
      BY <1>3, <1>4, <1>5 DEF ToSet
    <2>4. QED
      BY <2>1, <2>2, <2>3, Zenon
  <1>7. ASSUME IsInjective(PrefillIds), r \notin ToSet(PrefillIds)
        PROVE  IsInjective(PrefillIds')
    <2>1. \A i \in DOMAIN prefills : PrefillIds[i] # r
      BY <1>4, <1>7 DEF ToSet
    <2>2. QED
      BY <1>3, <1>4, <1>5, <1>7, <2>1 DEF IsInjective
  <1>8. QED
    BY <1>6, <1>7

LEMMA NoItems ==
    ASSUME NEW s, s = <<>>
    PROVE  /\ ToSet(s) = {} /\ IsInjective(s) /\ Len(s) = 0
           /\ Cardinality(Granted(s)) = 0
  <1>1. ToSet(s) = {} /\ IsInjective(s) /\ Len(s) = 0
    BY DEF ToSet, IsInjective
  <1>2. Granted(s) = {}
    BY DEF Granted
  <1>3. QED
    BY <1>1, <1>2, FS_EmptySet

LEMMA NoPrefillIds ==
    ASSUME prefills = <<>>
    PROVE  ToSet(PrefillIds) = {} /\ IsInjective(PrefillIds)
  <1>1. DOMAIN PrefillIds = {}
    BY DEF PrefillIds
  <1>2. QED
    BY <1>1 DEF ToSet, IsInjective

LEMMA DecodeCost == TokensPerDecodeStep \in Nat /\ TokensPerDecodeStep > 0
  <1>1. DraftTokens \in Nat
    BY ConfigAssumption
  <1>2. QED
    BY <1>1 DEF TokensPerDecodeStep

LEMMA ScheduledType ==
    ASSUME TypeOK
    PROVE  /\ Len(decodes) * TokensPerDecodeStep \in Nat
           /\ Cardinality(Granted(prefills)) \in Nat
           /\ budget \in Nat /\ budget <= TokenBudget
           /\ TokenBudget \in Nat
  <1>1. Len(decodes) \in Nat /\ prefills \in Seq(PrefillItem) /\ budget \in 0 .. TokenBudget
    BY DEF TypeOK
  <1>2. TokenBudget \in Nat
    BY ConfigAssumption
  <1>3. \A a, b \in Nat : a * b \in Nat
    OBVIOUS
  <1>4. QED
    BY <1>1, <1>2, <1>3, DecodeCost, GrantedFinite

\* Outside a step there is no batch.
LEMMA EmptyBatch ==
    ASSUME phase = "idle", decodes = <<>>, prefills = <<>>
    PROVE  BatchInv
  <1>1. ToSet(decodes) = {} /\ ToSet(PrefillIds) = {}
    BY NoItems, NoPrefillIds
  <1>2. QED
    BY <1>1 DEF BatchInv, StepSpendsItsBudget

LEMMA InitBatch == Init => BatchInv
  BY EmptyBatch DEF Init

LEMMA CallKeepsBatch ==
    ASSUME BatchInv, phase = "idle", UNCHANGED stepVars
    PROVE  BatchInv'
  <1>1. phase' = "idle" /\ decodes' = <<>> /\ prefills' = <<>>
    BY DEF BatchInv, stepVars
  <1>2. ToSet(decodes') = {}
    BY <1>1 DEF ToSet
  <1>3. ToSet(PrefillIds') = {}
    BY <1>1 DEF ToSet, PrefillIds
  <1>4. QED
    BY <1>1, <1>2, <1>3 DEF BatchInv, StepSpendsItsBudget

LEMMA ReturnKeepsBatch ==
    ASSUME ReturnBatch
    PROVE  BatchInv'
  <1>1. phase' = "idle" /\ decodes' = <<>> /\ prefills' = <<>>
    BY DEF ReturnBatch
  <1>2. ToSet(decodes') = {}
    BY <1>1 DEF ToSet
  <1>3. ToSet(PrefillIds') = {}
    BY <1>1 DEF ToSet, PrefillIds
  <1>4. QED
    BY <1>1, <1>2, <1>3 DEF BatchInv, StepSpendsItsBudget

LEMMA BeginKeepsBatch ==
    ASSUME BeginStep
    PROVE  BatchInv'
  <1>1. phase' = "decode" /\ decodes' = <<>> /\ prefills' = <<>> /\ budget' = TokenBudget
    BY DEF BeginStep
  <1>2. /\ ToSet(decodes') = {} /\ IsInjective(decodes') /\ Len(decodes') = 0
        /\ Cardinality(Granted(prefills')) = 0
    BY <1>1, NoItems
  <1>3. ToSet(PrefillIds') = {} /\ IsInjective(PrefillIds')
    BY <1>1 DEF ToSet, PrefillIds, IsInjective
  <1>4. budget' + ScheduledTokens' = TokenBudget
    <2>1. TokenBudget \in Nat
      BY ConfigAssumption
    <2>2. ScheduledTokens' = 0 * TokensPerDecodeStep + 0
      BY <1>2 DEF ScheduledTokens, Granted, TokensPerDecodeStep
    <2>3. QED
      BY <1>1, <2>1, <2>2, DecodeCost
  <1>5. QED
    BY <1>1, <1>2, <1>3, <1>4 DEF BatchInv, StepSpendsItsBudget

\* The three actions that end a loop leave the batch and the requests alone.
LEMMA QuietKeepsBudget ==
    ASSUME StepSpendsItsBudget, phase # "idle", UNCHANGED <<budget, decodes, prefills>>
    PROVE  StepSpendsItsBudget'
  BY DEF StepSpendsItsBudget, ScheduledTokens, PrefillIds, Granted

LEMMA QuietKeepsProgress ==
    ASSUME BatchInv, UNCHANGED <<running, req, decodes, prefills>>
    PROVE  /\ ToSet(decodes') \cup ToSet(PrefillIds') \subseteq ToSet(running')
           /\ \A r \in ToSet(decodes') :
                  req'[r].computed \in req'[r].prompt .. FullSeqLen(r)'
  BY DEF BatchInv, PrefillIds, FullSeqLen

LEMMA EndDecodesKeepsBatch ==
    ASSUME IInv, BatchInv, EndDecodes
    PROVE  BatchInv'
  <1>1. /\ phase = "decode" /\ phase' = "prefill"
        /\ UNCHANGED <<waiting, running, req, free, cursor, budget, decodes, prefills>>
        /\ reserve' = IF AdmissionCanProceed THEN TokenBudget \div 2 ELSE 0
    BY DEF EndDecodes
  <1>2. StepSpendsItsBudget'
    BY <1>1, QuietKeepsBudget DEF BatchInv
  <1>3. prefills = <<>>
    BY <1>1 DEF BatchInv
  <1>4. ToSet(PrefillIds') = {}
    BY <1>1, <1>3 DEF ToSet, PrefillIds
  <1>5. reserve' > 0 => AdmissionCanProceed
    BY <1>1
  <1>6. AdmissionCanProceed' = AdmissionCanProceed
    BY <1>1 DEF AdmissionCanProceed, FullSeqLen
  <1>7. Len(decodes) * TokensPerDecodeStep < TokenBudget => budget > 0
    <2>1. Cardinality(Granted(prefills)) = 0
      BY <1>3, NoItems
    <2>2. budget + (Len(decodes) * TokensPerDecodeStep + 0) = TokenBudget
      BY <1>1, <2>1 DEF BatchInv, StepSpendsItsBudget, ScheduledTokens
    <2>3. \A a, b, c \in Nat : a + (b + 0) = c /\ b < c => a > 0
      OBVIOUS
    <2>4. QED
      BY <2>2, <2>3, ScheduledType DEF IInv
  <1>8. Len(decodes') * TokensPerDecodeStep < TokenBudget => budget' > 0
    BY <1>1, <1>7
  <1>9. QED
    BY <1>1, <1>2, <1>4, <1>5, <1>6, <1>8, QuietKeepsProgress DEF BatchInv, TokensPerDecodeStep

LEMMA EndPrefillsKeepsBatch ==
    ASSUME BatchInv, EndPrefills
    PROVE  BatchInv'
  <1>1. /\ phase = "prefill" /\ phase' = "admit"
        /\ UNCHANGED <<running, req, budget, decodes, prefills>>
    BY DEF EndPrefills
  <1>2. QED
    BY <1>1, QuietKeepsBudget, QuietKeepsProgress DEF BatchInv

LEMMA EndAdmissionsKeepsBatch ==
    ASSUME BatchInv, EndAdmissions
    PROVE  BatchInv'
  <1>1. /\ phase = "admit" /\ phase' = "planned"
        /\ UNCHANGED <<running, req, budget, decodes, prefills>>
    BY DEF EndAdmissions
  <1>2. QED
    BY <1>1, QuietKeepsBudget, QuietKeepsProgress DEF BatchInv

\* A decode costs what it takes off the budget, and is the request's only item.
LEMMA DecodeKeepsBatch ==
    ASSUME IInv, BatchInv, NEW i \in 1 .. Len(running), DecodeOne(i)
    PROVE  BatchInv'
  <1> DEFINE r == running[i]
  <1>1. /\ phase = "decode" /\ phase' = "decode"
        /\ i \in pos .. Len(running)
        /\ Decodable(r)
        /\ decodes' = Append(decodes, r)
        /\ req' = [req EXCEPT ![r].computed = @ + 1]
        /\ budget >= TokensPerDecodeStep
        /\ budget' = budget - TokensPerDecodeStep
        /\ pos' = i + 1
        /\ UNCHANGED <<running, prefills>>
    BY DEF DecodeOne, NextDecode
  <1>2. /\ running \in Seq(Requests) /\ decodes \in Seq(Requests)
        /\ req \in [Requests -> TrackedRequest]
        /\ pos \in Nat /\ IsInjective(running)
        /\ prefills = <<>>
        /\ ToSet(decodes) \subseteq {running[j] : j \in 1 .. (pos - 1)}
        /\ ToSet(decodes) \subseteq ToSet(running)
    BY <1>1 DEF IInv, TypeOK, TrackedOnce, BatchInv
  <1>3. r \in Requests /\ r \in ToSet(running)
    BY <1>2 DEF ToSet
  <1>4. r \notin ToSet(decodes)
    <2>1. ASSUME NEW j \in 1 .. (pos - 1) PROVE running[j] # r
      <3>1. j \in DOMAIN running /\ i \in DOMAIN running /\ j # i
        BY <1>1, <1>2
      <3>2. QED
        BY <1>2, <3>1 DEF IsInjective
    <2>2. QED
      BY <1>2, <2>1
  <1>5. 1 .. (pos - 1) \subseteq 1 .. (pos' - 1) /\ i \in 1 .. (pos' - 1)
    BY <1>1, <1>2
  <1>6. {running[j] : j \in 1 .. (pos - 1)} \cup {r} \subseteq {running[j] : j \in 1 .. (pos' - 1)}
    BY <1>5
  <1> HIDE DEF r
  <1>7. /\ Len(decodes') = Len(decodes) + 1
        /\ ToSet(decodes') = ToSet(decodes) \cup {r}
        /\ IsInjective(decodes) => IsInjective(decodes')
    BY <1>1, <1>2, <1>3, <1>4, AppendFacts
  <1>8. ToSet(PrefillIds') = {} /\ IsInjective(PrefillIds')
    BY <1>1, <1>2 DEF ToSet, PrefillIds, IsInjective
  <1>9. /\ \A q \in Requests : /\ req'[q].prompt = req[q].prompt
                                /\ req'[q].output = req[q].output
        /\ \A q \in Requests \ {r} : req'[q] = req[q]
    BY <1>1, <1>2, <1>3, GrantFacts
  <1>10. \A q \in Requests : FullSeqLen(q)' = FullSeqLen(q)
    BY <1>9 DEF FullSeqLen
  <1>11. ASSUME NEW q \in Requests, q = r
         PROVE  req'[q].computed \in req'[q].prompt .. FullSeqLen(q)'
    <2>1. FullSeqLen(r) \in Nat /\ req[r].computed \in Nat /\ req[r].prompt \in Nat
      BY <1>2, <1>3, SeqLenType DEF IInv, TrackedRequest
    <2>2. req[r].prompt <= req[r].computed /\ req[r].computed < FullSeqLen(r)
      BY <1>1, <2>1 DEF Decodable, IsDecodeReady
    <2>3. req'[r].computed = req[r].computed + 1
      BY <1>1, <1>2, <1>3 DEF TrackedRequest
    <2>4. \A a, b, c \in Nat : a <= b /\ b < c => b + 1 \in a .. c
      OBVIOUS
    <2>5. QED
      BY <1>3, <1>9, <1>10, <1>11, <2>1, <2>2, <2>3, <2>4
  <1>12. \A q \in ToSet(decodes') : req'[q].computed \in req'[q].prompt .. FullSeqLen(q)'
    <2>1. ToSet(decodes) \subseteq Requests
      BY <1>2, ElementType
    <2>2. ASSUME NEW q \in ToSet(decodes)
          PROVE  req'[q].computed \in req'[q].prompt .. FullSeqLen(q)'
      <3>1. q \in Requests /\ q # r
        BY <1>4, <2>1
      <3>2. QED
        BY <1>9, <1>10, <3>1 DEF BatchInv
    <2>3. QED
      BY <1>3, <1>7, <1>11, <2>2
  <1>13. budget' + ScheduledTokens' = TokenBudget
    <2>1. Cardinality(Granted(prefills')) = 0 /\ Cardinality(Granted(prefills)) = 0
      BY <1>1, <1>2, NoItems
    <2>2. budget + (Len(decodes) * TokensPerDecodeStep + 0) = TokenBudget
      BY <1>1, <2>1 DEF BatchInv, StepSpendsItsBudget, ScheduledTokens
    <2>3. ScheduledTokens' = (Len(decodes) + 1) * TokensPerDecodeStep + 0
      BY <1>7, <2>1 DEF ScheduledTokens, TokensPerDecodeStep, Granted
    <2>4. \A a, b, n, t \in Nat :
              a >= t /\ a + (n * t + 0) = b => (a - t) + ((n + 1) * t + 0) = b
      OBVIOUS
    <2>5. Len(decodes) \in Nat
      BY <1>2
    <2>6. QED
      BY <1>1, <2>2, <2>3, <2>4, <2>5, DecodeCost, ScheduledType DEF IInv
  <1>14. IsInjective(decodes)
    BY <1>1 DEF BatchInv, StepSpendsItsBudget
  <1>15. StepSpendsItsBudget'
    BY <1>7, <1>8, <1>13, <1>14 DEF StepSpendsItsBudget
  <1>16. ToSet(decodes') \subseteq {running'[j] : j \in 1 .. (pos' - 1)}
    BY <1>1, <1>2, <1>6, <1>7
  <1>17. QED
    BY <1>1, <1>2, <1>3, <1>7, <1>8, <1>12, <1>15, <1>16 DEF BatchInv

\* A prompt chunk for a request that has no item yet.
LEMMA ChunkKeepsBudget ==
    ASSUME TypeOK, StepSpendsItsBudget, phase # "idle",
           NEW r \in Requests, NEW n \in Nat, n <= budget,
           prefills' = Append(prefills, [id |-> r, tokens |-> n]),
           budget' = budget - n, decodes' = decodes,
           r \notin ToSet(decodes) \cup ToSet(PrefillIds)
    PROVE  StepSpendsItsBudget' /\ ToSet(PrefillIds') = ToSet(PrefillIds) \cup {r}
  <1> DEFINE item == [id |-> r, tokens |-> n]
  <1>1. prefills \in Seq(PrefillItem) /\ item \in PrefillItem /\ item.tokens = n
    BY DEF TypeOK, PrefillItem
  <1>2. /\ ToSet(PrefillIds') = ToSet(PrefillIds) \cup {r}
        /\ IsInjective(PrefillIds) => IsInjective(PrefillIds')
    BY <1>1, PrefillIdsAppend
  <1>3. item.tokens <= TokenBudget
    BY <1>1, ScheduledType
  <1> HIDE DEF item
  <1>4. Cardinality(Granted(prefills')) = Cardinality(Granted(prefills)) + n
    BY <1>1, <1>3, GrantedAppend DEF item
  <1>5. budget' + ScheduledTokens' = TokenBudget
    <2>1. budget + (Len(decodes) * TokensPerDecodeStep + Cardinality(Granted(prefills)))
              = TokenBudget
      BY DEF StepSpendsItsBudget, ScheduledTokens
    <2>2. ScheduledTokens' = Len(decodes) * TokensPerDecodeStep
                             + (Cardinality(Granted(prefills)) + n)
      BY <1>4 DEF ScheduledTokens, TokensPerDecodeStep, Granted
    <2>3. \A a, b, c, d, k \in Nat :
              k <= a /\ a + (b + c) = d => (a - k) + (b + (c + k)) = d
      OBVIOUS
    <2>4. QED
      BY <2>1, <2>2, <2>3, ScheduledType
  <1>6. QED
    BY <1>2, <1>5 DEF StepSpendsItsBudget

LEMMA RotatedRuns ==
    ASSUME running \in Seq(Requests), cursor \in Nat, NEW o \in 0 .. (Len(running) - 1)
    PROVE  Rotated(o) \in ToSet(running)
  <1>1. Len(running) \in Nat \ {0} /\ o \in Nat
    OBVIOUS
  <1>2. (cursor % Len(running)) \in Nat
    BY <1>1, ModType
  <1>3. /\ (((cursor % Len(running)) + o) % Len(running)) \in Nat
        /\ (((cursor % Len(running)) + o) % Len(running)) < Len(running)
    BY <1>1, <1>2, ModType
  <1>4. (((cursor % Len(running)) + o) % Len(running)) + 1 \in DOMAIN running
    BY <1>1, <1>3
  <1>5. QED
    BY <1>4 DEF Rotated, ToSet

\* Phase 2 grants what it may spend, to a request that neither decodes nor has
\* been visited, and never touches what the reserve keeps.
LEMMA PrefillKeepsBatch ==
    ASSUME IInv, BatchInv, NEW o \in 0 .. (Len(running) - 1), PrefillOne(o)
    PROVE  BatchInv'
  <1> DEFINE r == Rotated(o)
             chunk == Chunk(r, Spendable)
  <1>1. /\ phase = "prefill" /\ phase' = "prefill"
        /\ Spendable > 0
        /\ o \in pos .. (Len(running) - 1)
        /\ ~ IsDecodeReady(r)
        /\ req' = [req EXCEPT ![r].computed = @ + chunk]
        /\ prefills' = Append(prefills, [id |-> r, tokens |-> chunk])
        /\ budget' = budget - chunk
        /\ pos' = o + 1
        /\ UNCHANGED <<waiting, running, free, cursor, reserve, decodes>>
    BY DEF PrefillOne, NextPrefill
  <1>2. /\ running \in Seq(Requests) /\ IsInjective(running) /\ cursor \in Nat
        /\ req \in [Requests -> TrackedRequest]
        /\ pos \in Nat
        /\ reserve \in Nat /\ budget \in Nat
        /\ decodes \in Seq(Requests)
    BY ConfigAssumption, CursorAssumption DEF IInv, TypeOK, TrackedOnce
  <1>3. r \in ToSet(running) /\ r \in Requests
    BY <1>2, RotatedRuns, ElementType
  <1>4. r \notin ToSet(PrefillIds)
    <2>1. ASSUME NEW k \in 0 .. (pos - 1) PROVE Rotated(k) # r
      <3>1. k \in 0 .. (Len(running) - 1) /\ k # o
        BY <1>1, <1>2
      <3>2. QED
        BY <1>2, <3>1, RotatedInjective
    <2>2. QED
      BY <1>1, <2>1 DEF BatchInv
  <1>5. \A k \in 0 .. (pos - 1) : k \in 0 .. (pos' - 1)
    BY <1>1, <1>2
  <1>6. o \in 0 .. (pos' - 1)
    BY <1>1, <1>2
  <1>7. \A k \in 0 .. (pos' - 1) : Rotated(k)' = Rotated(k)
    BY <1>1 DEF Rotated
  <1>8. ToSet(PrefillIds) \cup {r} \subseteq {Rotated(k)' : k \in 0 .. (pos' - 1)}
    <2>1. ToSet(PrefillIds) \subseteq {Rotated(k) : k \in 0 .. (pos - 1)}
      BY <1>1 DEF BatchInv
    <2>2. QED
      BY <1>5, <1>6, <1>7, <2>1
  <1> HIDE DEF r
  <1>9. req[r].computed \in Nat /\ req[r].prompt \in Nat /\ req[r].computed < req[r].prompt
    BY <1>1, <1>2, <1>3 DEF IsDecodeReady, TrackedRequest
  <1>10. r \notin ToSet(decodes)
    <2>1. SUFFICES ASSUME r \in ToSet(decodes) PROVE FALSE
      OBVIOUS
    <2>2. FullSeqLen(r) \in Nat
      BY <1>3, SeqLenType DEF IInv
    <2>3. req[r].computed \in req[r].prompt .. FullSeqLen(r)
      BY <2>1 DEF BatchInv
    <2>4. QED
      BY <1>9, <2>2, <2>3
  <1>11. Spendable \in Nat /\ Spendable + reserve = budget
    BY <1>1, <1>2 DEF Spendable
  <1>12. chunk \in Nat /\ chunk <= Spendable
    BY <1>3, <1>9, <1>11, ChunkType DEF IInv
  <1> HIDE DEF chunk
  <1>13. chunk <= budget /\ (reserve > 0 => budget' > 0)
    BY <1>1, <1>2, <1>11, <1>12
  <1>14. StepSpendsItsBudget' /\ ToSet(PrefillIds') = ToSet(PrefillIds) \cup {r}
    BY <1>1, <1>3, <1>4, <1>10, <1>12, <1>13, ChunkKeepsBudget DEF IInv, BatchInv
  <1>15. /\ \A q \in Requests : /\ req'[q].prompt = req[q].prompt
                                 /\ req'[q].output = req[q].output
         /\ \A q \in Requests \ {r} : req'[q] = req[q]
    BY <1>1, <1>2, <1>3, <1>12, GrantFacts
  <1>16. \A q \in Requests : FullSeqLen(q)' = FullSeqLen(q)
    BY <1>15 DEF FullSeqLen
  <1>17. \A q \in ToSet(decodes') : req'[q].computed \in req'[q].prompt .. FullSeqLen(q)'
    <2>1. ToSet(decodes) \subseteq Requests \ {r}
      BY <1>2, <1>10, ElementType
    <2>2. QED
      BY <1>1, <1>15, <1>16, <2>1 DEF BatchInv
  <1>18. AdmissionCanProceed => AdmissionCanProceed'
    <2>1. SUFFICES ASSUME AdmissionCanProceed PROVE AdmissionCanProceed'
      OBVIOUS
    <2>2. Head(waiting) \in Requests
      BY <2>1, TailFacts DEF AdmissionCanProceed, IInv, TypeOK
    <2>3. FullSeqLen(Head(waiting))' = FullSeqLen(Head(waiting))
      BY <1>1, <1>15, <2>2 DEF FullSeqLen
    <2>4. QED
      BY <1>1, <2>1, <2>3 DEF AdmissionCanProceed, AttentionBlocksNeeded, Watermark
  <1>19. ToSet(decodes') \cup ToSet(PrefillIds') \subseteq ToSet(running')
    BY <1>1, <1>3, <1>14 DEF BatchInv
  <1>20. /\ ToSet(PrefillIds') \subseteq {Rotated(k)' : k \in 0 .. (pos' - 1)}
         /\ reserve' > 0 => AdmissionCanProceed'
         /\ reserve' > 0 => budget' > 0
    BY <1>1, <1>8, <1>13, <1>14, <1>18 DEF BatchInv
  <1>21. QED
    BY <1>1, <1>14, <1>17, <1>19, <1>20 DEF BatchInv

\* Phase 3 grants the first chunk of a request that was not running.
LEMMA AdmitKeepsBatch ==
    ASSUME IInv, BatchInv, AdmitOne,
           NEW r, r = Head(waiting),
           NEW needed, needed = AttentionBlocksNeeded(FullSeqLen(r)),
           NEW chunk, chunk = Chunk(r, budget)
    PROVE  BatchInv'
  <1>1. /\ phase = "admit" /\ phase' \in {"planned", "admit"}
        /\ waiting # <<>>
        /\ running' = Append(running, r)
        /\ req' = [req EXCEPT ![r] = [prompt |-> req[r].prompt, output |-> req[r].output,
                                      computed |-> req[r].computed + chunk,
                                      blocks |-> needed]]
        /\ prefills' = Append(prefills, [id |-> r, tokens |-> chunk])
        /\ budget' = budget - chunk
        /\ decodes' = decodes
    BY DEF AdmitOne, AdmitFrom, AdmitGuard, AdmissionCanProceed
  <1>2. /\ waiting \in Seq(Requests) /\ running \in Seq(Requests)
        /\ decodes \in Seq(Requests)
        /\ req \in [Requests -> TrackedRequest]
        /\ ToSet(waiting) \cap ToSet(running) = {}
        /\ budget \in Nat
    BY ConfigAssumption DEF IInv, TypeOK, TrackedOnce
  <1>3. r \in Requests /\ r \in ToSet(waiting) /\ r \notin ToSet(running)
    BY <1>1, <1>2, TailFacts
  <1>4. needed \in Nat
    BY <1>3, SeqLenType DEF IInv
  <1>5. req[r].computed <= req[r].prompt
    BY <1>3 DEF IInv, PrefixWithinPrompt
  <1>6. chunk \in Nat /\ chunk <= budget
    BY <1>2, <1>3, <1>5, ChunkType DEF IInv
  <1>7. ToSet(running') = ToSet(running) \cup {r}
    BY <1>1, <1>2, <1>3, AppendFacts
  <1>8. r \notin ToSet(decodes) \cup ToSet(PrefillIds)
    BY <1>3 DEF BatchInv
  <1>9. StepSpendsItsBudget' /\ ToSet(PrefillIds') = ToSet(PrefillIds) \cup {r}
    BY <1>1, <1>3, <1>6, <1>8, ChunkKeepsBudget DEF IInv, BatchInv
  <1>10. \A q \in Requests \ {r} : req'[q] = req[q]
    BY <1>1, <1>2, <1>3, <1>4, <1>6, ReserveFacts
  <1>11. \A q \in Requests \ {r} : FullSeqLen(q)' = FullSeqLen(q)
    BY <1>10 DEF FullSeqLen
  <1>12. \A q \in ToSet(decodes') : req'[q].computed \in req'[q].prompt .. FullSeqLen(q)'
    <2>1. ToSet(decodes) \subseteq Requests \ {r}
      BY <1>2, <1>8, ElementType
    <2>2. QED
      BY <1>1, <1>10, <1>11, <2>1 DEF BatchInv
  <1>13. ToSet(decodes') \cup ToSet(PrefillIds') \subseteq ToSet(running')
    BY <1>1, <1>7, <1>9 DEF BatchInv
  <1>14. QED
    BY <1>1, <1>9, <1>12, <1>13 DEF BatchInv

LEMMA StepKeepsBatch == ASSUME IInv, BatchInv, Step PROVE BatchInv'
  BY BeginKeepsBatch, ReturnKeepsBatch, EndDecodesKeepsBatch, EndPrefillsKeepsBatch,
     EndAdmissionsKeepsBatch, DecodeKeepsBatch, PrefillKeepsBatch, AdmitKeepsBatch
     DEF Step, PlanStep

LEMMA NextKeepsBatch == ASSUME IInv, BatchInv, [Next]_vars PROVE BatchInv'
  <1>1. CASE Step
    BY <1>1, StepKeepsBatch
  <1>2. ASSUME phase = "idle", UNCHANGED stepVars PROVE BatchInv'
    BY <1>2, CallKeepsBatch
  <1>3. CASE UNCHANGED vars
    BY <1>3 DEF vars, BatchInv, StepSpendsItsBudget, ScheduledTokens, PrefillIds, Granted,
                AdmissionCanProceed, FullSeqLen, Rotated
  <1>4. QED
    BY <1>1, <1>2, <1>3
       DEF Next, Admit, Finish, Cancel, DoPreempt, Accept, Call

-----------------------------------------------------------------------------
\* The batch invariant holds in every reachable state.
THEOREM BatchInvariant == Spec => []BatchInv
  <1>1. Init => BatchInv
    BY InitBatch
  <1>2. IInv /\ BatchInv /\ [Next]_vars => BatchInv'
    BY NextKeepsBatch
  <1>3. QED
    BY <1>1, <1>2, InvariantHolds, PTL DEF Spec

\* What a step grants and what it has left add up to token_budget at every point
\* of the three loops, and no request has two items in a batch.
THEOREM BudgetIsSpent == Spec => []StepSpendsItsBudget
  <1>1. BatchInv => StepSpendsItsBudget
    BY DEF BatchInv
  <1>2. QED
    BY <1>1, BatchInvariant, PTL

\* When phase 2 hands over to phase 3 with a reserve, the head of the waiting queue
\* can be admitted with it.
THEOREM ReserveIsUsable == Spec => ReserveReachesNewcomer
  <1>1. ASSUME BatchInv, [Next]_vars, phase = "prefill", phase' = "admit", reserve > 0,
               Len(decodes) * TokensPerDecodeStep < TokenBudget
        PROVE  (budget > 0 /\ AdmissionCanProceed)'
    <2>1. EndPrefills
      BY <1>1 DEF Next, Step, PlanStep, BeginStep, DecodeOne, EndDecodes, PrefillOne,
                  AdmitOne, AdmitGuard, EndAdmissions, ReturnBatch, Admit, Finish, Cancel,
                  DoPreempt, Accept, Call, vars
    <2>2. budget > 0 /\ AdmissionCanProceed
      BY <1>1 DEF BatchInv
    <2>3. QED
      BY <2>1, <2>2 DEF EndPrefills, AdmissionCanProceed, FullSeqLen
  <1>2. BatchInv /\ [Next]_vars =>
            [(/\ phase = "prefill" /\ phase' = "admit"
              /\ reserve > 0
              /\ Len(decodes) * TokensPerDecodeStep < TokenBudget)
             => (budget > 0 /\ AdmissionCanProceed)']_vars
    BY <1>1
  <1>3. QED
    BY <1>2, BatchInvariant, PTL DEF Spec, ReserveReachesNewcomer

\* Only phase 3 starts a request, and it starts the head of the queue.
LEMMA OnlyTheHeadStarts ==
    ASSUME IInv, [Next]_vars, NEW x \in ToSet(running'), x \notin ToSet(running)
    PROVE  waiting # <<>> /\ x = Head(waiting)
  <1>1. waiting \in Seq(Requests) /\ running \in Seq(Requests) /\ IsInjective(running)
    BY DEF IInv, TypeOK, TrackedOnce
  <1>2. CASE AdmitOne
    <2>1. waiting # <<>> /\ running' = Append(running, Head(waiting))
      BY <1>2 DEF AdmitOne, AdmitFrom, AdmitGuard, AdmissionCanProceed
    <2>2. Head(waiting) \in Requests
      BY <1>1, <2>1, TailFacts
    <2>3. ToSet(running') = ToSet(running) \cup {Head(waiting)}
      BY <1>1, <2>1, <2>2, AppendFacts
    <2>4. QED
      BY <2>1, <2>3
  <1>3. ASSUME NEW r \in ToSet(running), running' = Without(running, r) PROVE FALSE
    BY <1>1, <1>3, WithoutFacts
  <1>4. CASE running' = running
    BY <1>4
  <1>5. QED
    BY <1>2, <1>3, <1>4
       DEF Next, Step, PlanStep, BeginStep, DecodeOne, EndDecodes, PrefillOne, EndPrefills,
           EndAdmissions, ReturnBatch, Admit, Enqueue, Finish, FinishRequest, Cancel,
           CancelRequest, CancelWaiting, DoPreempt, Preempt, Accept, AdvanceSpeculative,
           Call, vars

\* A request starts only when nobody who was ahead of it is still waiting.
THEOREM NobodyIsOvertaken == Spec => NoOvertaking
  <1>1. ASSUME IInv, [Next]_vars, NEW i \in DOMAIN waiting, NEW j \in DOMAIN waiting,
               i < j, waiting[j] \in ToSet(running')
        PROVE  waiting[i] \notin ToSet(waiting')
    <2>1. /\ waiting \in Seq(Requests) /\ IsInjective(waiting)
          /\ waiting[j] \notin ToSet(running)
      BY <1>1 DEF IInv, TypeOK, TrackedOnce, ToSet
    <2>2. waiting # <<>> /\ waiting[j] = Head(waiting)
      BY <1>1, <2>1, OnlyTheHeadStarts
    <2>3. 1 \in DOMAIN waiting /\ waiting[j] = waiting[1] /\ i \in Nat \ {0} /\ j \in Nat
      BY <2>1, <2>2
    <2>4. j = 1
      BY <2>1, <2>3 DEF IsInjective
    <2>5. QED
      BY <1>1, <2>3, <2>4
  <1>2. IInv /\ [Next]_vars =>
            [\A i, j \in DOMAIN waiting :
                (i < j /\ waiting[j] \in ToSet(running'))
                => waiting[i] \notin ToSet(waiting')]_vars
    BY <1>1
  <1>3. QED
    BY <1>2, InvariantHolds, PTL DEF Spec, NoOvertaking

=============================================================================
