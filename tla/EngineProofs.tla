---------------------------- MODULE EngineProofs ----------------------------
(***************************************************************************)
(* Proofs about Engine, for every set of requests, workers, tokens and     *)
(* prompts, every model and every cache geometry the constructor accepts.  *)
(***************************************************************************)
EXTENDS Engine, SequenceTheorems, FiniteSetTheorems, WellFoundedInduction, TLAPS

Shown == INSTANCE RadixTreeProofs
            WITH Blocks <- [1 .. BlockSize -> Tokens], Chains <- {},
                 MaxEvict <- 0, MaxRefs <- 0, MaxClock <- 0

-----------------------------------------------------------------------------
(* The tree the engine calls is the one RadixTreeProofs is about.          *)

LEMMA SameTree ==
    /\ Tree!TreeInv <=> Shown!TreeInv
    /\ (Tree!TreeInv)' <=> (Shown!TreeInv)'
    /\ \A c, f : Tree!Insert(c, f) <=> Shown!Insert(c, f)
    /\ \A n : Tree!EvictOne(n) <=> Shown!EvictOne(n)
  BY DEF Tree!TreeInv, Tree!TreeTypeOK, Tree!PrefixClosed, Tree!LinksExact, Tree!Node, Tree!Root,
         Tree!ChainNames, Tree!NameAt, Tree!Parent,
         Shown!TreeInv, Shown!TreeTypeOK, Shown!PrefixClosed, Shown!LinksExact, Shown!Node, Shown!Root,
         Shown!ChainNames, Shown!NameAt, Shown!Parent,
         Tree!Insert, Shown!Insert, Tree!Unlocked, Shown!Unlocked, Tree!FreshNode, Shown!FreshNode,
         Tree!EvictOne, Shown!EvictOne, Tree!Evictable, Shown!Evictable

-----------------------------------------------------------------------------
(* Constants, blocks and names.                                            *)

LEMMA Geometry ==
    /\ BlockSize \in Nat \ {0} /\ Interval \in Nat \ {0} /\ MaxLen \in Nat \ {0}
    /\ MaxNodes \in Nat \ {0}
    /\ Interval % BlockSize = 0
    /\ Prompts \subseteq Seq(Tokens)
    /\ \A p \in Prompts : Len(p) \in 1 .. MaxLen
    /\ NoToken \notin Tokens /\ Eos # NoToken
    /\ \A k \in MaxOutputs : k \in Nat \ {0}
  <1>1. ASSUME NEW p \in Prompts PROVE p \in Seq(Tokens) /\ Len(p) \in 1 .. MaxLen
    BY CacheAssumption DEF CacheAssumption
  <1>2. QED
    BY <1>1, CacheAssumption DEF NoToken

\* Quotient and rest.
LEMMA Quotient ==
    ASSUME NEW a \in Nat, NEW d \in Nat \ {0}
    PROVE  /\ a \div d \in Nat /\ a % d \in 0 .. (d - 1)
           /\ a = d * (a \div d) + (a % d)
  OBVIOUS

LEMMA QuotientUnique ==
    ASSUME NEW d \in Nat \ {0}, NEW q \in Nat, NEW x \in 0 .. (d - 1)
    PROVE  (d * q + x) \div d = q /\ (d * q + x) % d = x
  <1> DEFINE a == d * q + x
             k == a \div d
  <1>1. a \in Nat
    OBVIOUS
  <1>2. k \in Nat /\ a % d \in 0 .. (d - 1) /\ a = d * k + (a % d)
    BY <1>1, Quotient
  <1> HIDE DEF k
  <1>3. ~ (k < q)
    <2> SUFFICES ASSUME k + 1 <= q PROVE FALSE
      BY <1>2
    <2>1. d * (k + 1) <= d * q
      BY <1>2
    <2>2. QED
      BY <1>2, <2>1
  <1>4. ~ (k > q)
    <2> SUFFICES ASSUME q + 1 <= k PROVE FALSE
      BY <1>2
    <2>1. d * (q + 1) <= d * k
      BY <1>2
    <2>2. QED
      BY <1>2, <2>1
  <1>5. k = q
    BY <1>2, <1>3, <1>4
  <1>6. QED
    BY <1>1, <1>2, <1>5 DEF k

LEMMA Monotone ==
    ASSUME NEW d \in Nat \ {0}, NEW a \in Nat, NEW b \in Nat, a <= b
    PROVE  a \div d <= b \div d
  OBVIOUS

\* A multiple of the interval is a multiple of the block size.
LEMMA OnBlock ==
    ASSUME NEW k \in Nat
    PROVE  (k * Interval) % BlockSize = 0 /\ k * Interval \in Nat
  <1> DEFINE q == Interval \div BlockSize
             m == k * q
  <1>1. q \in Nat /\ Interval = BlockSize * q + (Interval % BlockSize)
    BY Quotient, Geometry
  <1>2. Interval = BlockSize * q
    BY <1>1, Geometry
  <1>3. m \in Nat
    BY <1>1
  <1>4. k * Interval = BlockSize * m + 0 /\ k * Interval \in Nat
    BY <1>1, <1>2, Geometry
  <1> HIDE DEF m, q
  <1>5. (BlockSize * m + 0) % BlockSize = 0
    BY <1>3, QuotientUnique, Geometry
  <1>6. QED
    BY <1>4, <1>5

\* The length and the elements of a stretch of a sequence.
LEMMA Stretch ==
    ASSUME NEW S, NEW s \in Seq(S), NEW low \in Nat, NEW high \in Nat,
           low <= high, high <= Len(s)
    PROVE  /\ SubSeq(s, low + 1, high) \in Seq(S)
           /\ Len(SubSeq(s, low + 1, high)) = high - low
           /\ \A j \in 1 .. high - low : SubSeq(s, low + 1, high)[j] = s[low + j]
  <1>1. \A i \in low + 1 .. high : s[i] \in S
    <2> TAKE i \in low + 1 .. high
    <2>1. i \in 1 .. Len(s)
      OBVIOUS
    <2>2. QED
      BY <2>1, ElementOfSeq
  <1> DEFINE first == low + 1
             part == SubSeq(s, first, high)
  <1>2. first \in Int /\ high \in Int
    OBVIOUS
  <1> HIDE DEF first
  <1>3. /\ part \in Seq(S)
        /\ Len(part) = IF first <= high THEN (high - first) + 1 ELSE 0
        /\ \A i \in 1 .. (high - first) + 1 : part[i] = s[(first + i) - 1]
    BY <1>1, <1>2, SubSeqProperties DEF first
  <1> HIDE DEF part
  <1>4. Len(part) = high - low
    BY <1>3 DEF first
  <1>5. \A j \in 1 .. high - low : part[j] = s[low + j]
    <2> TAKE j \in 1 .. high - low
    <2>1. j \in 1 .. (high - first) + 1 /\ (first + j) - 1 = low + j
      BY DEF first
    <2>2. QED
      BY <1>3, <2>1
  <1>6. QED
    BY <1>3, <1>4, <1>5 DEF part, first

\* The beginning of a sequence.
LEMMA Beginning ==
    ASSUME NEW S, NEW s \in Seq(S), NEW k \in 0 .. Len(s)
    PROVE  /\ SubSeq(s, 1, k) \in Seq(S) /\ Len(SubSeq(s, 1, k)) = k
           /\ \A i \in 1 .. k : SubSeq(s, 1, k)[i] = s[i]
  <1>1. k \in Nat /\ k <= Len(s)
    OBVIOUS
  <1>2. /\ SubSeq(s, 0 + 1, k) \in Seq(S) /\ Len(SubSeq(s, 0 + 1, k)) = k - 0
        /\ \A i \in 1 .. k - 0 : SubSeq(s, 0 + 1, k)[i] = s[0 + i]
    BY <1>1, Stretch
  <1>3. 0 + 1 = 1 /\ k - 0 = k /\ \A i \in 1 .. k : 0 + i = i
    BY <1>1
  <1>4. QED
    BY <1>2, <1>3

LEMMA BlocksType ==
    ASSUME NEW s \in Seq(Tokens)
    PROVE  /\ BlocksOf(s) \in Names
           /\ Len(BlocksOf(s)) = Len(s) \div BlockSize
           /\ Len(s) \div BlockSize \in Nat
           /\ \A i \in 1 .. Len(s) \div BlockSize, j \in 1 .. BlockSize :
                  /\ (i - 1) * BlockSize + j \in 1 .. Len(s)
                  /\ BlocksOf(s)[i][j] = s[(i - 1) * BlockSize + j]
  <1> DEFINE blocks == Len(s) \div BlockSize
  <1>1. blocks \in Nat /\ Len(s) = BlockSize * blocks + (Len(s) % BlockSize)
        /\ Len(s) % BlockSize >= 0
    BY Geometry, Quotient
  <1>2. BlockSize * blocks <= Len(s)
    BY <1>1, Geometry
  <1> HIDE DEF blocks
  <1>3. ASSUME NEW i \in 1 .. blocks
        PROVE  /\ SubSeq(s, (i - 1) * BlockSize + 1, i * BlockSize) \in [1 .. BlockSize -> Tokens]
               /\ \A j \in 1 .. BlockSize :
                      /\ (i - 1) * BlockSize + j \in 1 .. Len(s)
                      /\ SubSeq(s, (i - 1) * BlockSize + 1, i * BlockSize)[j]
                             = s[(i - 1) * BlockSize + j]
    <2> DEFINE low == (i - 1) * BlockSize
               high == i * BlockSize
    <2>1. low \in Nat /\ high = low + BlockSize
      BY Geometry
    <2>2. high <= BlockSize * blocks
      BY <1>1, Geometry
    <2>3. high <= Len(s)
      BY <1>1, <1>2, <2>1, <2>2, Geometry
    <2> HIDE DEF low, high
    <2>4. /\ SubSeq(s, low + 1, high) \in Seq(Tokens)
          /\ Len(SubSeq(s, low + 1, high)) = BlockSize
          /\ \A j \in 1 .. BlockSize : SubSeq(s, low + 1, high)[j] = s[low + j]
      BY <2>1, <2>3, Geometry, Stretch
    <2>5. SubSeq(s, low + 1, high) \in [1 .. BlockSize -> Tokens]
      BY <2>4, LenProperties
    <2>6. QED
      BY <2>1, <2>3, <2>4, <2>5, Geometry DEF low, high
  <1>4. BlocksOf(s) = [i \in 1 .. blocks |->
                          SubSeq(s, (i - 1) * BlockSize + 1, i * BlockSize)]
    BY DEF BlocksOf, blocks
  <1>5. BlocksOf(s) \in Names /\ Len(BlocksOf(s)) = blocks
    BY <1>1, <1>3, <1>4 DEF Names
  <1>6. QED
    BY <1>1, <1>3, <1>4, <1>5 DEF blocks

\* Prefixes by their elements.
LEMMA PrefixByElements ==
    ASSUME NEW S, NEW s \in Seq(S), NEW t \in Seq(S)
    PROVE  IsPrefix(s, t) <=> /\ Len(s) <= Len(t)
                              /\ \A i \in 1 .. Len(s) : s[i] = t[i]
  <1>1. SubSeq(s, 1, Len(s)) = s
    BY SubSeqFull
  <1>2. ASSUME Len(s) <= Len(t)
        PROVE  /\ SubSeq(t, 1, Len(s)) \in Seq(S) /\ Len(SubSeq(t, 1, Len(s))) = Len(s)
               /\ \A i \in 1 .. Len(s) : SubSeq(t, 1, Len(s))[i] = t[i]
    <2>1. Len(s) \in 0 .. Len(t)
      BY <1>2
    <2>2. QED
      BY <2>1, Beginning
  <1>3. ASSUME Len(s) <= Len(t), \A i \in 1 .. Len(s) : s[i] = t[i]
        PROVE  s = SubSeq(t, 1, Len(s))
    BY <1>2, <1>3, SeqEqual
  <1>4. QED
    BY <1>1, <1>2, <1>3 DEF IsPrefix

LEMMA PrefixTransitive ==
    ASSUME NEW S, NEW s \in Seq(S), NEW t \in Seq(S), NEW u \in Seq(S),
           IsPrefix(s, t), IsPrefix(t, u)
    PROVE  IsPrefix(s, u)
  <1>1. /\ Len(s) <= Len(t) /\ \A i \in 1 .. Len(s) : s[i] = t[i]
        /\ Len(t) <= Len(u) /\ \A i \in 1 .. Len(t) : t[i] = u[i]
    BY PrefixByElements
  <1>2. Len(s) <= Len(u) /\ \A i \in 1 .. Len(s) : s[i] = u[i]
    BY <1>1
  <1>3. QED
    BY <1>2, PrefixByElements

LEMMA PrefixOfConcat ==
    ASSUME NEW S, NEW s \in Seq(S), NEW t \in Seq(S)
    PROVE  IsPrefix(s, s \o t) /\ s \o t \in Seq(S) /\ IsPrefix(s, s)
  <1>1. s \o t \in Seq(S) /\ Len(s \o t) = Len(s) + Len(t)
        /\ \A i \in 1 .. Len(s) : s[i] = (s \o t)[i]
    BY ConcatProperties
  <1>2. Len(s) <= Len(s \o t) /\ Len(s) <= Len(s)
    BY <1>1
  <1>3. QED
    BY <1>1, <1>2, PrefixByElements

LEMMA NameType ==
    ASSUME NEW S, NEW c \in Seq(S), NEW k \in 0 .. Len(c)
    PROVE  /\ Tree!NameAt(c, k) \in Seq(S) /\ Len(Tree!NameAt(c, k)) = k
           /\ \A i \in 1 .. k : Tree!NameAt(c, k)[i] = c[i]
  BY Beginning DEF Tree!NameAt

\* The blocks of a prefix are the first blocks of the whole.
LEMMA BlocksOfPrefix ==
    ASSUME NEW s \in Seq(Tokens), NEW t \in Seq(Tokens), IsPrefix(s, t)
    PROVE  /\ Len(s) \div BlockSize <= Len(t) \div BlockSize
           /\ BlocksOf(s) = Tree!NameAt(BlocksOf(t), Len(s) \div BlockSize)
  <1> DEFINE n == Len(s) \div BlockSize
             m == Len(t) \div BlockSize
             c == Tree!NameAt(BlocksOf(t), n)
  <1>1. Len(s) <= Len(t) /\ \A i \in 1 .. Len(s) : s[i] = t[i]
    BY PrefixByElements
  <1>2. n \in Nat /\ m \in Nat /\ n <= m
    <2>1. BlockSize \in Nat \ {0} /\ Len(s) \in Nat /\ Len(t) \in Nat
      BY Geometry
    <2>2. QED
      BY <1>1, <2>1, Quotient, Monotone
  <1>3. /\ BlocksOf(s) \in Names /\ Len(BlocksOf(s)) = n
        /\ BlocksOf(t) \in Names /\ Len(BlocksOf(t)) = m
    BY BlocksType
  <1>4. /\ \A i \in 1 .. n, j \in 1 .. BlockSize :
               /\ (i - 1) * BlockSize + j \in 1 .. Len(s)
               /\ BlocksOf(s)[i][j] = s[(i - 1) * BlockSize + j]
        /\ \A i \in 1 .. m, j \in 1 .. BlockSize :
               BlocksOf(t)[i][j] = t[(i - 1) * BlockSize + j]
    BY BlocksType
  <1>5. c \in Names /\ Len(c) = n /\ \A i \in 1 .. n : c[i] = BlocksOf(t)[i]
    <2>1. n \in 0 .. Len(BlocksOf(t))
      BY <1>2, <1>3
    <2>2. QED
      BY <1>3, <2>1, NameType DEF Names
  <1> HIDE DEF n, m, c
  <1>6. ASSUME NEW i \in 1 .. n PROVE BlocksOf(s)[i] = c[i]
    <2>1. BlocksOf(s)[i] \in [1 .. BlockSize -> Tokens] /\ c[i] \in [1 .. BlockSize -> Tokens]
      BY <1>3, <1>5 DEF Names
    <2>2. \A j \in 1 .. BlockSize : BlocksOf(s)[i][j] = c[i][j]
      <3> TAKE j \in 1 .. BlockSize
      <3>1. i \in 1 .. m
        BY <1>2
      <3>2. BlocksOf(s)[i][j] = s[(i - 1) * BlockSize + j]
            /\ (i - 1) * BlockSize + j \in 1 .. Len(s)
        BY <1>4
      <3>3. c[i][j] = t[(i - 1) * BlockSize + j]
        BY <1>4, <1>5, <3>1
      <3>4. QED
        BY <1>1, <3>2, <3>3, Zenon
    <2> DEFINE f == BlocksOf(s)[i]
               g == c[i]
    <2>3. f \in [1 .. BlockSize -> Tokens] /\ g \in [1 .. BlockSize -> Tokens]
          /\ \A j \in 1 .. BlockSize : f[j] = g[j]
      BY <2>1, <2>2
    <2> HIDE DEF f, g
    <2>4. f = g
      BY <2>3, Geometry
    <2>5. QED
      BY <2>4 DEF f, g
  <1>7. BlocksOf(s) = c
    BY <1>3, <1>5, <1>6, SeqEqual DEF Names
  <1>8. QED
    BY <1>2, <1>7 DEF n, m, c

\* Whole blocks determine the tokens.
LEMMA BlocksDetermine ==
    ASSUME NEW s \in Seq(Tokens), NEW t \in Seq(Tokens), NEW n \in Nat,
           Len(s) = BlockSize * n, n <= Len(t) \div BlockSize,
           BlocksOf(s) = Tree!NameAt(BlocksOf(t), n)
    PROVE  IsPrefix(s, t)
  <1> DEFINE m == Len(t) \div BlockSize
  <1>1. m \in Nat /\ Len(t) = BlockSize * m + (Len(t) % BlockSize) /\ Len(t) % BlockSize >= 0
    BY Geometry, Quotient
  <1>2. BlockSize * n <= BlockSize * m
    BY <1>1, Geometry
  <1>3. Len(s) <= Len(t)
    BY <1>1, <1>2, Geometry
  <1>4. Len(s) \div BlockSize = n
    <2>1. (BlockSize * n + 0) \div BlockSize = n
      BY Geometry, QuotientUnique
    <2>2. QED
      BY <2>1, Geometry
  <1>5. /\ \A i \in 1 .. n, j \in 1 .. BlockSize :
               BlocksOf(s)[i][j] = s[(i - 1) * BlockSize + j]
        /\ \A i \in 1 .. m, j \in 1 .. BlockSize :
               BlocksOf(t)[i][j] = t[(i - 1) * BlockSize + j]
        /\ BlocksOf(t) \in Names /\ Len(BlocksOf(t)) = m
    BY <1>4, BlocksType
  <1>6. \A i \in 1 .. n : BlocksOf(s)[i] = BlocksOf(t)[i]
    BY <1>1, <1>5, NameType DEF Names
  <1> HIDE DEF m
  <1>7. ASSUME NEW p \in 1 .. Len(s) PROVE s[p] = t[p]
    <2> DEFINE k == (p - 1) \div BlockSize
               x == (p - 1) % BlockSize
    <2>1. k \in Nat /\ x \in 0 .. (BlockSize - 1) /\ p - 1 = BlockSize * k + x
      <3>1. p - 1 \in Nat
        OBVIOUS
      <3>2. QED
        BY <3>1, Geometry, Quotient
    <2> HIDE DEF k, x
    <2>2. k < n
      <3> SUFFICES ASSUME n <= k PROVE FALSE
        BY <2>1
      <3>1. BlockSize * n <= BlockSize * k
        BY <2>1, Geometry
      <3>2. QED
        BY <2>1, <3>1, Geometry
    <2>3. k + 1 \in 1 .. n /\ k + 1 \in 1 .. m /\ x + 1 \in 1 .. BlockSize
      BY <1>1, <2>1, <2>2, Geometry DEF m
    <2>4. ((k + 1) - 1) * BlockSize + (x + 1) = p
      BY <2>1, Geometry
    <2>5. BlocksOf(s)[k + 1][x + 1] = s[p] /\ BlocksOf(t)[k + 1][x + 1] = t[p]
      BY <1>5, <2>3, <2>4
    <2>6. QED
      BY <1>6, <2>3, <2>5
  <1>8. QED
    BY <1>3, <1>7, PrefixByElements


-----------------------------------------------------------------------------
(* Maps, records and the driver's state.                                   *)

LEMMA PutFacts ==
    ASSUME NEW f, NEW x, NEW v
    PROVE  /\ DOMAIN Put(f, x, v) = DOMAIN f \cup {x}
           /\ Put(f, x, v)[x] = v
           /\ \A y \in DOMAIN f : y # x => Put(f, x, v)[y] = f[y]
  BY DEF Put

LEMMA PutType ==
    ASSUME NEW S, NEW f, NEW x, NEW v \in S, f \in [DOMAIN f -> S]
    PROVE  Put(f, x, v) \in [DOMAIN Put(f, x, v) -> S]
  BY DEF Put

LEMMA DropFacts ==
    ASSUME NEW f, NEW x
    PROVE  /\ DOMAIN Drop(f, x) = DOMAIN f \ {x}
           /\ \A y \in DOMAIN Drop(f, x) : Drop(f, x)[y] = f[y]
  BY DEF Drop

LEMMA DropType ==
    ASSUME NEW S, NEW f, NEW x, f \in [DOMAIN f -> S]
    PROVE  Drop(f, x) \in [DOMAIN Drop(f, x) -> S]
  BY DEF Drop

\* The fields a driver's state has at each point.
LEMMA DriverShape ==
    ASSUME NEW d \in DriverState
    PROVE  /\ d.pc \in {"idle", "unref", "decr"} \cup Folding
           /\ d.pc # "idle" => d.r \in Requests
           /\ d.pc \in Folding => d.kept \in Seq(Snapshot) /\ d.done \in BOOLEAN
           /\ d.pc \in {"extend", "install"} => d.gen \in Seq(Tokens)
           /\ d.pc \in Filing => d.name \in Names
           /\ d.pc = "excess" => d.excess \in Nat
           /\ d.pc \in {"evict", "forget"} => d.gone \in SUBSET Names
           /\ d.pc = "decr" => d.held \in Names
  BY DEF DriverState, Folding, Filing

\* The states that the folding makes.
LEMMA DriverMakes ==
    ASSUME NEW r \in Requests, NEW kept \in Seq(Snapshot), NEW done \in BOOLEAN,
           NEW gen \in Seq(Tokens), NEW name \in Names, NEW excess \in Nat,
           NEW gone \in SUBSET Names
    PROVE  /\ \A pc \in {"extend", "install"} :
                  [pc |-> pc, r |-> r, gen |-> gen, kept |-> kept, done |-> done] \in DriverState
           /\ \A pc \in {"reclaim", "insert", "publish", "measure"} :
                  [pc |-> pc, r |-> r, kept |-> kept, done |-> done, name |-> name]
                      \in DriverState
           /\ [pc |-> "excess", r |-> r, kept |-> kept, done |-> done, name |-> name,
               excess |-> excess] \in DriverState
           /\ \A pc \in {"evict", "forget"} :
                  [pc |-> pc, r |-> r, kept |-> kept, done |-> done, name |-> name,
                   gone |-> gone] \in DriverState
           /\ [pc |-> "unref", r |-> r] \in DriverState
           /\ [pc |-> "decr", r |-> r, held |-> name] \in DriverState
           /\ Parked \in DriverState
  BY DEF DriverState, Parked

\* A driver that only goes on keeps its fields.
LEMMA DriverGoes ==
    ASSUME NEW d \in DriverState, NEW pc,
           \/ d.pc = "extend" /\ pc = "install"
           \/ d.pc \in {"reclaim", "insert", "publish"} /\ pc \in {"insert", "publish", "measure"}
           \/ d.pc = "evict" /\ pc \in {"evict", "forget"}
    PROVE  /\ [d EXCEPT !.pc = pc] \in DriverState
           /\ [d EXCEPT !.pc = pc].pc = pc
           /\ [d EXCEPT !.pc = pc].r = d.r
           /\ [d EXCEPT !.pc = pc].kept = d.kept
           /\ [d EXCEPT !.pc = pc].done = d.done
           /\ [d EXCEPT !.pc = pc].name = d.name
           /\ [d EXCEPT !.pc = pc].gone = d.gone
           /\ [d EXCEPT !.pc = pc].gen = d.gen
  <1>1. CASE d.pc = "extend" /\ pc = "install"
    <2>1. d \in [pc : {"extend", "install"}, r : Requests, gen : Seq(Tokens),
                 kept : Seq(Snapshot), done : BOOLEAN]
      BY <1>1 DEF DriverState
    <2>2. [d EXCEPT !.pc = pc] \in [pc : {"extend", "install"}, r : Requests, gen : Seq(Tokens),
                 kept : Seq(Snapshot), done : BOOLEAN]
      BY <1>1, <2>1
    <2>3. QED
      BY <1>1, <2>1, <2>2 DEF DriverState
  <1>2. CASE d.pc \in {"reclaim", "insert", "publish"} /\ pc \in {"insert", "publish", "measure"}
    <2>1. d \in [pc : {"reclaim", "insert", "publish", "measure"}, r : Requests,
                 kept : Seq(Snapshot), done : BOOLEAN, name : Names]
      BY <1>2 DEF DriverState
    <2>2. [d EXCEPT !.pc = pc] \in [pc : {"reclaim", "insert", "publish", "measure"},
                 r : Requests, kept : Seq(Snapshot), done : BOOLEAN, name : Names]
      BY <1>2, <2>1
    <2>3. QED
      BY <1>2, <2>1, <2>2 DEF DriverState
  <1>3. CASE d.pc = "evict" /\ pc \in {"evict", "forget"}
    <2>1. d \in [pc : {"evict", "forget"}, r : Requests, kept : Seq(Snapshot), done : BOOLEAN,
                 name : Names, gone : SUBSET Names]
      BY <1>3 DEF DriverState
    <2>2. [d EXCEPT !.pc = pc] \in [pc : {"evict", "forget"}, r : Requests,
                 kept : Seq(Snapshot), done : BOOLEAN, name : Names, gone : SUBSET Names]
      BY <1>3, <2>1
    <2>3. QED
      BY <1>3, <2>1, <2>2 DEF DriverState
  <1>4. QED
    BY <1>1, <1>2, <1>3

\* The fields of the handler inside the placement mutex.
LEMMA PlacingShape ==
    ASSUME placing \in PlacingState
    PROVE  /\ placing.pc \in {"idle", "claim", "score", "route", "admit", "incr", "hold", "chain"}
           /\ placing.pc # "idle" => placing.r \in Requests /\ placing.prompt \in Prompts
           /\ placing.pc \in {"claim", "score", "route", "admit"} =>
                  placing.kind \in Kinds /\ placing.max \in MaxOutputs
           /\ placing.pc \in {"score", "route", "admit"} => placing.snap \in Seq(Snapshot)
           /\ placing.pc \in {"claim", "route"} => placing.hit \in Nat
           /\ placing.pc = "admit" => placing.credit \in Nat /\ placing.worker \in Workers
           /\ placing.pc \in {"incr", "hold", "chain"} => placing.held \in Names
  BY DEF PlacingState


-----------------------------------------------------------------------------
(* What a lookup returns.                                                  *)

LEMMA Largest ==
    ASSUME NEW n \in Nat, NEW T, T \subseteq 1 .. n, T # {}
    PROVE  \E i \in T : \A j \in T : j <= i
  <1> DEFINE U == {n - i : i \in T}
             R == OpToRel(<, Nat)
  <1>1. U \subseteq Nat /\ U # {}
    <2>1. \A i \in T : n - i \in Nat
      <3> TAKE i \in T
      <3>1. i \in 1 .. n
        OBVIOUS
      <3>2. QED
        BY <3>1
    <2>2. QED
      BY <2>1
  <1>2. IsWellFoundedOn(R, Nat)
    BY NatLessThanWellFounded
  <1> HIDE DEF R
  <1>3. PICK x \in U : \A y \in U : ~ (<<y, x>> \in R)
    BY <1>1, <1>2, WFMin
  <1>4. \A y \in U : ~ (y < x)
    <2> TAKE y \in U
    <2>1. <<y, x>> \in Nat \X Nat /\ ~ (<<y, x>> \in R)
      BY <1>1, <1>3
    <2>2. QED
      BY <2>1 DEF R, OpToRel
  <1>5. PICK i \in T : x = n - i
    OBVIOUS
  <1>6. \A j \in T : j <= i
    <2> TAKE j \in T
    <2>1. n - j \in U /\ ~ (n - j < n - i)
      BY <1>4, <1>5
    <2>2. i \in 1 .. n /\ j \in 1 .. n
      OBVIOUS
    <2>3. QED
      BY <2>1, <2>2
  <1>7. QED
    BY <1>6

\* match_prefix reports a depth of the chain it walked, and zero or a cached node.
LEMMA DepthType ==
    ASSUME NEW S, NEW c \in Seq(S)
    PROVE  /\ Tree!SnapshotDepth(c) \in 0 .. Len(c)
           /\ Tree!SnapshotDepth(c) # 0 =>
                  Tree!NameAt(c, Tree!SnapshotDepth(c)) \in DOMAIN nodes
  <1> DEFINE flagged == {i \in Tree!Matched(c) : nodes[Tree!NameAt(c, i)].snap}
             depth == CHOOSE i \in flagged : \A j \in flagged : j <= i
  <1>1. Len(c) \in Nat
    OBVIOUS
  <1>2. flagged \subseteq 1 .. Len(c)
    BY DEF Tree!Matched
  <1>3. Tree!SnapshotDepth(c) = IF flagged = {} THEN 0 ELSE depth
    BY Zenon DEF Tree!SnapshotDepth
  <1>4. ASSUME flagged # {} PROVE depth \in flagged
    <2>1. \E i \in flagged : \A j \in flagged : j <= i
      BY <1>1, <1>2, <1>4, Largest
    <2>2. QED
      BY <2>1, Zenon
  <1>5. \A i \in flagged : Tree!NameAt(c, i) \in DOMAIN nodes
    BY DEF Tree!Matched
  <1> HIDE DEF flagged, depth
  <1>6. CASE flagged = {}
    BY <1>1, <1>3, <1>6
  <1>7. CASE flagged # {}
    <2>1. depth \in flagged /\ Tree!SnapshotDepth(c) = depth
      BY <1>3, <1>4, <1>7
    <2>2. depth \in 1 .. Len(c) /\ Tree!NameAt(c, depth) \in DOMAIN nodes
      BY <1>2, <1>5, <2>1
    <2>3. depth \in 0 .. Len(c)
      BY <1>1, <2>2
    <2>4. QED
      BY <2>1, <2>2, <2>3, Zenon
  <1>8. QED
    BY <1>6, <1>7, Zenon


-----------------------------------------------------------------------------
(* What the engine's calls do to the tree.                                 *)

LEMMA TreeFields ==
    ASSUME Tree!TreeInv
    PROVE  /\ DOMAIN nodes \subseteq Names \ {<< >>}
           /\ \A n \in DOMAIN nodes : nodes[n] \in Tree!Node
           /\ nodes = [n \in DOMAIN nodes |-> nodes[n]]
           /\ DOMAIN children = DOMAIN nodes \cup {<< >>}
           /\ clock \in Nat /\ quota \in Nat
           /\ \A n \in DOMAIN nodes : Tree!ChainNames(n) \subseteq DOMAIN nodes
  BY DEF Tree!TreeInv, Tree!TreeTypeOK, Tree!PrefixClosed, Tree!Root, Names

LEMMA InsertedTree ==
    ASSUME Tree!TreeInv, NEW c \in Names \ {<< >>}, NEW f, Tree!Insert(c, f)
    PROVE  Tree!TreeInv'
  <1>1. Shown!TreeInv /\ Shown!Insert(c, f)
    BY SameTree
  <1>2. Shown!TreeInv'
    BY <1>1, Shown!InsertKeepsInv DEF Names, Shown!Root
  <1>3. QED
    BY <1>2, SameTree

LEMMA InsertTree ==
    ASSUME TreeOK, NEW c \in Names \ {<< >>}, NEW f, Tree!Insert(c, f)
    PROVE  TreeOK'
  <1>2. Tree!TreeInv'
    BY InsertedTree DEF TreeOK
  <1>3. IsFiniteSet(DOMAIN nodes')
    <2> DEFINE g == [i \in 1 .. Len(c) |-> Tree!NameAt(c, i)]
    <2>1. g \in Surjection(1 .. Len(c), Tree!ChainNames(c))
      BY DEF Surjection, Tree!ChainNames
    <2>2. IsFiniteSet(1 .. Len(c))
      <3>1. 1 \in Int /\ Len(c) \in Int
        BY DEF Names
      <3>2. QED
        BY <3>1, FS_Interval
    <2>3. IsFiniteSet(Tree!ChainNames(c))
      BY <2>1, <2>2, FS_Surjection
    <2>4. DOMAIN nodes' \subseteq DOMAIN nodes \cup Tree!ChainNames(c)
      BY DEF Tree!Insert
    <2>5. IsFiniteSet(DOMAIN nodes \cup Tree!ChainNames(c))
      BY <2>3, FS_Union DEF TreeOK
    <2>6. QED
      BY <2>4, <2>5, FS_Subset
  <1>4. QED
    BY <1>2, <1>3 DEF TreeOK

LEMMA TreeRewritten ==
    ASSUME Tree!TreeInv,
           DOMAIN nodes' = DOMAIN nodes,
           nodes' = [n \in DOMAIN nodes' |-> nodes'[n]],
           \A n \in DOMAIN nodes : nodes'[n] \in Tree!Node,
           children' = children, clock' \in Nat, quota' \in Nat
    PROVE  Tree!TreeInv'
  <1>1. Shown!TreeInv /\ \A n \in DOMAIN nodes : nodes'[n] \in Shown!Node
    BY SameTree DEF Tree!Node, Shown!Node
  <1>2. Shown!TreeInv'
    BY <1>1, Shown!RewriteKeepsInv
  <1>3. QED
    BY <1>2, SameTree

LEMMA TreeKept ==
    ASSUME TreeOK, UNCHANGED treeVars
    PROVE  TreeOK'
  BY TreeRewritten, TreeFields DEF treeVars, TreeOK

LEMMA IncrTree ==
    ASSUME TreeOK, NEW c, Tree!IncrRefChain(c)
    PROVE  TreeOK'
  <1>1. \A x \in Tree!Node : [x EXCEPT !.refs = x.refs + 1] \in Tree!Node
    BY DEF Tree!Node
  <1>2. \A n \in DOMAIN nodes : nodes'[n] \in Tree!Node
    BY <1>1, TreeFields DEF Tree!IncrRefChain, TreeOK
  <1>3. DOMAIN nodes' = DOMAIN nodes /\ nodes' = [n \in DOMAIN nodes' |-> nodes'[n]]
        /\ children' = children /\ clock' = clock /\ quota' = quota
    BY Zenon DEF Tree!IncrRefChain
  <1>4. QED
    BY <1>2, <1>3, TreeFields, TreeRewritten DEF TreeOK

LEMMA DecrTree ==
    ASSUME TreeOK, NEW c, Tree!DecrRefChain(c)
    PROVE  TreeOK'
  <1>1. \A x \in Tree!Node : Tree!Released(x, clock + 1) \in Tree!Node
    BY TreeFields DEF Tree!Node, Tree!Released, TreeOK
  <1>2. \A n \in DOMAIN nodes : nodes'[n] \in Tree!Node
    BY <1>1, TreeFields DEF Tree!DecrRefChain, TreeOK
  <1>3. DOMAIN nodes' = DOMAIN nodes /\ nodes' = [n \in DOMAIN nodes' |-> nodes'[n]]
        /\ children' = children /\ clock' = clock + 1 /\ quota' = quota
    BY Zenon DEF Tree!DecrRefChain
  <1>4. QED
    BY <1>2, <1>3, TreeFields, TreeRewritten DEF TreeOK

LEMMA EvictTree ==
    ASSUME TreeOK
    PROVE  /\ \A max \in Nat : Tree!EvictBegin(max) => TreeOK'
           /\ \A n \in DOMAIN nodes : Tree!EvictOne(n) => TreeOK'
           /\ Tree!EvictStop => TreeOK'
  <1>1. ASSUME NEW max \in Nat, Tree!EvictBegin(max) PROVE TreeOK'
    BY <1>1, TreeFields, TreeRewritten DEF Tree!EvictBegin, TreeOK
  <1>2. ASSUME NEW n \in DOMAIN nodes, Tree!EvictOne(n) PROVE TreeOK'
    <2>1. Shown!TreeInv /\ Shown!EvictOne(n)
      BY <1>2, SameTree DEF TreeOK
    <2>2. Shown!TreeInv'
      BY <2>1, Shown!EvictKeepsInv
    <2>3. DOMAIN nodes' = DOMAIN nodes \ {n}
      BY <1>2 DEF Tree!EvictOne
    <2>4. QED
      BY <2>2, <2>3, SameTree, FS_RemoveElement DEF TreeOK
  <1>3. ASSUME Tree!EvictStop PROVE TreeOK'
    BY <1>3, TreeFields, TreeRewritten DEF Tree!EvictStop, TreeOK
  <1>4. QED
    BY <1>1, <1>2, <1>3

LEMMA EmptyTree == Tree!TreeInit => TreeOK
  <1> SUFFICES ASSUME Tree!TreeInit PROVE TreeOK
    OBVIOUS
  <1>1. DOMAIN nodes = {} /\ DOMAIN children = {Tree!Root} /\ children[Tree!Root] = {}
    BY DEF Tree!TreeInit
  <1>2. Tree!TreeTypeOK
    BY <1>1 DEF Tree!TreeInit, Tree!TreeTypeOK
  <1>3. Tree!TreeInv
    BY <1>1, <1>2 DEF Tree!TreeInv, Tree!PrefixClosed, Tree!LinksExact
  <1>4. QED
    BY <1>1, <1>3, FS_EmptySet DEF TreeOK


-----------------------------------------------------------------------------
(* EngineInv: placement.                                                   *)

\* The history of the requests keeps its type when a step changes nothing of it, and
\* when it records something of one request.
LEMMA HistoryFrame ==
    ASSUME HistoryOK, UNCHANGED <<pastVars, missedVars>>
    PROVE  HistoryOK'
  BY DEF HistoryOK, pastVars, missedVars

LEMMA HistoryGrows ==
    ASSUME HistoryOK, NEW r \in Requests, lineage' = lineage, outrun' \subseteq outrun \cup {r},
           masked' \subseteq masked \cup {r}, missedChain' \subseteq missedChain \cup {r},
           missedRefs' \subseteq missedRefs \cup {r}
    PROVE  HistoryOK'
  BY DEF HistoryOK

\* A step that hands out no id and lets nobody act on a new request.
LEMMA OwnershipKept ==
    ASSUME EngineTypeOK, Ownership, issued' = issued, placing' = placing,
           DOMAIN live' \subseteq DOMAIN live,
           \A r \in DOMAIN live' : live'[r].worker = live[r].worker,
           DOMAIN chains' \subseteq DOMAIN chains, DOMAIN refs' \subseteq DOMAIN refs,
           \A r \in Requests : cancel'[r] # "none" => Known(r),
           \A w \in Workers, r \in Requests : Busy(w, r)' => Busy(w, r),
           \A w \in Workers : driver'[w].pc = "decr" =>
               /\ driver'[w].r \notin DOMAIN refs'
               /\ placing.pc \in {"incr", "hold"} => driver'[w].r # placing.r
    PROVE  Ownership'
  <1>1. DOMAIN live \subseteq Requests
    BY DEF EngineTypeOK
  <1>2. \A r \in Requests : Known(r)' => Known(r)
    BY DEF Known
  <1>3. \A r \in Requests : Unrecorded(r)' <=> Unrecorded(r)
    BY DEF Unrecorded
  <1>4. /\ IsFiniteSet(issued')
        /\ \A r \in Requests : Known(r)' => r \in issued'
        /\ placing'.pc # "idle" => placing'.r \in issued'
    BY <1>2 DEF Ownership
  <1>5. (placing.pc \in {"claim", "score", "route", "admit"} => ~Known(placing.r))'
    <2> SUFFICES ASSUME placing.pc \in {"claim", "score", "route", "admit"}
                 PROVE  ~Known(placing.r)'
      OBVIOUS
    <2>1. PICK r \in Requests : r = placing.r
      BY PlacingShape DEF EngineTypeOK
    <2>2. ~Known(r)
      BY <2>1 DEF Ownership
    <2>3. ~Known(r)'
      BY <1>2, <2>2
    <2>4. QED
      BY <2>1, <2>3 DEF Known, Busy
  <1>6. \A w \in Workers, r \in DOMAIN live' : Busy(w, r)' => live'[r].worker = w
    BY <1>1 DEF Ownership
  <1>7. \A v, w \in Workers, r \in Requests : Busy(v, r)' /\ Busy(w, r)' => v = w
    BY DEF Ownership
  <1>8. /\ \A r \in Requests : Unrecorded(r)' => r \notin DOMAIN chains'
        /\ placing'.pc \in {"incr", "hold"} => placing'.r \notin DOMAIN refs'
    BY <1>3 DEF Ownership
  <1>9. QED
    BY <1>4, <1>5, <1>6, <1>7, <1>8, Zenon DEF Ownership


\* A placement step that leaves the maps alone and stays before admission.
LEMMA PlacingKept ==
    ASSUME EngineInv, placing' \in PlacingState,
           UNCHANGED <<treeVars, shared, bookVars, live, driver, cancel, issued>>, HistoryOK',
           placing.pc \in {"claim", "score", "route"},
           placing'.pc \in {"idle", "claim", "score", "route", "admit"},
           placing'.pc # "idle" => placing'.r = placing.r,
           placing'.pc \in {"claim", "route"} =>
               placing'.hit <= Len(placing'.prompt) \div BlockSize,
           placing'.pc = "admit" => placing'.credit <= Len(placing'.prompt) \div BlockSize,
           placing'.pc \in {"score", "route", "admit"} => SnapshotFits(placing')
    PROVE  EngineInv'
  <1>1. TreeOK'
    BY TreeKept DEF EngineInv
  <1>2. EngineTypeOK'
    BY DEF EngineInv, EngineTypeOK, bookVars
  <1>3. LengthsFit'
    BY DEF EngineInv, LengthsFit, bookVars
  <1>4. Ownership'
    <2> USE DEF bookVars
    <2>1. \A r \in Requests : (Known(r)' <=> Known(r)) /\ ~Unrecorded(r)'
      BY DEF Known, Busy, Unrecorded
    <2>2. /\ IsFiniteSet(issued')
          /\ \A r \in Requests : Known(r)' => r \in issued'
          /\ placing'.pc # "idle" => placing'.r \in issued'
      BY <2>1 DEF EngineInv, Ownership
    <2>3. (placing.pc \in {"claim", "score", "route", "admit"} => ~Known(placing.r))'
      BY DEF EngineInv, Ownership, Known, Busy
    <2>4. /\ (\A w \in Workers, r \in DOMAIN live : Busy(w, r) => live[r].worker = w)'
          /\ (\A v, w \in Workers, r \in Requests : Busy(v, r) /\ Busy(w, r) => v = w)'
      BY DEF EngineInv, Ownership, Busy
    <2>5. /\ (\A r \in Requests : Unrecorded(r) => r \notin DOMAIN chains)'
          /\ (placing.pc \in {"incr", "hold"} => placing.r \notin DOMAIN refs)'
      BY <2>1
    <2>6. (\A w \in Workers : driver[w].pc = "decr" =>
               /\ driver[w].r \notin DOMAIN refs
               /\ placing.pc \in {"incr", "hold"} => driver[w].r # placing.r)'
      BY DEF EngineInv, Ownership
    <2>7. QED
      BY <2>2, <2>3, <2>4, <2>5, <2>6, Zenon DEF Ownership
  <1>5. QED
    BY <1>1, <1>2, <1>3, <1>4 DEF EngineInv

\* The depth found for a prompt lies on its blocks.
LEMMA PromptDepth ==
    ASSUME NEW prompt \in Prompts
    PROVE  /\ Tree!SnapshotDepth(BlocksOf(prompt)) \in Nat
           /\ Tree!SnapshotDepth(BlocksOf(prompt)) <= Len(prompt) \div BlockSize
           /\ \A k \in Nat : k <= Len(prompt) \div BlockSize =>
                  /\ Tree!NameAt(BlocksOf(prompt), k) \in Names
                  /\ Len(Tree!NameAt(BlocksOf(prompt), k)) = k
           /\ \A k \in Nat : k <= Len(prompt) \div BlockSize => BlockSize * k <= Len(prompt)
  <1>1. prompt \in Seq(Tokens)
    BY Geometry
  <1>2. BlocksOf(prompt) \in Names /\ Len(BlocksOf(prompt)) = Len(prompt) \div BlockSize
        /\ Len(prompt) \div BlockSize \in Nat
    BY <1>1, BlocksType
  <1>3. Tree!SnapshotDepth(BlocksOf(prompt)) \in 0 .. Len(BlocksOf(prompt))
    BY <1>2, DepthType DEF Names
  <1>4. ASSUME NEW k \in Nat, k <= Len(prompt) \div BlockSize
        PROVE  /\ Tree!NameAt(BlocksOf(prompt), k) \in Names
               /\ Len(Tree!NameAt(BlocksOf(prompt), k)) = k
    <2>1. k \in 0 .. Len(BlocksOf(prompt))
      BY <1>2, <1>4
    <2>2. QED
      BY <1>2, <2>1, NameType DEF Names
  <1>5. ASSUME NEW k \in Nat, k <= Len(prompt) \div BlockSize
        PROVE  BlockSize * k <= Len(prompt)
    <2> DEFINE m == Len(prompt) \div BlockSize
    <2>1. m \in Nat /\ Len(prompt) = BlockSize * m + (Len(prompt) % BlockSize)
          /\ Len(prompt) % BlockSize \in 0 .. (BlockSize - 1)
      <3>1. Len(prompt) \in Nat /\ BlockSize \in Nat \ {0}
        BY <1>1, Geometry
      <3>2. QED
        BY <3>1, Quotient
    <2> HIDE DEF m
    <2>2. k <= m
      BY <1>5 DEF m
    <2>3. BlockSize * k <= BlockSize * m
      BY <2>1, <2>2, Geometry
    <2>4. BlockSize * k \in Nat /\ BlockSize * m \in Nat /\ Len(prompt) \in Nat
      BY <1>1, <2>1, Geometry
    <2>5. QED
      BY <2>1, <2>3, <2>4, Geometry
  <1>6. QED
    BY <1>2, <1>3, <1>4, <1>5

LEMMA MatchKeeps ==
    ASSUME EngineInv, NEW r \in Requests, NEW prompt \in Prompts, NEW kind \in Kinds,
           NEW max \in MaxOutputs, PlaceMatch(r, prompt, kind, max)
    PROVE  EngineInv'
  <1> DEFINE hit0 == Tree!SnapshotDepth(BlocksOf(prompt))
  <1>1. /\ placing.pc = "idle" /\ r \notin issued /\ issued' = issued \cup {r}
        /\ placing' = [pc |-> "claim", r |-> r, prompt |-> prompt, kind |-> kind,
                       max |-> max, hit |-> hit0]
        /\ UNCHANGED <<treeVars, cacheVars, bookVars, live, driver, cancel, pastVars, missedVars>>
    BY DEF PlaceMatch
  <1>2. hit0 \in Nat /\ hit0 <= Len(prompt) \div BlockSize
    BY PromptDepth
  <1> HIDE DEF hit0
  <1>3. TreeOK'
    BY <1>1, TreeKept DEF EngineInv
  <1>4. placing' \in PlacingState
    BY <1>1, <1>2 DEF PlacingState
  <1>5. EngineTypeOK'
    BY HistoryFrame, <1>1, <1>4 DEF EngineInv, EngineTypeOK, bookVars, cacheVars
  <1>6. LengthsFit'
    BY <1>1, <1>2 DEF EngineInv, LengthsFit, bookVars, cacheVars
  <1>7. Ownership'
    <2> USE <1>1 DEF bookVars
    <2>1. \A q \in Requests : (Known(q)' <=> Known(q)) /\ ~Unrecorded(q)'
      BY DEF Known, Busy, Unrecorded
    <2>2. /\ IsFiniteSet(issued')
          /\ \A q \in Requests : Known(q)' => q \in issued'
          /\ placing'.pc # "idle" => placing'.r \in issued'
      BY <2>1, FS_AddElement DEF EngineInv, Ownership
    <2>3. (placing.pc \in {"claim", "score", "route", "admit"} => ~Known(placing.r))'
      BY DEF EngineInv, Ownership, Known, Busy
    <2>4. /\ (\A w \in Workers, q \in DOMAIN live : Busy(w, q) => live[q].worker = w)'
          /\ (\A v, w \in Workers, q \in Requests : Busy(v, q) /\ Busy(w, q) => v = w)'
      BY DEF EngineInv, Ownership, Busy
    <2>5. /\ (\A q \in Requests : Unrecorded(q) => q \notin DOMAIN chains)'
          /\ (placing.pc \in {"incr", "hold"} => placing.r \notin DOMAIN refs)'
      BY <2>1
    <2>6. (\A w \in Workers : driver[w].pc = "decr" =>
               /\ driver[w].r \notin DOMAIN refs
               /\ placing.pc \in {"incr", "hold"} => driver[w].r # placing.r)'
      BY DEF EngineInv, Ownership
    <2>7. QED
      BY <2>2, <2>3, <2>4, <2>5, <2>6, Zenon DEF Ownership
  <1>8. QED
    BY <1>3, <1>5, <1>6, <1>7 DEF EngineInv


LEMMA ClaimKeeps ==
    ASSUME EngineInv, PlaceClaim
    PROVE  EngineInv'
  <1> DEFINE name == Tree!NameAt(BlocksOf(placing.prompt), placing.hit)
             found == placing.hit > 0 /\ name \in DOMAIN shared
             snap == [tokens |-> shared[name].tokens, next |-> shared[name].next]
             kept == IF found /\ Usable(snap, placing.prompt, placing.kind)
                     THEN <<snap>> ELSE << >>
  <1>1. /\ placing.pc = "claim"
        /\ placing' = [pc |-> "score", r |-> placing.r, prompt |-> placing.prompt,
                       kind |-> placing.kind, max |-> placing.max, snap |-> kept]
        /\ UNCHANGED <<treeVars, shared, bookVars, live, driver, cancel, issued, outrun, masked,
                       missedVars>>
        /\ lineage' = IF found
                      THEN [lineage EXCEPT ![placing.r] = @ \cup lineage[shared[name].by]]
                      ELSE lineage
    BY Zenon DEF PlaceClaim
  <1>2. /\ placing.r \in Requests /\ placing.prompt \in Prompts
        /\ placing.kind \in Kinds /\ placing.max \in MaxOutputs /\ placing.hit \in Nat
        /\ placing.hit <= Len(placing.prompt) \div BlockSize
    BY <1>1, PlacingShape DEF EngineInv, EngineTypeOK, LengthsFit
  <1>3. Len(name) = placing.hit /\ BlockSize * placing.hit <= Len(placing.prompt)
    BY <1>2, PromptDepth
  <1>4. found => /\ snap \in Snapshot
                 /\ Len(snap.tokens) = BlockSize * Len(name)
                 /\ shared[name].by \in Requests
    BY DEF EngineInv, EngineTypeOK, LengthsFit, Snapshot, Published
  <1> HIDE DEF name, snap
  <1>9. HistoryOK'
    <2>1. HistoryOK
      BY DEF EngineInv, EngineTypeOK
    <2>2. CASE ~found
      BY <1>1, <2>1, <2>2 DEF HistoryOK, missedVars
    <2>3. CASE found
      <3>1. lineage[shared[name].by] \subseteq Requests
        BY <1>4, <2>1, <2>3 DEF HistoryOK
      <3>2. lineage' = [lineage EXCEPT ![placing.r] = lineage[placing.r] \cup lineage[shared[name].by]]
        BY <1>1, <2>3
      <3>3. lineage' \in [Requests -> SUBSET Requests]
        BY <1>2, <2>1, <3>1, <3>2 DEF HistoryOK
      <3>4. \A q \in Requests : q \in lineage'[q]
        BY <1>2, <2>1, <3>2 DEF HistoryOK
      <3>5. QED
        BY <1>1, <2>1, <3>3, <3>4 DEF HistoryOK, missedVars
    <2>4. QED
      BY <2>2, <2>3
  <1>5. CASE found /\ Usable(snap, placing.prompt, placing.kind)
    <2>1. kept = <<snap>> /\ kept \in Seq(Snapshot) /\ kept[1] = snap
      BY <1>4, <1>5
    <2>2. Len(snap.tokens) <= Len(placing.prompt)
      BY <1>3, <1>4, <1>5
    <2>3. Len(snap.tokens) = Len(placing.prompt) => snap.next # NoToken
      <3>1. Len(placing.prompt) \in Nat
        BY <1>2, Geometry
      <3>2. QED
        BY <1>5, <3>1 DEF Usable
    <2>4. placing' \in PlacingState /\ SnapshotFits(placing')
      BY <1>1, <1>2, <2>1, <2>2, <2>3 DEF PlacingState, SnapshotFits
    <2>5. QED
      BY <1>1, <1>9, <2>4, PlacingKept
  <1>6. CASE ~(found /\ Usable(snap, placing.prompt, placing.kind))
    <2>1. kept = << >> /\ kept \in Seq(Snapshot)
      BY <1>6
    <2>2. placing' \in PlacingState /\ SnapshotFits(placing')
      BY <1>1, <1>2, <2>1 DEF PlacingState, SnapshotFits
    <2>3. QED
      BY <1>1, <1>9, <2>2, PlacingKept
  <1>7. QED
    BY <1>5, <1>6

LEMMA ScoreKeeps ==
    ASSUME EngineInv, PlaceScore
    PROVE  EngineInv'
  <1> DEFINE depth == Tree!SnapshotDepth(BlocksOf(placing.prompt))
  <1>1. /\ placing.pc = "score"
        /\ placing' = [pc |-> "route", r |-> placing.r, prompt |-> placing.prompt,
                       kind |-> placing.kind, max |-> placing.max, snap |-> placing.snap,
                       hit |-> depth]
        /\ UNCHANGED <<treeVars, cacheVars, bookVars, live, driver, cancel, issued, pastVars, missedVars>>
    BY Zenon DEF PlaceScore
  <1>2. /\ placing.r \in Requests /\ placing.prompt \in Prompts
        /\ placing.kind \in Kinds /\ placing.max \in MaxOutputs
        /\ placing.snap \in Seq(Snapshot) /\ SnapshotFits(placing)
    BY <1>1, PlacingShape DEF EngineInv, EngineTypeOK, LengthsFit
  <1>3. depth \in Nat /\ depth <= Len(placing.prompt) \div BlockSize
    BY <1>2, PromptDepth
  <1> HIDE DEF depth
  <1>4. placing' \in PlacingState /\ SnapshotFits(placing')
    BY <1>1, <1>2, <1>3 DEF PlacingState, SnapshotFits
  <1>5. QED
    BY <1>1, <1>3, <1>4, PlacingKept, HistoryFrame DEF cacheVars, EngineInv, EngineTypeOK

LEMMA RouteKeeps ==
    ASSUME EngineInv, PlaceRoute
    PROVE  EngineInv'
  <1> DEFINE name == Tree!NameAt(BlocksOf(placing.prompt), placing.hit)
             credit0 == IF placing.hit > 0 /\ name \in DOMAIN shared THEN placing.hit ELSE 0
  <1>1. /\ placing.pc = "route"
        /\ \/ placing' = NotPlacing
           \/ \E w \in Workers :
                 placing' = [pc |-> "admit", r |-> placing.r, prompt |-> placing.prompt,
                             kind |-> placing.kind, max |-> placing.max,
                             snap |-> placing.snap, credit |-> credit0, worker |-> w]
        /\ UNCHANGED <<treeVars, cacheVars, bookVars, live, driver, cancel, issued, pastVars, missedVars>>
    BY Zenon DEF PlaceRoute
  <1>2. /\ placing.r \in Requests /\ placing.prompt \in Prompts
        /\ placing.kind \in Kinds /\ placing.max \in MaxOutputs
        /\ placing.snap \in Seq(Snapshot) /\ SnapshotFits(placing)
        /\ placing.hit \in Nat /\ placing.hit <= Len(placing.prompt) \div BlockSize
    BY <1>1, PlacingShape DEF EngineInv, EngineTypeOK, LengthsFit
  <1>3. credit0 \in Nat /\ credit0 <= Len(placing.prompt) \div BlockSize
    <2>1. Len(placing.prompt) \in Nat
      BY <1>2, Geometry
    <2>2. Len(placing.prompt) \div BlockSize \in Nat
      BY <2>1, Geometry, Quotient
    <2>3. QED
      BY <1>2, <2>2
  <1> HIDE DEF credit0
  <1>4. CASE placing' = NotPlacing
    BY <1>1, <1>4, PlacingKept, HistoryFrame
       DEF cacheVars, NotPlacing, PlacingState, EngineInv, EngineTypeOK
  <1>5. ASSUME NEW w \in Workers,
               placing' = [pc |-> "admit", r |-> placing.r, prompt |-> placing.prompt,
                           kind |-> placing.kind, max |-> placing.max,
                           snap |-> placing.snap, credit |-> credit0, worker |-> w]
        PROVE  EngineInv'
    <2>1. placing' \in PlacingState /\ SnapshotFits(placing')
      BY <1>2, <1>3, <1>5 DEF PlacingState, SnapshotFits
    <2>2. QED
      BY <1>1, <1>3, <1>5, <2>1, PlacingKept, HistoryFrame DEF cacheVars, EngineInv, EngineTypeOK
  <1>6. QED
    BY <1>1, <1>4, <1>5


\* A sequence as it is admitted.
LEMMA AdmittedFits ==
    ASSUME EngineInv, placing.pc = "admit"
    PROVE  /\ Admitted(placing) \in LiveSequence /\ LiveFits(Admitted(placing))
           /\ Credited(placing) \in Names
           /\ Admitted(placing).worker = placing.worker /\ Admitted(placing).out = 0
  <1> DEFINE base == IF placing.snap = << >> THEN << >> ELSE placing.snap[1].tokens
             first == IF Len(base) = Len(placing.prompt) THEN placing.snap[1].next ELSE NoToken
  <1>1. /\ placing.r \in Requests /\ placing.prompt \in Prompts
        /\ placing.kind \in Kinds /\ placing.max \in MaxOutputs /\ placing.worker \in Workers
        /\ placing.snap \in Seq(Snapshot) /\ SnapshotFits(placing)
        /\ placing.credit \in Nat /\ placing.credit <= Len(placing.prompt) \div BlockSize
    BY PlacingShape DEF EngineInv, EngineTypeOK, LengthsFit
  <1>2. Len(placing.prompt) \in Nat \ {0}
    BY <1>1, Geometry
  <1>3. placing.snap # << >> => placing.snap[1] \in Snapshot
    BY <1>1, EmptySeq, ElementOfSeq
  <1>4. /\ base \in Seq(Tokens) /\ Len(base) \in Nat /\ Len(base) <= Len(placing.prompt)
        /\ Len(base) = Len(placing.prompt) => placing.snap # << >> /\ first # NoToken
        /\ first \in Picked
    <2>1. CASE placing.snap = << >>
      BY <1>2, <2>1 DEF Picked
    <2>2. CASE placing.snap # << >>
      BY <1>1, <1>3, <2>2 DEF SnapshotFits, Snapshot, Picked
    <2>3. QED
      BY <2>1, <2>2
  <1>5. Admitted(placing) =
            [worker |-> placing.worker, kind |-> placing.kind, prompt |-> placing.prompt,
             max |-> placing.max, fed |-> base, last |-> Len(base), off |-> FALSE, out |-> 0,
             next |-> first]
    BY DEF Admitted
  <1> HIDE DEF base, first
  <1>6. Admitted(placing) \in LiveSequence /\ LiveFits(Admitted(placing))
    BY <1>1, <1>4, <1>5 DEF LiveSequence, LiveFits
  <1>7. Credited(placing) \in Names
    BY <1>1, PromptDepth DEF Credited
  <1>8. QED
    BY <1>5, <1>6, <1>7

LEMMA AdmitKeeps ==
    ASSUME EngineInv, PlaceAdmit
    PROVE  EngineInv'
  <1>1. /\ placing.pc = "admit"
        /\ UNCHANGED <<treeVars, cacheVars, bookVars, driver, cancel, issued, pastVars, missedVars>>
    BY DEF PlaceAdmit
  <1>2. /\ placing.r \in Requests /\ placing.prompt \in Prompts
    BY <1>1, PlacingShape DEF EngineInv, EngineTypeOK
  <1>3. TreeOK'
    BY <1>1, TreeKept DEF EngineInv
  <1>4. CASE placing' = NotPlacing /\ UNCHANGED live
    <2>1. placing' \in PlacingState /\ placing'.pc = "idle"
      BY <1>4 DEF NotPlacing, PlacingState
    <2>2. EngineTypeOK'
      BY HistoryFrame, <1>1, <1>4, <2>1 DEF EngineInv, EngineTypeOK, bookVars, cacheVars
    <2>3. LengthsFit'
      BY <1>1, <1>4, <2>1 DEF EngineInv, LengthsFit, bookVars, cacheVars
    <2>4. Ownership'
      <3>1. \A r \in Requests : (Known(r)' <=> Known(r)) /\ ~Unrecorded(r)'
        BY <1>1, <1>4, <2>1 DEF Known, Busy, Unrecorded, bookVars
      <3>2. /\ (\A w \in Workers, r \in DOMAIN live : Busy(w, r) => live[r].worker = w)'
            /\ (\A v, w \in Workers, r \in Requests : Busy(v, r) /\ Busy(w, r) => v = w)'
        BY <1>1, <1>4 DEF EngineInv, Ownership, Busy
      <3>3. (\A w \in Workers : driver[w].pc = "decr" =>
                 /\ driver[w].r \notin DOMAIN refs
                 /\ placing.pc \in {"incr", "hold"} => driver[w].r # placing.r)'
        BY <1>1, <2>1 DEF EngineInv, Ownership, bookVars
      <3>4. QED
        BY <1>1, <2>1, <3>1, <3>2, <3>3 DEF EngineInv, Ownership
    <2>5. QED
      BY <1>3, <2>2, <2>3, <2>4 DEF EngineInv
  <1>5. CASE /\ live' = Put(live, placing.r, Admitted(placing))
             /\ placing' = [pc |-> IF placing.credit > 0 THEN "incr" ELSE "chain",
                            r |-> placing.r, prompt |-> placing.prompt,
                            held |-> Credited(placing)]
    <2>1. /\ Admitted(placing) \in LiveSequence /\ LiveFits(Admitted(placing))
          /\ Credited(placing) \in Names
      BY <1>1, AdmittedFits
    <2>2. /\ placing' \in PlacingState
          /\ placing'.pc \in {"incr", "chain"} /\ placing'.r = placing.r
      BY <1>2, <1>5, <2>1 DEF PlacingState
    <2>3. /\ DOMAIN live' = DOMAIN live \cup {placing.r}
          /\ live'[placing.r] = Admitted(placing)
          /\ \A q \in DOMAIN live : q # placing.r => live'[q] = live[q]
          /\ live' \in [DOMAIN live' -> LiveSequence]
      <3>1. live \in [DOMAIN live -> LiveSequence]
        BY DEF EngineInv, EngineTypeOK
      <3>2. live' \in [DOMAIN live' -> LiveSequence]
        BY <1>5, <2>1, <3>1, PutType, Zenon
      <3>3. QED
        BY <1>5, <3>2, Zenon DEF Put
    <2>4. ~Known(placing.r)
      BY <1>1 DEF EngineInv, Ownership
    <2>5. EngineTypeOK'
      BY HistoryFrame, <1>1, <1>2, <2>2, <2>3 DEF EngineInv, EngineTypeOK, bookVars, cacheVars
    <2>6. LengthsFit'
      BY <1>1, <2>1, <2>2, <2>3 DEF EngineInv, LengthsFit, bookVars, cacheVars
    <2>7. Ownership'
      <3>1. /\ placing.r \notin DOMAIN live \cup DOMAIN chains \cup DOMAIN refs
            /\ \A w \in Workers : ~Busy(w, placing.r) /\ ~Busy(w, placing.r)'
        BY <1>1, <2>2, <2>4 DEF Known, Busy
      <3>2. \A q \in Requests : (Known(q)' => Known(q) \/ q = placing.r)
                                /\ (Unrecorded(q)' => q = placing.r)
        BY <1>1, <2>2, <2>3 DEF Known, Busy, Unrecorded, bookVars
      <3>3. /\ IsFiniteSet(issued')
            /\ \A q \in Requests : Known(q)' => q \in issued'
            /\ placing'.pc # "idle" => placing'.r \in issued'
        BY <1>1, <2>2, <3>2 DEF EngineInv, Ownership
      <3>4. (placing.pc \in {"claim", "score", "route", "admit"} => ~Known(placing.r))'
        BY <2>2
      <3>5. (\A w \in Workers, q \in DOMAIN live : Busy(w, q) => live[q].worker = w)'
        BY <1>1, <2>3, <3>1 DEF EngineInv, Ownership, Busy
      <3>6. (\A v, w \in Workers, q \in Requests : Busy(v, q) /\ Busy(w, q) => v = w)'
        BY <1>1 DEF EngineInv, Ownership, Busy
      <3>7. /\ (\A q \in Requests : Unrecorded(q) => q \notin DOMAIN chains)'
            /\ (placing.pc \in {"incr", "hold"} => placing.r \notin DOMAIN refs)'
        BY <1>1, <2>2, <3>1, <3>2 DEF bookVars
      <3>8. (\A w \in Workers : driver[w].pc = "decr" =>
                 /\ driver[w].r \notin DOMAIN refs
                 /\ placing.pc \in {"incr", "hold"} => driver[w].r # placing.r)'
        BY <1>1, <2>2, <3>1 DEF EngineInv, Ownership, Busy, bookVars
      <3>9. QED
        BY <3>3, <3>4, <3>5, <3>6, <3>7, <3>8, Zenon DEF Ownership
    <2>8. QED
      BY <1>3, <2>5, <2>6, <2>7 DEF EngineInv
  <1>6. QED
    BY <1>4, <1>5 DEF PlaceAdmit

\* What is left of placement: the references, the entry that holds them and the chain.
LEMMA IncrKeeps ==
    ASSUME EngineInv, PlaceIncr
    PROVE  EngineInv'
  <1>1. /\ placing.pc = "incr" /\ Tree!IncrRefChain(placing.held)
        /\ placing' = [placing EXCEPT !.pc = "hold"]
        /\ UNCHANGED <<cacheVars, bookVars, live, driver, cancel, issued, pastVars, missedVars>>
    BY DEF PlaceIncr
  <1>2. placing \in [pc : {"incr", "hold", "chain"}, r : Requests, prompt : Prompts, held : Names]
    BY <1>1 DEF EngineInv, EngineTypeOK, PlacingState
  <1>3. /\ placing' \in PlacingState /\ placing'.pc = "hold" /\ placing'.r = placing.r
    BY <1>1, <1>2 DEF PlacingState
  <1>4. TreeOK'
    BY <1>1, IncrTree DEF EngineInv
  <1>5. EngineTypeOK'
    BY HistoryFrame, <1>1, <1>3 DEF EngineInv, EngineTypeOK, bookVars, cacheVars
  <1>6. LengthsFit'
    BY <1>1, <1>3 DEF EngineInv, LengthsFit, bookVars, cacheVars
  <1>7. Ownership'
    <2>1. \A q \in Requests : (Known(q)' <=> Known(q)) /\ (Unrecorded(q)' <=> Unrecorded(q))
      BY <1>1, <1>3 DEF Known, Busy, Unrecorded, bookVars
    <2>2. (\A w \in Workers, q \in DOMAIN live : Busy(w, q) => live[q].worker = w)'
          /\ (\A v, w \in Workers, q \in Requests : Busy(v, q) /\ Busy(w, q) => v = w)'
      BY <1>1 DEF EngineInv, Ownership, Busy
    <2>3. QED
      BY <1>1, <1>3, <2>1, <2>2 DEF EngineInv, Ownership, bookVars
  <1>8. QED
    BY <1>4, <1>5, <1>6, <1>7 DEF EngineInv

LEMMA RefsKeeps ==
    ASSUME EngineInv, PlaceRefs
    PROVE  EngineInv'
  <1>1. /\ placing.pc = "hold"
        /\ refs' = Put(refs, placing.r, placing.held)
        /\ placing' = [placing EXCEPT !.pc = "chain"]
        /\ UNCHANGED <<treeVars, cacheVars, chains, live, driver, cancel, issued, pastVars, missedVars>>
    BY DEF PlaceRefs
  <1>2. placing \in [pc : {"incr", "hold", "chain"}, r : Requests, prompt : Prompts, held : Names]
    BY <1>1 DEF EngineInv, EngineTypeOK, PlacingState
  <1>3. /\ placing' \in PlacingState /\ placing'.pc = "chain" /\ placing'.r = placing.r
        /\ placing.r \in Requests
    BY <1>1, <1>2 DEF PlacingState
  <1>4. /\ DOMAIN refs' = DOMAIN refs \cup {placing.r}
        /\ refs' \in [DOMAIN refs' -> Names]
    <2>1. refs \in [DOMAIN refs -> Names] /\ placing.held \in Names
      BY <1>2 DEF EngineInv, EngineTypeOK
    <2>2. refs' \in [DOMAIN refs' -> Names]
      BY <1>1, <2>1, PutType, Zenon
    <2>3. QED
      BY <1>1, <2>2 DEF Put
  <1>5. TreeOK'
    BY <1>1, TreeKept DEF EngineInv
  <1>6. EngineTypeOK'
    BY HistoryFrame, <1>1, <1>3, <1>4 DEF EngineInv, EngineTypeOK, cacheVars
  <1>7. LengthsFit'
    BY <1>1, <1>3 DEF EngineInv, LengthsFit, cacheVars
  <1>8. Ownership'
    <2>1. \A q \in Requests : (Known(q)' => Known(q) \/ q = placing.r)
                              /\ (Unrecorded(q)' <=> Unrecorded(q))
      BY <1>1, <1>3, <1>4 DEF Known, Busy, Unrecorded
    <2>2. (\A w \in Workers, q \in DOMAIN live : Busy(w, q) => live[q].worker = w)'
          /\ (\A v, w \in Workers, q \in Requests : Busy(v, q) /\ Busy(w, q) => v = w)'
      BY <1>1 DEF EngineInv, Ownership, Busy
    <2>3. QED
      BY <1>1, <1>3, <1>4, <2>1, <2>2 DEF EngineInv, Ownership
  <1>9. QED
    BY <1>5, <1>6, <1>7, <1>8 DEF EngineInv

LEMMA ChainKeeps ==
    ASSUME EngineInv, PlaceChain
    PROVE  EngineInv'
  <1> DEFINE entry == [tokens |-> placing.prompt, prompt |-> Len(placing.prompt)]
  <1>1. /\ placing.pc = "chain"
        /\ chains' = Put(chains, placing.r, entry)
        /\ placing' = NotPlacing
        /\ UNCHANGED <<treeVars, cacheVars, refs, live, driver, cancel, issued, pastVars, missedVars>>
    BY DEF PlaceChain
  <1>2. placing.r \in Requests /\ placing.prompt \in Prompts
    BY <1>1, PlacingShape DEF EngineInv, EngineTypeOK
  <1>3. placing' \in PlacingState /\ placing'.pc = "idle"
    BY <1>1 DEF PlacingState, NotPlacing
  <1>4. entry \in [tokens : Seq(Tokens), prompt : Nat]
    BY <1>2, Geometry
  <1>5. /\ DOMAIN chains' = DOMAIN chains \cup {placing.r}
        /\ chains' \in [DOMAIN chains' -> [tokens : Seq(Tokens), prompt : Nat]]
    <2> DEFINE Entries == [tokens : Seq(Tokens), prompt : Nat]
    <2>1. chains \in [DOMAIN chains -> Entries] /\ entry \in Entries
      BY <1>4 DEF EngineInv, EngineTypeOK
    <2> HIDE DEF Entries, entry
    <2>2. chains' \in [DOMAIN chains' -> Entries]
      BY <1>1, <2>1, PutType, Zenon
    <2>3. DOMAIN chains' = DOMAIN chains \cup {placing.r}
      BY <1>1 DEF Put
    <2>4. QED
      BY <2>2, <2>3 DEF Entries
  <1>6. TreeOK'
    BY <1>1, TreeKept DEF EngineInv
  <1>7. EngineTypeOK'
    BY HistoryFrame, <1>1, <1>2, <1>3, <1>5 DEF EngineInv, EngineTypeOK, cacheVars
  <1>8. LengthsFit'
    BY <1>1, <1>3 DEF EngineInv, LengthsFit, cacheVars
  <1>9. Ownership'
    <2>1. \A q \in Requests : (Known(q)' => Known(q) \/ q = placing.r) /\ ~Unrecorded(q)'
      BY <1>1, <1>3, <1>5 DEF Known, Busy, Unrecorded
    <2>2. (\A w \in Workers, q \in DOMAIN live : Busy(w, q) => live[q].worker = w)'
          /\ (\A v, w \in Workers, q \in Requests : Busy(v, q) /\ Busy(w, q) => v = w)'
      BY <1>1 DEF EngineInv, Ownership, Busy
    <2>3. QED
      BY <1>1, <1>3, <2>1, <2>2 DEF EngineInv, Ownership
  <1>10. QED
    BY <1>6, <1>7, <1>8, <1>9 DEF EngineInv

LEMMA PlaceKeeps ==
    ASSUME EngineInv, Place
    PROVE  EngineInv'
  BY MatchKeeps, ClaimKeeps, ScoreKeeps, RouteKeeps, AdmitKeeps, IncrKeeps, RefsKeeps, ChainKeeps
     DEF Place


-----------------------------------------------------------------------------
(* What a device step does to a sequence.                                  *)

\* The boundaries at which a snapshot was kept lie in what was fed, on a block's end.
LEMMA BoundaryFits ==
    ASSUME NEW rec \in LiveSequence, NEW end \in Nat
    PROVE  /\ Due(rec, end) \in Nat
           /\ \A i \in 1 .. Due(rec, end) :
                  /\ Boundary(rec, i) \in 1 .. end
                  /\ Boundary(rec, i) % BlockSize = 0
                  /\ Len(rec.fed) < Boundary(rec, i)
           /\ \A kept \in Retentions(rec, end) : kept \in Nat /\ kept <= Due(rec, end)
  <1> DEFINE since == Since(rec)
             b == since \div Interval
             e == end \div Interval
  <1>1. since \in Nat /\ Len(rec.fed) \in Nat /\ Len(rec.fed) <= since
    BY DEF Since, LiveSequence
  <1> HIDE DEF since
  <1>2. /\ b \in Nat /\ e \in Nat
        /\ since <= end => b <= e
        /\ end = Interval * e + (end % Interval) /\ end % Interval \in 0 .. (Interval - 1)
    <2>1. Interval \in Nat \ {0}
      BY Geometry
    <2>2. QED
      BY <1>1, <2>1, Quotient, Monotone
  <1>3. Due(rec, end) = IF rec.off \/ end < since THEN 0 ELSE e - b
    BY DEF Due, since
  <1> HIDE DEF b, e
  <1>4. Due(rec, end) \in Nat /\ (Due(rec, end) # 0 => Due(rec, end) = e - b)
    BY <1>1, <1>2, <1>3
  <1>5. ASSUME NEW i \in 1 .. Due(rec, end)
        PROVE  /\ Boundary(rec, i) \in 1 .. end /\ Boundary(rec, i) % BlockSize = 0
               /\ Len(rec.fed) < Boundary(rec, i)
    <2> DEFINE k == b + i
    <2>1. k \in Nat /\ k >= 1 /\ k <= e /\ k >= b + 1
      BY <1>2, <1>4, <1>5
    <2>2. Boundary(rec, i) = k * Interval
      BY DEF Boundary, b, since
    <2> HIDE DEF k
    <2>3. k * Interval <= e * Interval /\ k * Interval >= 1
      BY <1>2, <2>1, Geometry
    <2>4. e * Interval <= end
      BY <1>2, Geometry
    <2>5. (k * Interval) % BlockSize = 0 /\ k * Interval \in Nat /\ e * Interval \in Nat
      BY <1>2, <2>1, OnBlock
    <2>6. since < k * Interval
      <3>1. (b + 1) * Interval <= k * Interval /\ Interval \in Nat \ {0}
        BY <1>2, <2>1, Geometry
      <3>2. (b + 1) * Interval = Interval * b + Interval
        BY <1>2, <3>1
      <3>3. Interval * b \in Nat /\ (b + 1) * Interval \in Nat
        BY <1>2, <3>1
      <3>4. since = Interval * b + (since % Interval) /\ since % Interval \in 0 .. (Interval - 1)
        BY <1>1, <3>1, Quotient DEF b
      <3>5. QED
        BY <2>5, <3>1, <3>2, <3>3, <3>4
    <2>7. QED
      BY <1>1, <2>2, <2>3, <2>4, <2>5, <2>6
  <1>6. \A kept \in Retentions(rec, end) : kept \in Nat /\ kept <= Due(rec, end)
    BY <1>4 DEF Retentions
  <1>7. QED
    BY <1>4, <1>5, <1>6

\* The model's prediction after the beginning of what was fed.
LEMMA PredictionType ==
    ASSUME NEW fed \in Seq(Tokens), Len(fed) <= MaxLen, NEW position \in 1 .. Len(fed)
    PROVE  Argmax[SubSeq(fed, 1, position)] \in Tokens
  <1> DEFINE s == SubSeq(fed, 1, position)
  <1>1. position \in 0 .. Len(fed) /\ position \in 1 .. MaxLen
    BY Geometry
  <1>2. s \in Seq(Tokens) /\ Len(s) = position
    BY <1>1, Beginning
  <1> HIDE DEF s
  <1>3. s \in [1 .. position -> Tokens]
    BY <1>2, LenProperties
  <1>4. Argmax[s] \in Tokens
    BY <1>1, <1>3, CacheAssumption DEF CacheAssumption
  <1>5. QED
    BY <1>4 DEF s

\* A snapshot that a step kept: of a whole number of blocks that the step fed.
Kept(rec, fed, t, snap) ==
    /\ Whole(snap.tokens)
    /\ IsPrefix(snap.tokens, fed)
    /\ \E position \in 1 .. Len(fed) :
           /\ Len(rec.fed) < position
           /\ snap.tokens = SubSeq(fed, 1, position)
           /\ Len(snap.tokens) = position
           /\ snap.next = Recorded(rec, fed, position, t)

\* What a step of any kind leaves of a sequence.
LEMMA OutcomeTyped ==
    ASSUME NEW rec \in LiveSequence, NEW fed \in Seq(Tokens), Len(fed) <= MaxLen,
           NEW kept \in Retentions(rec, Len(fed)), NEW t \in Picked, NEW o,
           o = Outcome(rec, fed, kept, t)
    PROVE  /\ o.rec \in LiveSequence
           /\ o.rec.worker = rec.worker /\ o.rec.kind = rec.kind /\ o.rec.prompt = rec.prompt
           /\ o.rec.max = rec.max /\ o.rec.fed = fed /\ o.rec.next = t
           /\ o.rec.out = IF t = Eos THEN rec.max ELSE IF t = NoToken THEN rec.out ELSE rec.out + 1
           /\ o.gen \in Seq(Tokens) /\ o.gen = Reported(rec, t)
           /\ o.kept \in Seq(Snapshot)
           /\ \A i \in DOMAIN o.kept : Kept(rec, fed, t, o.kept[i])
  <1>1. Len(fed) \in Nat
    OBVIOUS
  <1>2. kept \in Nat /\ kept <= Due(rec, Len(fed)) /\ Due(rec, Len(fed)) \in Nat
    BY <1>1, BoundaryFits
  <1>3. \A i \in 1 .. kept :
            /\ Boundary(rec, i) \in 1 .. Len(fed) /\ Boundary(rec, i) % BlockSize = 0
            /\ Len(rec.fed) < Boundary(rec, i)
    BY <1>1, <1>2, BoundaryFits
  <1>4. o.rec \in LiveSequence
        /\ o.rec.worker = rec.worker /\ o.rec.kind = rec.kind /\ o.rec.prompt = rec.prompt
        /\ o.rec.max = rec.max /\ o.rec.fed = fed /\ o.rec.next = t
        /\ o.rec.out = IF t = Eos THEN rec.max ELSE IF t = NoToken THEN rec.out ELSE rec.out + 1
    <2> DEFINE last1 == IF kept = 0 THEN rec.last ELSE Boundary(rec, kept)
               off1 == rec.off \/ kept # Due(rec, Len(fed))
               out1 == IF t = Eos THEN rec.max ELSE IF t = NoToken THEN rec.out ELSE rec.out + 1
    <2>1. o.rec = [rec EXCEPT !.fed = fed, !.last = last1, !.off = off1, !.next = t, !.out = out1]
      BY Zenon DEF Outcome, Advanced
    <2>2. last1 \in Nat
      <3>1. CASE kept = 0
        BY <3>1 DEF LiveSequence
      <3>2. CASE kept # 0
        <4>1. kept \in 1 .. kept
          BY <1>2, <3>2
        <4>2. QED
          BY <1>3, <3>2, <4>1
      <3>3. QED
        BY <3>1, <3>2
    <2>3. out1 \in Nat
      <3>1. rec.max \in Nat /\ rec.out \in Nat
        BY Geometry DEF LiveSequence
      <3>2. QED
        BY <3>1
    <2>4. off1 \in BOOLEAN
      BY DEF LiveSequence
    <2> HIDE DEF last1, off1, out1
    <2>5. QED
      BY <2>1, <2>2, <2>3, <2>4 DEF LiveSequence, out1
  <1>5. o.gen \in Seq(Tokens) /\ o.gen = Reported(rec, t)
    BY DEF Outcome, Reported, Picked
  <1> DEFINE snap(i) == [tokens |-> SubSeq(fed, 1, Boundary(rec, i)),
                         next   |-> Recorded(rec, fed, Boundary(rec, i), t)]
  <1>6. o.kept = [i \in 1 .. kept |-> snap(i)]
    BY Zenon DEF Outcome
  <1>7. ASSUME NEW i \in 1 .. kept
        PROVE  /\ snap(i) \in Snapshot /\ Whole(snap(i).tokens)
               /\ IsPrefix(snap(i).tokens, fed)
               /\ Len(snap(i).tokens) = Boundary(rec, i)
    <2> DEFINE position == Boundary(rec, i)
               s == SubSeq(fed, 1, position)
    <2>1. position \in 1 .. Len(fed) /\ position % BlockSize = 0 /\ position \in 0 .. Len(fed)
      BY <1>3
    <2> HIDE DEF position
    <2>2. s \in Seq(Tokens) /\ Len(s) = position /\ \A j \in 1 .. position : s[j] = fed[j]
      BY <2>1, Beginning
    <2>3. Recorded(rec, fed, position, t) \in Picked
      BY <2>1, PredictionType DEF Recorded, Picked
    <2> HIDE DEF s
    <2>4. IsPrefix(s, fed) /\ Whole(s)
      <3>1. Len(s) <= Len(fed)
        BY <2>1, <2>2
      <3>2. IsPrefix(s, fed)
        BY <2>2, <3>1, PrefixByElements
      <3>3. QED
        BY <2>1, <2>2, <3>2 DEF Whole
    <2>5. snap(i) = [tokens |-> s, next |-> Recorded(rec, fed, position, t)]
      BY DEF s, position
    <2> HIDE DEF snap
    <2>6. QED
      BY <2>2, <2>3, <2>4, <2>5 DEF Snapshot, position
  <1>8. o.kept \in Seq(Snapshot) /\ DOMAIN o.kept = 1 .. kept
    BY <1>2, <1>6, <1>7
  <1>9. ASSUME NEW i \in DOMAIN o.kept PROVE Kept(rec, fed, t, o.kept[i])
    <2>1. i \in 1 .. kept /\ o.kept[i] = snap(i)
      BY <1>6, <1>8
    <2>2. Boundary(rec, i) \in 1 .. Len(fed) /\ Len(rec.fed) < Boundary(rec, i)
      BY <1>3, <2>1
    <2>3. /\ snap(i).tokens = SubSeq(fed, 1, Boundary(rec, i))
          /\ snap(i).next = Recorded(rec, fed, Boundary(rec, i), t)
      OBVIOUS
    <2>4. /\ Whole(snap(i).tokens) /\ IsPrefix(snap(i).tokens, fed)
          /\ Len(snap(i).tokens) = Boundary(rec, i)
      BY <1>7, <2>1
    <2> HIDE DEF snap
    <2>5. QED
      BY <2>1, <2>2, <2>3, <2>4, Zenon DEF Kept
  <1>10. QED
    BY <1>4, <1>5, <1>8, <1>9


\* What a step fed and which token it picked.
Stepped(rec, o, fed, kept, t) ==
    /\ kept \in Retentions(rec, Len(fed)) /\ o = Outcome(rec, fed, kept, t)
    /\ Len(fed) <= MaxLen
    /\ rec.out = 0 =>
           /\ Len(fed) <= Len(rec.prompt) /\ Len(rec.fed) <= Len(fed)
           /\ fed = rec.fed \o SubSeq(rec.prompt, Len(rec.fed) + 1, Len(fed))
           /\ Len(fed) < Len(rec.prompt) <=> t = NoToken
           /\ fed = rec.fed => t = rec.next
           /\ fed # rec.fed /\ t # NoToken /\ rec.kind # "sampled" => t = Argmax[fed]
    /\ rec.out # 0 =>
           /\ fed = Append(rec.fed, rec.next) /\ Len(fed) = Len(rec.fed) + 1
           /\ rec.next \in Tokens
           /\ t # NoToken
           /\ rec.kind = "greedy" => t = Argmax[fed]

LEMMA WholePrediction ==
    ASSUME NEW fed \in Seq(Tokens), Len(fed) \in 1 .. MaxLen
    PROVE  Argmax[fed] \in Tokens
  <1>1. fed \in [1 .. Len(fed) -> Tokens]
    BY LenProperties
  <1>2. QED
    BY <1>1, CacheAssumption DEF CacheAssumption

\* A slice of the prompt.
LEMMA SliceFacts ==
    ASSUME NEW rec \in LiveSequence, Len(rec.fed) <= Len(rec.prompt), NEW n \in Slices(rec)
    PROVE  /\ n \in Nat /\ Left(rec) \in Nat /\ n <= Left(rec)
           /\ n = 0 => Left(rec) = 0
           /\ Len(rec.prompt) = Len(rec.fed) + Left(rec)
           /\ Len(rec.prompt) \in 1 .. MaxLen /\ Len(rec.fed) \in Nat
           /\ Filled(rec, n) \in Seq(Tokens) /\ Len(Filled(rec, n)) = Len(rec.fed) + n
           /\ n = 0 <=> Filled(rec, n) = rec.fed
  <1>1. /\ rec.fed \in Seq(Tokens) /\ rec.prompt \in Seq(Tokens)
        /\ Len(rec.fed) \in Nat /\ Len(rec.prompt) \in 1 .. MaxLen
    BY Geometry DEF LiveSequence
  <1>2. Len(rec.prompt) \in Nat
    BY <1>1
  <1>3. Left(rec) \in Nat /\ Len(rec.prompt) = Len(rec.fed) + Left(rec)
    BY <1>1, <1>2 DEF Left
  <1>4. PICK c \in Chunks : n = IF c < Left(rec) THEN c ELSE Left(rec)
    BY DEF Slices
  <1>5. c \in Nat \ {0}
    BY CacheAssumption DEF CacheAssumption
  <1>6. n \in Nat /\ n <= Left(rec) /\ (n = 0 => Left(rec) = 0)
    BY <1>3, <1>4, <1>5
  <1> DEFINE low == Len(rec.fed)
             high == low + n
             part == SubSeq(rec.prompt, low + 1, high)
  <1>7. low \in Nat /\ high \in Nat /\ low <= high /\ high <= Len(rec.prompt) /\ high - low = n
    BY <1>1, <1>3, <1>6
  <1>8. Filled(rec, n) = rec.fed \o part
    BY DEF Filled
  <1> HIDE DEF low, high
  <1>9. part \in Seq(Tokens) /\ Len(part) = n
    BY <1>1, <1>7, Stretch
  <1> HIDE DEF part
  <1>10. Filled(rec, n) \in Seq(Tokens) /\ Len(Filled(rec, n)) = Len(rec.fed) + n
    <2>1. PICK f \in Seq(Tokens) : f = rec.fed
      BY <1>1
    <2>2. f \o part \in Seq(Tokens) /\ Len(f \o part) = Len(f) + Len(part)
      BY <1>9, ConcatProperties
    <2>3. QED
      BY <1>8, <1>9, <2>1, <2>2, Zenon
  <1>11. n = 0 => Filled(rec, n) = rec.fed
    BY <1>1, <1>8, <1>9, EmptySeq, ConcatEmptySeq
  <1>12. n # 0 => Filled(rec, n) # rec.fed
    BY <1>1, <1>6, <1>10
  <1>13. QED
    BY <1>1, <1>3, <1>6, <1>10, <1>11, <1>12

LEMMA PrefillOutcome ==
    ASSUME NEW rec \in LiveSequence, LiveFits(rec), Len(rec.fed) < MaxLen, rec.out = 0,
           NEW o \in PrefillOutcomes(rec)
    PROVE  \E fed \in Seq(Tokens), kept \in Nat, t \in Picked : Stepped(rec, o, fed, kept, t)
  <1>1. Len(rec.fed) <= Len(rec.prompt)
        /\ (Len(rec.fed) = Len(rec.prompt) => rec.next # NoToken)
        /\ rec.next \in Picked /\ rec.fed \in Seq(Tokens)
    BY DEF LiveFits, LiveSequence
  <1>2. PICK n \in Slices(rec) :
            o \in {Outcome(rec, Filled(rec, n), kept, t) :
                       kept \in Retentions(rec, Len(rec.fed) + n), t \in FirstTokens(rec, n)}
    BY DEF PrefillOutcomes
  <1>3. PICK kept \in Retentions(rec, Len(rec.fed) + n), t \in FirstTokens(rec, n) :
            o = Outcome(rec, Filled(rec, n), kept, t)
    BY <1>2
  <1> DEFINE fed == Filled(rec, n)
  <1>4. /\ n \in Nat /\ Left(rec) \in Nat /\ n <= Left(rec)
        /\ n = 0 => Left(rec) = 0
        /\ Len(rec.prompt) = Len(rec.fed) + Left(rec)
        /\ Len(rec.prompt) \in 1 .. MaxLen /\ Len(rec.fed) \in Nat
        /\ fed \in Seq(Tokens) /\ Len(fed) = Len(rec.fed) + n
        /\ n = 0 <=> fed = rec.fed
    BY <1>1, SliceFacts
  <1>5. fed = rec.fed \o SubSeq(rec.prompt, Len(rec.fed) + 1, Len(fed))
    BY <1>4 DEF Filled
  <1>6. t \in IF n < Left(rec) THEN {NoToken}
              ELSE IF n = 0 THEN {rec.next}
              ELSE IF rec.kind = "sampled" THEN Tokens ELSE {Argmax[fed]}
    BY <1>3, Zenon DEF FirstTokens
  <1> HIDE DEF fed
  <1>7. Len(fed) <= Len(rec.prompt) /\ Len(rec.fed) <= Len(fed) /\ Len(fed) <= MaxLen
        /\ Len(fed) \in Nat
        /\ (Len(fed) < Len(rec.prompt) <=> n < Left(rec))
    BY <1>4, Geometry
  <1>8. n # 0 => Argmax[fed] \in Tokens
    <2>1. n # 0 => Len(fed) \in 1 .. MaxLen
      BY <1>4, <1>7, Geometry
    <2>2. QED
      BY <1>4, <2>1, WholePrediction
  <1>9. /\ t \in Picked
        /\ n < Left(rec) <=> t = NoToken
        /\ n = 0 => t = rec.next
        /\ n # 0 /\ t # NoToken /\ rec.kind # "sampled" => t = Argmax[fed]
    <2>1. CASE n < Left(rec)
      <3>1. t = NoToken /\ n # 0
        BY <1>4, <1>6, <2>1
      <3>2. QED
        BY <2>1, <3>1 DEF Picked
    <2>2. CASE ~(n < Left(rec)) /\ n = 0
      <3>1. t = rec.next /\ rec.next # NoToken
        BY <1>1, <1>4, <1>6, <2>2
      <3>2. QED
        BY <1>1, <2>2, <3>1
    <2>3. CASE ~(n < Left(rec)) /\ n # 0
      <3>1. t \in Tokens /\ (rec.kind # "sampled" => t = Argmax[fed])
        BY <1>6, <1>8, <2>3
      <3>2. t # NoToken
        BY <3>1, Geometry
      <3>3. QED
        BY <2>3, <3>1, <3>2 DEF Picked
    <2>4. QED
      BY <2>1, <2>2, <2>3
  <1>10. o = Outcome(rec, fed, kept, t) /\ kept \in Retentions(rec, Len(fed)) /\ kept \in Nat
    <2>1. o = Outcome(rec, fed, kept, t) /\ kept \in Retentions(rec, Len(fed))
      BY <1>3, <1>4 DEF fed
    <2>2. QED
      BY <1>7, <2>1, BoundaryFits
  <1>11. Stepped(rec, o, fed, kept, t)
    BY <1>4, <1>5, <1>7, <1>9, <1>10 DEF Stepped
  <1>12. QED
    BY <1>4, <1>9, <1>10, <1>11

LEMMA DecodeOutcome ==
    ASSUME NEW rec \in LiveSequence, LiveFits(rec), Len(rec.fed) < MaxLen, rec.out # 0,
           NEW o \in DecodeOutcomes(rec)
    PROVE  \E fed \in Seq(Tokens), kept \in Nat, t \in Picked : Stepped(rec, o, fed, kept, t)
  <1>1. rec.next \in Tokens /\ rec.fed \in Seq(Tokens)
    BY DEF LiveFits, LiveSequence, Picked
  <1>2. PICK kept \in Retentions(rec, Len(rec.fed) + 1), t \in Picks(rec) :
                 o = Outcome(rec, Extended(rec), kept, t)
    BY DEF DecodeOutcomes
  <1> DEFINE fed == Extended(rec)
  <1>3. fed \in Seq(Tokens) /\ Len(fed) = Len(rec.fed) + 1 /\ fed = Append(rec.fed, rec.next)
    BY <1>1, AppendProperties DEF Extended
  <1>4. t \in IF rec.kind = "greedy" THEN {Argmax[fed]} ELSE Tokens
    BY <1>2, Zenon DEF Picks
  <1>5. o = Outcome(rec, fed, kept, t) /\ kept \in Retentions(rec, Len(fed))
    BY <1>2, <1>3
  <1> HIDE DEF fed
  <1>6. Len(fed) <= MaxLen /\ Len(fed) \in 1 .. MaxLen /\ Len(fed) \in Nat
    BY <1>1, <1>3, Geometry
  <1>7. Argmax[fed] \in Tokens
    BY <1>3, <1>6, WholePrediction
  <1>8. t \in Tokens /\ t # NoToken /\ (rec.kind = "greedy" => t = Argmax[fed])
    BY <1>4, <1>7, Geometry
  <1>9. kept \in Nat
    BY <1>5, <1>6, BoundaryFits
  <1>10. Stepped(rec, o, fed, kept, t)
    BY <1>1, <1>3, <1>5, <1>6, <1>8 DEF Stepped
  <1>11. QED
    BY <1>3, <1>8, <1>9, <1>10 DEF Picked

LEMMA StepOutcome ==
    ASSUME NEW rec \in LiveSequence, LiveFits(rec), Len(rec.fed) < MaxLen, NEW o \in Outcomes(rec)
    PROVE  \E fed \in Seq(Tokens), kept \in Nat, t \in Picked : Stepped(rec, o, fed, kept, t)
  BY PrefillOutcome, DecodeOutcome DEF Outcomes


LEMMA SteppedFits ==
    ASSUME NEW rec \in LiveSequence, LiveFits(rec), NEW fed \in Seq(Tokens), NEW kept \in Nat,
           NEW t \in Picked, NEW o, Stepped(rec, o, fed, kept, t)
    PROVE  LiveFits(o.rec)
  <1>1. /\ o.rec.prompt = rec.prompt /\ o.rec.fed = fed /\ o.rec.next = t
        /\ o.rec.out = IF t = Eos THEN rec.max ELSE IF t = NoToken THEN rec.out ELSE rec.out + 1
    BY OutcomeTyped DEF Stepped
  <1>2. /\ rec.out \in Nat /\ rec.max \in Nat \ {0} /\ Eos # NoToken
        /\ Len(rec.prompt) \in Nat /\ Len(fed) \in Nat /\ Len(rec.fed) \in Nat
    BY Geometry DEF LiveSequence
  <1>3. CASE rec.out = 0
    <2>1. Len(fed) <= Len(rec.prompt) /\ (Len(fed) < Len(rec.prompt) <=> t = NoToken)
      BY <1>3 DEF Stepped
    <2>2. QED
      BY <1>1, <1>2, <1>3, <2>1 DEF LiveFits
  <1>4. CASE rec.out # 0
    <2>1. Len(fed) = Len(rec.fed) + 1 /\ t # NoToken /\ Len(rec.prompt) <= Len(rec.fed)
      BY <1>4 DEF Stepped, LiveFits
    <2>2. QED
      BY <1>1, <1>2, <1>4, <2>1 DEF LiveFits
  <1>5. QED
    BY <1>3, <1>4

\* The outcome of a step, as the driver and the worker take it.
LEMMA OutcomeFits ==
    ASSUME EngineInv, NEW r \in DOMAIN live, Len(live[r].fed) < MaxLen,
           NEW o \in Outcomes(live[r])
    PROVE  /\ live[r] \in LiveSequence /\ r \in Requests
           /\ o.rec \in LiveSequence /\ LiveFits(o.rec) /\ o.rec.worker = live[r].worker
           /\ o.gen \in Seq(Tokens) /\ o.kept \in Seq(Snapshot)
           /\ \A i \in DOMAIN o.kept : Whole(o.kept[i].tokens)
  <1>1. live[r] \in LiveSequence /\ LiveFits(live[r]) /\ r \in Requests
    BY DEF EngineInv, EngineTypeOK, LengthsFit
  <1>2. PICK fed \in Seq(Tokens), kept \in Nat, t \in Picked : Stepped(live[r], o, fed, kept, t)
    BY <1>1, StepOutcome
  <1>3. LiveFits(o.rec)
    BY <1>1, <1>2, SteppedFits
  <1>4. QED
    BY <1>1, <1>2, <1>3, OutcomeTyped DEF Stepped, Kept

LEMMA DeviceKeeps ==
    ASSUME EngineInv, NEW w \in Workers, NEW r \in Requests, StepDevice(w, r)
    PROVE  EngineInv'
  <1>1. /\ driver[w].pc = "idle" /\ r \in DOMAIN live /\ live[r].worker = w
        /\ Len(live[r].fed) < MaxLen
        /\ UNCHANGED <<treeVars, cacheVars, bookVars, placing, cancel, issued>>
        /\ HistoryOK'
    BY HistoryGrows DEF StepDevice, Masked, EngineInv, EngineTypeOK, missedVars
  <1>2. PICK o \in Outcomes(live[r]) :
            /\ live' = IF o.rec.out >= o.rec.max THEN Drop(live, r) ELSE Put(live, r, o.rec)
            /\ driver' = [driver EXCEPT ![w] =
                             [pc |-> "extend", r |-> r, gen |-> o.gen, kept |-> o.kept,
                              done |-> o.rec.out >= o.rec.max]]
    BY DEF StepDevice
  <1>3. /\ o.rec \in LiveSequence /\ LiveFits(o.rec) /\ o.rec.worker = live[r].worker
        /\ o.gen \in Seq(Tokens) /\ o.kept \in Seq(Snapshot)
        /\ \A i \in DOMAIN o.kept : Whole(o.kept[i].tokens)
    BY <1>1, OutcomeFits
  <1>4. /\ DOMAIN live' \subseteq DOMAIN live /\ live' \in [DOMAIN live' -> LiveSequence]
        /\ \A q \in DOMAIN live' : live'[q] = live[q] \/ (live'[q] = o.rec /\ q = r)
    <2>1. live \in [DOMAIN live -> LiveSequence]
      BY DEF EngineInv, EngineTypeOK
    <2>2. CASE live' = Drop(live, r)
      <3>1. live' \in [DOMAIN live' -> LiveSequence]
        BY <2>1, <2>2, DropType, Zenon
      <3>2. DOMAIN live' = DOMAIN live \ {r} /\ \A q \in DOMAIN live' : live'[q] = live[q]
        BY <2>2, Zenon DEF Drop
      <3>3. QED
        BY <3>1, <3>2
    <2>3. CASE live' = Put(live, r, o.rec)
      <3>1. live' \in [DOMAIN live' -> LiveSequence]
        BY <1>3, <2>1, <2>3, PutType, Zenon
      <3>2. DOMAIN live' = DOMAIN live \cup {r}
            /\ \A q \in DOMAIN live' : live'[q] = IF q = r THEN o.rec ELSE live[q]
        BY <2>3, Zenon DEF Put
      <3>3. QED
        BY <1>1, <3>1, <3>2
    <2>4. QED
      BY <1>2, <2>2, <2>3
  <1> DEFINE done == o.rec.out >= o.rec.max
             e == [pc |-> "extend", r |-> r, gen |-> o.gen, kept |-> o.kept, done |-> done]
  <1>5. done \in BOOLEAN
    OBVIOUS
  <1>6. e \in DriverState /\ DriverFits(e) /\ e.pc = "extend" /\ e.r = r
    <2> HIDE DEF done
    <2>1. e \in DriverState
      BY <1>3, <1>5 DEF DriverState
    <2>2. QED
      BY <1>3, <2>1 DEF DriverFits, Folding, Filing
  <1>7. driver' = [driver EXCEPT ![w] = e]
    BY <1>2
  <1> HIDE DEF e, done
  <1>8. /\ driver' \in [Workers -> DriverState]
        /\ driver'[w] = e /\ \A v \in Workers : v # w => driver'[v] = driver[v]
    BY <1>6, <1>7 DEF EngineInv, EngineTypeOK
  <1>9. TreeOK'
    BY <1>1, TreeKept DEF EngineInv
  <1>10. EngineTypeOK'
    BY <1>1, <1>4, <1>8 DEF EngineInv, EngineTypeOK, bookVars, cacheVars
  <1>11. LengthsFit'
    <2>1. /\ \A q \in DOMAIN live' : LiveFits(live'[q])
          /\ \A v \in Workers : DriverFits(driver'[v])
      BY <1>3, <1>4, <1>6, <1>8 DEF EngineInv, LengthsFit
    <2>2. QED
      BY <1>1, <2>1 DEF EngineInv, LengthsFit, cacheVars
  <1>12. Ownership'
    <2>1. \A v \in Workers, q \in Requests : Busy(v, q)' => Busy(v, q) \/ (v = w /\ q = r)
      BY <1>6, <1>8 DEF Busy
    <2>2. \A q \in Requests : (Known(q)' => Known(q)) /\ (Unrecorded(q)' <=> Unrecorded(q))
      BY <1>1, <1>4, <2>1 DEF Known, Unrecorded, bookVars
    <2>3. /\ IsFiniteSet(issued')
          /\ \A q \in Requests : Known(q)' => q \in issued'
          /\ placing'.pc # "idle" => placing'.r \in issued'
      BY <1>1, <2>2 DEF EngineInv, Ownership
    <2>4. (placing.pc \in {"claim", "score", "route", "admit"} => ~Known(placing.r))'
      <3> SUFFICES ASSUME placing.pc \in {"claim", "score", "route", "admit"}
                   PROVE  ~Known(placing.r)'
        BY <1>1
      <3>1. PICK q \in Requests : q = placing.r
        BY PlacingShape DEF EngineInv, EngineTypeOK
      <3>2. ~Known(q)'
        BY <2>2, <3>1 DEF EngineInv, Ownership
      <3>3. QED
        BY <1>1, <3>1, <3>2 DEF Known, Busy
    <2>5. (\A v \in Workers, q \in DOMAIN live : Busy(v, q) => live[q].worker = v)'
      <3> SUFFICES ASSUME NEW v \in Workers, NEW q \in DOMAIN live', Busy(v, q)'
                   PROVE  live'[q].worker = v
        OBVIOUS
      <3>1. q \in DOMAIN live /\ live'[q].worker = live[q].worker /\ q \in Requests
        BY <1>3, <1>4 DEF EngineInv, EngineTypeOK
      <3>2. QED
        BY <1>1, <2>1, <3>1 DEF EngineInv, Ownership
    <2>6. (\A v, u \in Workers, q \in Requests : Busy(v, q) /\ Busy(u, q) => v = u)'
      BY <1>1, <2>1 DEF EngineInv, Ownership
    <2>7. /\ (\A q \in Requests : Unrecorded(q) => q \notin DOMAIN chains)'
          /\ (placing.pc \in {"incr", "hold"} => placing.r \notin DOMAIN refs)'
      BY <1>1, <2>2 DEF EngineInv, Ownership, bookVars
    <2>8. (\A v \in Workers : driver[v].pc = "decr" =>
               /\ driver[v].r \notin DOMAIN refs
               /\ placing.pc \in {"incr", "hold"} => driver[v].r # placing.r)'
      BY <1>1, <1>6, <1>8 DEF EngineInv, Ownership, bookVars
    <2>9. QED
      BY <2>3, <2>4, <2>5, <2>6, <2>7, <2>8, Zenon DEF Ownership
  <1>13. QED
    BY <1>9, <1>10, <1>11, <1>12 DEF EngineInv

LEMMA FailsKeeps ==
    ASSUME EngineInv, NEW w \in Workers, NEW r \in Requests, StepFails(w, r)
    PROVE  EngineInv'
  <1>1. /\ r \in DOMAIN live /\ Len(live[r].fed) < MaxLen
        /\ HistoryOK'
        /\ UNCHANGED <<treeVars, cacheVars, bookVars, threadVars, issued>>
    BY HistoryGrows DEF StepFails, Masked, EngineInv, EngineTypeOK, missedVars
  <1>2. PICK o \in Outcomes(live[r]) : live' = Put(live, r, o.rec)
    BY DEF StepFails
  <1>3. /\ o.rec \in LiveSequence /\ LiveFits(o.rec) /\ o.rec.worker = live[r].worker
    BY <1>1, OutcomeFits
  <1>4. live \in [DOMAIN live -> LiveSequence]
    BY DEF EngineInv, EngineTypeOK
  <1>5. live' \in [DOMAIN live' -> LiveSequence]
    BY <1>2, <1>3, <1>4, PutType, Zenon
  <1>6. DOMAIN live' = DOMAIN live
        /\ \A q \in DOMAIN live' : live'[q] = IF q = r THEN o.rec ELSE live[q]
    BY <1>1, <1>2 DEF Put
  <1>7. TreeOK'
    BY <1>1, TreeKept DEF EngineInv
  <1>8. EngineTypeOK'
    BY <1>1, <1>5, <1>6 DEF EngineInv, EngineTypeOK, bookVars, cacheVars, threadVars
  <1>9. LengthsFit'
    <2>1. \A q \in DOMAIN live' : LiveFits(live'[q])
      BY <1>3, <1>6 DEF EngineInv, LengthsFit
    <2>2. QED
      BY <1>1, <2>1 DEF EngineInv, LengthsFit, cacheVars, threadVars
  <1>10. Ownership'
    <2>1. \A v \in Workers, q \in Requests : Busy(v, q)' => Busy(v, q)
      BY <1>1 DEF Busy, threadVars
    <2>2. \A q \in Requests : cancel'[q] # "none" => Known(q)
      BY <1>1 DEF Known, threadVars
    <2>3. \A q \in DOMAIN live' : live'[q].worker = live[q].worker
      BY <1>3, <1>6
    <2>4. \A v \in Workers : driver'[v].pc = "decr" =>
               /\ driver'[v].r \notin DOMAIN refs'
               /\ placing.pc \in {"incr", "hold"} => driver'[v].r # placing.r
      BY <1>1 DEF EngineInv, Ownership, threadVars, bookVars
    <2>5. QED
      BY <1>1, <1>6, <2>1, <2>2, <2>3, <2>4, OwnershipKept DEF EngineInv, threadVars, bookVars
  <1>11. QED
    BY <1>7, <1>8, <1>9, <1>10 DEF EngineInv


-----------------------------------------------------------------------------
(* EngineInv: the fold of a step.                                          *)

SharedFits(s) ==
    /\ DOMAIN s \subseteq Names
    /\ s \in [DOMAIN s -> Published]
    /\ \A n \in DOMAIN s : Len(n) > 0 /\ Len(s[n].tokens) = BlockSize * Len(n)

ChainsFit(c) == c \in [DOMAIN c -> [tokens : Seq(Tokens), prompt : Nat]]

LEMMA MapsFit ==
    ASSUME EngineInv
    PROVE  SharedFits(shared) /\ ChainsFit(chains) /\ \A n \in DOMAIN refs : refs[n] \in Names
  BY DEF EngineInv, EngineTypeOK, LengthsFit, SharedFits, ChainsFit

\* A busy driver that goes on with its request, or parks.
LEMMA DriverMoves ==
    ASSUME EngineInv, NEW w \in Workers, NEW e \in DriverState, driver' = [driver EXCEPT ![w] = e],
           driver[w].pc # "idle", e.pc # "idle" => e.r = driver[w].r, DriverFits(e),
           TreeOK', SharedFits(shared'), HistoryOK',
           DOMAIN chains' \subseteq DOMAIN chains, ChainsFit(chains'),
           DOMAIN refs' \subseteq DOMAIN refs, refs' \in [DOMAIN refs' -> Names],
           UNCHANGED <<live, placing, cancel, issued>>,
           e.pc = "decr" => /\ e.r \notin DOMAIN refs'
                            /\ placing.pc \in {"incr", "hold"} => e.r # placing.r
    PROVE  /\ EngineInv'
           /\ driver'[w] = e /\ \A v \in Workers : v # w => driver'[v] = driver[v]
  <1>1. /\ driver' \in [Workers -> DriverState]
        /\ driver'[w] = e /\ \A v \in Workers : v # w => driver'[v] = driver[v]
    BY DEF EngineInv, EngineTypeOK
  <1>2. EngineTypeOK'
    BY <1>1 DEF EngineInv, EngineTypeOK, SharedFits, ChainsFit
  <1>3. LengthsFit'
    <2>1. \A v \in Workers : DriverFits(driver'[v])
      BY <1>1 DEF EngineInv, LengthsFit
    <2>2. QED
      BY <2>1 DEF EngineInv, LengthsFit, SharedFits
  <1>4. Ownership'
    <2>1. \A v \in Workers, q \in Requests : Busy(v, q)' => Busy(v, q)
      BY <1>1 DEF Busy
    <2>2. \A q \in Requests : cancel'[q] # "none" => Known(q)
      BY DEF Known
    <2>3. \A v \in Workers : driver'[v].pc = "decr" =>
               /\ driver'[v].r \notin DOMAIN refs'
               /\ placing.pc \in {"incr", "hold"} => driver'[v].r # placing.r
      BY <1>1 DEF EngineInv, Ownership
    <2>4. QED
      BY <2>1, <2>2, <2>3, OwnershipKept DEF EngineInv
  <1>5. QED
    BY <1>1, <1>2, <1>3, <1>4 DEF EngineInv

\* The driver with its next snapshot.
Next1(d) ==
    [pc |-> "install", r |-> d.r, gen |-> << >>, kept |-> Tail(d.kept), done |-> d.done]

LEMMA NextFits ==
    ASSUME NEW d \in DriverState, DriverFits(d), d.pc \in {"install"} \cup Filing, d.kept # << >>
    PROVE  /\ Next1(d) \in DriverState /\ DriverFits(Next1(d))
           /\ Next1(d).pc = "install" /\ Next1(d).r = d.r /\ Next1(d).done = d.done
           /\ d.kept[1] \in Snapshot /\ Whole(d.kept[1].tokens) /\ Len(d.kept) \in Nat \ {0}
           /\ \A i \in DOMAIN Next1(d).kept : i + 1 \in DOMAIN d.kept
                                              /\ Next1(d).kept[i] = d.kept[i + 1]
  <1>1. /\ d.r \in Requests /\ d.kept \in Seq(Snapshot) /\ d.done \in BOOLEAN
        /\ \A i \in DOMAIN d.kept : Whole(d.kept[i].tokens)
    BY DriverShape DEF Folding, Filing, DriverFits
  <1> DEFINE rest == Tail(d.kept)
  <1>2. rest \in Seq(Snapshot) /\ Len(d.kept) \in Nat \ {0} /\ Len(rest) = Len(d.kept) - 1
        /\ \A i \in 1 .. Len(rest) : rest[i] = d.kept[i + 1]
    BY <1>1, EmptySeq, HeadTailProperties
  <1>3. /\ DOMAIN rest = 1 .. Len(rest) /\ DOMAIN d.kept = 1 .. Len(d.kept)
    BY <1>1, <1>2
  <1>4. Next1(d) = [pc |-> "install", r |-> d.r, gen |-> << >>, kept |-> rest, done |-> d.done]
    BY DEF Next1
  <1> HIDE DEF rest
  <1>5. \A i \in DOMAIN rest : i + 1 \in DOMAIN d.kept /\ rest[i] = d.kept[i + 1]
    BY <1>2, <1>3
  <1>6. Next1(d) \in DriverState
    BY <1>1, <1>2, <1>4, EmptySeq DEF DriverState
  <1>7. DriverFits(Next1(d))
    BY <1>1, <1>4, <1>5 DEF DriverFits, Filing
  <1>8. d.kept[1] \in Snapshot /\ Whole(d.kept[1].tokens)
    BY <1>1, <1>2, <1>3
  <1>9. QED
    BY <1>2, <1>4, <1>5, <1>6, <1>7, <1>8

\* What a busy driver's state is like.
LEMMA DriverNow ==
    ASSUME EngineInv, NEW w \in Workers
    PROVE  /\ driver[w] \in DriverState /\ DriverFits(driver[w])
           /\ driver[w].pc # "idle" => driver[w].r \in Requests
           /\ NextSnapshot(w) => driver' = [driver EXCEPT ![w] = Next1(driver[w])]
  BY DriverShape DEF EngineInv, EngineTypeOK, LengthsFit, NextSnapshot, Next1

LEMMA ExtendKeeps ==
    ASSUME EngineInv, NEW w \in Workers, ExtendChain(w)
    PROVE  EngineInv'
  <1> DEFINE d == driver[w]
             r == d.r
             e == [d EXCEPT !.pc = "install"]
  <1>1. /\ d.pc = "extend"
        /\ chains' = IF r \in DOMAIN chains THEN [chains EXCEPT ![r].tokens = @ \o d.gen] ELSE chains
        /\ outrun' \subseteq outrun \cup {r}
        /\ driver' = [driver EXCEPT ![w].pc = "install"]
        /\ UNCHANGED <<treeVars, cacheVars, refs, live, placing, cancel, issued, lineage, masked,
                       missedVars>>
    BY DEF ExtendChain, Goto
  <1>2. /\ d \in DriverState /\ r \in Requests /\ DriverFits(d) /\ d.gen \in Seq(Tokens)
    BY <1>1, DriverNow, DriverShape
  <1>3. driver' = [driver EXCEPT ![w] = e]
    BY <1>1 DEF EngineInv, EngineTypeOK
  <1>4. e \in DriverState /\ e.pc = "install" /\ e.r = r /\ e.kept = d.kept
    BY <1>1, <1>2, DriverGoes
  <1>5. DriverFits(e)
    BY <1>1, <1>2, <1>4 DEF DriverFits, Folding, Filing
  <1>6. DOMAIN chains' = DOMAIN chains /\ ChainsFit(chains')
    <2>1. ChainsFit(chains)
      BY MapsFit
    <2>2. CASE r \notin DOMAIN chains
      BY <1>1, <2>1, <2>2
    <2>3. CASE r \in DOMAIN chains
      <3>1. chains[r].tokens \o d.gen \in Seq(Tokens)
        BY <1>2, <2>1, <2>3, ConcatProperties DEF ChainsFit
      <3>2. chains' = [chains EXCEPT ![r].tokens = chains[r].tokens \o d.gen]
        BY <1>1, <2>3
      <3> HIDE DEF d, r
      <3>3. QED
        BY <2>1, <2>3, <3>1, <3>2 DEF ChainsFit
    <2>4. QED
      BY <2>2, <2>3
  <1>7. HistoryOK'
    BY <1>1, <1>2, HistoryGrows DEF EngineInv, EngineTypeOK, missedVars
  <1>8. TreeOK' /\ SharedFits(shared') /\ refs' \in [DOMAIN refs' -> Names]
    BY <1>1, TreeKept, MapsFit DEF EngineInv, EngineTypeOK, cacheVars
  <1> HIDE DEF e
  <1>9. QED
    BY <1>1, <1>2, <1>3, <1>4, <1>5, <1>6, <1>7, <1>8, DriverMoves

\* The name under which the first retained snapshot is filed.
LEMMA FilingName ==
    ASSUME EngineInv, NEW w \in Workers, driver[w].pc = "install", driver[w].kept # << >>,
           driver[w].r \in DOMAIN chains, CanName(chains[driver[w].r], driver[w].kept[1]),
           NEW name, name = Tree!NameAt(BlocksOf(chains[driver[w].r].tokens),
                                        Len(driver[w].kept[1].tokens) \div BlockSize)
    PROVE  /\ name \in Names /\ Len(driver[w].kept[1].tokens) = BlockSize * Len(name)
           /\ Len(name) = Len(driver[w].kept[1].tokens) \div BlockSize
           /\ Len(driver[w].kept[1].tokens) \div BlockSize
                  <= Len(chains[driver[w].r].tokens) \div BlockSize
  <1> DEFINE tokens == driver[w].kept[1].tokens
             chain == chains[driver[w].r].tokens
             k == Len(tokens) \div BlockSize
             m == Len(chain) \div BlockSize
  <1>1. tokens \in Seq(Tokens) /\ Whole(tokens)
    BY DriverNow, NextFits DEF Snapshot
  <1>2. chain \in Seq(Tokens)
    BY MapsFit DEF ChainsFit
  <1>3. k <= m
    BY DEF CanName
  <1> HIDE DEF tokens, chain
  <1>4. Len(tokens) \in Nat /\ BlockSize \in Nat \ {0}
    BY <1>1, Geometry
  <1>5. k \in Nat /\ Len(tokens) = BlockSize * k + (Len(tokens) % BlockSize)
    BY <1>4, Quotient
  <1>6. BlocksOf(chain) \in Names /\ Len(BlocksOf(chain)) = m /\ m \in Nat
    BY <1>2, BlocksType
  <1> HIDE DEF k, m
  <1>7. Len(tokens) = BlockSize * k
    BY <1>1, <1>4, <1>5 DEF Whole
  <1>8. k \in 0 .. Len(BlocksOf(chain))
    BY <1>3, <1>5, <1>6
  <1>9. name \in Names /\ Len(name) = k
    <2>1. name = Tree!NameAt(BlocksOf(chain), k)
      BY DEF k, chain, tokens
    <2>2. QED
      BY <1>6, <1>8, <2>1, NameType DEF Names
  <1>10. QED
    BY <1>3, <1>7, <1>9 DEF k, m, chain, tokens

LEMMA InstallKeeps ==
    ASSUME EngineInv, NEW w \in Workers, InstallName(w)
    PROVE  EngineInv'
  <1> DEFINE d == driver[w]
  <1>1. /\ d.pc = "install" /\ d.kept # << >>
        /\ UNCHANGED <<treeVars, cacheVars, bookVars, live, placing, cancel, issued, pastVars, missedVars>>
    BY DEF InstallName
  <1>2. d \in DriverState /\ DriverFits(d) /\ d.r \in Requests
    BY <1>1, DriverNow
  <1>3. /\ TreeOK' /\ SharedFits(shared') /\ refs' \in [DOMAIN refs' -> Names]
        /\ ChainsFit(chains') /\ DOMAIN chains' \subseteq DOMAIN chains
        /\ DOMAIN refs' \subseteq DOMAIN refs /\ HistoryOK'
        /\ UNCHANGED <<live, placing, cancel, issued>>
    BY <1>1, TreeKept, MapsFit, HistoryFrame DEF EngineInv, EngineTypeOK, cacheVars, bookVars
  <1>4. CASE NextSnapshot(w)
    <2>1. driver' = [driver EXCEPT ![w] = Next1(d)]
      BY <1>4, DriverNow
    <2>2. Next1(d) \in DriverState /\ DriverFits(Next1(d)) /\ Next1(d).pc = "install"
          /\ Next1(d).r = d.r
      BY <1>1, <1>2, NextFits
    <2>3. QED
      BY <1>1, <1>3, <2>1, <2>2, DriverMoves
  <1>5. CASE d.r \in DOMAIN chains /\ CanName(chains[d.r], d.kept[1])
    <2> DEFINE name1 == Tree!NameAt(BlocksOf(chains[d.r].tokens),
                                    Len(d.kept[1].tokens) \div BlockSize)
               e == [pc |-> "reclaim", r |-> d.r, kept |-> d.kept, done |-> d.done,
                     name |-> name1]
    <2>1. driver' = [driver EXCEPT ![w] = e]
      BY <1>5, Zenon DEF InstallName
    <2>2. name1 \in Names /\ Len(d.kept[1].tokens) = BlockSize * Len(name1)
      BY <1>1, <1>5, FilingName
    <2> HIDE DEF name1
    <2>3. e \in DriverState
      BY <1>1, <1>2, <2>2, DriverShape DEF DriverState, Folding, Filing
    <2>4. DriverFits(e) /\ e.pc = "reclaim" /\ e.r = d.r
      BY <1>1, <1>2, <2>2 DEF DriverFits, Folding
    <2> HIDE DEF e
    <2>5. QED
      BY <1>1, <1>3, <2>1, <2>3, <2>4, DriverMoves
  <1>6. QED
    BY <1>4, <1>5 DEF InstallName


\* A filing step: the rest of what DriverMoves asks when the maps of requests are left
\* alone.
LEMMA FilingMoves ==
    ASSUME EngineInv, NEW w \in Workers, NEW e \in DriverState, driver' = [driver EXCEPT ![w] = e],
           driver[w].pc # "idle", e.pc # "decr", e.pc # "idle" => e.r = driver[w].r, DriverFits(e),
           TreeOK', SharedFits(shared'),
           UNCHANGED <<bookVars, live, placing, cancel, issued, pastVars, missedVars>>
    PROVE  /\ EngineInv'
           /\ driver'[w] = e /\ \A v \in Workers : v # w => driver'[v] = driver[v]
  <1>1. /\ refs' \in [DOMAIN refs' -> Names] /\ ChainsFit(chains')
        /\ DOMAIN chains' \subseteq DOMAIN chains /\ DOMAIN refs' \subseteq DOMAIN refs
        /\ HistoryOK' /\ UNCHANGED <<live, placing, cancel, issued>>
    BY MapsFit, HistoryFrame DEF EngineInv, EngineTypeOK, bookVars
  <1>2. QED
    BY <1>1, DriverMoves

\* The filing driver drops its first snapshot, or goes on with it.
LEMMA NextMoves ==
    ASSUME EngineInv, NEW w \in Workers, driver[w].pc \in Filing, NextSnapshot(w),
           TreeOK', SharedFits(shared'),
           UNCHANGED <<bookVars, live, placing, cancel, issued, pastVars, missedVars>>
    PROVE  /\ EngineInv'
           /\ driver'[w] = Next1(driver[w])
           /\ \A v \in Workers : v # w => driver'[v] = driver[v]
  <1>1. /\ driver[w] \in DriverState /\ DriverFits(driver[w]) /\ driver[w].kept # << >>
        /\ driver' = [driver EXCEPT ![w] = Next1(driver[w])]
    BY DriverNow DEF DriverFits
  <1>2. /\ Next1(driver[w]) \in DriverState /\ DriverFits(Next1(driver[w]))
        /\ Next1(driver[w]).pc = "install" /\ Next1(driver[w]).r = driver[w].r
    BY <1>1, NextFits
  <1>3. driver[w].pc # "idle"
    BY DEF Filing
  <1>4. QED
    BY <1>1, <1>2, <1>3, FilingMoves

LEMMA GotoMoves ==
    ASSUME EngineInv, NEW w \in Workers, NEW pc, Goto(w, pc),
           \/ driver[w].pc = "reclaim" /\ pc = "insert"
           \/ driver[w].pc = "insert" /\ pc = "publish"
           \/ driver[w].pc = "publish" /\ pc = "measure"
           \/ driver[w].pc = "evict" /\ pc = "forget",
           TreeOK', SharedFits(shared'),
           UNCHANGED <<bookVars, live, placing, cancel, issued, pastVars, missedVars>>
    PROVE  /\ EngineInv'
           /\ driver'[w] = [driver[w] EXCEPT !.pc = pc]
           /\ driver'[w].pc = pc /\ driver'[w].r = driver[w].r
           /\ driver'[w].kept = driver[w].kept /\ driver'[w].done = driver[w].done
           /\ driver'[w].name = driver[w].name /\ driver'[w].gone = driver[w].gone
           /\ \A v \in Workers : v # w => driver'[v] = driver[v]
  <1> DEFINE d == driver[w]
             e == [d EXCEPT !.pc = pc]
  <1>1. d \in DriverState /\ DriverFits(d) /\ d.pc \in Filing /\ d.pc # "idle"
    BY DriverNow DEF Filing
  <1>2. driver' = [driver EXCEPT ![w] = e]
    BY DEF Goto, EngineInv, EngineTypeOK
  <1>3. /\ e \in DriverState /\ e.pc = pc /\ e.r = d.r /\ e.kept = d.kept /\ e.done = d.done
        /\ e.name = d.name /\ e.gone = d.gone
    BY <1>1, DriverGoes
  <1>4. DriverFits(e) /\ e.pc # "decr"
    BY <1>1, <1>3 DEF DriverFits, Folding, Filing
  <1> HIDE DEF e
  <1>5. EngineInv' /\ driver'[w] = e /\ \A v \in Workers : v # w => driver'[v] = driver[v]
    BY <1>1, <1>2, <1>3, <1>4, FilingMoves
  <1>6. QED
    BY <1>3, <1>5 DEF e

LEMMA ReclaimKeeps ==
    ASSUME EngineInv, NEW w \in Workers, Reclaim(w)
    PROVE  EngineInv'
  <1>1. driver[w].pc = "reclaim" /\ UNCHANGED <<treeVars, bookVars, live, placing, cancel, issued, pastVars, missedVars>>
    BY DEF Reclaim
  <1>2. PICK gone : /\ shared' = [n \in DOMAIN shared \ gone |-> shared[n]]
                    /\ Goto(w, "insert") \/ NextSnapshot(w)
    BY DEF Reclaim
  <1>3. SharedFits(shared')
    BY <1>2, MapsFit DEF SharedFits
  <1>4. TreeOK'
    BY <1>1, TreeKept DEF EngineInv
  <1>5. QED
    BY <1>1, <1>2, <1>3, <1>4, GotoMoves, NextMoves DEF Filing

LEMMA InsertKeeps ==
    ASSUME EngineInv, NEW w \in Workers, InsertPrefix(w)
    PROVE  EngineInv'
  <1>1. /\ driver[w].pc = "insert" /\ Tree!Insert(driver[w].name, {Len(driver[w].name)})
        /\ Goto(w, "publish")
        /\ UNCHANGED <<cacheVars, bookVars, live, placing, cancel, issued, pastVars, missedVars>>
    BY DEF InsertPrefix
  <1>2. /\ driver[w].name \in Names /\ driver[w].kept # << >>
        /\ Len(driver[w].kept[1].tokens) = BlockSize * Len(driver[w].name)
        /\ Whole(driver[w].kept[1].tokens)
    BY <1>1, DriverNow, DriverShape, NextFits DEF DriverFits, Filing
  <1>3. driver[w].name # << >>
    <2>1. Len(driver[w].name) # 0
      BY <1>2, Geometry DEF Whole
    <2>2. QED
      BY <2>1
  <1>4. TreeOK'
    BY <1>1, <1>2, <1>3, InsertTree DEF EngineInv
  <1>5. SharedFits(shared')
    BY <1>1, MapsFit DEF cacheVars
  <1>6. QED
    BY <1>1, <1>4, <1>5, GotoMoves

LEMMA PublishKeeps ==
    ASSUME EngineInv, NEW w \in Workers, Publish(w)
    PROVE  EngineInv'
  <1> DEFINE snap == driver[w].kept[1]
             name == driver[w].name
             entry == [worker |-> w, tokens |-> snap.tokens, next |-> snap.next, by |-> driver[w].r]
  <1>1. /\ driver[w].pc = "publish" /\ shared' = Put(shared, name, entry) /\ Goto(w, "measure")
        /\ UNCHANGED <<treeVars, bookVars, live, placing, cancel, issued, pastVars, missedVars>>
    BY DEF Publish
  <1>2. /\ name \in Names /\ snap \in Snapshot /\ Len(snap.tokens) = BlockSize * Len(name)
        /\ Whole(snap.tokens)
    BY <1>1, DriverNow, DriverShape, NextFits DEF DriverFits, Filing
  <1>3. Len(name) > 0
    BY <1>2, Geometry DEF Whole, Names
  <1>4. /\ entry \in Published
        /\ entry.tokens = snap.tokens
    BY <1>1, <1>2, DriverNow DEF Snapshot, Published
  <1> HIDE DEF entry, name, snap
  <1>5. SharedFits(shared')
    <2>1. SharedFits(shared)
      BY MapsFit
    <2>2. DOMAIN shared' = DOMAIN shared \cup {name}
          /\ shared' = [n \in DOMAIN shared' |-> shared'[n]]
          /\ \A n \in DOMAIN shared' : shared'[n] = IF n = name THEN entry ELSE shared[n]
      BY <1>1, Zenon DEF Put
    <2>3. \A n \in DOMAIN shared' :
              /\ shared'[n] \in Published
              /\ Len(n) > 0 /\ Len(shared'[n].tokens) = BlockSize * Len(n)
      BY <1>2, <1>3, <1>4, <2>1, <2>2 DEF SharedFits
    <2>4. QED
      BY <1>2, <2>1, <2>2, <2>3 DEF SharedFits
  <1>6. TreeOK'
    BY <1>1, TreeKept DEF EngineInv
  <1>7. QED
    BY <1>1, <1>5, <1>6, GotoMoves

LEMMA MeasureKeeps ==
    ASSUME EngineInv, NEW w \in Workers, MeasureExcess(w)
    PROVE  EngineInv'
  <1> DEFINE d == driver[w]
             excess1 == Cardinality(DOMAIN nodes) - MaxNodes
             e == [pc |-> "excess", r |-> d.r, kept |-> d.kept, done |-> d.done, name |-> d.name,
                   excess |-> excess1]
  <1>1. /\ d.pc = "measure"
        /\ IF excess1 > 0 THEN driver' = [driver EXCEPT ![w] = e] ELSE NextSnapshot(w)
        /\ UNCHANGED <<treeVars, cacheVars, bookVars, live, placing, cancel, issued, pastVars, missedVars>>
    BY DEF MeasureExcess
  <1>2. TreeOK' /\ SharedFits(shared')
    BY <1>1, TreeKept, MapsFit DEF EngineInv, cacheVars
  <1>3. CASE excess1 > 0
    <2>1. d \in DriverState /\ DriverFits(d)
      BY DriverNow
    <2>2. excess1 \in Nat
      <3>1. Cardinality(DOMAIN nodes) \in Nat /\ MaxNodes \in Nat
        BY FS_CardinalityType, Geometry DEF EngineInv, TreeOK
      <3>2. QED
        BY <1>3, <3>1
    <2> HIDE DEF excess1
    <2>3. e \in DriverState /\ DriverFits(e) /\ e.pc = "excess" /\ e.r = d.r
      BY <1>1, <2>1, <2>2, DriverShape DEF DriverState, DriverFits, Folding, Filing
    <2> HIDE DEF e
    <2>4. QED
      BY <1>1, <1>2, <1>3, <2>3, FilingMoves
  <1>4. CASE ~(excess1 > 0)
    BY <1>1, <1>2, <1>4, NextMoves DEF Filing
  <1>5. QED
    BY <1>3, <1>4


LEMMA ExcessKeeps ==
    ASSUME EngineInv, NEW w \in Workers, EvictExcess(w)
    PROVE  EngineInv'
  <1> DEFINE d == driver[w]
             e == [pc |-> "evict", r |-> d.r, kept |-> d.kept, done |-> d.done, name |-> d.name,
                   gone |-> {}]
  <1>1. /\ d.pc = "excess" /\ Tree!EvictBegin(d.excess) /\ driver' = [driver EXCEPT ![w] = e]
        /\ UNCHANGED <<cacheVars, bookVars, live, placing, cancel, issued, pastVars, missedVars>>
    BY DEF EvictExcess
  <1>2. d \in DriverState /\ DriverFits(d) /\ d.excess \in Nat
    BY <1>1, DriverNow, DriverShape
  <1>3. TreeOK' /\ SharedFits(shared')
    BY <1>1, <1>2, EvictTree, MapsFit DEF EngineInv, cacheVars
  <1>4. e \in DriverState /\ DriverFits(e) /\ e.pc = "evict" /\ e.r = d.r
    BY <1>1, <1>2, DriverShape DEF DriverState, DriverFits, Folding, Filing
  <1> HIDE DEF e
  <1>5. QED
    BY <1>1, <1>3, <1>4, FilingMoves

\* One eviction of the loop, as its driver sees it.
LEMMA EvictedMoves ==
    ASSUME EngineInv, NEW w \in Workers, driver[w].pc = "evict", NEW n \in DOMAIN nodes,
           NEW pc \in {"evict", "forget"}, Tree!EvictOne(n),
           driver' = [driver EXCEPT ![w].gone = @ \cup {n}, ![w].pc = pc],
           UNCHANGED <<cacheVars, bookVars, live, placing, cancel, issued, pastVars, missedVars>>
    PROVE  /\ EngineInv'
           /\ driver'[w].pc = pc /\ driver'[w].gone = driver[w].gone \cup {n}
           /\ driver'[w].r = driver[w].r /\ driver'[w].kept = driver[w].kept
           /\ driver'[w].done = driver[w].done /\ driver'[w].name = driver[w].name
           /\ \A v \in Workers : v # w => driver'[v] = driver[v]
  <1> DEFINE d == driver[w]
             e == [d EXCEPT !.gone = d.gone \cup {n}, !.pc = pc]
  <1>1. d \in DriverState /\ DriverFits(d) /\ d.r \in Requests
    BY DriverNow
  <1>2. d \in [pc : {"evict", "forget"}, r : Requests, kept : Seq(Snapshot), done : BOOLEAN,
               name : Names, gone : SUBSET Names]
    BY <1>1 DEF DriverState
  <1>3. n \in Names
    BY TreeFields DEF EngineInv, TreeOK
  <1>4. driver' = [driver EXCEPT ![w] = e]
    BY DEF EngineInv, EngineTypeOK
  <1>5. /\ e \in [pc : {"evict", "forget"}, r : Requests, kept : Seq(Snapshot), done : BOOLEAN,
                  name : Names, gone : SUBSET Names]
        /\ e.pc = pc /\ e.gone = d.gone \cup {n} /\ e.r = d.r /\ e.kept = d.kept
        /\ e.done = d.done /\ e.name = d.name
    BY <1>2, <1>3
  <1>6. e \in DriverState
    BY <1>5 DEF DriverState
  <1>7. DriverFits(e) /\ e.pc # "decr"
    BY <1>1, <1>5 DEF DriverFits, Folding, Filing
  <1>8. TreeOK' /\ SharedFits(shared')
    BY EvictTree, MapsFit DEF EngineInv, cacheVars
  <1> HIDE DEF e
  <1>9. EngineInv' /\ driver'[w] = e /\ \A v \in Workers : v # w => driver'[v] = driver[v]
    BY <1>4, <1>5, <1>6, <1>7, <1>8, FilingMoves
  <1>10. QED
    BY <1>5, <1>9

LEMMA LoopKeeps ==
    ASSUME EngineInv, NEW w \in Workers, EvictLoop(w)
    PROVE  EngineInv'
  <1>1. /\ driver[w].pc = "evict"
        /\ UNCHANGED <<cacheVars, bookVars, live, placing, cancel, issued, pastVars, missedVars>>
    BY DEF EvictLoop
  <1>2. ASSUME NEW n \in DOMAIN nodes, Tree!EvictOne(n),
               driver' = [driver EXCEPT ![w].gone = @ \cup {n},
                                        ![w].pc = IF quota = 1 THEN "forget" ELSE "evict"]
        PROVE  EngineInv'
    <2>1. (IF quota = 1 THEN "forget" ELSE "evict") \in {"evict", "forget"}
      OBVIOUS
    <2>2. QED
      BY <1>1, <1>2, <2>1, EvictedMoves
  <1>3. CASE Tree!EvictStop /\ Goto(w, "forget")
    <2>1. TreeOK' /\ SharedFits(shared')
      BY <1>1, <1>3, EvictTree, MapsFit DEF EngineInv, cacheVars
    <2>2. QED
      BY <1>1, <1>3, <2>1, GotoMoves
  <1>4. QED
    BY <1>2, <1>3 DEF EvictLoop

LEMMA ForgetKeeps ==
    ASSUME EngineInv, NEW w \in Workers, ForgetEvicted(w)
    PROVE  EngineInv'
  <1>1. /\ driver[w].pc = "forget" /\ NextSnapshot(w)
        /\ shared' = [n \in DOMAIN shared \ driver[w].gone |-> shared[n]]
        /\ UNCHANGED <<treeVars, bookVars, live, placing, cancel, issued, pastVars, missedVars>>
    BY DEF ForgetEvicted
  <1>2. SharedFits(shared')
    BY <1>1, MapsFit DEF SharedFits
  <1>3. QED
    BY <1>1, <1>2, TreeKept, NextMoves DEF EngineInv, Filing

LEMMA CompletedKeeps ==
    ASSUME EngineInv, NEW w \in Workers, FoldCompleted(w)
    PROVE  EngineInv'
  <1> DEFINE d == driver[w]
             e == IF d.done THEN [pc |-> "unref", r |-> d.r] ELSE Parked
  <1>1. /\ d.pc = "install"
        /\ driver' = [driver EXCEPT ![w] = e]
        /\ chains' = Drop(chains, d.r) \/ chains' = chains
        /\ missedChain' \subseteq missedChain \cup {d.r}
        /\ UNCHANGED <<treeVars, cacheVars, refs, live, placing, cancel, issued, pastVars, missedRefs>>
    BY DEF FoldCompleted, Missed
  <1>2. d \in DriverState /\ d.r \in Requests
    BY <1>1, DriverNow
  <1>3. e \in DriverState /\ DriverFits(e) /\ e.pc \in {"unref", "idle"}
        /\ (e.pc # "idle" => e.r = d.r)
    BY <1>2 DEF DriverState, DriverFits, Folding, Filing, Parked
  <1>4. DOMAIN chains' \subseteq DOMAIN chains /\ ChainsFit(chains')
    <2>1. ChainsFit(chains)
      BY MapsFit
    <2>2. QED
      BY <1>1, <2>1 DEF Drop, ChainsFit
  <1>5. HistoryOK' /\ refs' \in [DOMAIN refs' -> Names]
    BY <1>1, <1>2, HistoryGrows DEF EngineInv, EngineTypeOK, pastVars
  <1>6. TreeOK' /\ SharedFits(shared')
    BY <1>1, TreeKept, MapsFit DEF EngineInv, cacheVars
  <1> HIDE DEF e
  <1>7. QED
    BY <1>1, <1>3, <1>4, <1>5, <1>6, DriverMoves

LEMMA UnrefKeeps ==
    ASSUME EngineInv, NEW w \in Workers, FoldUnref(w)
    PROVE  EngineInv'
  <1> DEFINE d == driver[w]
             r == d.r
             e == IF r \in DOMAIN refs THEN [pc |-> "decr", r |-> r, held |-> refs[r]] ELSE Parked
  <1>1. /\ d.pc = "unref" /\ refs' = Drop(refs, r)
        /\ driver' = [driver EXCEPT ![w] = e]
        /\ missedRefs' \subseteq missedRefs \cup {r}
        /\ UNCHANGED <<treeVars, cacheVars, chains, live, placing, cancel, issued, pastVars, missedChain>>
    BY DEF FoldUnref, Missed
  <1>2. d \in DriverState /\ r \in Requests
    BY <1>1, DriverNow
  <1>3. /\ e \in DriverState /\ DriverFits(e) /\ e.pc \in {"decr", "idle"}
        /\ e.pc # "idle" => e.r = r /\ r \in DOMAIN refs
    BY <1>2, MapsFit DEF DriverState, DriverFits, Folding, Filing, Parked
  <1>4. DOMAIN refs' = DOMAIN refs \ {r} /\ refs' \in [DOMAIN refs' -> Names]
    <2>1. refs \in [DOMAIN refs -> Names]
      BY DEF EngineInv, EngineTypeOK
    <2>2. QED
      BY <1>1, <2>1 DEF Drop
  <1>5. HistoryOK' /\ ChainsFit(chains')
    BY <1>1, <1>2, MapsFit, HistoryGrows DEF EngineInv, EngineTypeOK, pastVars
  <1>6. TreeOK' /\ SharedFits(shared')
    BY <1>1, TreeKept, MapsFit DEF EngineInv, cacheVars
  <1>7. e.pc = "decr" => /\ e.r \notin DOMAIN refs'
                         /\ placing.pc \in {"incr", "hold"} => e.r # placing.r
    BY <1>3, <1>4 DEF EngineInv, Ownership
  <1> HIDE DEF e, r
  <1>8. QED
    BY <1>1, <1>3, <1>4, <1>5, <1>6, <1>7, DriverMoves DEF r

LEMMA ReleasedKeeps ==
    ASSUME EngineInv, NEW w \in Workers, FoldReleased(w)
    PROVE  EngineInv'
  <1>1. /\ driver[w].pc = "decr" /\ Tree!DecrRefChain(driver[w].held)
        /\ driver' = [driver EXCEPT ![w] = Parked]
        /\ UNCHANGED <<cacheVars, bookVars, live, placing, cancel, issued, pastVars, missedVars>>
    BY DEF FoldReleased
  <1>2. TreeOK' /\ SharedFits(shared')
    BY <1>1, DecrTree, MapsFit DEF EngineInv, cacheVars
  <1>3. Parked \in DriverState /\ DriverFits(Parked) /\ Parked.pc = "idle"
    BY DEF DriverState, DriverFits, Folding, Filing, Parked
  <1>4. QED
    BY <1>1, <1>2, <1>3, FilingMoves

LEMMA DriveKeeps ==
    ASSUME EngineInv, NEW w \in Workers, Drive(w)
    PROVE  EngineInv'
  BY DeviceKeeps, FailsKeeps, ExtendKeeps, InstallKeeps, ReclaimKeeps, InsertKeeps, PublishKeeps,
     MeasureKeeps, ExcessKeeps, LoopKeeps, ForgetKeeps, CompletedKeeps, UnrefKeeps, ReleasedKeeps
     DEF Drive

-----------------------------------------------------------------------------
(* EngineInv: cancellation, and the theorem.                               *)

\* A step of a cancellation.
LEMMA CancelMoves ==
    ASSUME EngineInv, NEW r \in Requests, NEW to \in {"unchain", "unref", "drop", "done"},
           cancel' = [cancel EXCEPT ![r] = to], Known(r),
           TreeOK', HistoryOK',
           DOMAIN chains' \subseteq DOMAIN chains, ChainsFit(chains'),
           DOMAIN refs' \subseteq DOMAIN refs, refs' \in [DOMAIN refs' -> Names],
           DOMAIN live' \subseteq DOMAIN live, \A q \in DOMAIN live' : live'[q] = live[q],
           live' = [q \in DOMAIN live' |-> live'[q]],
           UNCHANGED <<cacheVars, placing, driver, issued>>
    PROVE  EngineInv'
  <1>1. cancel' \in [Requests -> {"none", "unchain", "unref", "drop", "done"}]
        /\ \A q \in Requests : q # r => cancel'[q] = cancel[q]
    BY DEF EngineInv, EngineTypeOK
  <1>2. live' \in [DOMAIN live' -> LiveSequence] /\ DOMAIN live \subseteq Requests
    BY DEF EngineInv, EngineTypeOK
  <1>3. EngineTypeOK'
    BY <1>1, <1>2 DEF EngineInv, EngineTypeOK, ChainsFit, cacheVars
  <1>4. LengthsFit'
    BY DEF EngineInv, LengthsFit, cacheVars
  <1>5. Ownership'
    <2>1. \A v \in Workers, q \in Requests : Busy(v, q)' => Busy(v, q)
      BY DEF Busy
    <2>2. \A q \in Requests : cancel'[q] # "none" => Known(q)
      BY <1>1 DEF Known
    <2>3. \A v \in Workers : driver'[v].pc = "decr" =>
               /\ driver'[v].r \notin DOMAIN refs'
               /\ placing.pc \in {"incr", "hold"} => driver'[v].r # placing.r
      BY DEF EngineInv, Ownership
    <2>4. QED
      BY <2>1, <2>2, <2>3, OwnershipKept DEF EngineInv
  <1>6. QED
    BY <1>3, <1>4, <1>5 DEF EngineInv

LEMMA CancelKeeps ==
    ASSUME EngineInv, NEW r \in Requests, Cancel(r)
    PROVE  EngineInv'
  <1>1. /\ ChainsFit(chains) /\ refs \in [DOMAIN refs -> Names]
        /\ live = [q \in DOMAIN live |-> live[q]] /\ HistoryOK
        /\ TreeOK
    BY MapsFit DEF EngineInv, EngineTypeOK
  <1>2. cancel[r] # "none" => Known(r)
    BY DEF Known
  <1>3. CASE CancelFind(r)
    <2>1. Known(r) /\ cancel' = [cancel EXCEPT ![r] = "unchain"]
          /\ UNCHANGED <<treeVars, cacheVars, bookVars, live, placing, driver, issued, pastVars, missedVars>>
      BY <1>3 DEF CancelFind, CancelStep, Known
    <2>2. QED
      BY <1>1, <2>1, TreeKept, HistoryFrame, CancelMoves DEF bookVars
  <1>4. CASE CancelChain(r)
    <2>1. Known(r) /\ cancel' = [cancel EXCEPT ![r] = "unref"]
          /\ chains' = Drop(chains, r) /\ HistoryOK'
          /\ UNCHANGED <<treeVars, cacheVars, refs, live, placing, driver, issued>>
      BY <1>1, <1>2, <1>4, HistoryGrows DEF CancelChain, CancelStep, Missed, pastVars
    <2>2. ChainsFit(chains') /\ DOMAIN chains' \subseteq DOMAIN chains
      BY <1>1, <2>1 DEF Drop, ChainsFit
    <2>3. QED
      BY <1>1, <2>1, <2>2, TreeKept, CancelMoves
  <1>5. CASE CancelRefs(r)
    <2>1. Known(r) /\ cancel' = [cancel EXCEPT ![r] = "drop"]
          /\ HistoryOK'
          /\ UNCHANGED <<cacheVars, chains, live, placing, driver, issued>>
      BY <1>1, <1>2, <1>5, HistoryGrows DEF CancelRefs, CancelStep, Missed, pastVars
    <2>2. /\ TreeOK' /\ refs' \in [DOMAIN refs' -> Names] /\ DOMAIN refs' \subseteq DOMAIN refs
      <3>1. CASE r \in DOMAIN refs
        <4>1. Tree!DecrRefChain(refs[r]) /\ refs' = Drop(refs, r)
          BY <1>5, <3>1 DEF CancelRefs
        <4>2. QED
          BY <1>1, <4>1, DecrTree DEF Drop
      <3>2. CASE r \notin DOMAIN refs
        BY <1>1, <1>5, <3>2, TreeKept DEF CancelRefs
      <3>3. QED
        BY <3>1, <3>2
    <2>3. QED
      BY <1>1, <2>1, <2>2, CancelMoves
  <1>6. CASE CancelDrop(r)
    <2>1. Known(r) /\ cancel' = [cancel EXCEPT ![r] = "done"] /\ live' = Drop(live, r)
          /\ UNCHANGED <<treeVars, cacheVars, bookVars, placing, driver, issued, pastVars, missedVars>>
      BY <1>2, <1>6 DEF CancelDrop, CancelStep
    <2>2. DOMAIN live' \subseteq DOMAIN live /\ live' = [q \in DOMAIN live' |-> live'[q]]
          /\ \A q \in DOMAIN live' : live'[q] = live[q]
      BY <2>1 DEF Drop
    <2>3. QED
      BY <1>1, <2>1, <2>2, TreeKept, HistoryFrame, CancelMoves DEF bookVars
  <1>7. QED
    BY <1>3, <1>4, <1>5, <1>6 DEF Cancel

LEMMA EngineStep == EngineInv /\ [EngineNext]_engineVars => EngineInv'
  <1> SUFFICES ASSUME EngineInv, [EngineNext]_engineVars
               PROVE  EngineInv'
    OBVIOUS
  <1>1. CASE EngineNext
    BY <1>1, PlaceKeeps, DriveKeeps, CancelKeeps DEF EngineNext
  <1>2. CASE UNCHANGED engineVars
    <2> USE <1>2 DEF engineVars, cacheVars, bookVars, threadVars
    <2>1. TreeOK'
      BY TreeKept DEF EngineInv
    <2>2. EngineTypeOK'
      BY HistoryFrame DEF EngineInv, EngineTypeOK
    <2>3. LengthsFit'
      BY DEF EngineInv, LengthsFit
    <2>4. Ownership'
      BY DEF EngineInv, Ownership, Known, Busy, Unrecorded
    <2>5. QED
      BY <2>1, <2>2, <2>3, <2>4 DEF EngineInv
  <1>3. QED
    BY <1>1, <1>2

LEMMA EngineStart == EngineInit => EngineInv
  <1> SUFFICES ASSUME EngineInit PROVE EngineInv
    OBVIOUS
  <1>1. TreeOK
    BY EmptyTree DEF EngineInit
  <1>2. /\ DOMAIN shared = {} /\ DOMAIN chains = {} /\ DOMAIN refs = {} /\ DOMAIN live = {}
        /\ placing.pc = "idle" /\ \A w \in Workers : driver[w].pc = "idle"
        /\ \A r \in Requests : cancel[r] = "none"
    BY DEF EngineInit, NotPlacing, Parked
  <1>3. EngineTypeOK
    BY <1>2 DEF EngineInit, EngineTypeOK, HistoryOK, PlacingState, DriverState, NotPlacing, Parked
  <1>4. LengthsFit
    BY <1>2 DEF LengthsFit, DriverFits, Folding, Filing
  <1>5. Ownership
    BY <1>2, FS_EmptySet DEF EngineInit, Ownership, Known, Busy, Unrecorded
  <1>6. QED
    BY <1>1, <1>3, <1>4, <1>5 DEF EngineInv

\* Under every interleaving of placements, device steps, folds and cancellations the
\* engine's maps keep their types and lengths, the tree its links, and a request's
\* bookkeeping is touched by the threads that own it.
THEOREM EngineInvariant == EngineSpec => []EngineInv
  BY EngineStart, EngineStep, PTL DEF EngineSpec

-----------------------------------------------------------------------------
(* Steps of a driver.                                                      *)

\* A driver that files snapshots: it keeps to its request, drops the first snapshot or goes
\* on with it under the same name, and touches nobody's bookkeeping.
LEMMA FilingStep ==
    ASSUME EngineInv, NEW w \in Workers,
           \/ InstallName(w) \/ Reclaim(w) \/ InsertPrefix(w) \/ Publish(w)
           \/ MeasureExcess(w) \/ EvictExcess(w) \/ EvictLoop(w) \/ ForgetEvicted(w)
    PROVE  /\ driver[w].pc \in {"install"} \cup Filing /\ driver[w].kept # << >>
           /\ driver'[w].r = driver[w].r /\ driver'[w].done = driver[w].done
           /\ \/ /\ driver'[w].pc \in Filing /\ driver'[w].kept = driver[w].kept
                 /\ driver[w].pc \in Filing => driver'[w].name = driver[w].name
              \/ driver'[w] = Next1(driver[w]) /\ driver'[w].pc = "install"
           /\ \A v \in Workers : v # w => driver'[v] = driver[v]
           /\ UNCHANGED <<chains, refs, live, placing, cancel, issued, pastVars, missedVars>>
  <1>1. /\ driver \in [Workers -> DriverState] /\ driver[w] \in DriverState
        /\ driver[w].pc \in Filing => driver[w].kept # << >>
        /\ NextSnapshot(w) => driver' = [driver EXCEPT ![w] = Next1(driver[w])]
    BY DriverNow DEF EngineInv, EngineTypeOK, DriverFits
  <1>2. /\ Next1(driver[w]).pc = "install" /\ Next1(driver[w]).r = driver[w].r
        /\ Next1(driver[w]).done = driver[w].done
    BY DEF Next1
  <1>3. ASSUME NextSnapshot(w)
        PROVE  /\ driver'[w] = Next1(driver[w])
               /\ \A v \in Workers : v # w => driver'[v] = driver[v]
    BY <1>1, <1>3
  <1>4. ASSUME NEW pc, Goto(w, pc),
               \/ driver[w].pc \in {"reclaim", "insert", "publish"} /\ pc \in {"insert", "publish", "measure"}
               \/ driver[w].pc = "evict" /\ pc = "forget"
        PROVE  /\ driver'[w].pc = pc /\ driver'[w].r = driver[w].r
               /\ driver'[w].kept = driver[w].kept /\ driver'[w].done = driver[w].done
               /\ driver'[w].name = driver[w].name
               /\ \A v \in Workers : v # w => driver'[v] = driver[v]
    <2>1. driver'[w] = [driver[w] EXCEPT !.pc = pc]
          /\ \A v \in Workers : v # w => driver'[v] = driver[v]
      BY <1>1, <1>4 DEF Goto
    <2>2. QED
      BY <1>1, <1>4, <2>1, DriverGoes
  <1>5. CASE InstallName(w)
    BY <1>1, <1>2, <1>3, <1>5 DEF InstallName, bookVars, Filing
  <1>6. CASE Reclaim(w)
    <2>1. driver[w].pc = "reclaim" /\ (Goto(w, "insert") \/ NextSnapshot(w))
          /\ UNCHANGED <<chains, refs, live, placing, cancel, issued, pastVars, missedVars>>
      BY <1>6 DEF Reclaim, bookVars
    <2>2. QED
      BY <1>1, <1>2, <1>3, <1>4, <2>1 DEF Filing
  <1>7. CASE InsertPrefix(w)
    <2>1. driver[w].pc = "insert" /\ Goto(w, "publish")
          /\ UNCHANGED <<chains, refs, live, placing, cancel, issued, pastVars, missedVars>>
      BY <1>7 DEF InsertPrefix, bookVars
    <2>2. QED
      BY <1>1, <1>4, <2>1 DEF Filing
  <1>8. CASE Publish(w)
    <2>1. driver[w].pc = "publish" /\ Goto(w, "measure")
          /\ UNCHANGED <<chains, refs, live, placing, cancel, issued, pastVars, missedVars>>
      BY <1>8 DEF Publish, bookVars
    <2>2. QED
      BY <1>1, <1>4, <2>1 DEF Filing
  <1>9. CASE MeasureExcess(w)
    BY <1>1, <1>2, <1>3, <1>9 DEF MeasureExcess, bookVars, Filing
  <1>10. CASE EvictExcess(w)
    BY <1>1, <1>10 DEF EvictExcess, bookVars, Filing
  <1>11. CASE EvictLoop(w)
    <2>1. driver[w].pc = "evict" /\ UNCHANGED <<chains, refs, live, placing, cancel, issued, pastVars, missedVars>>
      BY <1>11 DEF EvictLoop, bookVars
    <2>2. ASSUME NEW n \in DOMAIN nodes, Tree!EvictOne(n),
                 driver' = [driver EXCEPT ![w].gone = @ \cup {n},
                                          ![w].pc = IF quota = 1 THEN "forget" ELSE "evict"]
          PROVE  /\ driver'[w].pc \in {"evict", "forget"} /\ driver'[w].r = driver[w].r
                 /\ driver'[w].kept = driver[w].kept /\ driver'[w].done = driver[w].done
                 /\ driver'[w].name = driver[w].name
                 /\ \A v \in Workers : v # w => driver'[v] = driver[v]
      <3>1. (IF quota = 1 THEN "forget" ELSE "evict") \in {"evict", "forget"}
            /\ UNCHANGED <<cacheVars, bookVars, live, placing, cancel, issued, pastVars, missedVars>>
        BY <1>11 DEF EvictLoop
      <3>2. QED
        BY <2>1, <2>2, <3>1, EvictedMoves
    <2>3. CASE Tree!EvictStop /\ Goto(w, "forget")
      BY <1>1, <1>4, <2>1, <2>3 DEF Filing
    <2>4. QED
      BY <1>1, <1>11, <2>1, <2>2, <2>3 DEF EvictLoop, Filing
  <1>12. CASE ForgetEvicted(w)
    <2>1. driver[w].pc = "forget" /\ NextSnapshot(w)
          /\ UNCHANGED <<chains, refs, live, placing, cancel, issued, pastVars, missedVars>>
      BY <1>12 DEF ForgetEvicted, bookVars
    <2>2. QED
      BY <1>1, <1>2, <1>3, <2>1 DEF Filing
  <1>13. QED
    BY <1>5, <1>6, <1>7, <1>8, <1>9, <1>10, <1>11, <1>12

\* What the others of a driver's steps do to it.
LEMMA FoldStep ==
    ASSUME EngineInv, NEW w \in Workers
    PROVE  /\ ExtendChain(w) =>
                  /\ driver[w].pc = "extend" /\ driver'[w].pc = "install"
                  /\ driver'[w].r = driver[w].r /\ driver'[w].kept = driver[w].kept
                  /\ driver'[w].done = driver[w].done
                  /\ \A v \in Workers : v # w => driver'[v] = driver[v]
           /\ FoldCompleted(w) =>
                  /\ driver[w].pc = "install" /\ driver[w].kept = << >>
                  /\ driver'[w] = IF driver[w].done THEN [pc |-> "unref", r |-> driver[w].r]
                                  ELSE Parked
                  /\ \A v \in Workers : v # w => driver'[v] = driver[v]
           /\ FoldUnref(w) =>
                  /\ driver[w].pc = "unref"
                  /\ driver'[w] = IF driver[w].r \in DOMAIN refs
                                  THEN [pc |-> "decr", r |-> driver[w].r, held |-> refs[driver[w].r]]
                                  ELSE Parked
                  /\ \A v \in Workers : v # w => driver'[v] = driver[v]
           /\ FoldReleased(w) =>
                  /\ driver[w].pc = "decr" /\ driver'[w] = Parked
                  /\ \A v \in Workers : v # w => driver'[v] = driver[v]
  <1>1. driver \in [Workers -> DriverState] /\ driver[w] \in DriverState
    BY DEF EngineInv, EngineTypeOK
  <1>2. ASSUME ExtendChain(w)
        PROVE  /\ driver[w].pc = "extend" /\ driver'[w].pc = "install"
               /\ driver'[w].r = driver[w].r /\ driver'[w].kept = driver[w].kept
               /\ driver'[w].done = driver[w].done
               /\ \A v \in Workers : v # w => driver'[v] = driver[v]
    <2>1. driver[w].pc = "extend" /\ driver'[w] = [driver[w] EXCEPT !.pc = "install"]
          /\ \A v \in Workers : v # w => driver'[v] = driver[v]
      BY <1>1, <1>2 DEF ExtendChain, Goto
    <2>2. QED
      BY <1>1, <2>1, DriverGoes
  <1>3. QED
    BY <1>1, <1>2 DEF FoldCompleted, FoldUnref, FoldReleased

\* What has gone into a request's state is never forgotten.
LEMMA PastGrows ==
    ASSUME EngineInv, [EngineNext]_engineVars, NEW r \in Requests
    PROVE  /\ Clean(r)' => Clean(r)
           /\ Unmasked(r)' => Unmasked(r)
  <1>1. /\ outrun \subseteq outrun'
        /\ masked \subseteq masked'
    BY DEF EngineNext, Place, PlaceMatch, PlaceClaim, PlaceScore, PlaceRoute, PlaceAdmit, PlaceIncr,
           PlaceRefs, PlaceChain, Drive, StepDevice, StepFails, ExtendChain, InstallName, Reclaim,
           InsertPrefix, Publish, MeasureExcess, EvictExcess, EvictLoop, ForgetEvicted,
           FoldCompleted, FoldUnref, FoldReleased, Cancel, CancelFind, CancelChain, CancelRefs,
           CancelDrop, Masked, pastVars, engineVars
  <1>2. lineage[r] \subseteq lineage'[r]
    <2>1. CASE lineage' = lineage
      BY <2>1
    <2>2. CASE PlaceClaim
      <3>1. lineage \in [Requests -> SUBSET Requests]
        BY DEF EngineInv, EngineTypeOK, HistoryOK
      <3>2. lineage' = lineage \/ \E more : lineage' = [lineage EXCEPT ![placing.r] = @ \cup more]
        BY <2>2 DEF PlaceClaim
      <3>3. QED
        BY <3>1, <3>2
    <2>3. QED
      BY <2>1, <2>2
         DEF EngineNext, Place, PlaceMatch, PlaceScore, PlaceRoute, PlaceAdmit, PlaceIncr,
             PlaceRefs, PlaceChain, Drive, StepDevice, StepFails, ExtendChain, InstallName, Reclaim,
             InsertPrefix, Publish, MeasureExcess, EvictExcess, EvictLoop, ForgetEvicted,
             FoldCompleted, FoldUnref, FoldReleased, Cancel, CancelFind, CancelChain, CancelRefs,
             CancelDrop, pastVars, engineVars
  <1>3. QED
    BY <1>1, <1>2 DEF Clean, Unmasked

-----------------------------------------------------------------------------
(* The bookkeeping of a request.                                           *)

\* What a step does to a request's chain: nothing that matters, a removal that is too
\* early exactly when it leaves the chain to be recorded, or the promise of one.
ChainMoves(r) ==
    \/ /\ Tracked(r)' <=> Tracked(r)
       /\ r \in missedChain' <=> r \in missedChain
       /\ ChainDue(r) => ChainDue(r)'
    \/ r \in missedChain' <=> Tracked(r)'
    \/ r \notin missedChain' /\ ChainDue(r)'

\* And to its references.
RefsMove(r) ==
    \/ /\ Referred(r)' <=> Referred(r)
       /\ r \in missedRefs' <=> r \in missedRefs
       /\ RefsDue(r) => RefsDue(r)'
    \/ r \in missedRefs' <=> Referred(r)'
    \/ r \notin missedRefs' /\ RefsDue(r)'

LEMMA BookKept ==
    ASSUME BookInv, \A r \in Requests : ChainMoves(r) /\ RefsMove(r)
    PROVE  BookInv'
  <1> SUFFICES ASSUME NEW r \in Requests
               PROVE  /\ r \in missedChain' => Tracked(r)'
                      /\ Tracked(r)' => r \in missedChain' \/ ChainDue(r)'
                      /\ r \in missedRefs' => Referred(r)'
                      /\ Referred(r)' => r \in missedRefs' \/ RefsDue(r)'
    BY DEF BookInv
  <1>1. /\ r \in missedChain => Tracked(r)
        /\ Tracked(r) => r \in missedChain \/ ChainDue(r)
        /\ r \in missedRefs => Referred(r)
        /\ Referred(r) => r \in missedRefs \/ RefsDue(r)
    BY DEF BookInv
  <1>2. ChainMoves(r) /\ RefsMove(r)
    OBVIOUS
  <1>3. QED
    BY <1>1, <1>2 DEF ChainMoves, RefsMove

\* A step that only moves the driver of a request on within its fold.
LEMMA BookFolds ==
    ASSUME BookInv, NEW w \in Workers, driver[w].pc \in Folding, driver'[w].pc \in Folding,
           driver'[w].r = driver[w].r, driver'[w].done = driver[w].done,
           \A v \in Workers : v # w => driver'[v] = driver[v],
           DOMAIN chains' = DOMAIN chains, UNCHANGED <<refs, live, placing, cancel, missedVars>>
    PROVE  BookInv'
  <1>1. \A v \in Workers, r \in Requests :
            /\ Busy(v, r)' <=> Busy(v, r)
            /\ driver'[v].pc \in Folding <=> driver[v].pc \in Folding
            /\ driver'[v].pc = "decr" <=> driver[v].pc = "decr"
            /\ Finishing(v, r)' <=> Finishing(v, r)
    BY DEF Busy, Finishing, Folding, Filing
  <1>2. \A r \in Requests : /\ Tracked(r)' <=> Tracked(r)
                            /\ Referred(r)' <=> Referred(r)
    BY DEF Tracked, Referred, Unrecorded, Unheld
  <1>3. \A r \in Requests : ChainMoves(r) /\ RefsMove(r)
    BY <1>1, <1>2 DEF ChainMoves, RefsMove, ChainDue, RefsDue, missedVars
  <1>4. QED
    BY <1>3, BookKept

LEMMA BookPlace ==
    ASSUME EngineInv, BookInv, Place
    PROVE  BookInv'
  <1>1. UNCHANGED <<driver, cancel, missedVars>>
    BY DEF Place, PlaceMatch, PlaceClaim, PlaceScore, PlaceRoute, PlaceAdmit, PlaceIncr, PlaceRefs,
           PlaceChain, bookVars
  <1>2. \A v \in Workers, r \in Requests : /\ Busy(v, r)' <=> Busy(v, r)
                                           /\ Finishing(v, r)' <=> Finishing(v, r)
    BY <1>1 DEF Busy, Finishing
  <1>3. ASSUME UNCHANGED live,
               \A r \in Requests : (Tracked(r)' <=> Tracked(r)) /\ (Referred(r)' <=> Referred(r))
        PROVE  BookInv'
    <2>1. \A r \in Requests : ChainMoves(r) /\ RefsMove(r)
      BY <1>1, <1>2, <1>3 DEF ChainMoves, RefsMove, ChainDue, RefsDue, missedVars
    <2>2. QED
      BY <2>1, BookKept
  <1>4. CASE \/ \E r \in Requests, prompt \in Prompts, kind \in Kinds, max \in MaxOutputs :
                   PlaceMatch(r, prompt, kind, max)
             \/ PlaceClaim \/ PlaceScore \/ PlaceRoute
    BY <1>3, <1>4 DEF PlaceMatch, PlaceClaim, PlaceScore, PlaceRoute, bookVars, Tracked, Referred,
                      Unrecorded, Unheld, NotPlacing
  <1>5. CASE PlaceAdmit
    <2> DEFINE q == placing.r
    <2>1. placing.pc = "admit" /\ q \in Requests /\ ~Known(q) /\ UNCHANGED <<chains, refs>>
      BY <1>5, PlacingShape DEF PlaceAdmit, EngineInv, EngineTypeOK, Ownership, bookVars
    <2>2. \A r \in Requests : ~Unrecorded(r) /\ ~Unheld(r)
      BY <2>1 DEF Unrecorded, Unheld
    <2>3. CASE placing' = NotPlacing /\ UNCHANGED live
      BY <1>3, <2>1, <2>2, <2>3 DEF Tracked, Referred, Unrecorded, Unheld, NotPlacing
    <2>4. CASE /\ live' = Put(live, q, Admitted(placing))
               /\ placing' = [pc |-> IF placing.credit > 0 THEN "incr" ELSE "chain",
                              r |-> q, prompt |-> placing.prompt, held |-> Credited(placing)]
      <3>1. DOMAIN live' = DOMAIN live \cup {q} /\ placing'.r = q
        <4>1. live' = Put(live, q, Admitted(placing)) /\ placing'.r = q
          BY <2>4
        <4>2. QED
          BY <4>1, Zenon DEF Put
      <3>2. /\ q \notin DOMAIN chains \cup DOMAIN refs /\ cancel[q] = "none"
            /\ \A v \in Workers : ~Busy(v, q)
        BY <2>1 DEF Known
      <3>3. q \notin missedChain /\ q \notin missedRefs
        BY <2>1, <2>2, <3>2 DEF BookInv, Tracked, Referred
      <3>4. ChainDue(q)' /\ RefsDue(q)'
        BY <1>1, <1>2, <2>1, <3>1, <3>2 DEF ChainDue, RefsDue
      <3>5. \A r \in Requests \ {q} : /\ Tracked(r)' <=> Tracked(r)
                                      /\ Referred(r)' <=> Referred(r)
                                      /\ r \in DOMAIN live' <=> r \in DOMAIN live
        BY <2>1, <2>2, <3>1 DEF Tracked, Referred, Unrecorded, Unheld
      <3>6. \A r \in Requests \ {q} : ChainMoves(r) /\ RefsMove(r)
        BY <1>1, <1>2, <3>5 DEF ChainMoves, RefsMove, ChainDue, RefsDue, missedVars
      <3>7. ChainMoves(q) /\ RefsMove(q)
        BY <1>1, <3>3, <3>4 DEF ChainMoves, RefsMove, missedVars
      <3>8. QED
        BY <3>6, <3>7, BookKept
    <2>5. QED
      BY <1>5, <2>3, <2>4 DEF PlaceAdmit
  <1>6. CASE PlaceIncr
    <2>1. /\ placing.pc = "incr" /\ placing' = [placing EXCEPT !.pc = "hold"]
          /\ UNCHANGED <<chains, refs, live>> /\ placing \in PlacingState
      BY <1>6 DEF PlaceIncr, bookVars, EngineInv, EngineTypeOK
    <2>2. placing'.pc = "hold" /\ placing'.r = placing.r
      BY <2>1 DEF PlacingState
    <2>3. QED
      BY <1>3, <2>1, <2>2 DEF Tracked, Referred, Unrecorded, Unheld
  <1>7. CASE PlaceRefs
    <2> DEFINE q == placing.r
    <2>1. /\ placing.pc = "hold" /\ placing' = [placing EXCEPT !.pc = "chain"]
          /\ refs' = Put(refs, q, placing.held)
          /\ UNCHANGED <<chains, live>> /\ placing \in PlacingState
      BY <1>7 DEF PlaceRefs, EngineInv, EngineTypeOK
    <2>2. placing'.pc = "chain" /\ placing'.r = placing.r
      BY <2>1 DEF PlacingState
    <2>3. DOMAIN refs' = DOMAIN refs \cup {q}
      BY <2>1, Zenon DEF Put
    <2>4. QED
      BY <1>3, <2>1, <2>2, <2>3 DEF Tracked, Referred, Unrecorded, Unheld
  <1>8. CASE PlaceChain
    <2> DEFINE q == placing.r
    <2>1. /\ placing.pc = "chain" /\ placing' = NotPlacing
          /\ chains' = Put(chains, q, [tokens |-> placing.prompt, prompt |-> Len(placing.prompt)])
          /\ UNCHANGED <<refs, live>>
      BY <1>8 DEF PlaceChain
    <2>2. DOMAIN chains' = DOMAIN chains \cup {q}
      BY <2>1, Zenon DEF Put
    <2>3. QED
      BY <1>3, <2>1, <2>2 DEF Tracked, Referred, Unrecorded, Unheld, NotPlacing
  <1>9. QED
    BY <1>4, <1>5, <1>6, <1>7, <1>8 DEF Place

LEMMA BookDrive ==
    ASSUME EngineInv, BookInv, NEW w \in Workers, Drive(w)
    PROVE  BookInv'
  <1>1. driver[w] \in DriverState /\ driver \in [Workers -> DriverState]
    BY DEF EngineInv, EngineTypeOK
  <1>2. ASSUME NEW r \in Requests, StepDevice(w, r) PROVE BookInv'
    <2>1. PICK o \in Outcomes(live[r]) :
              /\ live' = IF o.rec.out >= o.rec.max THEN Drop(live, r) ELSE Put(live, r, o.rec)
              /\ driver' = [driver EXCEPT ![w] =
                               [pc |-> "extend", r |-> r, gen |-> o.gen, kept |-> o.kept,
                                done |-> o.rec.out >= o.rec.max]]
      BY <1>2 DEF StepDevice
    <2> DEFINE done1 == o.rec.out >= o.rec.max
    <2>2. /\ driver'[w].pc = "extend" /\ driver'[w].r = r /\ driver'[w].done = done1
          /\ \A v \in Workers : v # w => driver'[v] = driver[v]
          /\ r \in DOMAIN live /\ driver[w].pc = "idle"
          /\ UNCHANGED <<chains, refs, placing, cancel, missedVars>>
      BY <1>1, <1>2, <2>1 DEF StepDevice, bookVars
    <2>3. DOMAIN live \ {r} \subseteq DOMAIN live' /\ (~done1 => r \in DOMAIN live')
      <3>1. CASE done1
        <4>1. live' = Drop(live, r)
          BY <2>1, <3>1
        <4>2. QED
          BY <3>1, <4>1, Zenon DEF Drop
      <3>2. CASE ~done1
        <4>1. live' = Put(live, r, o.rec)
          BY <2>1, <3>2
        <4>2. QED
          BY <4>1, Zenon DEF Put
      <3>3. QED
        BY <3>1, <3>2
    <2> HIDE DEF done1
    <2>4. \A q \in Requests : /\ Tracked(q)' <=> Tracked(q)
                              /\ Referred(q)' <=> Referred(q)
                              /\ ~Busy(w, q) /\ ~Finishing(w, q)
                              /\ Busy(w, q)' => q = r
                              /\ \A v \in Workers : v # w => /\ Busy(v, q)' <=> Busy(v, q)
                                                             /\ Finishing(v, q)' <=> Finishing(v, q)
      BY <2>2 DEF Tracked, Referred, Unrecorded, Unheld, Busy, Finishing
    <2>5. "extend" \in Folding
      BY DEF Folding
    <2>6. done1 => Finishing(w, r)'
      BY <2>2 DEF Finishing, Busy
    <2>7. \A q \in Requests : ChainMoves(q) /\ RefsMove(q)
      <3>1. \A q \in Requests : ChainDue(q) => ChainDue(q)'
        BY <2>2, <2>3, <2>4, <2>5, <2>6 DEF ChainDue
      <3>2. \A q \in Requests : RefsDue(q) => RefsDue(q)'
        BY <2>2, <2>3, <2>4, <2>6 DEF RefsDue
      <3>3. QED
        BY <2>2, <2>4, <3>1, <3>2 DEF ChainMoves, RefsMove, missedVars
    <2>8. QED
      BY <2>7, BookKept
  <1>3. ASSUME NEW r \in Requests, StepFails(w, r) PROVE BookInv'
    <2>1. /\ DOMAIN live' = DOMAIN live
          /\ UNCHANGED <<chains, refs, placing, cancel, driver, missedVars>>
      <3>1. PICK o \in Outcomes(live[r]) : live' = Put(live, r, o.rec)
        BY <1>3 DEF StepFails
      <3>2. r \in DOMAIN live /\ UNCHANGED <<chains, refs, placing, cancel, driver, missedVars>>
        BY <1>3 DEF StepFails, bookVars, threadVars
      <3>3. DOMAIN live' = DOMAIN live \cup {r}
        BY <3>1, Zenon DEF Put
      <3>4. QED
        BY <3>2, <3>3
    <2>2. \A q \in Requests : ChainMoves(q) /\ RefsMove(q)
      BY <2>1 DEF ChainMoves, RefsMove, Tracked, Referred, Unrecorded, Unheld, ChainDue, RefsDue,
                  Busy, Finishing, missedVars
    <2>3. QED
      BY <2>2, BookKept
  <1>4. CASE ExtendChain(w)
    <2>1. DOMAIN chains' = DOMAIN chains /\ UNCHANGED <<refs, live, placing, cancel, missedVars>>
      BY <1>4 DEF ExtendChain
    <2>2. QED
      BY <1>4, <2>1, FoldStep, BookFolds DEF Folding
  <1>5. CASE \/ InstallName(w) \/ Reclaim(w) \/ InsertPrefix(w) \/ Publish(w)
             \/ MeasureExcess(w) \/ EvictExcess(w) \/ EvictLoop(w) \/ ForgetEvicted(w)
    BY <1>5, FilingStep, BookFolds DEF Folding
  <1>6. CASE FoldCompleted(w)
    <2>0. PICK q : q = driver[w].r
      OBVIOUS
    <2>1. /\ q \in Requests /\ driver[w].pc = "install" /\ driver[w].r = q /\ Busy(w, q)
          /\ \A v \in Workers : v # w => driver'[v] = driver[v]
          /\ UNCHANGED <<refs, live, placing, cancel, missedRefs>>
      <3>1. /\ driver[w].pc = "install"
            /\ \A v \in Workers : v # w => driver'[v] = driver[v]
        BY <1>6, FoldStep
      <3>2. UNCHANGED <<refs, live, placing, cancel, missedRefs>>
        BY <1>6 DEF FoldCompleted
      <3>3. QED
        BY <2>0, <3>1, <3>2, DriverNow DEF Busy
    <2>2. \A r \in Requests : /\ Unrecorded(r)' <=> Unrecorded(r)
                              /\ Referred(r)' <=> Referred(r)
      BY <2>1 DEF Unrecorded, Referred, Unheld
    <2>3. \A v \in Workers, r \in Requests : v # w => /\ Busy(v, r)' <=> Busy(v, r)
                                                      /\ Finishing(v, r)' <=> Finishing(v, r)
      BY <2>1 DEF Busy, Finishing
    <2>4. CASE driver[w].done
      <3>1. /\ driver'[w] = [pc |-> "unref", r |-> q]
            /\ chains' = Drop(chains, q) /\ missedChain' = Missed(missedChain, q, Unrecorded(q))
        BY <1>6, <2>0, <2>4, FoldStep DEF FoldCompleted
      <3>2. DOMAIN chains' = DOMAIN chains \ {q}
        BY <3>1, Zenon DEF Drop
      <3>3. driver'[w].pc = "unref" /\ driver'[w].r = q /\ "unref" \notin Folding
        BY <3>1 DEF Folding, Filing
      <3>4. \A r \in Requests : Busy(w, r)' <=> r = q
        BY <3>3 DEF Busy
      <3>5. Finishing(w, q)'
        BY <2>1, <3>3, <3>4 DEF Finishing
      <3>6. \A r \in Requests : RefsMove(r)
        <4>1. \A r \in Requests : RefsDue(r) => RefsDue(r)'
          BY <2>1, <2>3, <3>3, <3>4, <3>5 DEF RefsDue, Busy, Finishing
        <4>2. QED
          BY <2>1, <2>2, <4>1 DEF RefsMove
      <3>7. \A r \in Requests \ {q} : ChainMoves(r)
        <4>1. \A r \in Requests \ {q} : ChainDue(r) => ChainDue(r)'
          BY <2>1, <2>3, <3>4 DEF ChainDue, Busy, Finishing
        <4>2. QED
          BY <2>2, <3>1, <3>2, <4>1 DEF ChainMoves, Tracked, Missed
      <3>8. ChainMoves(q)
        BY <2>1, <2>2, <3>1, <3>2 DEF ChainMoves, Tracked, Missed
      <3>9. QED
        BY <3>6, <3>7, <3>8, BookKept
    <2>5. CASE ~driver[w].done
      <3>1. driver'[w] = Parked /\ UNCHANGED <<chains, missedChain>>
        BY <1>6, <2>5, FoldStep DEF FoldCompleted
      <3>2. \A r \in Requests : ~Finishing(w, r) /\ ~Busy(w, r)'
        BY <2>1, <2>5, <3>1 DEF Busy, Finishing, Folding, Parked
      <3>3. \A r \in Requests : /\ ChainDue(r) => ChainDue(r)'
                                /\ RefsDue(r) => RefsDue(r)'
        BY <2>1, <2>3, <3>2 DEF ChainDue, RefsDue
      <3>4. \A r \in Requests : ChainMoves(r) /\ RefsMove(r)
        BY <2>1, <2>2, <3>1, <3>3 DEF ChainMoves, RefsMove, Tracked
      <3>5. QED
        BY <3>4, BookKept
    <2>6. QED
      BY <2>4, <2>5
  <1>7. CASE FoldUnref(w) \/ FoldReleased(w)
    <2>0. PICK q : q = driver[w].r
      OBVIOUS
    <2>1. /\ driver[w].pc \in {"unref", "decr"} /\ driver'[w].pc \in {"decr", "idle"}
          /\ (driver'[w].pc # "idle" => driver'[w].r = q)
          /\ \A v \in Workers : v # w => driver'[v] = driver[v]
      <3>1. CASE FoldUnref(w)
        <4>1. driver[w].pc = "unref" /\ \A v \in Workers : v # w => driver'[v] = driver[v]
          BY <2>0, <3>1, FoldStep
        <4>2. CASE q \in DOMAIN refs
          <5>1. driver'[w] = [pc |-> "decr", r |-> q, held |-> refs[q]]
            BY <2>0, <3>1, <4>2, FoldStep
          <5>2. QED
            BY <2>0, <4>1, <5>1
        <4>3. CASE q \notin DOMAIN refs
          <5>1. driver'[w] = Parked
            BY <2>0, <3>1, <4>3, FoldStep
          <5>2. QED
            BY <2>0, <4>1, <5>1 DEF Parked
        <4>4. QED
          BY <4>2, <4>3
      <3>2. CASE FoldReleased(w)
        <4>1. /\ driver[w].pc = "decr" /\ driver'[w] = Parked
              /\ \A v \in Workers : v # w => driver'[v] = driver[v]
          BY <2>0, <3>2, FoldStep
        <4>2. QED
          BY <4>1 DEF Parked
      <3>3. QED
        BY <1>7, <2>0, <3>1, <3>2
    <2>2. UNCHANGED <<chains, live, placing, cancel, missedChain>>
      BY <1>7 DEF FoldUnref, FoldReleased, bookVars, missedVars
    <2>3. q \in Requests /\ driver[w].pc \notin Folding /\ Busy(w, q)
      BY <2>0, <2>1, DriverNow DEF Folding, Filing, Busy
    <2>4. /\ \A r \in Requests \ {q} : ~Busy(w, r) /\ ~Busy(w, r)' /\ ~Finishing(w, r)
          /\ \A v \in Workers, r \in Requests : v # w => /\ Busy(v, r)' <=> Busy(v, r)
                                                         /\ Finishing(v, r)' <=> Finishing(v, r)
      BY <2>0, <2>1 DEF Busy, Finishing
    <2>5. \A r \in Requests : ChainMoves(r)
      <3>1. ~ChainDue(q)
        BY <2>3 DEF ChainDue
      <3>2. \A r \in Requests \ {q} : ChainDue(r) => ChainDue(r)'
        BY <2>1, <2>2, <2>4 DEF ChainDue
      <3>3. QED
        BY <2>2, <3>1, <3>2 DEF ChainMoves, Tracked, Unrecorded
    <2>6. \A r \in Requests \ {q} : RefsDue(r) => RefsDue(r)'
      BY <2>1, <2>2, <2>4 DEF RefsDue
    <2>7. CASE FoldUnref(w)
      <3>1. refs' = Drop(refs, q) /\ missedRefs' = Missed(missedRefs, q, Unheld(q))
        BY <2>0, <2>7 DEF FoldUnref
      <3>2. DOMAIN refs' = DOMAIN refs \ {q}
        BY <3>1, Zenon DEF Drop
      <3>3. \A r \in Requests : Unheld(r)' <=> Unheld(r)
        BY <2>2 DEF Unheld
      <3>4. \A r \in Requests : RefsMove(r)
        BY <2>6, <3>1, <3>2, <3>3 DEF RefsMove, Referred, Missed
      <3>5. QED
        BY <2>5, <3>4, BookKept
    <2>8. CASE FoldReleased(w)
      <3>1. driver[w].pc = "decr" /\ UNCHANGED <<refs, missedRefs>>
        BY <2>8 DEF FoldReleased, bookVars, missedVars
      <3>2. ~RefsDue(q)
        BY <2>3, <3>1 DEF RefsDue
      <3>3. \A r \in Requests : RefsMove(r)
        BY <2>2, <2>6, <3>1, <3>2 DEF RefsMove, Referred, Unheld
      <3>4. QED
        BY <2>5, <3>3, BookKept
    <2>9. QED
      BY <1>7, <2>7, <2>8
  <1>8. QED
    BY <1>2, <1>3, <1>4, <1>5, <1>6, <1>7 DEF Drive

LEMMA BookCancel ==
    ASSUME EngineInv, BookInv, NEW r \in Requests, Cancel(r)
    PROVE  BookInv'
  <1>1. /\ cancel \in [Requests -> {"none", "unchain", "unref", "drop", "done"}]
        /\ UNCHANGED <<placing, driver>>
    BY DEF EngineInv, EngineTypeOK, Cancel, CancelFind, CancelChain, CancelRefs, CancelDrop
  <1>2. /\ \A v \in Workers, q \in Requests : /\ Busy(v, q)' <=> Busy(v, q)
                                              /\ Finishing(v, q)' <=> Finishing(v, q)
        /\ \A q \in Requests : /\ Unrecorded(q)' <=> Unrecorded(q)
                               /\ Unheld(q)' <=> Unheld(q)
    BY <1>1 DEF Busy, Finishing, Unrecorded, Unheld
  <1>3. CASE CancelFind(r)
    <2>1. /\ cancel'[r] = "unchain" /\ cancel[r] = "none"
          /\ UNCHANGED <<chains, refs, live, missedVars>>
          /\ \A q \in Requests : q # r => cancel'[q] = cancel[q]
      BY <1>1, <1>3 DEF CancelFind, CancelStep, bookVars
    <2>2. \A q \in Requests : ChainMoves(q) /\ RefsMove(q)
      BY <1>1, <1>2, <2>1 DEF ChainMoves, RefsMove, Tracked, Referred, ChainDue, RefsDue, missedVars
    <2>3. QED
      BY <2>2, BookKept
  <1>4. CASE CancelChain(r)
    <2>1. /\ cancel'[r] = "unref" /\ cancel[r] = "unchain" /\ UNCHANGED <<refs, live, missedRefs>>
          /\ DOMAIN chains' = DOMAIN chains \ {r}
          /\ missedChain' = Missed(missedChain, r, Unrecorded(r))
          /\ \A q \in Requests : q # r => cancel'[q] = cancel[q]
      BY <1>1, <1>4, DropFacts DEF CancelChain, CancelStep
    <2>2. \A q \in Requests : RefsMove(q)
      BY <1>1, <1>2, <2>1 DEF RefsMove, Referred, RefsDue
    <2>3. \A q \in Requests \ {r} : ChainMoves(q)
      BY <1>1, <1>2, <2>1 DEF ChainMoves, Tracked, ChainDue, Missed
    <2>4. ChainMoves(r)
      BY <1>2, <2>1 DEF ChainMoves, Tracked, Missed
    <2>5. QED
      BY <2>2, <2>3, <2>4, BookKept
  <1>5. CASE CancelRefs(r)
    <2>1. /\ cancel[r] = "unref" /\ cancel'[r] = "drop" /\ UNCHANGED <<chains, live, missedChain>>
          /\ DOMAIN refs' = DOMAIN refs \ {r}
          /\ missedRefs' = Missed(missedRefs, r, Unheld(r))
          /\ \A q \in Requests : q # r => cancel'[q] = cancel[q]
      BY <1>1, <1>5, DropFacts DEF CancelRefs, CancelStep
    <2>2. \A q \in Requests : ChainMoves(q)
      BY <1>1, <1>2, <2>1 DEF ChainMoves, Tracked, ChainDue
    <2>3. \A q \in Requests \ {r} : RefsMove(q)
      BY <1>1, <1>2, <2>1 DEF RefsMove, Referred, RefsDue, Missed
    <2>4. RefsMove(r)
      BY <1>2, <2>1 DEF RefsMove, Referred, Missed
    <2>5. QED
      BY <2>2, <2>3, <2>4, BookKept
  <1>6. CASE CancelDrop(r)
    <2>1. /\ cancel[r] = "drop" /\ UNCHANGED <<chains, refs, missedVars>>
          /\ DOMAIN live' = DOMAIN live \ {r}
          /\ \A q \in Requests : q # r => cancel'[q] = cancel[q]
      BY <1>1, <1>6, DropFacts DEF CancelDrop, CancelStep, bookVars
    <2>2. ~ChainDue(r) /\ ~RefsDue(r)
      BY <2>1 DEF ChainDue, RefsDue
    <2>3. \A q \in Requests \ {r} : /\ ChainDue(q) => ChainDue(q)'
                                    /\ RefsDue(q) => RefsDue(q)'
      BY <1>1, <1>2, <2>1 DEF ChainDue, RefsDue
    <2>4. \A q \in Requests : ChainMoves(q) /\ RefsMove(q)
      BY <1>2, <2>1, <2>2, <2>3 DEF ChainMoves, RefsMove, Tracked, Referred, missedVars
    <2>5. QED
      BY <2>4, BookKept
  <1>7. QED
    BY <1>3, <1>4, <1>5, <1>6 DEF Cancel

LEMMA BookStep == EngineInv /\ BookInv /\ [EngineNext]_engineVars => BookInv'
  <1> SUFFICES ASSUME EngineInv, BookInv, [EngineNext]_engineVars
               PROVE  BookInv'
    OBVIOUS
  <1>1. CASE EngineNext
    BY <1>1, BookPlace, BookDrive, BookCancel DEF EngineNext
  <1>2. CASE UNCHANGED engineVars
    BY <1>2 DEF engineVars, bookVars, threadVars, missedVars, BookInv, Tracked, Referred,
                Unrecorded, Unheld, ChainDue, RefsDue, Busy, Finishing
  <1>3. QED
    BY <1>1, <1>2

\* A request that is off its worker and that no thread attends to has left its chain,
\* or its references, behind exactly when the last removal of them overtook
\* place_tokens: whatever order its last fold, a cancellation, the failed steps and
\* place_tokens touch the two maps in.
THEOREM BookkeepingFollows == EngineSpec => []BookkeepingFollowsRequest
  <1>1. EngineInit => BookInv
    BY DEF EngineInit, BookInv, Tracked, Referred, Unrecorded, Unheld, NotPlacing
  <1>2. BookInv => BookkeepingFollowsRequest
    <2> SUFFICES ASSUME BookInv, NEW r \in Requests, r \notin DOMAIN live, ~Attended(r)
                 PROVE  /\ r \in DOMAIN chains <=> r \in missedChain
                        /\ r \in DOMAIN refs <=> r \in missedRefs
      BY DEF BookkeepingFollowsRequest
    <2>1. ~Unrecorded(r) /\ ~Unheld(r)
      BY DEF Attended, Unrecorded, Unheld
    <2>2. ~ChainDue(r) /\ ~RefsDue(r)
      BY DEF Attended, ChainDue, RefsDue, Finishing, Busy
    <2>3. QED
      BY <2>1, <2>2 DEF BookInv, Tracked, Referred
  <1>3. QED
    BY <1>1, <1>2, BookStep, EngineInvariant, PTL DEF EngineSpec

-----------------------------------------------------------------------------
(* References and their holders.                                           *)

\* The nodes a chain refers to are the prefixes of it.
LEMMA ChainOfName ==
    ASSUME NEW n \in Names \ {<< >>}, NEW c \in Names
    PROVE  n \in Tree!ChainNames(c) <=> IsPrefix(n, c)
  <1>1. /\ n \in Seq([1 .. BlockSize -> Tokens]) /\ Len(n) \in Nat \ {0}
        /\ c \in Seq([1 .. BlockSize -> Tokens]) /\ Len(c) \in Nat
    BY DEF Names
  <1>2. SubSeq(n, 1, Len(n)) = n
    BY <1>1
  <1>3. ASSUME NEW i \in 1 .. Len(c), n = SubSeq(c, 1, i) PROVE IsPrefix(n, c)
    <2>1. i \in 0 .. Len(c)
      BY <1>1
    <2>2. Len(n) = i
      BY <1>1, <1>3, <2>1, Beginning
    <2>3. QED
      BY <1>1, <1>2, <1>3, <2>2 DEF IsPrefix
  <1>4. ASSUME IsPrefix(n, c) PROVE n \in Tree!ChainNames(c)
    <2>1. Len(n) \in 1 .. Len(c) /\ n = SubSeq(c, 1, Len(n))
      BY <1>1, <1>2, <1>4 DEF IsPrefix
    <2>2. QED
      BY <2>1 DEF Tree!ChainNames, Tree!NameAt
  <1>5. QED
    BY <1>3, <1>4 DEF Tree!ChainNames, Tree!NameAt

LEMMA HolderIs ==
    ASSUME NEW r \in Requests, NEW n
    PROVE  /\ r \in Holders(n) <=>
                  \/ r \in DOMAIN refs /\ IsPrefix(n, refs[r])
                  \/ placing.pc = "hold" /\ placing.r = r /\ IsPrefix(n, placing.held)
                  \/ \E w \in Workers : driver[w].pc = "decr" /\ driver[w].r = r
                                        /\ IsPrefix(n, driver[w].held)
           /\ r \in Holders(n)' <=>
                  \/ r \in DOMAIN refs' /\ IsPrefix(n, refs'[r])
                  \/ placing'.pc = "hold" /\ placing'.r = r /\ IsPrefix(n, placing'.held)
                  \/ \E w \in Workers : driver'[w].pc = "decr" /\ driver'[w].r = r
                                        /\ IsPrefix(n, driver'[w].held)
  BY DEF Holders

\* Every holder was handed an id, so they are finitely many.
LEMMA HoldersFinite ==
    ASSUME EngineInv, NEW n
    PROVE  Holders(n) \subseteq Requests /\ IsFiniteSet(Holders(n)) /\ Cardinality(Holders(n)) \in Nat
  <1>1. Holders(n) \subseteq Requests
    BY DEF Holders, EngineInv, EngineTypeOK
  <1>2. Holders(n) \subseteq issued
    <2> SUFFICES ASSUME NEW r \in Holders(n) PROVE r \in issued
      OBVIOUS
    <2>1. r \in Requests
      BY <1>1
    <2>2. CASE placing.pc = "hold" /\ placing.r = r
      BY <2>2 DEF EngineInv, Ownership
    <2>3. CASE r \in DOMAIN refs \/ \E w \in Workers : driver[w].pc = "decr" /\ driver[w].r = r
      <3>1. Known(r)
        BY <2>3 DEF Known, Busy
      <3>2. QED
        BY <2>1, <3>1 DEF EngineInv, Ownership
    <2>4. QED
      BY <2>1, <2>2, <2>3, HolderIs
  <1>3. IsFiniteSet(Holders(n))
    BY <1>2, FS_Subset DEF EngineInv, Ownership
  <1>4. QED
    BY <1>1, <1>3, FS_CardinalityType

LEMMA HoldersNext ==
    ASSUME EngineInv', NEW n
    PROVE  /\ Holders(n)' \subseteq Requests /\ IsFiniteSet(Holders(n)')
           /\ Cardinality(Holders(n)') \in Nat
  <1>1. Holders(n)' \subseteq Requests
    BY DEF Holders, EngineInv, EngineTypeOK
  <1>2. Holders(n)' \subseteq issued'
    <2> SUFFICES ASSUME NEW r \in Holders(n)' PROVE r \in issued'
      OBVIOUS
    <2>1. r \in Requests
      BY <1>1
    <2>2. CASE placing'.pc = "hold" /\ placing'.r = r
      BY <2>2 DEF EngineInv, Ownership
    <2>3. CASE r \in DOMAIN refs' \/ \E w \in Workers : driver'[w].pc = "decr" /\ driver'[w].r = r
      <3>1. Known(r)'
        BY <2>3 DEF Known, Busy
      <3>2. QED
        BY <2>1, <3>1 DEF EngineInv, Ownership
    <2>4. QED
      BY <2>1, <2>2, <2>3, HolderIs
  <1>3. IsFiniteSet(Holders(n)')
    BY <1>2, FS_Subset DEF EngineInv, Ownership
  <1>4. QED
    BY <1>1, <1>3, FS_CardinalityType

LEMMA HoldersKept ==
    ASSUME EngineInv,
           \A r \in DOMAIN refs : r \in DOMAIN refs' /\ refs'[r] = refs[r],
           placing.pc = "hold" => placing' = placing,
           \A w \in Workers : driver[w].pc = "decr" => driver'[w] = driver[w],
           NEW n
    PROVE  Holders(n) \subseteq Holders(n)'
  <1>1. Holders(n) \subseteq Requests
    BY HoldersFinite
  <1>2. QED
    BY <1>1, HolderIs

\* A step that counts no reference more and takes no holder away.
LEMMA CountKept ==
    ASSUME EngineInv, EngineInv', RefsWithinHolders,
           \A n \in DOMAIN nodes' : \/ nodes'[n].refs = 0
                                    \/ /\ n \in DOMAIN nodes
                                       /\ nodes'[n].refs = nodes[n].refs
                                       /\ Holders(n) \subseteq Holders(n)'
    PROVE  RefsWithinHolders'
  <1> SUFFICES ASSUME NEW n \in DOMAIN nodes' PROVE nodes'[n].refs <= Cardinality(Holders(n)')
    BY DEF RefsWithinHolders
  <1>1. Cardinality(Holders(n)) \in Nat /\ Cardinality(Holders(n)') \in Nat
    BY HoldersFinite, HoldersNext
  <1>2. CASE nodes'[n].refs = 0
    BY <1>1, <1>2
  <1>3. CASE n \in DOMAIN nodes /\ nodes'[n].refs = nodes[n].refs /\ Holders(n) \subseteq Holders(n)'
    <2>1. Cardinality(Holders(n)) <= Cardinality(Holders(n)')
      BY <1>3, HoldersNext, FS_Subset
    <2>2. nodes[n].refs <= Cardinality(Holders(n)) /\ nodes[n].refs \in Nat
      BY <1>3, TreeFields DEF RefsWithinHolders, EngineInv, TreeOK, Tree!Node
    <2>3. QED
      BY <1>1, <1>3, <2>1, <2>2
  <1>4. QED
    BY <1>2, <1>3

\* The release of a chain by its holder r.
LEMMA CountReleased ==
    ASSUME EngineInv, EngineInv', RefsWithinHolders, NEW r, NEW c \in Names, Tree!DecrRefChain(c),
           \A n : Holders(n) \ {r} \subseteq Holders(n)',
           \A n : ~IsPrefix(n, c) => Holders(n) \subseteq Holders(n)'
    PROVE  RefsWithinHolders'
  <1>1. DOMAIN nodes' = DOMAIN nodes
        /\ \A n \in DOMAIN nodes : nodes'[n] = IF n \in Tree!ChainNames(c)
                                               THEN Tree!Released(nodes[n], clock + 1) ELSE nodes[n]
    BY DEF Tree!DecrRefChain
  <1> SUFFICES ASSUME NEW n \in DOMAIN nodes PROVE nodes'[n].refs <= Cardinality(Holders(n)')
    BY <1>1 DEF RefsWithinHolders
  <1>2. /\ IsFiniteSet(Holders(n)) /\ IsFiniteSet(Holders(n)')
        /\ Cardinality(Holders(n)) \in Nat /\ Cardinality(Holders(n)') \in Nat
    BY HoldersFinite, HoldersNext
  <1>3. /\ nodes[n].refs \in Nat /\ nodes[n].refs <= Cardinality(Holders(n))
        /\ n \in Names \ {<< >>}
    BY TreeFields DEF RefsWithinHolders, EngineInv, TreeOK, Tree!Node
  <1>4. CASE n \in Tree!ChainNames(c)
    <2>1. nodes'[n].refs = IF nodes[n].refs = 0 THEN 0 ELSE nodes[n].refs - 1
      BY <1>1, <1>4 DEF Tree!Released
    <2>2. Cardinality(Holders(n)) - 1 <= Cardinality(Holders(n) \ {r})
          /\ Cardinality(Holders(n) \ {r}) <= Cardinality(Holders(n)')
          /\ Cardinality(Holders(n) \ {r}) \in Nat
      <3>1. /\ IsFiniteSet(Holders(n) \ {r})
            /\ Cardinality(Holders(n) \ {r}) =
                   IF r \in Holders(n) THEN Cardinality(Holders(n)) - 1 ELSE Cardinality(Holders(n))
        BY <1>2, FS_RemoveElement
      <3>2. Cardinality(Holders(n) \ {r}) <= Cardinality(Holders(n)')
        BY <1>2, FS_Subset
      <3>3. Cardinality(Holders(n) \ {r}) \in Nat
        BY <3>1, FS_CardinalityType
      <3>4. QED
        BY <1>2, <3>1, <3>2, <3>3
    <2>3. QED
      BY <1>2, <1>3, <2>1, <2>2
  <1>5. CASE n \notin Tree!ChainNames(c)
    <2>1. Holders(n) \subseteq Holders(n)' /\ nodes'[n] = nodes[n]
      BY <1>1, <1>3, <1>5, ChainOfName
    <2>2. Cardinality(Holders(n)) <= Cardinality(Holders(n)')
      BY <1>2, <2>1, FS_Subset
    <2>3. QED
      BY <1>2, <1>3, <2>1, <2>2
  <1>6. QED
    BY <1>4, <1>5

LEMMA CountPlace ==
    ASSUME EngineInv, EngineInv', RefsWithinHolders, Place
    PROVE  RefsWithinHolders'
  <1>1. driver' = driver
    BY DEF Place, PlaceMatch, PlaceClaim, PlaceScore, PlaceRoute, PlaceAdmit, PlaceIncr, PlaceRefs,
           PlaceChain
  <1>2. CASE \/ \E r \in Requests, prompt \in Prompts, kind \in Kinds, max \in MaxOutputs :
                   PlaceMatch(r, prompt, kind, max)
             \/ PlaceClaim \/ PlaceScore \/ PlaceRoute \/ PlaceAdmit \/ PlaceChain
    <2>1. placing.pc # "hold" /\ nodes' = nodes /\ refs' = refs
      BY <1>2 DEF PlaceMatch, PlaceClaim, PlaceScore, PlaceRoute, PlaceAdmit, PlaceChain, treeVars,
                  bookVars
    <2>2. \A n : Holders(n) \subseteq Holders(n)'
      BY <1>1, <2>1, HoldersKept
    <2>3. QED
      BY <2>1, <2>2, CountKept
  <1>3. CASE PlaceIncr
    <2> DEFINE q == placing.r
               c == placing.held
    <2>1. /\ placing.pc = "incr" /\ Tree!IncrRefChain(c) /\ placing' = [placing EXCEPT !.pc = "hold"]
          /\ UNCHANGED <<refs, driver>> /\ q \in Requests /\ c \in Names
      BY <1>3, PlacingShape DEF PlaceIncr, bookVars, EngineInv, EngineTypeOK
    <2>2. placing'.pc = "hold" /\ placing'.r = q /\ placing'.held = c
      BY <2>1 DEF PlacingState, EngineInv, EngineTypeOK
    <2>3. q \notin DOMAIN refs /\ \A w \in Workers : driver[w].pc = "decr" => driver[w].r # q
      BY <2>1 DEF EngineInv, Ownership
    <2>4. \A n : Holders(n) \subseteq Holders(n)'
      BY <2>1, HoldersKept
    <2>5. \A n : q \notin Holders(n)
      BY <2>1, <2>3, HolderIs
    <2> HIDE DEF q, c
    <2>6. \A n : IsPrefix(n, c) => q \in Holders(n)'
      BY <2>1, <2>2, HolderIs
    <2>7. DOMAIN nodes' = DOMAIN nodes
          /\ \A n \in DOMAIN nodes : nodes'[n] = IF n \in Tree!ChainNames(c)
                                                 THEN [nodes[n] EXCEPT !.refs = nodes[n].refs + 1]
                                                 ELSE nodes[n]
      BY <2>1 DEF Tree!IncrRefChain
    <2> SUFFICES ASSUME NEW n \in DOMAIN nodes PROVE nodes'[n].refs <= Cardinality(Holders(n)')
      BY <2>7 DEF RefsWithinHolders
    <2>8. /\ nodes[n] \in Tree!Node /\ nodes[n].refs <= Cardinality(Holders(n))
          /\ n \in Names \ {<< >>}
      BY TreeFields DEF RefsWithinHolders, EngineInv, TreeOK
    <2>9. /\ IsFiniteSet(Holders(n)) /\ IsFiniteSet(Holders(n)')
          /\ Cardinality(Holders(n)) \in Nat /\ Cardinality(Holders(n)') \in Nat
      BY HoldersFinite, HoldersNext
    <2>10. CASE n \in Tree!ChainNames(c)
      <3>1. nodes'[n].refs = nodes[n].refs + 1 /\ nodes[n].refs \in Nat
        BY <2>7, <2>8, <2>10 DEF Tree!Node
      <3>2. Holders(n) \cup {q} \subseteq Holders(n)'
        BY <2>1, <2>4, <2>6, <2>8, <2>10, ChainOfName
      <3>3. Cardinality(Holders(n) \cup {q}) = Cardinality(Holders(n)) + 1
        BY <2>5, <2>9, FS_AddElement
      <3>4. Cardinality(Holders(n) \cup {q}) <= Cardinality(Holders(n)')
        BY <2>9, <3>2, FS_Subset
      <3>5. QED
        BY <2>8, <2>9, <3>1, <3>3, <3>4
    <2>11. CASE n \notin Tree!ChainNames(c)
      <3>1. nodes'[n] = nodes[n] /\ nodes[n].refs \in Nat
        BY <2>7, <2>8, <2>11 DEF Tree!Node
      <3>2. Cardinality(Holders(n)) <= Cardinality(Holders(n)')
        BY <2>4, <2>9, FS_Subset
      <3>3. QED
        BY <2>8, <2>9, <3>1, <3>2
    <2>12. QED
      BY <2>10, <2>11
  <1>4. CASE PlaceRefs
    <2> DEFINE q == placing.r
               c == placing.held
    <2>1. placing.pc = "hold" /\ refs' = Put(refs, q, c) /\ nodes' = nodes
      BY <1>4 DEF PlaceRefs, treeVars
    <2>2. q \notin DOMAIN refs
      BY <2>1 DEF EngineInv, Ownership
    <2>3. DOMAIN refs' = DOMAIN refs \cup {q} /\ refs'[q] = c
          /\ \A r \in DOMAIN refs : r # q => refs'[r] = refs[r]
      BY <2>1, Zenon DEF Put
    <2>4. \A n : Holders(n) \subseteq Holders(n)'
      <3> SUFFICES ASSUME NEW n, NEW r \in Holders(n) PROVE r \in Holders(n)'
        OBVIOUS
      <3>1. r \in Requests
        BY HoldersFinite
      <3>2. QED
        BY <1>1, <2>1, <2>2, <2>3, <3>1, HolderIs
    <2>5. QED
      BY <2>1, <2>4, CountKept
  <1>5. QED
    BY <1>2, <1>3, <1>4 DEF Place

LEMMA CountDrive ==
    ASSUME EngineInv, EngineInv', RefsWithinHolders, NEW w \in Workers, Drive(w)
    PROVE  RefsWithinHolders'
  <1>1. driver \in [Workers -> DriverState] /\ driver[w] \in DriverState
    BY DEF EngineInv, EngineTypeOK
  <1>2. ASSUME driver[w].pc # "decr", \A v \in Workers : v # w => driver'[v] = driver[v],
               UNCHANGED <<refs, placing>>
        PROVE  \A n : Holders(n) \subseteq Holders(n)'
    BY <1>2, HoldersKept
  <1>3. ASSUME NEW r \in Requests, StepDevice(w, r) \/ StepFails(w, r) PROVE RefsWithinHolders'
    <2>1. /\ nodes' = nodes /\ UNCHANGED <<refs, placing>> /\ driver[w].pc = "idle"
          /\ \A v \in Workers : v # w => driver'[v] = driver[v]
      BY <1>1, <1>3 DEF StepDevice, StepFails, treeVars, bookVars, threadVars
    <2>2. QED
      BY <1>2, <2>1, CountKept
  <1>4. CASE ExtendChain(w)
    <2>1. nodes' = nodes /\ UNCHANGED <<refs, placing>>
      BY <1>4 DEF ExtendChain, treeVars
    <2>2. driver[w].pc # "decr" /\ \A v \in Workers : v # w => driver'[v] = driver[v]
      BY <1>4, FoldStep
    <2>3. QED
      BY <1>2, <2>1, <2>2, CountKept
  <1>5. CASE \/ InstallName(w) \/ Reclaim(w) \/ InsertPrefix(w) \/ Publish(w)
             \/ MeasureExcess(w) \/ EvictExcess(w) \/ EvictLoop(w) \/ ForgetEvicted(w)
    <2>1. /\ driver[w].pc # "decr" /\ UNCHANGED <<refs, placing>>
          /\ \A v \in Workers : v # w => driver'[v] = driver[v]
      BY <1>5, FilingStep DEF Filing
    <2>2. \A n \in DOMAIN nodes' : \/ nodes'[n].refs = 0
                                   \/ n \in DOMAIN nodes /\ nodes'[n].refs = nodes[n].refs
      <3>1. CASE InsertPrefix(w)
        <4>1. Tree!Insert(driver[w].name, {Len(driver[w].name)})
          BY <3>1 DEF InsertPrefix
        <4>2. QED
          BY <4>1 DEF Tree!Insert, Tree!FreshNode
      <3>2. CASE EvictLoop(w)
        BY <3>2 DEF EvictLoop, Tree!EvictOne, Tree!EvictStop
      <3>3. CASE \/ InstallName(w) \/ Reclaim(w) \/ Publish(w) \/ MeasureExcess(w)
                 \/ EvictExcess(w) \/ ForgetEvicted(w)
        BY <3>3 DEF InstallName, Reclaim, Publish, MeasureExcess, EvictExcess, ForgetEvicted, treeVars,
                    Tree!EvictBegin
      <3>4. QED
        BY <1>5, <3>1, <3>2, <3>3
    <2>3. QED
      BY <1>2, <2>1, <2>2, CountKept
  <1>6. CASE FoldCompleted(w)
    <2>1. nodes' = nodes /\ UNCHANGED <<refs, placing>>
      BY <1>6 DEF FoldCompleted, treeVars
    <2>2. driver[w].pc # "decr" /\ \A v \in Workers : v # w => driver'[v] = driver[v]
      BY <1>6, FoldStep
    <2>3. QED
      BY <1>2, <2>1, <2>2, CountKept
  <1>7. CASE FoldUnref(w)
    <2>0. PICK q : q = driver[w].r
      OBVIOUS
    <2>1. /\ nodes' = nodes /\ placing' = placing /\ refs' = Drop(refs, q)
      BY <1>7, <2>0 DEF FoldUnref, treeVars
    <2>2. /\ driver[w].pc = "unref" /\ \A v \in Workers : v # w => driver'[v] = driver[v]
          /\ q \in DOMAIN refs => driver'[w] = [pc |-> "decr", r |-> q, held |-> refs[q]]
      BY <1>7, <2>0, FoldStep
    <2>3. q \in DOMAIN refs => /\ driver'[w].pc = "decr" /\ driver'[w].r = q
                               /\ driver'[w].held = refs[q]
      BY <2>2
    <2>4. DOMAIN refs' = DOMAIN refs \ {q} /\ \A r \in DOMAIN refs' : refs'[r] = refs[r]
      BY <2>1, Zenon DEF Drop
    <2>5. \A n : Holders(n) \subseteq Holders(n)'
      <3> SUFFICES ASSUME NEW n, NEW r \in Holders(n) PROVE r \in Holders(n)'
        OBVIOUS
      <3>1. r \in Requests
        BY HoldersFinite
      <3>2. CASE r \in DOMAIN refs /\ IsPrefix(n, refs[r])
        <4>1. CASE r = q
          BY <2>3, <3>1, <3>2, <4>1, HolderIs
        <4>2. CASE r # q
          BY <2>4, <3>1, <3>2, <4>2, HolderIs
        <4>3. QED
          BY <4>1, <4>2
      <3>3. CASE placing.pc = "hold" /\ placing.r = r /\ IsPrefix(n, placing.held)
        BY <2>1, <3>1, <3>3, HolderIs
      <3>4. CASE \E v \in Workers : driver[v].pc = "decr" /\ driver[v].r = r
                                    /\ IsPrefix(n, driver[v].held)
        BY <2>2, <3>1, <3>4, HolderIs
      <3>5. QED
        BY <3>1, <3>2, <3>3, <3>4, HolderIs
    <2>6. QED
      BY <2>1, <2>5, CountKept
  <1>8. CASE FoldReleased(w)
    <2>0. PICK q, c : q = driver[w].r /\ c = driver[w].held
      OBVIOUS
    <2>1. /\ driver[w].pc = "decr" /\ Tree!DecrRefChain(c) /\ UNCHANGED <<refs, placing>>
          /\ \A v \in Workers : v # w => driver'[v] = driver[v]
      BY <1>8, <2>0, FoldStep DEF FoldReleased, bookVars
    <2>2. /\ c \in Names /\ q \notin DOMAIN refs
          /\ (placing.pc \in {"incr", "hold"} => q # placing.r)
          /\ \A v \in Workers : driver[v].pc = "decr" /\ driver[v].r = q => v = w
      <3>1. q \in Requests /\ c \in Names
        BY <1>1, <2>0, <2>1, DriverNow, DriverShape
      <3>2. QED
        BY <2>0, <2>1, <3>1 DEF EngineInv, Ownership, Busy
    <2>3. \A n, r : r \in Holders(n) => r \in Holders(n)' \/ (r = q /\ IsPrefix(n, c))
      <3> SUFFICES ASSUME NEW n, NEW r \in Holders(n), ~(r = q /\ IsPrefix(n, c))
                   PROVE  r \in Holders(n)'
        OBVIOUS
      <3>1. r \in Requests
        BY HoldersFinite
      <3>2. CASE \/ r \in DOMAIN refs /\ IsPrefix(n, refs[r])
                 \/ placing.pc = "hold" /\ placing.r = r /\ IsPrefix(n, placing.held)
        BY <2>1, <3>1, <3>2, HolderIs
      <3>3. ASSUME NEW v \in Workers, driver[v].pc = "decr", driver[v].r = r,
                   IsPrefix(n, driver[v].held)
            PROVE  r \in Holders(n)'
        <4>1. v # w
          BY <2>0, <3>3
        <4>2. driver'[v] = driver[v]
          BY <2>1, <4>1
        <4>3. QED
          BY <3>1, <3>3, <4>2, HolderIs
      <3>4. QED
        BY <3>1, <3>2, <3>3, HolderIs
    <2>4. QED
      BY <2>1, <2>2, <2>3, CountReleased
  <1>9. QED
    BY <1>3, <1>4, <1>5, <1>6, <1>7, <1>8 DEF Drive

LEMMA CountCancel ==
    ASSUME EngineInv, EngineInv', RefsWithinHolders, NEW r \in Requests, Cancel(r)
    PROVE  RefsWithinHolders'
  <1>1. UNCHANGED <<placing, driver>>
    BY DEF Cancel, CancelFind, CancelChain, CancelRefs, CancelDrop
  <1>2. CASE UNCHANGED <<nodes, refs>>
    <2>1. \A n : Holders(n) \subseteq Holders(n)'
      BY <1>1, <1>2, HoldersKept
    <2>2. QED
      BY <1>2, <2>1, CountKept
  <1>3. CASE CancelRefs(r) /\ r \in DOMAIN refs
    <2> DEFINE c == refs[r]
    <2>1. Tree!DecrRefChain(c) /\ refs' = Drop(refs, r) /\ c \in Names
      BY <1>3 DEF CancelRefs, EngineInv, EngineTypeOK
    <2>2. DOMAIN refs' = DOMAIN refs \ {r} /\ \A q \in DOMAIN refs' : refs'[q] = refs[q]
      BY <2>1, Zenon DEF Drop
    <2>3. /\ placing.pc = "hold" => placing.r # r
          /\ \A w \in Workers : driver[w].pc = "decr" => driver[w].r # r
      BY <1>3 DEF EngineInv, Ownership
    <2>4. \A n, q : q \in Holders(n) => q \in Holders(n)' \/ (q = r /\ IsPrefix(n, c))
      <3> SUFFICES ASSUME NEW n, NEW q \in Holders(n), ~(q = r /\ IsPrefix(n, c))
                   PROVE  q \in Holders(n)'
        OBVIOUS
      <3>1. q \in Requests
        BY HoldersFinite
      <3>2. CASE q = r
        BY <2>3, <3>1, <3>2, HolderIs
      <3>3. CASE q # r
        BY <1>1, <2>2, <3>1, <3>3, HolderIs
      <3>4. QED
        BY <3>2, <3>3
    <2> HIDE DEF c
    <2>5. QED
      BY <2>1, <2>4, CountReleased
  <1>4. QED
    BY <1>2, <1>3 DEF Cancel, CancelFind, CancelChain, CancelRefs, CancelDrop, treeVars, bookVars

LEMMA CountStep == EngineInv /\ EngineInv' /\ RefsWithinHolders /\ [EngineNext]_engineVars
                       => RefsWithinHolders'
  <1> SUFFICES ASSUME EngineInv, EngineInv', RefsWithinHolders, [EngineNext]_engineVars
               PROVE  RefsWithinHolders'
    OBVIOUS
  <1>1. CASE EngineNext
    BY <1>1, CountPlace, CountDrive, CountCancel DEF EngineNext
  <1>2. CASE UNCHANGED engineVars
    <2>1. UNCHANGED <<nodes, refs, placing, driver>>
      BY <1>2 DEF engineVars, treeVars, bookVars, threadVars
    <2>2. \A n : Holders(n) \subseteq Holders(n)'
      BY <2>1, HoldersKept
    <2>3. QED
      BY <2>1, <2>2, CountKept
  <1>3. QED
    BY <1>1, <1>2

\* Whichever way incr_ref_chain, request_refs and decr_ref_chain interleave between
\* placements, folds and cancellations, a node's ref_count never exceeds the requests that
\* hold it: a node nobody holds counts none and can be evicted.
THEOREM RefsAreHeld == EngineSpec => []RefsWithinHolders
  <1>1. EngineInit => RefsWithinHolders
    BY DEF EngineInit, RefsWithinHolders, Tree!TreeInit
  <1>2. QED
    BY <1>1, CountStep, EngineInvariant, PTL DEF EngineSpec

-----------------------------------------------------------------------------
(* What a recorded token says.                                             *)

\* Where an entry of the snapshot map comes from.
LEMMA SharedStep ==
    ASSUME EngineInv, NEW w \in Workers,
           \/ InstallName(w) \/ Reclaim(w) \/ InsertPrefix(w) \/ Publish(w)
           \/ MeasureExcess(w) \/ EvictExcess(w) \/ EvictLoop(w) \/ ForgetEvicted(w),
           NEW n \in DOMAIN shared'
    PROVE  \/ n \in DOMAIN shared /\ shared'[n] = shared[n]
           \/ /\ driver[w].pc = "publish" /\ n = driver[w].name
              /\ shared'[n].tokens = driver[w].kept[1].tokens
              /\ shared'[n].next = driver[w].kept[1].next
              /\ shared'[n].by = driver[w].r
  <1>1. CASE Publish(w)
    <2> DEFINE entry == [worker |-> w, tokens |-> driver[w].kept[1].tokens,
                         next |-> driver[w].kept[1].next, by |-> driver[w].r]
    <2>1. driver[w].pc = "publish" /\ shared' = Put(shared, driver[w].name, entry)
      BY <1>1 DEF Publish
    <2>2. /\ entry.tokens = driver[w].kept[1].tokens
          /\ entry.next = driver[w].kept[1].next
          /\ entry.by = driver[w].r
      OBVIOUS
    <2> HIDE DEF entry
    <2>3. DOMAIN shared' = DOMAIN shared \cup {driver[w].name}
          /\ shared'[n] = IF n = driver[w].name THEN entry ELSE shared[n]
      BY <2>1, Zenon DEF Put
    <2>4. QED
      BY <2>1, <2>2, <2>3
  <1>2. CASE Reclaim(w) \/ ForgetEvicted(w)
    <2>1. PICK gone : shared' = [m \in DOMAIN shared \ gone |-> shared[m]]
      BY <1>2 DEF Reclaim, ForgetEvicted
    <2>2. QED
      BY <2>1
  <1>3. CASE \/ InstallName(w) \/ InsertPrefix(w) \/ MeasureExcess(w) \/ EvictExcess(w)
             \/ EvictLoop(w)
    BY <1>3 DEF InstallName, InsertPrefix, MeasureExcess, EvictExcess, EvictLoop, cacheVars
  <1>4. QED
    BY <1>1, <1>2, <1>3

\* The snapshots a filing driver has left are some of those it had.
LEMMA KeptStep ==
    ASSUME EngineInv, NEW w \in Workers,
           \/ InstallName(w) \/ Reclaim(w) \/ InsertPrefix(w) \/ Publish(w)
           \/ MeasureExcess(w) \/ EvictExcess(w) \/ EvictLoop(w) \/ ForgetEvicted(w),
           NEW i \in DOMAIN driver'[w].kept
    PROVE  \E j \in DOMAIN driver[w].kept : driver'[w].kept[i] = driver[w].kept[j]
  <1>1. /\ driver[w].pc \in {"install"} \cup Filing /\ driver[w].kept # << >>
        /\ driver'[w].kept = driver[w].kept \/ driver'[w] = Next1(driver[w])
    BY FilingStep
  <1>2. CASE driver'[w].kept = driver[w].kept
    BY <1>2
  <1>3. CASE driver'[w] = Next1(driver[w])
    BY <1>1, <1>3, DriverNow, NextFits
  <1>4. QED
    BY <1>1, <1>2, <1>3

\* A device step: what it did to its request, and that it left the others alone.
LEMMA DeviceStep ==
    ASSUME EngineInv, NEW w \in Workers, NEW r \in Requests, StepDevice(w, r) \/ StepFails(w, r)
    PROVE  /\ r \in DOMAIN live /\ live[r] \in LiveSequence /\ LiveFits(live[r])
           /\ live[r].worker = w /\ driver[w].pc = "idle"
           /\ \E o \in Outcomes(live[r]), fed \in Seq(Tokens), kept \in Nat, t \in Picked :
                  /\ Stepped(live[r], o, fed, kept, t)
                  /\ \A q \in DOMAIN live' : \/ q = r /\ live'[q] = o.rec
                                             \/ q # r /\ q \in DOMAIN live /\ live'[q] = live[q]
                  /\ StepDevice(w, r) =>
                         /\ r \in DOMAIN live' => ~(o.rec.out >= o.rec.max)
                         /\ driver'[w].pc = "extend" /\ driver'[w].r = r
                         /\ driver'[w].kept = o.kept /\ driver'[w].gen = o.gen
                         /\ \A v \in Workers : v # w => driver'[v] = driver[v]
                  /\ StepFails(w, r) => driver' = driver
  <1>1. /\ r \in DOMAIN live /\ live[r].worker = w /\ driver[w].pc = "idle"
        /\ Len(live[r].fed) < MaxLen
    BY DEF StepDevice, StepFails
  <1>2. live[r] \in LiveSequence /\ LiveFits(live[r])
    BY <1>1 DEF EngineInv, EngineTypeOK, LengthsFit
  <1>3. CASE StepDevice(w, r)
    <2>1. PICK o \in Outcomes(live[r]) :
              /\ live' = IF o.rec.out >= o.rec.max THEN Drop(live, r) ELSE Put(live, r, o.rec)
              /\ driver' = [driver EXCEPT ![w] =
                               [pc |-> "extend", r |-> r, gen |-> o.gen, kept |-> o.kept,
                                done |-> o.rec.out >= o.rec.max]]
      BY <1>3 DEF StepDevice
    <2>2. PICK fed \in Seq(Tokens), kept \in Nat, t \in Picked : Stepped(live[r], o, fed, kept, t)
      BY <1>1, <1>2, StepOutcome
    <2>3. /\ driver'[w].pc = "extend" /\ driver'[w].r = r
          /\ driver'[w].kept = o.kept /\ driver'[w].gen = o.gen
          /\ \A v \in Workers : v # w => driver'[v] = driver[v]
      BY <2>1 DEF EngineInv, EngineTypeOK
    <2>4. \A q \in DOMAIN live' : \/ q = r /\ live'[q] = o.rec
                                  \/ q # r /\ q \in DOMAIN live /\ live'[q] = live[q]
      <3>1. CASE live' = Drop(live, r)
        BY <3>1, Zenon DEF Drop
      <3>2. CASE live' = Put(live, r, o.rec)
        BY <3>2, Zenon DEF Put
      <3>3. QED
        BY <2>1, <3>1, <3>2
    <2>5. ~StepFails(w, r) \/ driver' = driver
      BY DEF StepFails, threadVars
    <2>6. r \in DOMAIN live' => ~(o.rec.out >= o.rec.max)
      BY <2>1, Zenon DEF Drop
    <2>7. QED
      BY <1>1, <1>2, <2>2, <2>3, <2>4, <2>5, <2>6
  <1>4. CASE StepFails(w, r) /\ ~StepDevice(w, r)
    <2>1. PICK o \in Outcomes(live[r]) : live' = Put(live, r, o.rec)
      BY <1>4 DEF StepFails
    <2>2. PICK fed \in Seq(Tokens), kept \in Nat, t \in Picked : Stepped(live[r], o, fed, kept, t)
      BY <1>1, <1>2, StepOutcome
    <2>3. driver' = driver
      BY <1>4 DEF StepFails, threadVars
    <2>4. \A q \in DOMAIN live' : \/ q = r /\ live'[q] = o.rec
                                  \/ q # r /\ q \in DOMAIN live /\ live'[q] = live[q]
      BY <2>1, Zenon DEF Put
    <2>5. QED
      BY <1>1, <1>2, <1>4, <2>2, <2>3, <2>4
  <1>5. QED
    BY <1>3, <1>4

\* The predictions a step records, and the one it leaves for a sequence without output.
LEMMA StepPredicts ==
    ASSUME NEW rec \in LiveSequence, LiveFits(rec), rec.out > 0 => rec.kind # "tool",
           NEW o, NEW fed \in Seq(Tokens), NEW kept \in Nat, NEW t \in Picked,
           Stepped(rec, o, fed, kept, t),
           rec.out = 0 /\ Len(rec.fed) = Len(rec.prompt) => rec.next = Argmax[rec.fed]
    PROVE  /\ \A i \in DOMAIN o.kept : Predicts(o.kept[i])
           /\ o.rec.out = 0 /\ Len(o.rec.fed) = Len(o.rec.prompt) => o.rec.next = Argmax[o.rec.fed]
  <1>1. /\ Len(rec.fed) \in Nat /\ Len(rec.prompt) \in Nat /\ Len(fed) \in Nat
        /\ rec.out \in Nat /\ rec.max \in Nat \ {0} /\ rec.kind \in {"greedy", "sampled", "tool"}
    <2>1. rec.prompt \in Prompts /\ rec.max \in MaxOutputs /\ rec.kind \in Kinds
          /\ Len(rec.fed) \in Nat /\ rec.out \in Nat /\ Len(fed) \in Nat
      BY DEF LiveSequence
    <2>2. rec.kind \in {"greedy", "sampled", "tool"}
      BY <2>1, CacheAssumption DEF CacheAssumption
    <2>3. Len(rec.prompt) \in Nat /\ rec.max \in Nat \ {0}
      BY <2>1, Geometry
    <2>4. QED
      BY <2>1, <2>2, <2>3
  <1>2. /\ o.rec.out = IF t = Eos THEN rec.max ELSE IF t = NoToken THEN rec.out ELSE rec.out + 1
        /\ o.rec.fed = fed /\ o.rec.prompt = rec.prompt /\ o.rec.next = t
        /\ \A i \in DOMAIN o.kept :
               \E position \in 1 .. Len(fed) :
                   /\ Len(rec.fed) < position
                   /\ o.kept[i].tokens = SubSeq(fed, 1, position)
                   /\ o.kept[i].next = Recorded(rec, fed, position, t)
    <2>1. kept \in Retentions(rec, Len(fed)) /\ o = Outcome(rec, fed, kept, t) /\ Len(fed) <= MaxLen
      BY DEF Stepped
    <2>2. /\ o.rec.prompt = rec.prompt /\ o.rec.fed = fed /\ o.rec.next = t
          /\ o.rec.out = IF t = Eos THEN rec.max ELSE IF t = NoToken THEN rec.out ELSE rec.out + 1
      BY <2>1, OutcomeTyped
    <2>3. \A i \in DOMAIN o.kept : Kept(rec, fed, t, o.kept[i])
      BY <2>1, OutcomeTyped
    <2>4. QED
      BY <2>2, <2>3, Zenon DEF Kept
  <1>3. o.rec.out = 0 => t = NoToken /\ rec.out = 0
    BY <1>1, <1>2
  <1>4. t = NoToken => rec.out = 0 /\ Len(fed) < Len(rec.prompt)
    BY DEF Stepped
  <1>5. ASSUME Len(fed) > Len(rec.fed), t # NoToken, rec.kind # "sampled" PROVE t = Argmax[fed]
    <2>1. fed # rec.fed
      BY <1>1, <1>5
    <2>2. CASE rec.out = 0
      BY <1>5, <2>1, <2>2 DEF Stepped
    <2>3. CASE rec.out # 0
      <3>1. rec.kind = "greedy"
        BY <1>1, <1>5, <2>3
      <3>2. QED
        BY <2>3, <3>1 DEF Stepped
    <2>4. QED
      BY <2>2, <2>3
  <1>6. ASSUME NEW i \in DOMAIN o.kept PROVE Predicts(o.kept[i])
    <2>1. PICK position \in 1 .. Len(fed) :
                   /\ Len(rec.fed) < position
                   /\ o.kept[i].tokens = SubSeq(fed, 1, position)
                   /\ o.kept[i].next = Recorded(rec, fed, position, t)
      BY <1>2
    <2>2. CASE position < Len(rec.prompt)
      BY <2>1, <2>2 DEF Recorded, Predicts
    <2>3. CASE position >= Len(rec.prompt) /\ (rec.kind = "sampled" \/ t = NoToken)
      <3>1. o.kept[i].next = NoToken
        BY <1>1, <2>1, <2>3 DEF Recorded
      <3>2. QED
        BY <3>1 DEF Predicts
    <2>4. CASE position >= Len(rec.prompt) /\ rec.kind # "sampled" /\ t # NoToken
      <3>1. o.kept[i].next = t
        BY <1>1, <2>1, <2>4 DEF Recorded
      <3>2. position = Len(fed)
        <4>1. CASE rec.out = 0
          <5>1. Len(fed) <= Len(rec.prompt)
            BY <4>1 DEF Stepped
          <5>2. QED
            BY <1>1, <2>4, <5>1
        <4>2. CASE rec.out # 0
          <5>1. Len(fed) = Len(rec.fed) + 1
            BY <4>2 DEF Stepped
          <5>2. QED
            BY <1>1, <2>1, <5>1
        <4>3. QED
          BY <4>1, <4>2
      <3>3. SubSeq(fed, 1, position) = fed
        BY <3>2
      <3>4. t = Argmax[fed]
        BY <1>1, <1>5, <2>1, <2>4, <3>2
      <3>5. QED
        BY <2>1, <3>1, <3>3, <3>4 DEF Predicts
    <2>5. QED
      BY <1>1, <2>2, <2>3, <2>4
  <1>7. QED
    BY <1>1, <1>2, <1>3, <1>4, <1>6

LEMMA PredictPlace ==
    ASSUME EngineInv, PredictInv, Place
    PROVE  PredictInv'
  <1>1. shared' = shared /\ driver' = driver
    BY DEF Place, PlaceMatch, PlaceClaim, PlaceScore, PlaceRoute, PlaceAdmit, PlaceIncr, PlaceRefs,
           PlaceChain, cacheVars
  <1>0. \A r \in Requests : Unmasked(r)' => Unmasked(r)
    BY PastGrows DEF EngineNext
  <1>10. /\ \A n \in DOMAIN shared : Unmasked(shared[n].by)' => Predicts(shared[n])
         /\ \A w \in Workers : driver[w].pc \in Folding /\ Unmasked(driver[w].r)' =>
                \A i \in DOMAIN driver[w].kept : Predicts(driver[w].kept[i])
    <2>1. \A n \in DOMAIN shared : shared[n].by \in Requests
      BY DEF EngineInv, EngineTypeOK, Published
    <2>2. \A w \in Workers : driver[w].pc \in Folding => driver[w].r \in Requests
      BY DriverNow DEF Folding, Filing
    <2>3. \A n \in DOMAIN shared : Unmasked(shared[n].by)' => Unmasked(shared[n].by)
      BY <1>0, <1>1, <2>1 DEF Unmasked
    <2>4. \A w \in Workers : driver[w].pc \in Folding /\ Unmasked(driver[w].r)' => Unmasked(driver[w].r)
      BY <1>0, <1>1, <2>2 DEF Unmasked
    <2>5. QED
      BY <2>3, <2>4 DEF PredictInv
  <1>11. \A q \in DOMAIN live : 
            live[q].out = 0 /\ Len(live[q].fed) = Len(live[q].prompt) /\ Unmasked(q)' =>
                live[q].next = Argmax[live[q].fed]
    BY <1>0 DEF EngineInv, EngineTypeOK, PredictInv, InheritsThePrediction, Unmasked
  <1>2. ASSUME live' = live,
               placing'.pc \in {"score", "route", "admit"} /\ placing'.snap # << >>
                   /\ Unmasked(placing.r)' => Predicts(placing'.snap[1])
        PROVE  PredictInv'
    BY <1>1, <1>2, <1>10, <1>11 DEF PredictInv, InheritsThePrediction, Unmasked
  <1>3. CASE \/ \E r \in Requests, prompt \in Prompts, kind \in Kinds, max \in MaxOutputs :
                   PlaceMatch(r, prompt, kind, max)
             \/ PlaceIncr \/ PlaceRefs \/ PlaceChain
    <2>1. placing' \in PlacingState /\ live' = live
      BY <1>3, PlaceKeeps DEF PlaceMatch, PlaceIncr, PlaceRefs, PlaceChain, Place, EngineInv, EngineTypeOK
    <2>2. placing'.pc \notin {"score", "route", "admit"}
      BY <1>3 DEF PlaceMatch, PlaceIncr, PlaceRefs, PlaceChain, EngineInv, EngineTypeOK, PlacingState,
                  NotPlacing
    <2>3. QED
      BY <1>2, <2>1, <2>2
  <1>4. CASE PlaceClaim
    <2> DEFINE name == Tree!NameAt(BlocksOf(placing.prompt), placing.hit)
               found == placing.hit > 0 /\ name \in DOMAIN shared
               snap1 == [tokens |-> shared[name].tokens, next |-> shared[name].next]
               kept == IF found /\ Usable(snap1, placing.prompt, placing.kind)
                       THEN <<snap1>> ELSE << >>
    <2>1. /\ placing' = [pc |-> "score", r |-> placing.r, prompt |-> placing.prompt,
                         kind |-> placing.kind, max |-> placing.max, snap |-> kept]
          /\ live' = live
      BY <1>4 DEF PlaceClaim
    <2>2. kept # << >> => kept[1] = snap1 /\ name \in DOMAIN shared
      OBVIOUS
    <2>3. ASSUME kept # << >>, Unmasked(placing.r)' PROVE Predicts(snap1)
      <3>0. found
        BY <2>3
      <3>4. lineage' = IF found
                       THEN [lineage EXCEPT ![placing.r] = @ \cup lineage[shared[name].by]]
                       ELSE lineage
        BY <1>4, Zenon DEF PlaceClaim
      <3> HIDE DEF found
      <3>5. /\ lineage \in [Requests -> SUBSET Requests]
            /\ placing.r \in Requests
        BY <1>4, PlacingShape DEF PlaceClaim, EngineInv, EngineTypeOK, HistoryOK
      <3>1. /\ lineage \in [Requests -> SUBSET Requests] /\ placing.r \in Requests
            /\ placing'.r = placing.r /\ masked' = masked
            /\ lineage' = [lineage EXCEPT ![placing.r] = @ \cup lineage[shared[name].by]]
        <4>1. lineage' = [lineage EXCEPT ![placing.r] = @ \cup lineage[shared[name].by]]
          BY <3>0, <3>4, Zenon
        <4>2. placing'.r = placing.r
          BY <2>1
        <4>3. masked' = masked
          BY <1>4 DEF PlaceClaim
        <4>4. QED
          BY <3>5, <4>1, <4>2, <4>3, Zenon
      <3>2. lineage[shared[name].by] \subseteq lineage'[placing.r]
        BY <3>1
      <3>3. Unmasked(shared[name].by)
        BY <2>3, <3>1, <3>2 DEF Unmasked
      <3>6. QED
        BY <2>2, <2>3, <3>3 DEF PredictInv, Predicts
    <2> HIDE DEF name, found, snap1, kept
    <2>4. placing'.snap = kept
      BY <2>1
    <2>5. QED
      BY <1>2, <2>1, <2>2, <2>3, <2>4
  <1>5. CASE PlaceScore \/ PlaceRoute
    <2>1. /\ placing.pc \in {"score", "route"}
          /\ live' = live
          /\ \/ placing'.pc = "idle"
             \/ placing'.snap = placing.snap /\ placing'.r = placing.r
      <3>1. CASE PlaceScore
        BY <3>1 DEF PlaceScore
      <3>2. CASE PlaceRoute
        <4>1. placing.pc = "route" /\ live' = live
          BY <3>2 DEF PlaceRoute
        <4>2. \/ placing' = NotPlacing
              \/ placing'.snap = placing.snap /\ placing'.r = placing.r
          BY <3>2 DEF PlaceRoute
        <4>3. QED
          BY <4>1, <4>2 DEF NotPlacing
      <3>3. QED
        BY <1>5, <3>1, <3>2
    <2>2. placing.r \in Requests
      BY <2>1, PlacingShape DEF EngineInv, EngineTypeOK
    <2>3. placing'.r = placing.r /\ Unmasked(placing.r)' => Unmasked(placing.r)
      BY <1>0, <2>2 DEF Unmasked
    <2>4. QED
      BY <1>2, <2>1, <2>3 DEF PredictInv
  <1>6. CASE PlaceAdmit
    <2>1. placing.pc = "admit"
      BY <1>6 DEF PlaceAdmit
    <2>2. CASE placing' = NotPlacing /\ live' = live
      BY <1>2, <2>2 DEF NotPlacing
    <2>3. CASE /\ live' = Put(live, placing.r, Admitted(placing))
               /\ placing' = [pc |-> IF placing.credit > 0 THEN "incr" ELSE "chain",
                              r |-> placing.r, prompt |-> placing.prompt,
                              held |-> Credited(placing)]
      <3> DEFINE a == Admitted(placing)
      <3>1. placing'.pc \notin {"score", "route", "admit"}
        BY <2>3
      <3>2. Unmasked(placing.r) /\ a.out = 0 /\ Len(a.fed) = Len(a.prompt) =>
                a.next = Argmax[a.fed]
        <4>1. /\ placing.snap \in Seq(Snapshot) /\ SnapshotFits(placing) /\ placing.prompt \in Prompts
          BY <2>1, PlacingShape DEF EngineInv, EngineTypeOK, LengthsFit
        <4>2. Len(placing.prompt) \in Nat \ {0}
          BY <4>1, Geometry
        <4>3. CASE placing.snap = << >>
          <5>1. a.fed = << >> /\ a.prompt = placing.prompt
            BY <4>3 DEF Admitted
          <5>2. QED
            BY <4>2, <5>1
        <4>4. CASE placing.snap # << >>
          <5>1. /\ a.fed = placing.snap[1].tokens /\ a.prompt = placing.prompt
                /\ Len(a.fed) = Len(a.prompt) => a.next = placing.snap[1].next
            BY <4>4 DEF Admitted
          <5>2. Len(a.fed) = Len(a.prompt) => placing.snap[1].next # NoToken
            BY <4>1, <4>4, <5>1 DEF SnapshotFits
          <5>3. Unmasked(placing.r) => Predicts(placing.snap[1])
            BY <2>1, <4>4 DEF PredictInv
          <5>4. QED
            BY <5>1, <5>2, <5>3 DEF Predicts
        <4>5. QED
          BY <4>3, <4>4
      <3> HIDE DEF a
      <3>3. DOMAIN live' = DOMAIN live \cup {placing.r}
            /\ \A q \in DOMAIN live' : live'[q] = IF q = placing.r THEN a ELSE live[q]
        BY <2>3, Zenon DEF Put, a
      <3>4. \A q \in DOMAIN live' :
                live'[q].out = 0 /\ Len(live'[q].fed) = Len(live'[q].prompt) /\ Unmasked(q)' =>
                    live'[q].next = Argmax[live'[q].fed]
        <4>1. placing.r \in Requests
          BY <2>1, PlacingShape DEF EngineInv, EngineTypeOK
        <4>2. ASSUME NEW q \in DOMAIN live', live'[q].out = 0, Unmasked(q)',
                     Len(live'[q].fed) = Len(live'[q].prompt)
              PROVE  live'[q].next = Argmax[live'[q].fed]
          <5>1. CASE q = placing.r
            BY <1>0, <3>2, <3>3, <4>1, <4>2, <5>1
          <5>2. CASE q # placing.r
            BY <1>11, <3>3, <4>2, <5>2
          <5>3. QED
            BY <5>1, <5>2
        <4>3. QED
          BY <4>2
      <3>5. QED
        BY <1>1, <1>10, <3>1, <3>4 DEF PredictInv, InheritsThePrediction
    <2>4. QED
      BY <1>6, <2>2, <2>3 DEF PlaceAdmit
  <1>7. QED
    BY <1>3, <1>4, <1>5, <1>6 DEF Place

LEMMA PredictDrive ==
    ASSUME EngineInv, PredictInv, NEW w \in Workers, Drive(w)
    PROVE  PredictInv'
  <1>0. \A r \in Requests : Unmasked(r)' => Unmasked(r)
    BY PastGrows DEF EngineNext
  <1>1. placing' = placing /\ lineage' = lineage
    BY DEF Drive, StepDevice, StepFails, threadVars, ExtendChain, InstallName, Reclaim, InsertPrefix,
           Publish, MeasureExcess, EvictExcess, EvictLoop, ForgetEvicted, FoldCompleted, FoldUnref,
           FoldReleased, pastVars
  <1>10. /\ \A n \in DOMAIN shared : shared[n].by \in Requests
         /\ \A v \in Workers : driver[v].pc \in Folding => driver[v].r \in Requests
         /\ placing.pc \in {"score", "route", "admit"} => placing.r \in Requests
         /\ DOMAIN live \subseteq Requests
    BY DriverNow, PlacingShape DEF EngineInv, EngineTypeOK, Published, Folding, Filing
  <1>11. placing.pc \in {"score", "route", "admit"} /\ placing.snap # << >>
             /\ Unmasked(placing.r)' => Predicts(placing.snap[1])
    BY <1>0, <1>1, <1>10 DEF PredictInv, Unmasked
  <1>2. ASSUME NEW r \in Requests, StepDevice(w, r) \/ StepFails(w, r) PROVE PredictInv'
    <2>1. /\ r \in DOMAIN live /\ live[r] \in LiveSequence /\ LiveFits(live[r])
          /\ live[r].worker = w /\ driver[w].pc = "idle"
      BY <1>2, DeviceStep
    <2>2. PICK o \in Outcomes(live[r]), fed \in Seq(Tokens), kept \in Nat, t \in Picked :
                  /\ Stepped(live[r], o, fed, kept, t)
                  /\ \A q \in DOMAIN live' : \/ q = r /\ live'[q] = o.rec
                                             \/ q # r /\ q \in DOMAIN live /\ live'[q] = live[q]
                  /\ StepDevice(w, r) =>
                         /\ r \in DOMAIN live' => ~(o.rec.out >= o.rec.max)
                         /\ driver'[w].pc = "extend" /\ driver'[w].r = r
                         /\ driver'[w].kept = o.kept /\ driver'[w].gen = o.gen
                         /\ \A v \in Workers : v # w => driver'[v] = driver[v]
                  /\ StepFails(w, r) => driver' = driver
      BY <1>2, DeviceStep
    <2>3. ASSUME Unmasked(r)'
          PROVE  /\ Unmasked(r)
                 /\ live[r].out > 0 => live[r].kind # "tool"
      <3>1. masked' = IF live[r].kind = "tool" /\ live[r].out > 0 THEN masked \cup {r} ELSE masked
        BY <1>2 DEF StepDevice, StepFails, Masked
      <3>2. r \in lineage'[r]
        BY <1>1 DEF EngineInv, EngineTypeOK, HistoryOK
      <3>3. QED
        BY <1>0, <2>3, <3>1, <3>2 DEF Unmasked
    <2>4. ASSUME Unmasked(r)'
          PROVE  /\ \A i \in DOMAIN o.kept : Predicts(o.kept[i])
                 /\ o.rec.out = 0 /\ Len(o.rec.fed) = Len(o.rec.prompt) =>
                        o.rec.next = Argmax[o.rec.fed]
      <3>1. live[r].out = 0 /\ Len(live[r].fed) = Len(live[r].prompt) =>
                live[r].next = Argmax[live[r].fed]
        BY <2>1, <2>3, <2>4 DEF PredictInv, InheritsThePrediction
      <3>2. QED
        BY <2>1, <2>2, <2>3, <2>4, <3>1, StepPredicts
    <2>5. \A n \in DOMAIN shared' : Unmasked(shared[n].by)' => Predicts(shared'[n])
      <3>1. shared' = shared
        BY <1>2 DEF StepDevice, StepFails, cacheVars
      <3>2. QED
        BY <1>0, <1>10, <3>1 DEF PredictInv, Unmasked
    <2>6. ASSUME NEW v \in Workers, driver'[v].pc \in Folding, Unmasked(driver[v].r)',
                 NEW i \in DOMAIN driver'[v].kept
          PROVE  Predicts(driver'[v].kept[i])
      <3>1. CASE driver'[v] = driver[v]
        <4>1. Unmasked(driver[v].r)
          BY <1>0, <1>10, <2>6, <3>1 DEF Unmasked
        <4>2. QED
          BY <2>6, <3>1, <4>1 DEF PredictInv
      <3>2. CASE v = w /\ driver'[w].r = r /\ driver'[w].kept = o.kept
        <4>1. Unmasked(r)'
          BY <2>6, <3>2 DEF Unmasked
        <4>2. QED
          BY <2>4, <2>6, <3>2, <4>1
      <3>3. QED
        BY <1>2, <2>2, <3>1, <3>2
    <2>7. ASSUME NEW q \in DOMAIN live', live'[q].out = 0, Len(live'[q].fed) = Len(live'[q].prompt),
                 Unmasked(q)'
          PROVE  live'[q].next = Argmax[live'[q].fed]
      <3>1. CASE q = r
        BY <2>2, <2>4, <2>7, <3>1
      <3>2. CASE q # r
        <4>1. q \in DOMAIN live /\ live'[q] = live[q] /\ Unmasked(q)
          BY <1>0, <1>10, <2>2, <2>7, <3>2
        <4>2. QED
          BY <2>7, <4>1 DEF PredictInv, InheritsThePrediction
      <3>3. QED
        BY <3>1, <3>2
    <2>8. QED
      BY <1>1, <1>11, <2>5, <2>6, <2>7 DEF PredictInv, InheritsThePrediction
  <1>3. ASSUME driver'[w].pc \in Folding =>
                   /\ driver[w].pc \in Folding /\ driver'[w].r = driver[w].r
                   /\ \A i \in DOMAIN driver'[w].kept :
                          \E j \in DOMAIN driver[w].kept : driver'[w].kept[i] = driver[w].kept[j],
               \A v \in Workers : v # w => driver'[v] = driver[v],
               live' = live,
               \A n \in DOMAIN shared' : Unmasked(shared[n].by)' => Predicts(shared'[n])
        PROVE  PredictInv'
    <2>1. ASSUME NEW v \in Workers, driver'[v].pc \in Folding, Unmasked(driver[v].r)',
                 NEW i \in DOMAIN driver'[v].kept
          PROVE  Predicts(driver'[v].kept[i])
      <3>1. /\ driver[v].pc \in Folding /\ driver'[v].r = driver[v].r
            /\ \E j \in DOMAIN driver[v].kept : driver'[v].kept[i] = driver[v].kept[j]
        BY <1>3, <2>1
      <3>2. Unmasked(driver[v].r)
        BY <1>0, <1>10, <2>1, <3>1 DEF Unmasked
      <3>3. QED
        BY <3>1, <3>2 DEF PredictInv
    <2>2. \A q \in DOMAIN live' :
              live'[q].out = 0 /\ Len(live'[q].fed) = Len(live'[q].prompt) /\ Unmasked(q)' =>
                  live'[q].next = Argmax[live'[q].fed]
      BY <1>0, <1>3, <1>10 DEF PredictInv, InheritsThePrediction
    <2>3. QED
      BY <1>1, <1>3, <1>11, <2>1, <2>2 DEF PredictInv, InheritsThePrediction
  <1>12. ASSUME NEW n \in DOMAIN shared', n \in DOMAIN shared, shared'[n] = shared[n],
                Unmasked(shared[n].by)'
         PROVE  Predicts(shared'[n])
    <2>1. Unmasked(shared[n].by)
      BY <1>0, <1>10, <1>12 DEF Unmasked
    <2>2. QED
      BY <1>12, <2>1 DEF PredictInv
  <1>4. CASE ExtendChain(w)
    <2>1. live' = live /\ shared' = shared
      BY <1>4 DEF ExtendChain, cacheVars
    <2>2. /\ driver[w].pc = "extend" /\ driver'[w].kept = driver[w].kept
          /\ driver'[w].r = driver[w].r
          /\ \A v \in Workers : v # w => driver'[v] = driver[v]
      BY <1>4, FoldStep
    <2>3. driver[w].pc \in Folding
      BY <2>2 DEF Folding
    <2>4. QED
      BY <1>3, <1>12, <2>1, <2>2, <2>3
  <1>5. CASE \/ InstallName(w) \/ Reclaim(w) \/ InsertPrefix(w) \/ Publish(w)
             \/ MeasureExcess(w) \/ EvictExcess(w) \/ EvictLoop(w) \/ ForgetEvicted(w)
    <2>1. /\ driver[w].pc \in Folding /\ live' = live /\ driver[w].kept # << >>
          /\ driver'[w].r = driver[w].r
          /\ \A v \in Workers : v # w => driver'[v] = driver[v]
      BY <1>5, FilingStep DEF Folding
    <2>2. \A i \in DOMAIN driver'[w].kept :
              \E j \in DOMAIN driver[w].kept : driver'[w].kept[i] = driver[w].kept[j]
      BY <1>5, KeptStep
    <2>3. ASSUME NEW n \in DOMAIN shared', Unmasked(shared[n].by)' PROVE Predicts(shared'[n])
      <3>1. CASE n \in DOMAIN shared /\ shared'[n] = shared[n]
        BY <1>12, <2>3, <3>1
      <3>2. CASE /\ shared'[n].tokens = driver[w].kept[1].tokens
                 /\ shared'[n].next = driver[w].kept[1].next
                 /\ shared'[n].by = driver[w].r
        <4>1. 1 \in DOMAIN driver[w].kept
          <5>1. driver[w].kept \in Seq(Snapshot)
            BY <2>1, DriverNow, DriverShape
          <5>2. QED
            BY <2>1, <5>1
        <4>2. Unmasked(driver[w].r)
          <5>1. lineage'[driver[w].r] \cap masked' = {}
            BY <2>3, <3>2 DEF Unmasked
          <5>2. PICK q \in Requests : q = driver[w].r
            BY <1>10, <2>1
          <5>3. Unmasked(q)'
            BY <5>1, <5>2 DEF Unmasked
          <5>4. QED
            BY <1>0, <5>2, <5>3
        <4>3. Predicts(driver[w].kept[1])
          BY <2>1, <4>1, <4>2 DEF PredictInv
        <4>4. QED
          BY <3>2, <4>3 DEF Predicts
      <3>3. QED
        BY <1>5, <3>1, <3>2, SharedStep
    <2>4. QED
      BY <1>3, <2>1, <2>2, <2>3
  <1>6. CASE FoldCompleted(w) \/ FoldUnref(w) \/ FoldReleased(w)
    <2>1. driver'[w].pc \in {"unref", "decr", "idle"} /\ \A v \in Workers : v # w => driver'[v] = driver[v]
      BY <1>6 DEF FoldCompleted, FoldUnref, FoldReleased, Parked, EngineInv, EngineTypeOK
    <2>2. live' = live /\ shared' = shared
      BY <1>6 DEF FoldCompleted, FoldUnref, FoldReleased, cacheVars
    <2>3. driver'[w].pc \notin Folding
      BY <2>1 DEF Folding, Filing
    <2>4. QED
      BY <1>3, <1>12, <2>1, <2>2, <2>3
  <1>7. QED
    BY <1>2, <1>4, <1>5, <1>6 DEF Drive

LEMMA PredictStep ==
    ASSUME EngineInv, PredictInv, [EngineNext]_engineVars
    PROVE  PredictInv'
  <1>1. ASSUME NEW r \in Requests, Cancel(r) PROVE PredictInv'
    <2>1. UNCHANGED <<shared, driver, placing, lineage, masked>>
      BY <1>1 DEF Cancel, CancelFind, CancelChain, CancelRefs, CancelDrop, cacheVars, pastVars
    <2>2. \A q \in DOMAIN live' : q \in DOMAIN live /\ live'[q] = live[q]
      BY <1>1 DEF Cancel, CancelFind, CancelChain, CancelRefs, CancelDrop, Drop
    <2>3. QED
      BY <2>1, <2>2 DEF PredictInv, InheritsThePrediction, Unmasked
  <1>2. CASE UNCHANGED engineVars
    BY <1>2 DEF engineVars, cacheVars, threadVars, pastVars, PredictInv, InheritsThePrediction, Unmasked
  <1>3. QED
    BY <1>1, <1>2, PredictPlace, PredictDrive DEF EngineNext

\* The token a snapshot records is the model's prediction, unless a request that went
\* into it picked one under a grammar: whatever the others sample, mask or fail at, the
\* first token a request inherits with a whole-prompt snapshot is the one it would have
\* computed itself.
THEOREM InheritsPrediction == EngineSpec => []InheritsThePrediction
  <1>1. EngineInit => PredictInv
    BY DEF EngineInit, PredictInv, InheritsThePrediction, NotPlacing, Parked, Folding, Filing
  <1>2. PredictInv => InheritsThePrediction
    BY DEF PredictInv
  <1>3. QED
    BY <1>1, <1>2, PredictStep, EngineInvariant, PTL DEF EngineSpec

-----------------------------------------------------------------------------
(* What a published snapshot is filed under, and what a sequence was fed.  *)

\* A step that leaves the chains of the requests as they were known before it.
NamesKept ==
    \A r \in Requests : Tracked(r)' => Tracked(r) /\ Named(r)' = Named(r)

\* A step after which a driver has no other snapshots left than before.
KeptSome(w) ==
    driver'[w].pc \in Folding =>
        /\ driver[w].pc \in Folding /\ driver'[w].r = driver[w].r
        /\ \A i \in DOMAIN driver'[w].kept :
               \E j \in DOMAIN driver[w].kept : driver'[w].kept[i] = driver[w].kept[j]

LEMMA NamedType ==
    ASSUME EngineInv, NEW r \in Requests, Tracked(r)
    PROVE  Named(r) \in Seq(Tokens)
  <1>1. CASE r \in DOMAIN chains
    <2>1. chains[r].tokens \in Seq(Tokens)
      BY <1>1 DEF EngineInv, EngineTypeOK
    <2>2. QED
      BY <1>1, <2>1 DEF Named
  <1>2. CASE r \notin DOMAIN chains
    <2>1. Unrecorded(r)
      BY <1>2 DEF Tracked
    <2>2. placing.prompt \in Prompts
      BY <2>1, PlacingShape DEF Unrecorded, EngineInv, EngineTypeOK
    <2>3. QED
      BY <1>2, <2>2, Geometry DEF Named
  <1>3. QED
    BY <1>1, <1>2

\* A step after which no request's past is clean that was not so before.
StaysClean == \A r \in Requests : Clean(r)' => Clean(r)

LEMMA CleanStep ==
    ASSUME EngineInv, EngineNext
    PROVE  StaysClean
  BY PastGrows DEF StaysClean

\* What a step left alone is as truly named after it as before.
LEMMA NamingStays ==
    ASSUME EngineInv, NamingInv, StaysClean
    PROVE  /\ \A n \in DOMAIN shared' :
                  n \in DOMAIN shared /\ shared'[n] = shared[n] /\ Clean(shared[n].by)' =>
                      BlocksOf(shared'[n].tokens) = n
           /\ \A w \in Workers :
                  driver'[w] = driver[w] /\ driver'[w].pc \in Filing /\ Clean(driver[w].r)' =>
                      BlocksOf(driver'[w].kept[1].tokens) = driver'[w].name
           /\ placing' = placing /\ placing'.pc \in {"score", "route", "admit"}
                  /\ placing'.snap # << >> /\ Clean(placing.r)' =>
                  IsPrefix(placing'.snap[1].tokens, placing'.prompt)
  <1>1. ASSUME NEW n \in DOMAIN shared', n \in DOMAIN shared, shared'[n] = shared[n],
               Clean(shared[n].by)'
        PROVE  BlocksOf(shared'[n].tokens) = n
    <2>1. PICK r \in Requests : r = shared[n].by
      BY <1>1 DEF EngineInv, EngineTypeOK, Published
    <2>2. Clean(r)'
      BY <1>1, <2>1 DEF Clean
    <2>3. QED
      BY <1>1, <2>1, <2>2 DEF StaysClean, NamingInv
  <1>2. ASSUME NEW w \in Workers, driver'[w] = driver[w], driver'[w].pc \in Filing,
               Clean(driver[w].r)'
        PROVE  BlocksOf(driver'[w].kept[1].tokens) = driver'[w].name
    <2>1. PICK r \in Requests : r = driver[w].r
      BY <1>2, DriverNow DEF Filing
    <2>2. Clean(r)'
      BY <1>2, <2>1 DEF Clean
    <2>3. QED
      BY <1>2, <2>1, <2>2 DEF StaysClean, NamingInv
  <1>3. ASSUME placing' = placing, placing'.pc \in {"score", "route", "admit"},
               placing'.snap # << >>, Clean(placing.r)'
        PROVE  IsPrefix(placing'.snap[1].tokens, placing'.prompt)
    <2>1. PICK r \in Requests : r = placing.r
      BY <1>3, PlacingShape DEF EngineInv, EngineTypeOK
    <2>2. Clean(r)'
      BY <1>3, <2>1 DEF Clean
    <2>3. QED
      BY <1>3, <2>1, <2>2 DEF StaysClean, NamingInv
  <1>4. QED
    BY <1>1, <1>2, <1>3

LEMMA NamingFrame ==
    ASSUME EngineInv, NamingInv, NamesKept, StaysClean,
           \A q \in DOMAIN live' : q \in DOMAIN live /\ live'[q] = live[q],
           \A q \in DOMAIN live' : Unfolded(q)' = Unfolded(q),
           \A w \in Workers : KeptSome(w),
           \A n \in DOMAIN shared' : Clean(shared[n].by)' => BlocksOf(shared'[n].tokens) = n,
           \A w \in Workers : driver'[w].pc \in Filing /\ Clean(driver[w].r)' =>
               BlocksOf(driver'[w].kept[1].tokens) = driver'[w].name,
           placing'.pc \in {"score", "route", "admit"} /\ placing'.snap # << >>
                   /\ Clean(placing.r)' =>
               IsPrefix(placing'.snap[1].tokens, placing'.prompt)
    PROVE  NamingInv'
  <1>1. ASSUME NEW w \in Workers, driver'[w].pc \in Folding, Tracked(driver[w].r)',
               Clean(driver[w].r)', NEW i \in DOMAIN driver'[w].kept
        PROVE  IsPrefix(driver'[w].kept[i].tokens, Named(driver[w].r)')
    <2>1. /\ driver[w].pc \in Folding /\ driver'[w].r = driver[w].r
          /\ \E j \in DOMAIN driver[w].kept : driver'[w].kept[i] = driver[w].kept[j]
      BY <1>1 DEF KeptSome
    <2>2. PICK r \in Requests : r = driver[w].r
      BY <2>1, DriverNow DEF Folding, Filing
    <2>3. Tracked(r)' /\ Clean(r)'
      BY <1>1, <2>1, <2>2 DEF Tracked, Unrecorded, Clean
    <2>4. Tracked(r) /\ Named(r)' = Named(r) /\ Clean(r)
      BY <2>3 DEF NamesKept, StaysClean
    <2>5. \A j \in DOMAIN driver[w].kept : IsPrefix(driver[w].kept[j].tokens, Named(r))
      BY <2>1, <2>2, <2>4 DEF NamingInv
    <2>6. Named(driver[w].r)' = Named(r)'
      BY <2>1, <2>2 DEF Named
    <2>7. QED
      BY <2>1, <2>4, <2>5, <2>6
  <1>2. ASSUME NEW q \in DOMAIN live', Clean(q)'
        PROVE  FedOwn(live'[q]) /\ (Tracked(q)' => ChainFollows(q)')
    <2>1. q \in DOMAIN live /\ live'[q] = live[q] /\ Unfolded(q)' = Unfolded(q) /\ q \in Requests
      BY DEF EngineInv, EngineTypeOK
    <2>2. FedOwn(live[q]) /\ (Tracked(q) => ChainFollows(q))
      BY <1>2, <2>1 DEF NamingInv, StaysClean
    <2>3. ASSUME Tracked(q)' PROVE ChainFollows(q)'
      <3>1. ChainFollows(q) /\ Named(q)' = Named(q)
        BY <2>1, <2>2, <2>3 DEF NamesKept
      <3>2. QED
        BY <2>1, <3>1 DEF ChainFollows
    <2>4. QED
      BY <2>1, <2>2, <2>3
  <1>3. QED
    BY <1>1, <1>2 DEF NamingInv

\* The placement steps before the request is on a worker, and after it.
LEMMA NamesPlace ==
    ASSUME EngineInv, Place, ~PlaceAdmit
    PROVE  NamesKept /\ live' = live
  <1>1. ASSUME NEW r \in Requests, NEW prompt \in Prompts, NEW kind \in Kinds, NEW max \in MaxOutputs,
               PlaceMatch(r, prompt, kind, max)
        PROVE  NamesKept /\ live' = live
    <2>1. placing'.pc = "claim" /\ chains' = chains /\ live' = live
      BY <1>1 DEF PlaceMatch, bookVars
    <2>2. QED
      BY <2>1 DEF NamesKept, Tracked, Named, Unrecorded
  <1>2. CASE PlaceClaim \/ PlaceScore \/ PlaceRoute
    <2>1. placing'.pc \notin {"incr", "hold", "chain"} /\ chains' = chains /\ live' = live
      BY <1>2 DEF PlaceClaim, PlaceScore, PlaceRoute, bookVars, NotPlacing
    <2>2. QED
      BY <2>1 DEF NamesKept, Tracked, Named, Unrecorded
  <1>3. CASE PlaceIncr \/ PlaceRefs
    <2>1. /\ placing.pc \in {"incr", "hold"} /\ chains' = chains /\ live' = live
          /\ \E pc \in {"hold", "chain"} : placing' = [placing EXCEPT !.pc = pc]
      BY <1>3 DEF PlaceIncr, PlaceRefs, bookVars
    <2>2. placing'.r = placing.r /\ placing'.prompt = placing.prompt
      BY <2>1 DEF EngineInv, EngineTypeOK, PlacingState
    <2>3. QED
      BY <2>1, <2>2 DEF NamesKept, Tracked, Named, Unrecorded
  <1>4. CASE PlaceChain
    <2> DEFINE entry == [tokens |-> placing.prompt, prompt |-> Len(placing.prompt)]
    <2>1. /\ placing.pc = "chain" /\ placing'.pc = "idle" /\ live' = live
          /\ chains' = Put(chains, placing.r, entry)
      BY <1>4 DEF PlaceChain, NotPlacing
    <2>2. entry.tokens = placing.prompt
      OBVIOUS
    <2> HIDE DEF entry
    <2>3. DOMAIN chains' = DOMAIN chains \cup {placing.r}
          /\ \A q \in DOMAIN chains' : chains'[q] = IF q = placing.r THEN entry ELSE chains[q]
      BY <2>1, Zenon DEF Put
    <2>4. Unrecorded(placing.r) /\ placing.r \notin DOMAIN chains
      <3>1. placing.r \in Requests
        BY <2>1, PlacingShape DEF EngineInv, EngineTypeOK
      <3>2. QED
        BY <2>1, <3>1 DEF Unrecorded, EngineInv, Ownership
    <2>5. ASSUME NEW r \in Requests, Tracked(r)' PROVE Tracked(r) /\ Named(r)' = Named(r)
      <3>1. r \in DOMAIN chains'
        BY <2>1, <2>5 DEF Tracked, Unrecorded
      <3>2. CASE r = placing.r
        BY <2>2, <2>3, <2>4, <3>1, <3>2 DEF Tracked, Named
      <3>3. CASE r # placing.r
        BY <2>3, <3>1, <3>3 DEF Tracked, Named
      <3>4. QED
        BY <3>2, <3>3
    <2>6. QED
      BY <2>1, <2>5 DEF NamesKept
  <1>5. QED
    BY <1>1, <1>2, <1>3, <1>4 DEF Place

\* A snapshot that the lookup of a prompt finds was computed from a beginning of it.
LEMMA ClaimedBegins ==
    ASSUME EngineInv, NamingInv, placing.pc = "claim",
           Tree!NameAt(BlocksOf(placing.prompt), placing.hit) \in DOMAIN shared,
           Clean(shared[Tree!NameAt(BlocksOf(placing.prompt), placing.hit)].by)
    PROVE  IsPrefix(shared[Tree!NameAt(BlocksOf(placing.prompt), placing.hit)].tokens, placing.prompt)
  <1> DEFINE name == Tree!NameAt(BlocksOf(placing.prompt), placing.hit)
  <1>1. /\ placing.prompt \in Prompts /\ placing.prompt \in Seq(Tokens) /\ placing.hit \in Nat
        /\ placing.hit <= Len(placing.prompt) \div BlockSize
    BY PlacingShape, Geometry DEF EngineInv, EngineTypeOK, LengthsFit
  <1>2. Len(name) = placing.hit
    BY <1>1, PromptDepth
  <1>3. /\ shared[name].tokens \in Seq(Tokens)
        /\ Len(shared[name].tokens) = BlockSize * Len(name)
        /\ BlocksOf(shared[name].tokens) = name
    BY DEF EngineInv, EngineTypeOK, Published, LengthsFit, NamingInv
  <1>4. QED
    BY <1>1, <1>2, <1>3, BlocksDetermine

LEMMA NamingPlace ==
    ASSUME EngineInv, NamingInv, Place
    PROVE  NamingInv'
  <1>1. shared' = shared /\ driver' = driver
    BY DEF Place, PlaceMatch, PlaceClaim, PlaceScore, PlaceRoute, PlaceAdmit, PlaceIncr, PlaceRefs,
           PlaceChain, cacheVars
  <1>0. /\ StaysClean
        /\ \A n \in DOMAIN shared' : Clean(shared[n].by)' => BlocksOf(shared'[n].tokens) = n
        /\ \A w \in Workers : driver'[w].pc \in Filing /\ Clean(driver[w].r)' =>
               BlocksOf(driver'[w].kept[1].tokens) = driver'[w].name
    <2>1. StaysClean
      BY CleanStep DEF EngineNext
    <2>2. QED
      BY <1>1, <2>1, NamingStays
  <1>2. ASSUME ~PlaceAdmit,
               placing'.pc \in {"score", "route", "admit"} /\ placing'.snap # << >>
                       /\ Clean(placing.r)' =>
                   IsPrefix(placing'.snap[1].tokens, placing'.prompt)
        PROVE  NamingInv'
    <2>1. NamesKept /\ live' = live
      BY <1>2, NamesPlace
    <2>2. \A q \in DOMAIN live' : Unfolded(q)' = Unfolded(q)
      BY <1>1, <2>1 DEF Unfolded
    <2>3. \A w \in Workers : KeptSome(w)
      BY <1>1 DEF KeptSome
    <2>4. QED
      BY <1>0, <1>2, <2>1, <2>2, <2>3, NamingFrame
  <1>3. ASSUME ~PlaceAdmit,
               \/ \E r \in Requests, prompt \in Prompts, kind \in Kinds, max \in MaxOutputs :
                     PlaceMatch(r, prompt, kind, max)
               \/ PlaceIncr \/ PlaceRefs \/ PlaceChain
        PROVE  NamingInv'
    <2>1. placing' \in PlacingState
      BY <1>3, PlaceKeeps DEF EngineInv, EngineTypeOK
    <2>2. placing'.pc \notin {"score", "route", "admit"}
      BY <1>3 DEF PlaceMatch, PlaceIncr, PlaceRefs, PlaceChain, EngineInv, EngineTypeOK, PlacingState,
                  NotPlacing
    <2>3. QED
      BY <1>2, <1>3, <2>2
  <1>4. CASE PlaceClaim
    <2> DEFINE name == Tree!NameAt(BlocksOf(placing.prompt), placing.hit)
               found == placing.hit > 0 /\ name \in DOMAIN shared
               snap1 == [tokens |-> shared[name].tokens, next |-> shared[name].next]
               kept == IF found /\ Usable(snap1, placing.prompt, placing.kind)
                       THEN <<snap1>> ELSE << >>
    <2>1. /\ placing.pc = "claim" /\ ~PlaceAdmit
          /\ placing' = [pc |-> "score", r |-> placing.r, prompt |-> placing.prompt,
                         kind |-> placing.kind, max |-> placing.max, snap |-> kept]
      BY <1>4 DEF PlaceClaim, PlaceAdmit
    <2>2. kept # << >> => /\ kept[1].tokens = shared[name].tokens
                          /\ name \in DOMAIN shared
                          /\ found
      OBVIOUS
    <2>3. ASSUME found, Clean(placing.r)'
          PROVE  IsPrefix(shared[name].tokens, placing.prompt)
      <3>1. lineage' = IF found
                       THEN [lineage EXCEPT ![placing.r] = @ \cup lineage[shared[name].by]]
                       ELSE lineage
        BY <1>4, Zenon DEF PlaceClaim
      <3>2. name \in DOMAIN shared
        BY <2>3
      <3> HIDE DEF found, kept
      <3>3. /\ lineage \in [Requests -> SUBSET Requests]
            /\ placing.r \in Requests
        BY <1>4, PlacingShape DEF PlaceClaim, EngineInv, EngineTypeOK, HistoryOK
      <3>4. lineage' = [lineage EXCEPT ![placing.r] = @ \cup lineage[shared[name].by]]
        BY <2>3, <3>1, Zenon
      <3>5. outrun' = outrun /\ placing'.r = placing.r
        BY <1>4, <2>1 DEF PlaceClaim
      <3>6. lineage'[placing.r] \cap outrun = {}
        BY <2>3, <3>5 DEF Clean
      <3> HIDE DEF name
      <3>7. lineage[shared[name].by] \subseteq lineage'[placing.r]
        BY <3>3, <3>4
      <3>8. Clean(shared[name].by)
        BY <3>6, <3>7 DEF Clean
      <3>9. QED
        BY <2>1, <3>2, <3>8, ClaimedBegins DEF name
    <2> HIDE DEF name, found, snap1, kept
    <2>4. placing'.snap = kept /\ placing'.prompt = placing.prompt
      BY <2>1
    <2>5. QED
      BY <1>2, <2>1, <2>2, <2>3, <2>4
  <1>5. CASE PlaceScore \/ PlaceRoute
    <2>1. /\ placing.pc \in {"score", "route"} /\ ~PlaceAdmit
          /\ \/ placing'.pc = "idle"
             \/ /\ placing'.snap = placing.snap /\ placing'.prompt = placing.prompt
                /\ placing'.r = placing.r
      <3>1. CASE PlaceScore
        BY <3>1 DEF PlaceScore, PlaceAdmit
      <3>2. CASE PlaceRoute
        <4>1. \/ placing' = NotPlacing
              \/ /\ placing'.snap = placing.snap /\ placing'.prompt = placing.prompt
                 /\ placing'.r = placing.r
          BY <3>2 DEF PlaceRoute
        <4>2. QED
          BY <3>2, <4>1 DEF PlaceRoute, NotPlacing, PlaceAdmit
      <3>3. QED
        BY <1>5, <3>1, <3>2
    <2>2. PICK r \in Requests : r = placing.r
      BY <2>1, PlacingShape DEF EngineInv, EngineTypeOK
    <2>3. placing'.r = placing.r /\ Clean(placing.r)' => Clean(placing.r)
      <3>1. placing'.r = placing.r /\ Clean(placing.r)' => Clean(r)'
        BY <2>2 DEF Clean
      <3>2. QED
        BY <1>0, <2>2, <3>1 DEF StaysClean
    <2>4. QED
      BY <1>2, <2>1, <2>3 DEF NamingInv
  <1>6. CASE PlaceAdmit
    <2>1. /\ placing.pc = "admit" /\ chains' = chains /\ cancel' = cancel
          /\ placing.r \in Requests /\ placing.prompt \in Prompts /\ ~Known(placing.r)
      BY <1>6, PlacingShape DEF PlaceAdmit, bookVars, EngineInv, EngineTypeOK, Ownership
    <2>3. CASE placing' = NotPlacing /\ live' = live
      <3>1. placing'.pc = "idle"
        BY <2>3 DEF NotPlacing
      <3>2. NamesKept
        BY <2>1, <3>1 DEF NamesKept, Tracked, Named, Unrecorded
      <3>3. /\ \A q \in DOMAIN live' : Unfolded(q)' = Unfolded(q)
            /\ \A w \in Workers : KeptSome(w)
        BY <1>1, <2>3 DEF Unfolded, KeptSome
      <3>4. QED
        BY <1>0, <2>3, <3>1, <3>2, <3>3, NamingFrame
    <2>4. CASE /\ live' = Put(live, placing.r, Admitted(placing))
               /\ placing' = [pc |-> IF placing.credit > 0 THEN "incr" ELSE "chain",
                              r |-> placing.r, prompt |-> placing.prompt,
                              held |-> Credited(placing)]
      <3> DEFINE a == Admitted(placing)
      <3>1. /\ placing'.pc \in {"incr", "hold", "chain"} /\ placing'.r = placing.r
            /\ placing'.prompt = placing.prompt
        BY <2>4
      <3>2. /\ a.out = 0 /\ a.prompt = placing.prompt /\ a.worker \in Workers
            /\ Clean(placing.r) => FedOwn(a)
        <4>1. a.out = 0 /\ a.prompt = placing.prompt /\ a.worker = placing.worker
          BY DEF Admitted
        <4>2. placing.worker \in Workers /\ placing.prompt \in Seq(Tokens)
          BY <2>1, PlacingShape, Geometry DEF EngineInv, EngineTypeOK
        <4>3. CASE placing.snap = << >>
          <5>1. a.fed = << >> /\ a.prompt = placing.prompt
            BY <4>3 DEF Admitted
          <5>2. IsPrefix(<< >>, placing.prompt)
            <6>1. PICK e \in Seq(Tokens) : e = << >>
              <7>1. << >> \in Seq(Tokens)
                OBVIOUS
              <7>2. QED
                BY <7>1, Zenon
            <6>2. Len(e) = 0 /\ Len(placing.prompt) \in Nat
              BY <4>2, <6>1
            <6>3. Len(e) <= Len(placing.prompt) /\ \A i \in 1 .. Len(e) : e[i] = placing.prompt[i]
              BY <6>2
            <6>4. IsPrefix(e, placing.prompt)
              BY <4>2, <6>3, PrefixByElements
            <6>5. QED
              BY <6>1, <6>4
          <5>3. QED
            BY <4>1, <4>2, <5>1, <5>2 DEF FedOwn
        <4>4. CASE placing.snap # << >>
          <5>1. a.fed = placing.snap[1].tokens
            BY <4>4 DEF Admitted
          <5>2. Clean(placing.r) => IsPrefix(placing.snap[1].tokens, placing.prompt)
            BY <2>1, <4>4 DEF NamingInv
          <5>3. QED
            BY <4>1, <4>2, <5>1, <5>2 DEF FedOwn
        <4>5. QED
          BY <4>3, <4>4
      <3> HIDE DEF a
      <3>3. DOMAIN live' = DOMAIN live \cup {placing.r}
            /\ \A q \in DOMAIN live' : live'[q] = IF q = placing.r THEN a ELSE live[q]
        BY <2>4, Zenon DEF Put, a
      <3>4. \A r \in Requests : Tracked(r)' /\ r # placing.r => Tracked(r) /\ Named(r)' = Named(r)
        BY <2>1, <3>1 DEF Tracked, Named, Unrecorded
      <3>5. \A w \in Workers : driver[w].pc # "idle" => driver[w].r # placing.r
        BY <2>1 DEF Known, Busy
      <3>6. ASSUME NEW w \in Workers, driver'[w].pc \in Folding, Tracked(driver[w].r)',
                   Clean(driver[w].r)', NEW i \in DOMAIN driver'[w].kept
            PROVE  IsPrefix(driver'[w].kept[i].tokens, Named(driver[w].r)')
        <4>1. PICK r \in Requests : r = driver[w].r
          BY <1>1, <3>6, DriverNow DEF Folding, Filing
        <4>2. driver[w].pc \in Folding /\ r # placing.r
          BY <1>1, <3>5, <3>6, <4>1 DEF Folding, Filing
        <4>3. Tracked(r)' /\ Clean(r)'
          BY <1>1, <3>6, <4>1 DEF Tracked, Unrecorded, Clean
        <4>4. Tracked(r) /\ Named(r)' = Named(r) /\ Clean(r)
          BY <1>0, <3>4, <4>2, <4>3 DEF StaysClean
        <4>5. IsPrefix(driver[w].kept[i].tokens, Named(r))
          BY <1>1, <3>6, <4>1, <4>2, <4>4 DEF NamingInv
        <4>6. Named(driver[w].r)' = Named(r)'
          BY <1>1, <4>1 DEF Named
        <4>7. QED
          BY <1>1, <4>4, <4>5, <4>6
      <3>7. ASSUME NEW q \in DOMAIN live', Clean(q)'
            PROVE  FedOwn(live'[q]) /\ (Tracked(q)' => ChainFollows(q)')
        <4>1. CASE q = placing.r
          <5>1. live'[q] = a /\ q \notin DOMAIN chains'
            BY <2>1, <3>3, <4>1 DEF Known
          <5>2. Named(q)' = a.prompt
            BY <3>1, <3>2, <5>1 DEF Named
          <5>3. Unfolded(q)' = << >>
            BY <1>1, <3>2, <3>5, <4>1, <5>1 DEF Unfolded
          <5>4. Clean(placing.r)
            BY <1>0, <2>1, <3>7, <4>1 DEF StaysClean
          <5>5. QED
            BY <3>2, <5>1, <5>2, <5>3, <5>4 DEF ChainFollows
        <4>2. CASE q # placing.r
          <5>1. q \in DOMAIN live /\ live'[q] = live[q] /\ q \in Requests
            BY <3>3, <4>2 DEF EngineInv, EngineTypeOK
          <5>2. FedOwn(live[q]) /\ (Tracked(q) => ChainFollows(q))
            BY <1>0, <3>7, <5>1 DEF NamingInv, StaysClean
          <5>3. Unfolded(q)' = Unfolded(q)
            BY <1>1, <5>1 DEF Unfolded
          <5>4. ASSUME Tracked(q)' PROVE ChainFollows(q)'
            <6>1. ChainFollows(q) /\ Named(q)' = Named(q)
              BY <3>4, <4>2, <5>1, <5>2, <5>4
            <6>2. QED
              BY <5>1, <5>3, <6>1 DEF ChainFollows
          <5>5. QED
            BY <5>1, <5>2, <5>4
        <4>3. QED
          BY <4>1, <4>2
      <3>8. placing'.pc \notin {"score", "route", "admit"}
        BY <3>1
      <3>9. QED
        BY <1>0, <3>6, <3>7, <3>8 DEF NamingInv
    <2>5. QED
      BY <1>6, <2>3, <2>4 DEF PlaceAdmit
  <1>7. QED
    BY <1>3, <1>4, <1>5, <1>6 DEF Place


LEMMA PrefixWhole ==
    ASSUME NEW S, NEW s \in Seq(S), NEW t \in Seq(S), IsPrefix(s, t), Len(s) = Len(t)
    PROVE  s = t
  <1>1. SubSeq(s, 1, Len(s)) = s /\ SubSeq(t, 1, Len(t)) = t
    OBVIOUS
  <1>2. \A i \in 1 .. Len(s) : s[i] = t[i]
    BY PrefixByElements
  <1>3. QED
    BY <1>1, <1>2

\* A beginning of a prompt, extended by the tokens that follow it there.
LEMMA FilledBegins ==
    ASSUME NEW S, NEW p \in Seq(S), NEW f \in Seq(S), IsPrefix(f, p), NEW high \in Nat,
           Len(f) <= high, high <= Len(p)
    PROVE  IsPrefix(f \o SubSeq(p, Len(f) + 1, high), p)
  <1> DEFINE more == SubSeq(p, Len(f) + 1, high)
             g == f \o more
  <1>1. /\ Len(f) \in Nat /\ more \in Seq(S) /\ Len(more) = high - Len(f)
        /\ \A j \in 1 .. high - Len(f) : more[j] = p[Len(f) + j]
    BY Stretch
  <1>2. \A i \in 1 .. Len(f) : f[i] = p[i]
    BY PrefixByElements
  <1> HIDE DEF more
  <1>3. /\ g \in Seq(S) /\ Len(g) = high
        /\ \A i \in 1 .. high : g[i] = IF i <= Len(f) THEN f[i] ELSE more[i - Len(f)]
    BY <1>1
  <1>4. ASSUME NEW i \in 1 .. high PROVE g[i] = p[i]
    <2>1. CASE i <= Len(f)
      <3>1. i \in 1 .. Len(f)
        BY <1>1, <2>1
      <3>2. QED
        BY <1>2, <1>3, <2>1, <3>1
    <2>2. CASE i > Len(f)
      <3>1. i - Len(f) \in 1 .. high - Len(f) /\ Len(f) + (i - Len(f)) = i /\ ~(i <= Len(f))
        BY <1>1, <2>2
      <3>2. QED
        BY <1>1, <1>3, <3>1
    <2>3. QED
      BY <1>1, <2>1, <2>2
  <1> HIDE DEF g
  <1>5. IsPrefix(g, p)
    BY <1>3, <1>4, PrefixByElements
  <1>6. QED
    BY <1>5 DEF g, more

\* A step feeds a sequence its own prompt, and after it what it picked itself.
LEMMA StepFeedsOwn ==
    ASSUME NEW rec \in LiveSequence, LiveFits(rec), NEW o, NEW fed \in Seq(Tokens),
           NEW kept \in Nat, NEW t \in Picked, Stepped(rec, o, fed, kept, t), FedOwn(rec)
    PROVE  /\ rec.out = 0 => IsPrefix(fed, rec.prompt)
           /\ rec.out = 0 /\ t # NoToken => fed = rec.prompt
           /\ o.rec.out = 0 <=> t = NoToken
           /\ FedOwn(o.rec)
  <1>1. /\ rec.prompt \in Seq(Tokens) /\ rec.fed \in Seq(Tokens) /\ rec.out \in Nat
        /\ rec.max \in Nat \ {0}
    BY Geometry DEF LiveSequence
  <1>2. /\ o.rec.prompt = rec.prompt /\ o.rec.fed = fed
        /\ o.rec.out = IF t = Eos THEN rec.max ELSE IF t = NoToken THEN rec.out ELSE rec.out + 1
    BY OutcomeTyped DEF Stepped
  <1>3. Eos # NoToken
    BY Geometry
  <1>4. t = NoToken => rec.out = 0
    BY DEF Stepped
  <1>5. o.rec.out = 0 <=> t = NoToken
    BY <1>1, <1>2, <1>3, <1>4
  <1>6. CASE rec.out = 0
    <2>1. /\ Len(fed) <= Len(rec.prompt) /\ Len(rec.fed) <= Len(fed)
          /\ fed = rec.fed \o SubSeq(rec.prompt, Len(rec.fed) + 1, Len(fed))
          /\ Len(fed) < Len(rec.prompt) <=> t = NoToken
      BY <1>6, Zenon DEF Stepped
    <2>2. IsPrefix(rec.fed, rec.prompt)
      BY <1>6 DEF FedOwn
    <2>3. IsPrefix(fed, rec.prompt)
      <3>1. Len(fed) \in Nat
        OBVIOUS
      <3>2. QED
        BY <1>1, <2>1, <2>2, <3>1, FilledBegins
    <2>4. ASSUME t # NoToken PROVE fed = rec.prompt
      <3>1. Len(fed) = Len(rec.prompt)
        BY <1>1, <2>1, <2>4
      <3>2. QED
        BY <1>1, <2>3, <3>1, PrefixWhole
    <2>5. FedOwn(o.rec)
      <3>1. CASE t = NoToken
        BY <1>2, <1>5, <2>3, <3>1 DEF FedOwn
      <3>2. CASE t # NoToken
        <4>1. IsPrefix(rec.prompt, rec.prompt)
          BY <1>1, PrefixOfConcat
        <4>2. QED
          BY <1>2, <1>5, <2>4, <3>2, <4>1 DEF FedOwn
      <3>3. QED
        BY <3>1, <3>2
    <2>6. QED
      BY <1>5, <2>3, <2>4, <2>5
  <1>7. CASE rec.out # 0
    <2>1. fed = Append(rec.fed, rec.next) /\ rec.next \in Tokens
      BY <1>7 DEF Stepped
    <2>2. IsPrefix(rec.prompt, rec.fed)
      BY <1>7 DEF FedOwn
    <2>3. IsPrefix(rec.fed, fed)
      <3>1. fed = rec.fed \o <<rec.next>> /\ <<rec.next>> \in Seq(Tokens)
        BY <1>1, <2>1
      <3>2. QED
        BY <1>1, <3>1, PrefixOfConcat
    <2>4. IsPrefix(rec.prompt, fed)
      BY <1>1, <2>2, <2>3, PrefixTransitive
    <2>5. FedOwn(o.rec)
      BY <1>2, <1>4, <1>5, <1>7, <2>4 DEF FedOwn
    <2>6. QED
      BY <1>5, <1>7, <2>5
  <1>8. QED
    BY <1>6, <1>7

\* The chain of its request names every snapshot the step kept, and with the token it
\* reports, what the device has been fed and will be fed next.
LEMMA StepFollows ==
    ASSUME NEW rec \in LiveSequence, LiveFits(rec), NEW o, NEW fed \in Seq(Tokens),
           NEW kept \in Nat, NEW t \in Picked, Stepped(rec, o, fed, kept, t), FedOwn(rec),
           NEW named \in Seq(Tokens),
           named = IF rec.out = 0 THEN rec.prompt ELSE Append(rec.fed, rec.next)
    PROVE  /\ \A i \in DOMAIN o.kept : IsPrefix(o.kept[i].tokens, named)
           /\ o.rec.out = 0 => named = o.rec.prompt /\ o.gen = << >>
           /\ o.rec.out # 0 /\ ~(o.rec.out >= o.rec.max) =>
                  named \o o.gen = Append(o.rec.fed, o.rec.next)
  <1>1. /\ o.rec.prompt = rec.prompt /\ o.rec.fed = fed /\ o.rec.next = t /\ o.rec.max = rec.max
        /\ o.rec.out = IF t = Eos THEN rec.max ELSE IF t = NoToken THEN rec.out ELSE rec.out + 1
        /\ o.gen = Reported(rec, t) /\ o.kept \in Seq(Snapshot)
        /\ \A i \in DOMAIN o.kept : Kept(rec, fed, t, o.kept[i])
    BY OutcomeTyped DEF Stepped
  <1>2. /\ rec.out = 0 => IsPrefix(fed, rec.prompt)
        /\ rec.out = 0 /\ t # NoToken => fed = rec.prompt
        /\ o.rec.out = 0 <=> t = NoToken
    BY StepFeedsOwn
  <1>3. /\ rec.out # 0 => fed = Append(rec.fed, rec.next) /\ t # NoToken
        /\ t = NoToken => rec.out = 0
    BY DEF Stepped
  <1>4. IsPrefix(fed, named)
    <2>1. IsPrefix(fed, fed)
      BY PrefixOfConcat
    <2>2. QED
      BY <1>2, <1>3, <2>1
  <1>5. ASSUME NEW i \in DOMAIN o.kept PROVE IsPrefix(o.kept[i].tokens, named)
    <2>1. IsPrefix(o.kept[i].tokens, fed)
      BY <1>1 DEF Kept
    <2>2. o.kept[i].tokens \in Seq(Tokens)
      <3>1. o.kept[i] \in Snapshot
        BY <1>1
      <3>2. QED
        BY <3>1 DEF Snapshot
    <2>3. QED
      BY <1>4, <2>1, <2>2, PrefixTransitive
  <1>6. ASSUME o.rec.out = 0 PROVE named = o.rec.prompt /\ o.gen = << >>
    BY <1>1, <1>2, <1>3, <1>6 DEF Reported
  <1>7. ASSUME o.rec.out # 0, ~(o.rec.out >= o.rec.max)
        PROVE  named \o o.gen = Append(o.rec.fed, o.rec.next)
    <2>1. t # NoToken
      BY <1>2, <1>7
    <2>2. t # Eos
      <3>1. rec.max \in Nat
        BY Geometry DEF LiveSequence
      <3>2. QED
        BY <1>1, <1>7, <3>1
    <2>3. o.gen = <<t>>
      BY <1>1, <2>1, <2>2 DEF Reported
    <2>4. named = fed
      BY <1>2, <1>3, <2>1
    <2>5. t \in Tokens
      BY <2>1 DEF Picked
    <2>6. fed \o <<t>> = Append(fed, t)
      BY <2>5
    <2>7. QED
      BY <1>1, <2>3, <2>4, <2>6
  <1>8. QED
    BY <1>5, <1>6, <1>7


LEMMA NamingDevice ==
    ASSUME EngineInv, NamingInv, NEW w \in Workers, NEW r \in Requests, StepDevice(w, r)
    PROVE  NamingInv'
  <1>1. UNCHANGED <<shared, chains, placing>>
    BY DEF StepDevice, cacheVars, bookVars
  <1>2. /\ r \in DOMAIN live /\ live[r] \in LiveSequence /\ LiveFits(live[r])
        /\ live[r].worker = w /\ driver[w].pc = "idle"
    BY DeviceStep
  <1>3. PICK o \in Outcomes(live[r]), fed \in Seq(Tokens), kept \in Nat, t \in Picked :
            /\ Stepped(live[r], o, fed, kept, t)
            /\ \A q \in DOMAIN live' : \/ q = r /\ live'[q] = o.rec
                                       \/ q # r /\ q \in DOMAIN live /\ live'[q] = live[q]
            /\ r \in DOMAIN live' => ~(o.rec.out >= o.rec.max)
            /\ driver'[w].pc = "extend" /\ driver'[w].r = r
            /\ driver'[w].kept = o.kept /\ driver'[w].gen = o.gen
            /\ \A v \in Workers : v # w => driver'[v] = driver[v]
    BY DeviceStep
  <1>0. StaysClean
    BY CleanStep DEF EngineNext, Drive
  <1>4. ASSUME Clean(r)'
        PROVE  FedOwn(live[r]) /\ (Tracked(r) => ChainFollows(r))
    BY <1>0, <1>2, <1>4 DEF NamingInv, StaysClean
  <1>5. Unfolded(r) = << >>
    BY <1>2 DEF Unfolded
  <1>6. ASSUME Tracked(r), Clean(r)'
        PROVE  /\ Named(r) \in Seq(Tokens)
               /\ Named(r) = IF live[r].out = 0 THEN live[r].prompt
                             ELSE Append(live[r].fed, live[r].next)
    <2>1. Named(r) \in Seq(Tokens)
      BY <1>6, NamedType
    <2>2. Named(r) \o << >> = Named(r)
      BY <2>1
    <2>3. QED
      BY <1>4, <1>5, <1>6, <2>1, <2>2 DEF ChainFollows
  <1>7. \A q \in Requests : (Tracked(q)' <=> Tracked(q)) /\ Named(q)' = Named(q)
    BY <1>1 DEF Tracked, Named, Unrecorded
  <1>8. /\ \A n \in DOMAIN shared' : Clean(shared[n].by)' => BlocksOf(shared'[n].tokens) = n
        /\ \A v \in Workers : driver'[v].pc \in Filing /\ Clean(driver[v].r)' =>
               BlocksOf(driver'[v].kept[1].tokens) = driver'[v].name
        /\ placing'.pc \in {"score", "route", "admit"} /\ placing'.snap # << >>
               /\ Clean(placing.r)' =>
               IsPrefix(placing'.snap[1].tokens, placing'.prompt)
    BY <1>0, <1>1, <1>3, NamingStays DEF Filing
  <1>9. ASSUME NEW v \in Workers, driver'[v].pc \in Folding, NEW q \in Requests, q = driver'[v].r,
               Tracked(q), Clean(q)', NEW i \in DOMAIN driver'[v].kept
        PROVE  IsPrefix(driver'[v].kept[i].tokens, Named(q))
    <2>1. CASE v = w
      <3>1. q = r /\ i \in DOMAIN o.kept /\ driver'[v].kept[i] = o.kept[i]
        BY <1>3, <1>9, <2>1
      <3>2. QED
        BY <1>2, <1>3, <1>4, <1>6, <1>9, <3>1, StepFollows
    <2>2. CASE v # w
      BY <1>0, <1>3, <1>9, <2>2 DEF NamingInv, StaysClean
    <2>3. QED
      BY <2>1, <2>2
  <1>10. ASSUME NEW q \in DOMAIN live', Clean(q)'
         PROVE  FedOwn(live'[q]) /\ (Tracked(q)' => ChainFollows(q)')
    <2>1. CASE q = r
      <3>0. Clean(r)'
        BY <1>10, <2>1
      <3>1. live'[q] = o.rec /\ ~(o.rec.out >= o.rec.max)
        BY <1>3, <2>1
      <3>2. FedOwn(o.rec)
        BY <1>2, <1>3, <1>4, <3>0, StepFeedsOwn
      <3>3. o.rec.worker = w
        BY <1>2, <1>3, OutcomeTyped DEF Stepped
      <3>4. Unfolded(q)' = o.gen
        BY <1>3, <2>1, <3>1, <3>3 DEF Unfolded
      <3>5. ASSUME Tracked(q)' PROVE ChainFollows(q)'
        <4>1. Tracked(r) /\ Named(q)' = Named(r)
          BY <1>7, <2>1, <3>5
        <4>2. /\ o.rec.out = 0 => Named(r) = o.rec.prompt /\ o.gen = << >>
              /\ o.rec.out # 0 /\ ~(o.rec.out >= o.rec.max) =>
                     Named(r) \o o.gen = Append(o.rec.fed, o.rec.next)
          BY <1>2, <1>3, <1>4, <1>6, <3>0, <4>1, StepFollows
        <4>3. QED
          BY <3>1, <3>4, <4>1, <4>2 DEF ChainFollows
      <3>6. QED
        BY <3>1, <3>2, <3>5
    <2>2. CASE q # r
      <3>1. q \in DOMAIN live /\ live'[q] = live[q] /\ q \in Requests /\ live[q].worker \in Workers
        BY <1>3, <2>2 DEF EngineInv, EngineTypeOK, LiveSequence
      <3>2. FedOwn(live[q]) /\ (Tracked(q) => ChainFollows(q))
        BY <1>0, <1>10, <3>1 DEF NamingInv, StaysClean
      <3>3. Unfolded(q)' = Unfolded(q)
        <4>1. CASE live[q].worker = w
          BY <1>2, <1>3, <2>2, <3>1, <4>1 DEF Unfolded
        <4>2. CASE live[q].worker # w
          BY <1>3, <3>1, <4>2 DEF Unfolded
        <4>3. QED
          BY <4>1, <4>2
      <3>4. ASSUME Tracked(q)' PROVE ChainFollows(q)'
        <4>1. ChainFollows(q) /\ Named(q)' = Named(q)
          BY <1>7, <3>1, <3>2, <3>4
        <4>2. QED
          BY <3>1, <3>3, <4>1 DEF ChainFollows
      <3>5. QED
        BY <3>1, <3>2, <3>4
    <2>3. QED
      BY <2>1, <2>2
  <1>11. ASSUME NEW v \in Workers, driver'[v].pc \in Folding, Tracked(driver[v].r)',
                Clean(driver[v].r)', NEW i \in DOMAIN driver'[v].kept
         PROVE  IsPrefix(driver'[v].kept[i].tokens, Named(driver[v].r)')
    <2>1. PICK q \in Requests : q = driver'[v].r
      <3>1. driver' \in [Workers -> DriverState]
        BY DeviceKeeps DEF EngineInv, EngineTypeOK
      <3>2. driver'[v] \in DriverState /\ driver'[v].pc # "idle"
        BY <1>11, <3>1 DEF Folding, Filing
      <3>3. QED
        BY <3>2, DriverShape
    <2>2. Tracked(q)' /\ Clean(q)' /\ Named(driver[v].r)' = Named(q)'
      BY <1>11, <2>1 DEF Tracked, Named, Unrecorded, Clean
    <2>3. QED
      BY <1>7, <1>9, <1>11, <2>1, <2>2
  <1>12. QED
    BY <1>8, <1>10, <1>11 DEF NamingInv

\* A failed step moves the sequence without its chain: the chain is not clean any more.
LEMMA NamingFails ==
    ASSUME EngineInv, NamingInv, NEW w \in Workers, NEW r \in Requests, StepFails(w, r)
    PROVE  NamingInv'
  <1>1. /\ UNCHANGED <<shared, chains, placing, driver>>
        /\ lineage' = lineage /\ outrun' = outrun \cup {r}
    BY DEF StepFails, cacheVars, bookVars, threadVars
  <1>2. /\ r \in lineage[r]
        /\ StaysClean
    BY CleanStep DEF EngineNext, Drive, EngineInv, EngineTypeOK, HistoryOK
  <1>3. ASSUME NEW q \in DOMAIN live', Clean(q)'
        PROVE  q \in DOMAIN live /\ live'[q] = live[q] /\ q \in Requests /\ Clean(q)
    <2>1. q # r
      BY <1>1, <1>2, <1>3 DEF Clean
    <2>2. q = r \/ (q # r /\ q \in DOMAIN live /\ live'[q] = live[q])
      BY DeviceStep
    <2>3. q \in DOMAIN live /\ live'[q] = live[q] /\ q \in Requests
      BY <2>1, <2>2 DEF EngineInv, EngineTypeOK
    <2>4. QED
      BY <1>2, <1>3, <2>3 DEF StaysClean
  <1>4. ASSUME NEW q \in DOMAIN live', Clean(q)'
        PROVE  FedOwn(live'[q]) /\ (Tracked(q)' => ChainFollows(q)')
    <2>1. FedOwn(live[q]) /\ (Tracked(q) => ChainFollows(q))
      BY <1>3, <1>4 DEF NamingInv
    <2>2. /\ Tracked(q)' <=> Tracked(q)
          /\ Named(q)' = Named(q) /\ live'[q] = live[q]
      BY <1>1, <1>3, <1>4 DEF Tracked, Named, Unrecorded
    <2>3. Unfolded(q)' = Unfolded(q)
      BY <1>1, <2>2 DEF Unfolded
    <2>4. QED
      BY <2>1, <2>2, <2>3 DEF ChainFollows
  <1>5. ASSUME NEW v \in Workers, driver'[v].pc \in Folding, Tracked(driver[v].r)',
               Clean(driver[v].r)', NEW i \in DOMAIN driver'[v].kept
        PROVE  IsPrefix(driver'[v].kept[i].tokens, Named(driver[v].r)')
    <2>1. PICK q \in Requests : q = driver[v].r
      BY <1>1, <1>5, DriverNow DEF Folding, Filing
    <2>2. Tracked(q) /\ Clean(q)' /\ Named(driver[v].r)' = Named(q)
      BY <1>1, <1>5, <2>1 DEF Tracked, Named, Unrecorded, Clean
    <2>3. Clean(q)
      BY <1>2, <2>2 DEF StaysClean
    <2>4. QED
      BY <1>1, <1>5, <2>1, <2>2, <2>3 DEF NamingInv
  <1>6. QED
    BY <1>1, <1>2, <1>4, <1>5, NamingStays DEF NamingInv

LEMMA NamingExtend ==
    ASSUME EngineInv, NamingInv, NEW w \in Workers, ExtendChain(w)
    PROVE  NamingInv'
  <1>1. PICK r \in Requests : r = driver[w].r
    BY DriverNow DEF ExtendChain
  <1>2. /\ driver[w].pc = "extend" /\ driver'[w].pc = "install" /\ driver'[w].r = r
        /\ driver'[w].kept = driver[w].kept
        /\ \A v \in Workers : v # w => driver'[v] = driver[v]
    BY <1>1, FoldStep
  <1>3. /\ chains' = IF r \in DOMAIN chains
                     THEN [chains EXCEPT ![r].tokens = @ \o driver[w].gen]
                     ELSE chains
        /\ UNCHANGED <<shared, live, placing>>
        /\ Unrecorded(r) => driver[w].gen = << >> \/ ~Clean(r)'
    <2>1. lineage' = lineage /\ r \in lineage[r]
      BY DEF ExtendChain, EngineInv, EngineTypeOK, HistoryOK
    <2>2. Unrecorded(r) /\ driver[w].gen # << >> => r \in outrun'
      BY <1>1 DEF ExtendChain
    <2>3. QED
      BY <1>1, <2>1, <2>2 DEF ExtendChain, cacheVars, Clean
  <1>0. StaysClean
    BY CleanStep DEF EngineNext, Drive
  <1>4. /\ chains \in [DOMAIN chains -> [tokens : Seq(Tokens), prompt : Nat]]
        /\ driver[w].gen \in Seq(Tokens)
    BY <1>2, DriverNow, DriverShape DEF EngineInv, EngineTypeOK
  <1>5. /\ DOMAIN chains' = DOMAIN chains
        /\ \A q \in DOMAIN chains : q # r => chains'[q] = chains[q]
        /\ r \in DOMAIN chains => chains'[r].tokens = chains[r].tokens \o driver[w].gen
    BY <1>3, <1>4
  <1>6. \A q \in Requests : /\ Tracked(q)' <=> Tracked(q)
                            /\ q # r => Named(q)' = Named(q)
    BY <1>3, <1>5 DEF Tracked, Named, Unrecorded
  <1>7. ASSUME Tracked(r), Clean(r)'
        PROVE  Named(r)' = Named(r) \o driver[w].gen /\ Named(r) \in Seq(Tokens)
    <2>1. Named(r) \in Seq(Tokens)
      BY <1>7, NamedType
    <2>2. CASE r \in DOMAIN chains
      BY <1>5, <2>1, <2>2 DEF Named
    <2>3. CASE r \notin DOMAIN chains
      <3>1. driver[w].gen = << >> /\ Named(r)' = Named(r)
        BY <1>3, <1>5, <1>7, <2>3 DEF Tracked, Named
      <3>2. Named(r) \o << >> = Named(r)
        BY <2>1
      <3>3. QED
        BY <2>1, <3>1, <3>2
    <2>4. QED
      BY <2>2, <2>3
  <1>8. /\ \A n \in DOMAIN shared' : Clean(shared[n].by)' => BlocksOf(shared'[n].tokens) = n
        /\ \A v \in Workers : driver'[v].pc \in Filing /\ Clean(driver[v].r)' =>
               BlocksOf(driver'[v].kept[1].tokens) = driver'[v].name
        /\ placing'.pc \in {"score", "route", "admit"} /\ placing'.snap # << >>
               /\ Clean(placing.r)' =>
               IsPrefix(placing'.snap[1].tokens, placing'.prompt)
    BY <1>0, <1>2, <1>3, NamingStays DEF Filing
  <1>9. ASSUME NEW v \in Workers, driver'[v].pc \in Folding, NEW q \in Requests, q = driver'[v].r,
               Tracked(q), Clean(q)', NEW i \in DOMAIN driver'[v].kept
        PROVE  IsPrefix(driver'[v].kept[i].tokens, Named(q)')
    <2>1. CASE v = w
      <3>1. /\ q = r /\ i \in DOMAIN driver[w].kept
            /\ driver'[v].kept[i] = driver[w].kept[i] /\ driver[w].pc \in Folding
        BY <1>2, <1>9, <2>1 DEF Folding
      <3>2. IsPrefix(driver[w].kept[i].tokens, Named(r))
        BY <1>0, <1>1, <1>9, <3>1 DEF NamingInv, StaysClean
      <3>3. driver[w].kept[i].tokens \in Seq(Tokens)
        <4>1. driver[w].kept[i] \in Snapshot
          BY <3>1, DriverNow, DriverShape
        <4>2. QED
          BY <4>1 DEF Snapshot
      <3>4. /\ Named(r)' = Named(r) \o driver[w].gen /\ Named(r) \in Seq(Tokens)
            /\ Named(r) \o driver[w].gen \in Seq(Tokens)
            /\ IsPrefix(Named(r), Named(r) \o driver[w].gen)
        BY <1>4, <1>7, <1>9, <3>1, PrefixOfConcat
      <3>5. IsPrefix(driver[w].kept[i].tokens, Named(r) \o driver[w].gen)
        BY <3>2, <3>3, <3>4, PrefixTransitive
      <3>6. QED
        BY <3>1, <3>4, <3>5
    <2>2. CASE v # w
      <3>1. driver'[v] = driver[v]
        BY <1>2, <2>2
      <3>2. q # r
        <4>1. Busy(v, q) /\ Busy(w, r)
          BY <1>1, <1>2, <1>9, <3>1 DEF Busy, Folding, Filing
        <4>2. QED
          BY <2>2, <4>1 DEF EngineInv, Ownership
      <3>3. Named(q)' = Named(q)
        BY <1>6, <3>2
      <3>4. QED
        BY <1>0, <1>9, <3>1, <3>3 DEF NamingInv, StaysClean
    <2>3. QED
      BY <2>1, <2>2
  <1>10. ASSUME NEW q \in DOMAIN live', Clean(q)'
         PROVE  FedOwn(live'[q]) /\ (Tracked(q)' => ChainFollows(q)')
    <2>1. q \in DOMAIN live /\ live'[q] = live[q] /\ q \in Requests /\ live[q].worker \in Workers
      BY <1>3 DEF EngineInv, EngineTypeOK, LiveSequence
    <2>2. FedOwn(live[q]) /\ (Tracked(q) => ChainFollows(q))
      BY <1>0, <1>10, <2>1 DEF NamingInv, StaysClean
    <2>3. ASSUME Tracked(q)' PROVE ChainFollows(q)'
      <3>1. Tracked(q) /\ ChainFollows(q)
        BY <1>6, <2>1, <2>2, <2>3
      <3>2. CASE q = r
        <4>1. live[q].worker = w
          <5>1. Busy(w, q)
            BY <1>1, <1>2, <3>2 DEF Busy
          <5>2. QED
            BY <2>1, <5>1 DEF EngineInv, Ownership
        <4>2. Unfolded(q) = driver[w].gen /\ Unfolded(q)' = << >>
          BY <1>1, <1>2, <2>1, <3>2, <4>1 DEF Unfolded
        <4>3. Named(q)' = Named(q) \o driver[w].gen /\ Named(q) \in Seq(Tokens)
          BY <1>7, <1>10, <3>1, <3>2
        <4>4. /\ Named(q) \o driver[w].gen \in Seq(Tokens) /\ Named(q) \o << >> = Named(q)
          BY <1>4, <4>3
        <4>5. (Named(q) \o driver[w].gen) \o << >> = Named(q) \o driver[w].gen
          BY <4>4
        <4>6. CASE live[q].out = 0
          BY <2>1, <3>1, <4>2, <4>3, <4>4, <4>6 DEF ChainFollows
        <4>7. CASE live[q].out # 0
          BY <2>1, <3>1, <4>2, <4>3, <4>5, <4>7 DEF ChainFollows
        <4>8. QED
          BY <4>6, <4>7
      <3>3. CASE q # r
        <4>1. Named(q)' = Named(q)
          BY <1>6, <2>1, <3>3
        <4>2. Unfolded(q)' = Unfolded(q)
          <5>1. CASE live[q].worker = w
            BY <1>1, <1>2, <2>1, <3>3, <5>1 DEF Unfolded
          <5>2. CASE live[q].worker # w
            BY <1>2, <2>1, <5>2 DEF Unfolded
          <5>3. QED
            BY <5>1, <5>2
        <4>3. QED
          BY <2>1, <3>1, <4>1, <4>2 DEF ChainFollows
      <3>4. QED
        BY <3>2, <3>3
    <2>4. QED
      BY <2>1, <2>2, <2>3
  <1>11. ASSUME NEW v \in Workers, driver'[v].pc \in Folding, Tracked(driver[v].r)',
                Clean(driver[v].r)', NEW i \in DOMAIN driver'[v].kept
         PROVE  IsPrefix(driver'[v].kept[i].tokens, Named(driver[v].r)')
    <2>1. PICK q \in Requests : q = driver'[v].r
      <3>1. driver' \in [Workers -> DriverState]
        BY ExtendKeeps DEF EngineInv, EngineTypeOK
      <3>2. driver'[v] \in DriverState /\ driver'[v].pc # "idle"
        BY <1>11, <3>1 DEF Folding, Filing
      <3>3. QED
        BY <3>2, DriverShape
    <2>2. Tracked(q)' /\ Clean(q)' /\ Named(driver[v].r)' = Named(q)'
      BY <1>11, <2>1 DEF Tracked, Named, Unrecorded, Clean
    <2>3. QED
      BY <1>6, <1>9, <1>11, <2>1, <2>2
  <1>12. QED
    BY <1>8, <1>10, <1>11 DEF NamingInv

LEMMA NamingFiling ==
    ASSUME EngineInv, NamingInv, NEW w \in Workers,
           \/ InstallName(w) \/ Reclaim(w) \/ InsertPrefix(w) \/ Publish(w)
           \/ MeasureExcess(w) \/ EvictExcess(w) \/ EvictLoop(w) \/ ForgetEvicted(w)
    PROVE  NamingInv'
  <1>1. /\ driver[w].pc \in {"install"} \cup Filing /\ driver[w].kept # << >>
        /\ driver'[w].r = driver[w].r
        /\ \/ /\ driver'[w].pc \in Filing /\ driver'[w].kept = driver[w].kept
              /\ driver[w].pc \in Filing => driver'[w].name = driver[w].name
           \/ driver'[w] = Next1(driver[w]) /\ driver'[w].pc = "install"
        /\ \A v \in Workers : v # w => driver'[v] = driver[v]
        /\ UNCHANGED <<chains, live, placing>>
    BY FilingStep
  <1>2. NamesKept
    BY <1>1 DEF NamesKept, Tracked, Named, Unrecorded
  <1>3. \A q \in DOMAIN live' : Unfolded(q)' = Unfolded(q)
    <2>1. driver[w].pc # "extend" /\ driver'[w].pc # "extend"
      BY <1>1 DEF Filing
    <2>2. ASSUME NEW q \in DOMAIN live' PROVE Unfolded(q)' = Unfolded(q)
      <3>1. live'[q] = live[q] /\ live[q].worker \in Workers
        BY <1>1 DEF EngineInv, EngineTypeOK, LiveSequence
      <3>2. CASE live[q].worker = w
        BY <2>1, <3>1, <3>2 DEF Unfolded
      <3>3. CASE live[q].worker # w
        BY <1>1, <3>1, <3>3 DEF Unfolded
      <3>4. QED
        BY <3>2, <3>3
    <2>3. QED
      BY <2>2
  <1>4. ASSUME NEW v \in Workers PROVE KeptSome(v)
    <2>1. CASE v = w
      <3>1. \A i \in DOMAIN driver'[w].kept :
                \E j \in DOMAIN driver[w].kept : driver'[w].kept[i] = driver[w].kept[j]
        BY KeptStep
      <3>2. QED
        BY <1>1, <2>1, <3>1 DEF KeptSome, Folding
    <2>2. CASE v # w
      BY <1>1, <2>2 DEF KeptSome
    <2>3. QED
      BY <2>1, <2>2
  <1>0. StaysClean
    BY CleanStep DEF EngineNext, Drive
  <1>9. PICK r \in Requests : r = driver[w].r
    BY <1>1, DriverNow DEF Filing
  <1>5. ASSUME NEW n \in DOMAIN shared', Clean(shared[n].by)' PROVE BlocksOf(shared'[n].tokens) = n
    <2>1. CASE n \in DOMAIN shared /\ shared'[n] = shared[n]
      BY <1>0, <1>5, <2>1, NamingStays
    <2>2. CASE /\ driver[w].pc = "publish" /\ n = driver[w].name
               /\ shared'[n].tokens = driver[w].kept[1].tokens
               /\ shared'[n].by = driver[w].r
      <3>1. Clean(r)'
        BY <1>5, <1>9, <2>2 DEF Clean
      <3>2. Clean(driver[w].r)
        BY <1>0, <1>9, <3>1 DEF StaysClean
      <3>3. QED
        BY <2>2, <3>2 DEF NamingInv, Filing
    <2>3. QED
      BY <2>1, <2>2, SharedStep
  <1>6. ASSUME driver[w].pc = "install", driver'[w].pc \in Filing, Clean(driver[w].r)
        PROVE  BlocksOf(driver'[w].kept[1].tokens) = driver'[w].name
    <2> DEFINE c == chains[driver[w].r].tokens
               name == Tree!NameAt(BlocksOf(c), Len(driver[w].kept[1].tokens) \div BlockSize)
    <2>1. InstallName(w)
      BY <1>6 DEF Reclaim, InsertPrefix, Publish, MeasureExcess, EvictExcess, EvictLoop, ForgetEvicted
    <2>2. CASE driver[w].r \in DOMAIN chains /\ CanName(chains[driver[w].r], driver[w].kept[1])
      <3>1. driver'[w].name = name /\ driver'[w].kept = driver[w].kept
        BY <2>1, <2>2 DEF InstallName, EngineInv, EngineTypeOK
      <3>2. 1 \in DOMAIN driver[w].kept /\ driver[w].kept[1].tokens \in Seq(Tokens)
        BY <1>1, DriverNow, NextFits DEF Snapshot
      <3>3. c \in Seq(Tokens)
        BY <2>2 DEF EngineInv, EngineTypeOK
      <3>4. IsPrefix(driver[w].kept[1].tokens, c)
        BY <1>6, <2>2, <3>2 DEF NamingInv, Tracked, Named, Folding
      <3>5. BlocksOf(driver[w].kept[1].tokens) = name
        BY <3>2, <3>3, <3>4, BlocksOfPrefix
      <3>6. QED
        BY <3>1, <3>5
    <2>3. CASE ~(driver[w].r \in DOMAIN chains /\ CanName(chains[driver[w].r], driver[w].kept[1]))
      <3>1. NextSnapshot(w)
        BY <2>1, <2>3 DEF InstallName
      <3>2. driver'[w].pc = "install"
        BY <3>1 DEF NextSnapshot, EngineInv, EngineTypeOK
      <3>3. QED
        BY <1>6, <3>2 DEF Filing
    <2>4. QED
      BY <2>2, <2>3
  <1>7. ASSUME NEW v \in Workers, driver'[v].pc \in Filing, Clean(driver[v].r)'
        PROVE  BlocksOf(driver'[v].kept[1].tokens) = driver'[v].name
    <2>1. CASE v # w
      BY <1>0, <1>1, <1>7, <2>1, NamingStays
    <2>2. CASE v = w
      <3>1. Clean(r)'
        BY <1>1, <1>7, <1>9, <2>2 DEF Clean
      <3>2. Clean(driver[w].r)
        BY <1>0, <1>9, <3>1 DEF StaysClean
      <3>3. CASE driver[w].pc \in Filing
        BY <1>1, <1>7, <2>2, <3>2, <3>3 DEF NamingInv, Filing
      <3>4. QED
        BY <1>1, <1>6, <1>7, <2>2, <3>2, <3>3
    <2>3. QED
      BY <2>1, <2>2
  <1>8. placing'.pc \in {"score", "route", "admit"} /\ placing'.snap # << >>
                /\ Clean(placing.r)' =>
            IsPrefix(placing'.snap[1].tokens, placing'.prompt)
    BY <1>0, <1>1, NamingStays
  <1>10. QED
    BY <1>0, <1>1, <1>2, <1>3, <1>4, <1>5, <1>7, <1>8, NamingFrame


\* A step that drops the chain of one request: there is none yet while place_tokens is
\* about to record it.
LEMMA ChainDropped ==
    ASSUME EngineInv, NEW r \in Requests, chains' = Drop(chains, r), placing' = placing
    PROVE  NamesKept
  <1>1. DOMAIN chains' = DOMAIN chains \ {r}
        /\ \A q \in DOMAIN chains' : chains'[q] = chains[q]
    BY Zenon DEF Drop
  <1>2. Unrecorded(r) => r \notin DOMAIN chains
    BY DEF EngineInv, Ownership
  <1>3. ASSUME NEW q \in Requests, Tracked(q)' PROVE Tracked(q) /\ Named(q)' = Named(q)
    <2>1. CASE q = r
      BY <1>1, <1>2, <1>3, <2>1 DEF Tracked, Named, Unrecorded
    <2>2. CASE q # r
      BY <1>1, <1>3, <2>2 DEF Tracked, Named, Unrecorded
    <2>3. QED
      BY <2>1, <2>2
  <1>4. QED
    BY <1>3 DEF NamesKept

LEMMA NamingFold ==
    ASSUME EngineInv, NamingInv, NEW w \in Workers,
           FoldCompleted(w) \/ FoldUnref(w) \/ FoldReleased(w)
    PROVE  NamingInv'
  <1>1. /\ driver[w].pc \in {"install", "unref", "decr"}
        /\ driver'[w].pc \in {"idle", "unref", "decr"}
        /\ \A v \in Workers : v # w => driver'[v] = driver[v]
        /\ UNCHANGED <<shared, live, placing>>
    BY DEF FoldCompleted, FoldUnref, FoldReleased, Parked, EngineInv, EngineTypeOK, cacheVars
  <1>2. NamesKept
    <2>1. CASE chains' = chains
      BY <1>1, <2>1 DEF NamesKept, Tracked, Named, Unrecorded
    <2>2. CASE FoldCompleted(w) /\ driver[w].done
      <3>1. PICK r \in Requests : r = driver[w].r
        BY <1>1, DriverNow
      <3>2. chains' = Drop(chains, r)
        BY <2>2, <3>1 DEF FoldCompleted
      <3>3. QED
        BY <1>1, <3>2, ChainDropped
    <2>3. QED
      BY <2>1, <2>2 DEF FoldCompleted, FoldUnref, FoldReleased, bookVars
  <1>3. ASSUME NEW q \in DOMAIN live' PROVE Unfolded(q)' = Unfolded(q)
    <2>1. live'[q] = live[q] /\ live[q].worker \in Workers
      BY <1>1 DEF EngineInv, EngineTypeOK, LiveSequence
    <2>2. CASE live[q].worker = w
      BY <1>1, <2>1, <2>2 DEF Unfolded
    <2>3. CASE live[q].worker # w
      BY <1>1, <2>1, <2>3 DEF Unfolded
    <2>4. QED
      BY <2>2, <2>3
  <1>4. ASSUME NEW v \in Workers PROVE KeptSome(v)
    BY <1>1 DEF KeptSome, Folding, Filing
  <1>0. StaysClean
    BY CleanStep DEF EngineNext, Drive
  <1>5. /\ \A n \in DOMAIN shared' : Clean(shared[n].by)' => BlocksOf(shared'[n].tokens) = n
        /\ \A v \in Workers : driver'[v].pc \in Filing /\ Clean(driver[v].r)' =>
               BlocksOf(driver'[v].kept[1].tokens) = driver'[v].name
        /\ placing'.pc \in {"score", "route", "admit"} /\ placing'.snap # << >>
               /\ Clean(placing.r)' =>
               IsPrefix(placing'.snap[1].tokens, placing'.prompt)
    BY <1>0, <1>1, NamingStays DEF Filing
  <1>6. QED
    BY <1>0, <1>1, <1>2, <1>3, <1>4, <1>5, NamingFrame

LEMMA NamingCancel ==
    ASSUME EngineInv, NamingInv, NEW r \in Requests, Cancel(r)
    PROVE  NamingInv'
  <1>1. UNCHANGED <<shared, driver, placing>>
    BY DEF Cancel, CancelFind, CancelChain, CancelRefs, CancelDrop, cacheVars
  <1>2. \A q \in DOMAIN live' : q \in DOMAIN live /\ live'[q] = live[q]
    BY DEF Cancel, CancelFind, CancelChain, CancelRefs, CancelDrop, Drop
  <1>3. NamesKept
    <2>1. CASE CancelChain(r)
      <3>1. chains' = Drop(chains, r)
        BY <2>1 DEF CancelChain
      <3>2. QED
        BY <1>1, <3>1, ChainDropped
    <2>2. CASE chains' = chains
      BY <1>1, <2>2 DEF NamesKept, Tracked, Named, Unrecorded
    <2>3. QED
      BY <2>1, <2>2 DEF Cancel, CancelFind, CancelRefs, CancelDrop, bookVars
  <1>4. /\ \A q \in DOMAIN live' : Unfolded(q)' = Unfolded(q)
        /\ \A w \in Workers : KeptSome(w)
    BY <1>1, <1>2 DEF Unfolded, KeptSome
  <1>0. StaysClean
    BY CleanStep DEF EngineNext
  <1>5. /\ \A n \in DOMAIN shared' : Clean(shared[n].by)' => BlocksOf(shared'[n].tokens) = n
        /\ \A v \in Workers : driver'[v].pc \in Filing /\ Clean(driver[v].r)' =>
               BlocksOf(driver'[v].kept[1].tokens) = driver'[v].name
        /\ placing'.pc \in {"score", "route", "admit"} /\ placing'.snap # << >>
               /\ Clean(placing.r)' =>
               IsPrefix(placing'.snap[1].tokens, placing'.prompt)
    BY <1>0, <1>1, NamingStays
  <1>6. QED
    BY <1>0, <1>2, <1>3, <1>4, <1>5, NamingFrame

LEMMA NamingStep ==
    ASSUME EngineInv, NamingInv, [EngineNext]_engineVars
    PROVE  NamingInv'
  <1>1. CASE UNCHANGED engineVars
    <2>1. UNCHANGED <<shared, driver, placing, live, chains, lineage, outrun>>
      BY <1>1 DEF engineVars, cacheVars, threadVars, bookVars, pastVars
    <2>2. NamesKept /\ StaysClean
      BY <2>1 DEF NamesKept, Tracked, Named, Unrecorded, StaysClean, Clean
    <2>3. /\ \A q \in DOMAIN live' : Unfolded(q)' = Unfolded(q)
          /\ \A w \in Workers : KeptSome(w)
      BY <2>1 DEF Unfolded, KeptSome
    <2>4. QED
      BY <2>1, <2>2, <2>3, NamingStays, NamingFrame
  <1>2. ASSUME NEW w \in Workers, Drive(w) PROVE NamingInv'
    <2>1. ASSUME NEW r \in Requests, StepDevice(w, r) \/ StepFails(w, r) PROVE NamingInv'
      BY <2>1, NamingDevice, NamingFails
    <2>2. QED
      BY <1>2, <2>1, NamingExtend, NamingFiling, NamingFold DEF Drive
  <1>3. QED
    BY <1>1, <1>2, NamingPlace, NamingCancel DEF EngineNext

\* install_snapshot, publish and take_for_reuse together: where a request's state comes
\* from requests whose chains missed no token, its chain names the tokens of its device at
\* every interleaving, whatever happened to the others.
LEMMA NamingInvariant == EngineSpec => []NamingInv
  <1>1. EngineInit => NamingInv
    BY DEF EngineInit, NamingInv, NotPlacing, Parked, Folding, Filing
  <1>2. QED
    BY <1>1, NamingStep, EngineInvariant, PTL DEF EngineSpec

\* A published snapshot is filed under the blocks of exactly the tokens its state was
\* computed from (install_snapshot), whatever requests, drivers and cancellations did in
\* between and whatever went wrong for other requests: only a request whose own chain
\* missed a token, or that was restored from one of those, may publish another name.
THEOREM NamesAreTrue == EngineSpec => []SnapshotsNamedTruly
  <1>1. EngineInv /\ NamingInv => SnapshotsNamedTruly
    <2>1. SUFFICES ASSUME EngineInv, NamingInv, NEW n \in DOMAIN shared, Clean(shared[n].by)
                   PROVE  /\ BlocksOf(shared[n].tokens) = n
                          /\ Len(shared[n].tokens) % BlockSize = 0
      BY DEF SnapshotsNamedTruly
    <2>2. Len(shared[n].tokens) = BlockSize * Len(n) /\ n \in Names
      BY <2>1 DEF EngineInv, EngineTypeOK, LengthsFit
    <2>3. Len(n) \in Nat /\ BlockSize \in Nat \ {0}
      BY <2>2, Geometry DEF Names
    <2>4. ASSUME NEW k \in Nat PROVE (BlockSize * k) % BlockSize = 0
      <3>1. 0 \in 0 .. (BlockSize - 1)
        BY <2>3
      <3>2. (BlockSize * k + 0) % BlockSize = 0
        BY <2>3, <3>1, QuotientUnique
      <3>3. BlockSize * k + 0 = BlockSize * k
        BY <2>3
      <3>4. QED
        BY <3>2, <3>3
    <2>5. (BlockSize * Len(n)) % BlockSize = 0
      BY <2>3, <2>4
    <2>6. QED
      BY <2>1, <2>2, <2>4, <2>5 DEF NamingInv
  <1>2. QED
    BY <1>1, EngineInvariant, NamingInvariant, PTL

\* A sequence is fed its own prompt and nothing else before its first token, also when it
\* was restored from a snapshot that another request published (admit_restored), unless
\* the chain of a request its state comes from missed a token.
THEOREM ResumesOwn == EngineSpec => []ResumesOwnPrompt
  <1>1. EngineInv /\ NamingInv => ResumesOwnPrompt
    <2>1. SUFFICES ASSUME EngineInv, NamingInv, NEW r \in DOMAIN live, Clean(r),
                          NEW common, common = IF Len(live[r].fed) < Len(live[r].prompt)
                                               THEN Len(live[r].fed) ELSE Len(live[r].prompt)
                   PROVE  SubSeq(live[r].fed, 1, common) = SubSeq(live[r].prompt, 1, common)
      BY DEF ResumesOwnPrompt
    <2> DEFINE f == live[r].fed
               p == live[r].prompt
    <2>2. /\ f \in Seq(Tokens) /\ p \in Seq(Tokens) /\ LiveFits(live[r])
      <3>1. live[r] \in LiveSequence /\ LiveFits(live[r])
        BY <2>1 DEF EngineInv, EngineTypeOK, LengthsFit
      <3>2. QED
        BY <3>1, Geometry DEF LiveSequence
    <2>3. FedOwn(live[r])
      BY <2>1 DEF NamingInv
    <2>4. \/ IsPrefix(f, p) /\ Len(f) <= Len(p)
          \/ IsPrefix(p, f) /\ Len(p) <= Len(f)
      BY <2>2, <2>3 DEF FedOwn, LiveFits
    <2>5. common = IF Len(f) < Len(p) THEN Len(f) ELSE Len(p)
      BY <2>1
    <2> HIDE DEF f, p
    <2>6. common \in 0 .. Len(f) /\ common \in 0 .. Len(p)
      BY <2>2, <2>5
    <2>7. ASSUME NEW i \in 1 .. common PROVE f[i] = p[i]
      <3>1. CASE IsPrefix(f, p) /\ Len(f) <= Len(p)
        BY <2>2, <2>6, <2>7, <3>1, PrefixByElements
      <3>2. CASE IsPrefix(p, f) /\ Len(p) <= Len(f)
        BY <2>2, <2>6, <2>7, <3>2, PrefixByElements
      <3>3. QED
        BY <2>4, <3>1, <3>2
    <2>8. /\ SubSeq(f, 1, common) \in Seq(Tokens) /\ Len(SubSeq(f, 1, common)) = common
          /\ SubSeq(p, 1, common) \in Seq(Tokens) /\ Len(SubSeq(p, 1, common)) = common
          /\ \A i \in 1 .. common : SubSeq(f, 1, common)[i] = SubSeq(p, 1, common)[i]
      BY <2>2, <2>6, <2>7, Beginning
    <2>9. SubSeq(f, 1, common) = SubSeq(p, 1, common)
      BY <2>8
    <2>10. QED
      BY <2>9 DEF f, p
  <1>2. QED
    BY <1>1, EngineInvariant, NamingInvariant, PTL

-----------------------------------------------------------------------------
(* The one way a published snapshot loses its node.                        *)

LEMMA GotoPc ==
    ASSUME EngineInv, NEW w \in Workers, NEW pc, Goto(w, pc)
    PROVE  driver'[w].pc = pc /\ driver'[w].gone = driver[w].gone
  <1>1. driver \in [Workers -> DriverState] /\ driver[w] \in DriverState
    BY DEF EngineInv, EngineTypeOK
  <1>2. driver'[w] = [driver[w] EXCEPT !.pc = pc]
    BY <1>1 DEF Goto
  <1>3. [driver[w] EXCEPT !.pc = pc].pc = pc
    BY <1>1 DEF DriverState
  <1>4. [driver[w] EXCEPT !.pc = pc].gone = driver[w].gone
    BY <1>1 DEF DriverState
  <1>5. QED
    BY <1>2, <1>3, <1>4

\* What driver w has in hand it still has after the step.
HandKept(w) ==
    driver[w].pc \in {"evict", "forget"} =>
        driver'[w].pc \in {"evict", "forget"} /\ driver[w].gone \subseteq driver'[w].gone

\* A step that publishes nothing strands nothing if it evicts nothing and every driver
\* keeps what it has in hand.
LEMMA NothingStranded ==
    ASSUME \A w \in Workers : HandKept(w), DOMAIN shared' \subseteq DOMAIN shared,
           DOMAIN nodes \subseteq DOMAIN nodes'
    PROVE  Stranded' \subseteq Stranded
  <1>1. InHand \subseteq InHand'
    <2>1. ASSUME NEW n \in InHand PROVE n \in InHand'
      <3>1. PICK w \in Workers : driver[w].pc \in {"evict", "forget"} /\ n \in driver[w].gone
        BY <2>1 DEF InHand
      <3>2. driver'[w].pc \in {"evict", "forget"} /\ n \in driver'[w].gone
        BY <3>1 DEF HandKept
      <3>3. QED
        BY <3>2 DEF InHand
    <2>2. QED
      BY <2>1
  <1>2. QED
    BY <1>1 DEF Stranded

\* An evicted node is in its driver's hand.
LEMMA EvictedInHand ==
    ASSUME EngineInv, NEW w \in Workers, EvictLoop(w)
    PROVE  Stranded' \subseteq Stranded
  <1>1. /\ driver[w].pc = "evict" /\ shared' = shared
        /\ driver \in [Workers -> DriverState] /\ driver[w] \in DriverState
    BY DEF EvictLoop, cacheVars, EngineInv, EngineTypeOK
  <1>2. ASSUME NEW n \in DOMAIN nodes, Tree!EvictOne(n),
               driver' = [driver EXCEPT ![w].gone = @ \cup {n},
                                        ![w].pc = IF quota = 1 THEN "forget" ELSE "evict"]
        PROVE  Stranded' \subseteq Stranded
    <2>1. /\ driver'[w].pc \in {"evict", "forget"}
          /\ driver'[w].gone = driver[w].gone \cup {n}
          /\ \A v \in Workers : v # w => driver'[v] = driver[v]
      BY <1>1, <1>2 DEF DriverState
    <2>2. DOMAIN nodes' = DOMAIN nodes \ {n}
      BY <1>2 DEF Tree!EvictOne
    <2>3. ASSUME NEW m \in InHand PROVE m \in InHand'
      <3>1. PICK v \in Workers : driver[v].pc \in {"evict", "forget"} /\ m \in driver[v].gone
        BY <2>3 DEF InHand
      <3>2. driver'[v].pc \in {"evict", "forget"} /\ m \in driver'[v].gone
        BY <2>1, <3>1
      <3>3. QED
        BY <3>2 DEF InHand
    <2>4. n \in InHand'
      BY <2>1 DEF InHand
    <2>5. QED
      BY <1>1, <2>2, <2>3, <2>4 DEF Stranded
  <1>3. CASE Tree!EvictStop /\ Goto(w, "forget")
    <2>1. nodes' = nodes /\ HandKept(w)
      BY <1>3, GotoPc DEF Tree!EvictStop, HandKept
    <2>2. \A v \in Workers : v # w => HandKept(v)
      BY <1>1, <1>3 DEF Goto, HandKept
    <2>3. QED
      BY <1>1, <2>1, <2>2, NothingStranded
  <1>4. QED
    BY <1>2, <1>3 DEF EvictLoop

\* A driver forgets the snapshots of all it has in hand.
LEMMA ForgottenInHand ==
    ASSUME EngineInv, NEW w \in Workers, ForgetEvicted(w)
    PROVE  Stranded' \subseteq Stranded
  <1>1. /\ driver[w].pc = "forget"
        /\ DOMAIN shared' = DOMAIN shared \ driver[w].gone
        /\ nodes' = nodes
        /\ \A v \in Workers : v # w => driver'[v] = driver[v]
    BY DEF ForgetEvicted, NextSnapshot, treeVars, EngineInv, EngineTypeOK
  <1>2. ASSUME NEW n \in Stranded' PROVE n \in Stranded
    <2>1. n \in DOMAIN shared /\ n \notin driver[w].gone /\ n \notin DOMAIN nodes /\ n \notin InHand'
      BY <1>1, <1>2 DEF Stranded
    <2>2. ASSUME NEW v \in Workers, driver[v].pc \in {"evict", "forget"}, n \in driver[v].gone
          PROVE  FALSE
      <3>1. v # w
        BY <2>1, <2>2
      <3>2. driver'[v] = driver[v]
        BY <1>1, <3>1
      <3>3. QED
        BY <2>1, <2>2, <3>2 DEF InHand
    <2>3. n \notin InHand
      BY <2>2 DEF InHand
    <2>4. QED
      BY <2>1, <2>3 DEF Stranded
  <1>3. QED
    BY <1>2

\* The driver's other steps, all but the publication.
LEMMA NoneStranded ==
    ASSUME EngineInv, NEW w \in Workers,
           \/ \E r \in Requests : StepDevice(w, r) \/ StepFails(w, r)
           \/ ExtendChain(w) \/ InstallName(w) \/ Reclaim(w) \/ InsertPrefix(w)
           \/ MeasureExcess(w) \/ EvictExcess(w)
           \/ FoldCompleted(w) \/ FoldUnref(w) \/ FoldReleased(w)
    PROVE  Stranded' \subseteq Stranded
  <1>1. driver[w].pc \notin {"evict", "forget"}
    BY DEF StepDevice, StepFails, ExtendChain, InstallName, Reclaim, InsertPrefix, MeasureExcess,
           EvictExcess, FoldCompleted, FoldUnref, FoldReleased
  <1>2. \A v \in Workers : v # w => driver'[v] = driver[v]
    BY DEF StepDevice, StepFails, ExtendChain, InstallName, Reclaim, InsertPrefix, MeasureExcess,
           EvictExcess, FoldCompleted, FoldUnref, FoldReleased, threadVars, Goto, NextSnapshot,
           EngineInv, EngineTypeOK
  <1>3. \A v \in Workers : HandKept(v)
    BY <1>1, <1>2 DEF HandKept
  <1>4. DOMAIN shared' \subseteq DOMAIN shared
    <2>1. CASE Reclaim(w)
      <3>1. PICK gone : shared' = [n \in DOMAIN shared \ gone |-> shared[n]]
        BY <2>1 DEF Reclaim
      <3>2. QED
        BY <3>1
    <2>2. CASE shared' = shared
      BY <2>2
    <2>3. QED
      BY <2>1, <2>2
         DEF StepDevice, StepFails, ExtendChain, InstallName, InsertPrefix, MeasureExcess,
             EvictExcess, FoldCompleted, FoldUnref, FoldReleased, cacheVars
  <1>5. DOMAIN nodes \subseteq DOMAIN nodes'
    <2>1. CASE InsertPrefix(w)
      BY <2>1 DEF InsertPrefix, Tree!Insert
    <2>2. CASE FoldReleased(w)
      BY <2>2 DEF FoldReleased, Tree!DecrRefChain
    <2>3. CASE nodes' = nodes
      BY <2>3
    <2>4. QED
      BY <2>1, <2>2, <2>3
         DEF StepDevice, StepFails, ExtendChain, InstallName, Reclaim, MeasureExcess,
             EvictExcess, FoldCompleted, FoldUnref, treeVars, Tree!EvictBegin
  <1>6. QED
    BY <1>3, <1>4, <1>5, NothingStranded

\* A publication strands what it publishes, if the node is gone.
LEMMA PublishedStranded ==
    ASSUME EngineInv, NEW w \in Workers, Publish(w), NEW n \in Stranded' \ Stranded
    PROVE  driver[w].pc = "publish" /\ driver[w].name = n /\ n \notin DOMAIN nodes
  <1>1. driver[w].pc = "publish" /\ nodes' = nodes
    BY DEF Publish, treeVars
  <1>2. PICK entry : shared' = Put(shared, driver[w].name, entry)
    BY DEF Publish
  <1>3. DOMAIN shared' = DOMAIN shared \cup {driver[w].name}
    BY <1>2, Zenon DEF Put
  <1>4. driver'[w].pc = "measure" /\ \A v \in Workers : v # w => driver'[v] = driver[v]
    BY GotoPc DEF Publish, Goto, EngineInv, EngineTypeOK
  <1>5. InHand' = InHand
    BY <1>1, <1>4 DEF InHand
  <1>6. QED
    BY <1>1, <1>3, <1>5 DEF Stranded

LEMMA StrandedElsewhere ==
    ASSUME EngineInv,
           \/ Place
           \/ \E r \in Requests : Cancel(r)
           \/ UNCHANGED engineVars
    PROVE  Stranded' \subseteq Stranded
  <1>1. driver' = driver /\ shared' = shared
    BY DEF Place, PlaceMatch, PlaceClaim, PlaceScore, PlaceRoute, PlaceAdmit, PlaceIncr, PlaceRefs,
           PlaceChain, Cancel, CancelFind, CancelChain, CancelRefs, CancelDrop, engineVars,
           threadVars, cacheVars
  <1>2. DOMAIN nodes' = DOMAIN nodes
    <2>1. CASE PlaceIncr
      BY <2>1 DEF PlaceIncr, Tree!IncrRefChain
    <2>2. ASSUME NEW r \in Requests, CancelRefs(r) PROVE DOMAIN nodes' = DOMAIN nodes
      BY <2>2 DEF CancelRefs, Tree!DecrRefChain, treeVars
    <2>3. QED
      BY <2>1, <2>2
         DEF Place, PlaceMatch, PlaceClaim, PlaceScore, PlaceRoute, PlaceAdmit, PlaceRefs,
             PlaceChain, Cancel, CancelFind, CancelChain, CancelDrop, engineVars, treeVars
  <1>3. QED
    BY <1>1, <1>2 DEF Stranded, InHand

\* The five locks of install_snapshot, taken by any number of workers in any order: a
\* snapshot without a node comes only from a publication whose node another driver had
\* evicted, and forgotten, since the insertion; no eviction, no removal, no reclaim and no
\* other thread leaves one behind.
THEOREM OnlyPublishingStrands == EngineSpec => StrandedByPublishing
  <1> DEFINE Only == \A n \in Stranded' \ Stranded :
                        \E w \in Workers : /\ driver[w].pc = "publish" /\ driver[w].name = n
                                           /\ n \notin DOMAIN nodes
                                           /\ Publish(w)
  <1>1. ASSUME EngineInv, [EngineNext]_engineVars PROVE Only
    <2>1. SUFFICES ASSUME NEW n \in Stranded' \ Stranded
                   PROVE  \E w \in Workers : /\ driver[w].pc = "publish" /\ driver[w].name = n
                                             /\ n \notin DOMAIN nodes
                                             /\ Publish(w)
      OBVIOUS
    <2>2. ~(Stranded' \subseteq Stranded)
      BY <2>1
    <2>3. PICK w \in Workers : Drive(w)
      BY <1>1, <2>2, StrandedElsewhere DEF EngineNext
    <2>4. Publish(w)
      BY <1>1, <2>2, <2>3, EvictedInHand, ForgottenInHand, NoneStranded DEF Drive
    <2>5. QED
      BY <1>1, <2>1, <2>4, PublishedStranded
  <1>2. EngineSpec => [][Only]_engineVars
    BY <1>1, EngineInvariant, PTL DEF EngineSpec
  <1>3. QED
    BY <1>2 DEF StrandedByPublishing

=============================================================================
