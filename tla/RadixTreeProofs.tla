-------------------------- MODULE RadixTreeProofs --------------------------
(***************************************************************************)
(* Proofs about RadixTree for every set of blocks and chains.  The three   *)
(* parts of TreeInv are inductive together; HeldChainSurvives then follows *)
(* because an evicted node is a leaf, so it is on the way to no other one. *)
(***************************************************************************)
EXTENDS RadixTree, SequenceTheorems, TLAPS

\* Facts about names: the prefixes of a chain, their parents and their prefixes.
LEMMA NameFacts ==
    ASSUME NEW c \in Seq(Blocks), NEW i \in 1 .. Len(c)
    PROVE  /\ NameAt(c, i) \in Seq(Blocks) \ {Root}
           /\ Len(NameAt(c, i)) = i
           /\ Parent(NameAt(c, i)) = NameAt(c, i - 1)
           /\ \A j \in 1 .. i : NameAt(NameAt(c, i), j) = NameAt(c, j)
           /\ ChainNames(NameAt(c, i)) = {NameAt(c, j) : j \in 1 .. i}
<1>1. /\ NameAt(c, i) \in Seq(Blocks)
      /\ Len(NameAt(c, i)) = i
      /\ \A j \in 1 .. i : NameAt(c, i)[j] = c[j]
  BY SubSeqProperties DEF NameAt
<1>2. NameAt(c, i) # Root
  BY <1>1 DEF Root
<1>3. \A j \in 0 .. i : NameAt(NameAt(c, i), j) = NameAt(c, j)
  <2> SUFFICES ASSUME NEW j \in 0 .. i
               PROVE  SubSeq(SubSeq(c, 1, i), 1, j) = SubSeq(c, 1, j)
    BY DEF NameAt
  <2>1. CASE j = 0
    BY <2>1, SubSeqEmpty
  <2>2. CASE j # 0
    BY <2>2, SubSeqOfSubSeq
  <2> QED
    BY <2>1, <2>2
<1>4. Parent(NameAt(c, i)) = NameAt(c, i - 1)
  BY <1>1, <1>3 DEF Parent, NameAt
<1> QED
  BY <1>1, <1>2, <1>3, <1>4 DEF ChainNames

\* A name is its own last prefix, and its parent is Root or one of its prefixes.
LEMMA NameSelf ==
    ASSUME NEW n \in Seq(Blocks) \ {Root}
    PROVE  /\ Len(n) \in Nat \ {0}
           /\ NameAt(n, Len(n)) = n
           /\ n \in ChainNames(n)
           /\ Parent(n) = NameAt(n, Len(n) - 1)
           /\ Parent(n) = Root \/ Parent(n) \in ChainNames(n)
<1>1. Len(n) \in Nat \ {0}
  BY EmptySeq, LenProperties DEF Root
<1>2. NameAt(n, Len(n)) = n
  BY SubSeqFull DEF NameAt
<1>3. Len(n) = 1 => Parent(n) = Root
  BY SubSeqEmpty DEF Parent, Root
<1>4. Len(n) \in 1 .. Len(n)
  BY <1>1
<1>5. n \in ChainNames(n)
  BY <1>2, <1>4 DEF ChainNames
<1>6. Parent(n) = NameAt(n, Len(n) - 1)
  BY DEF Parent, NameAt
<1>7. ASSUME Len(n) > 1
      PROVE  Parent(n) \in ChainNames(n)
  <2>1. Len(n) - 1 \in 1 .. Len(n)
    BY <1>1, <1>7
  <2> QED
    BY <1>6, <2>1 DEF ChainNames
<1>8. Len(n) = 1 \/ Len(n) > 1
  <2>1. \A k \in Nat \ {0} : k = 1 \/ k > 1
    OBVIOUS
  <2> QED
    BY <1>1, <2>1, Zenon
<1> QED
  BY <1>1, <1>2, <1>3, <1>5, <1>6, <1>7, <1>8

\* The nodes the calls write are nodes.
LEMMA WrittenNodes ==
    /\ \A b \in BOOLEAN : FreshNode(b) \in Node
    /\ \A x \in Node : [x EXCEPT !.refs = x.refs + 1] \in Node
    /\ \A x \in Node : \A b \in BOOLEAN : [x EXCEPT !.pinned = b] \in Node
    /\ \A x \in Node : \A now \in Nat : Released(x, now) \in Node
<1>1. \A b \in BOOLEAN : FreshNode(b) \in Node
  BY DEF FreshNode, Node
<1>2. \A x \in Node : [x EXCEPT !.refs = x.refs + 1] \in Node
  BY DEF Node
<1>3. \A x \in Node : \A b \in BOOLEAN : [x EXCEPT !.pinned = b] \in Node
  BY DEF Node
<1>4. \A x \in Node : \A now \in Nat : Released(x, now) \in Node
  BY DEF Node, Released
<1> QED
  BY <1>1, <1>2, <1>3, <1>4

\* Inserting a chain keeps the nodes typed, closed and linked.
LEMMA InsertKeepsInv ==
    ASSUME TreeInv, NEW c \in Seq(Blocks) \ {Root},
           NEW flagged, Insert(c, flagged)
    PROVE  TreeInv'
<1> DEFINE new == ChainNames(c) \ DOMAIN nodes
<1>1. /\ DOMAIN nodes' = DOMAIN nodes \cup new
      /\ \A n \in DOMAIN nodes' :
            nodes'[n] = IF n \in new THEN FreshNode(Len(n) \in flagged) ELSE nodes[n]
      /\ nodes' = [n \in DOMAIN nodes' |-> nodes'[n]]
  BY Zenon DEF Insert
<1>2. /\ DOMAIN children' = DOMAIN children \cup new
      /\ \A n \in DOMAIN children' :
            children'[n] = (IF n \in DOMAIN children THEN children[n] ELSE {})
                           \cup {m \in new : Parent(m) = n}
  BY Zenon DEF Insert
<1>3. new \subseteq Seq(Blocks) \ {Root}
  BY NameFacts DEF ChainNames
<1>4. TreeTypeOK'
  <2>1. DOMAIN nodes' \subseteq Seq(Blocks) \ {Root}
    BY <1>1, <1>3 DEF TreeInv, TreeTypeOK
  <2>2. \A n \in DOMAIN nodes' : nodes'[n] \in Node
    <3> SUFFICES ASSUME NEW n \in DOMAIN nodes'
                 PROVE  nodes'[n] \in Node
      OBVIOUS
    <3>1. CASE n \in new
      <4>1. (Len(n) \in flagged) \in BOOLEAN
        OBVIOUS
      <4> QED
        BY <1>1, <3>1, <4>1, WrittenNodes, Zenon
    <3>2. CASE n \notin new
      BY <1>1, <3>2 DEF TreeInv, TreeTypeOK
    <3> QED
      BY <3>1, <3>2
  <2>3. DOMAIN children' = DOMAIN nodes' \cup {Root}
    BY <1>1, <1>2 DEF TreeInv, TreeTypeOK
  <2>4. clock' \in Nat /\ quota' \in Nat
    BY DEF TreeInv, TreeTypeOK, Insert
  <2> QED
    BY <1>1, <2>1, <2>2, <2>3, <2>4 DEF TreeTypeOK
<1>5. PrefixClosed'
  <2> SUFFICES ASSUME NEW n \in DOMAIN nodes'
               PROVE  ChainNames(n) \subseteq DOMAIN nodes'
    BY DEF PrefixClosed
  <2>1. CASE n \in DOMAIN nodes
    BY <1>1, <2>1 DEF TreeInv, PrefixClosed
  <2>2. CASE n \in ChainNames(c)
    <3>1. PICK i \in 1 .. Len(c) : n = NameAt(c, i)
      BY <2>2 DEF ChainNames
    <3>2. ChainNames(n) = {NameAt(c, j) : j \in 1 .. i}
      BY <3>1, NameFacts
    <3> QED
      BY <1>1, <3>2, LenProperties DEF ChainNames
  <2> QED
    BY <1>1, <2>1, <2>2
<1>6. LinksExact'
  <2> SUFFICES ASSUME NEW n \in DOMAIN children'
               PROVE  children'[n] = {m \in DOMAIN nodes' : Parent(m) = n}
    BY DEF LinksExact
  <2>1. CASE n \in DOMAIN children
    BY <1>1, <1>2, <2>1 DEF TreeInv, LinksExact
  <2>2. CASE n \notin DOMAIN children
    <3>1. \A m \in DOMAIN nodes : Parent(m) \in DOMAIN children
      <4> SUFFICES ASSUME NEW m \in DOMAIN nodes
                   PROVE  Parent(m) \in DOMAIN children
        OBVIOUS
      <4>1. m \in Seq(Blocks) \ {Root}
        BY DEF TreeInv, TreeTypeOK
      <4> QED
        <5>1. Parent(m) = Root \/ Parent(m) \in ChainNames(m)
          BY <4>1, NameSelf
        <5> QED
          BY <5>1 DEF TreeInv, TreeTypeOK, PrefixClosed
    <3> QED
      BY <1>1, <1>2, <2>2, <3>1
  <2> QED
    BY <2>1, <2>2
<1> QED
  BY <1>4, <1>5, <1>6 DEF TreeInv

\* A call that rewrites nodes in place, keeping them nodes, keeps the invariant.
LEMMA RewriteKeepsInv ==
    ASSUME TreeInv,
           DOMAIN nodes' = DOMAIN nodes,
           nodes' = [n \in DOMAIN nodes' |-> nodes'[n]],
           \A n \in DOMAIN nodes : nodes'[n] \in Node,
           children' = children, clock' \in Nat, quota' \in Nat
    PROVE  TreeInv'
<1>1. TreeTypeOK'
  BY DEF TreeInv, TreeTypeOK
<1>2. PrefixClosed'
  BY DEF TreeInv, PrefixClosed
<1>3. LinksExact'
  BY DEF TreeInv, LinksExact
<1> QED
  BY <1>1, <1>2, <1>3 DEF TreeInv

\* Removing one evictable node keeps the invariant: it is nobody's parent.
LEMMA EvictKeepsInv ==
    ASSUME TreeInv, NEW n \in DOMAIN nodes, EvictOne(n)
    PROVE  TreeInv'
<1>1. /\ DOMAIN nodes' = DOMAIN nodes \ {n}
      /\ \A m \in DOMAIN nodes' : nodes'[m] = nodes[m]
      /\ nodes' = [m \in DOMAIN nodes' |-> nodes'[m]]
  BY Zenon DEF EvictOne
<1>2. /\ DOMAIN children' = DOMAIN children \ {n}
      /\ \A m \in DOMAIN children' : children'[m] = children[m] \ {n}
  BY Zenon DEF EvictOne
<1>3. children[n] = {} /\ n \in DOMAIN children /\ n # Root
  BY DEF EvictOne, Evictable, TreeInv, TreeTypeOK
<1>4. TreeTypeOK'
  <2>1. quota' \in Nat /\ clock' \in Nat
    BY DEF TreeInv, TreeTypeOK, EvictOne
  <2>2. DOMAIN children' = DOMAIN nodes' \cup {Root}
    BY <1>1, <1>2, <1>3 DEF TreeInv, TreeTypeOK
  <2> QED
    BY <1>1, <2>1, <2>2 DEF TreeInv, TreeTypeOK
<1>5. PrefixClosed'
  <2> SUFFICES ASSUME NEW m \in DOMAIN nodes, m # n,
                      NEW i \in 1 .. Len(m), NameAt(m, i) = n
               PROVE  FALSE
    BY <1>1 DEF TreeInv, PrefixClosed, ChainNames
  <2>1. m \in Seq(Blocks) \ {Root}
    BY DEF TreeInv, TreeTypeOK
  <2>2. i < Len(m)
    BY <2>1, NameSelf
  <2>3. i + 1 \in 1 .. Len(m)
    BY <2>1, <2>2, NameSelf
  <2>4. Parent(NameAt(m, i + 1)) = n
    BY <2>1, <2>3, NameFacts
  <2>5. NameAt(m, i + 1) \in DOMAIN nodes
    BY <2>3 DEF TreeInv, PrefixClosed, ChainNames
  <2> QED
    BY <1>3, <2>4, <2>5 DEF TreeInv, LinksExact
<1>6. LinksExact'
  BY <1>1, <1>2 DEF TreeInv, LinksExact
<1> QED
  BY <1>4, <1>5, <1>6 DEF TreeInv

\* TreeInv is inductive.
LEMMA TreeStep ==
    TreeInv /\ [TreeNext]_treeVars => TreeInv'
<1> SUFFICES ASSUME TreeInv, [TreeNext]_treeVars
             PROVE  TreeInv'
  OBVIOUS
<1>1. ASSUME NEW c \in Chains, NEW flagged, Insert(c, flagged)
      PROVE  TreeInv'
  BY <1>1, InsertKeepsInv, ChainAssumption DEF Root
<1>2. ASSUME NEW c, IncrRefChain(c)
      PROVE  TreeInv'
  <2>1. \A n \in DOMAIN nodes : nodes'[n] \in Node
    BY <1>2, WrittenNodes DEF IncrRefChain, TreeInv, TreeTypeOK
  <2> QED
    BY <1>2, <2>1, RewriteKeepsInv DEF IncrRefChain, TreeInv, TreeTypeOK
<1>3. ASSUME NEW c, DecrRefChain(c)
      PROVE  TreeInv'
  <2>1. \A n \in DOMAIN nodes : Released(nodes[n], clock + 1) \in Node
    BY WrittenNodes DEF TreeInv, TreeTypeOK
  <2>2. \A n \in DOMAIN nodes : nodes'[n] \in Node
    BY <1>3, <2>1 DEF DecrRefChain, TreeInv, TreeTypeOK
  <2> QED
    BY <1>3, <2>2, RewriteKeepsInv DEF DecrRefChain, TreeInv, TreeTypeOK
<1>4. ASSUME NEW c, NEW pinned \in BOOLEAN, SetPinned(c, pinned)
      PROVE  TreeInv'
  <2>1. \A n \in DOMAIN nodes : nodes'[n] \in Node
    BY <1>4, WrittenNodes DEF SetPinned, TreeInv, TreeTypeOK
  <2> QED
    BY <1>4, <2>1, RewriteKeepsInv DEF SetPinned, TreeInv, TreeTypeOK
<1>5. ASSUME NEW max \in 1 .. MaxEvict, EvictBegin(max)
      PROVE  TreeInv'
  BY <1>5, ChainAssumption, RewriteKeepsInv DEF EvictBegin, TreeInv, TreeTypeOK
<1>6. ASSUME NEW n \in DOMAIN nodes, EvictOne(n)
      PROVE  TreeInv'
  BY <1>6, EvictKeepsInv
<1>7. CASE EvictStop
  BY <1>7, RewriteKeepsInv DEF EvictStop, TreeInv, TreeTypeOK
<1>8. CASE UNCHANGED treeVars
  BY <1>8, RewriteKeepsInv DEF treeVars, TreeInv, TreeTypeOK
<1> QED
  BY <1>1, <1>2, <1>3, <1>4, <1>5, <1>6, <1>7, <1>8 DEF TreeNext

\* The empty tree satisfies the invariant.
LEMMA TreeStart == TreeInit => TreeInv
<1> SUFFICES ASSUME TreeInit PROVE TreeInv
  OBVIOUS
<1>1. DOMAIN nodes = {} /\ DOMAIN children = {Root} /\ children[Root] = {}
  BY DEF TreeInit
<1>2. TreeTypeOK
  BY <1>1 DEF TreeInit, TreeTypeOK
<1> QED
  BY <1>1, <1>2 DEF TreeInv, PrefixClosed, LinksExact

\* RadixTree keeps its fields typed, its cached prefixes without holes and its
\* child links exact under any sequence of calls.
THEOREM TreeInvariant == TreeSpec => []TreeInv
  BY TreeStart, TreeStep, PTL DEF TreeSpec

\* match_prefix never stops at a hole: every cached block has its prefix cached.
THEOREM TreeClosed == TreeSpec => []PrefixClosed
<1>1. TreeInv => PrefixClosed
  BY DEF TreeInv
<1> QED
  BY <1>1, TreeInvariant, PTL

\* What incr_ref_chain and pin_chain are for: no step drops a node in use or a
\* node on the way to it.
THEOREM HeldSurvives == TreeSpec => HeldChainSurvives
<1> DEFINE Keeps == \A n \in DOMAIN nodes :
                       nodes[n].refs > 0 \/ nodes[n].pinned =>
                           ChainNames(n) \subseteq DOMAIN nodes'
<1>1. ASSUME TreeInv, TreeInv', [TreeNext]_treeVars
      PROVE  [Keeps]_treeVars
  <2>1. ASSUME NEW n \in DOMAIN nodes,
               nodes[n].refs > 0 \/ nodes[n].pinned
        PROVE  n \in DOMAIN nodes'
    <3>1. ASSUME NEW m, EvictOne(m)
          PROVE  n \in DOMAIN nodes'
      <4>1. n # m
        BY <2>1, <3>1 DEF EvictOne, Evictable
      <4> QED
        BY <3>1, <4>1 DEF EvictOne
    <3>2. ASSUME NEW c, NEW flagged, Insert(c, flagged)
          PROVE  n \in DOMAIN nodes'
      BY <3>2 DEF Insert
    <3>3. ASSUME NEW c, IncrRefChain(c)
          PROVE  n \in DOMAIN nodes'
      BY <3>3 DEF IncrRefChain
    <3>4. ASSUME NEW c, DecrRefChain(c)
          PROVE  n \in DOMAIN nodes'
      BY <3>4 DEF DecrRefChain
    <3>5. ASSUME NEW c, NEW pinned, SetPinned(c, pinned)
          PROVE  n \in DOMAIN nodes'
      BY <3>5 DEF SetPinned
    <3>6. ASSUME UNCHANGED nodes
          PROVE  n \in DOMAIN nodes'
      BY <3>6
    <3> QED
      BY <1>1, <3>1, <3>2, <3>3, <3>4, <3>5, <3>6
         DEF TreeNext, EvictBegin, EvictStop, treeVars
  <2> QED
    BY <1>1, <2>1 DEF TreeInv, PrefixClosed
<1>2. TreeSpec => [][Keeps]_treeVars
  BY <1>1, TreeInvariant, PTL DEF TreeSpec
<1> QED
  BY <1>2 DEF HeldChainSurvives

=============================================================================
