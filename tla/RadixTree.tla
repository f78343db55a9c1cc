----------------------------- MODULE RadixTree -----------------------------
(***************************************************************************)
(* The prefix tree the workers share, crates/xabe-cache/src/radix.rs.      *)
(*                                                                         *)
(* A node is keyed by a hash that chains the hash of its parent, so a hash *)
(* stands for the whole token prefix up to the end of its block.  A node   *)
(* is named here by that prefix, the sequence of the blocks it covers      *)
(* (hash_block is taken to be injective), ROOT_HASH is << >>, and the      *)
(* hashes of a sequence are the nonempty prefixes of its chain of blocks.  *)
(*                                                                         *)
(* Every method runs under one RwLock.  The loop of                        *)
(* evict_unreferenced_entries is one action an iteration: `quota' is what  *)
(* it may still evict, and while it is not 0 the lock is taken.            *)
(***************************************************************************)
EXTENDS Integers, Sequences, FiniteSets

CONSTANTS
    Blocks,       \* contents of a full block
    Chains,       \* the chains callers present, sequences of blocks
    MaxEvict,     \* largest max_nodes of an eviction
    MaxRefs,      \* bound: references a node may hold
    MaxClock      \* bound: releases

ASSUME ChainAssumption ==
    /\ Chains \subseteq Seq(Blocks) \ {<< >>}
    /\ {MaxEvict, MaxRefs, MaxClock} \subseteq Nat

VARIABLES
    nodes,        \* name -> Node
    children,     \* name -> Node::children, and root_children at Root
    clock,        \* Inner::clock
    quota         \* evictions the running evict call has left

treeVars == <<nodes, children, clock, quota>>

Root == << >>

\* hashes[..i]'s last element: the name of the i-th block of a chain.
NameAt(c, i) == SubSeq(c, 1, i)

ChainNames(c) == {NameAt(c, i) : i \in 1 .. Len(c)}

Parent(n) == SubSeq(n, 1, Len(n) - 1)

\* token_end is BlockSize * Len(name) and `block' is never read back.
Node == [snap : BOOLEAN, refs : Nat, pinned : BOOLEAN, used : Nat]

FreshNode(flagged) == [snap |-> flagged, refs |-> 0, pinned |-> FALSE, used |-> 0]

Unlocked == quota = 0

TreeInit ==
    /\ nodes = [n \in {} |-> FreshNode(FALSE)]
    /\ children = [n \in {Root} |-> {}]
    /\ clock = 0
    /\ quota = 0

-----------------------------------------------------------------------------
\* insert: the missing nodes of the chain are added and linked, the others are
\* left as they are; `flagged' holds the blocks that carry a GDN snapshot.
Insert(c, flagged) ==
    LET new == ChainNames(c) \ DOMAIN nodes
    IN  /\ Unlocked
        /\ nodes' = [n \in DOMAIN nodes \cup new |->
                        IF n \in new THEN FreshNode(Len(n) \in flagged) ELSE nodes[n]]
        /\ children' = [n \in DOMAIN children \cup new |->
                           (IF n \in DOMAIN children THEN children[n] ELSE {})
                           \cup {m \in new : Parent(m) = n}]
        /\ UNCHANGED <<clock, quota>>

\* match_prefix walks the chain to its first missing hash.
Matched(c) == {i \in 1 .. Len(c) : \A j \in 1 .. i : NameAt(c, j) \in DOMAIN nodes}

\* gdn_matched_tokens in blocks: the deepest matched node with a snapshot, or 0.
SnapshotDepth(c) ==
    LET flagged == {i \in Matched(c) : nodes[NameAt(c, i)].snap}
    IN  IF flagged = {} THEN 0 ELSE CHOOSE i \in flagged : \A j \in flagged : j <= i

\* incr_ref_chain: hashes that are gone are skipped.
IncrRefChain(c) ==
    /\ Unlocked
    /\ nodes' = [n \in DOMAIN nodes |->
                    IF n \in ChainNames(c)
                    THEN [nodes[n] EXCEPT !.refs = nodes[n].refs + 1]
                    ELSE nodes[n]]
    /\ UNCHANGED <<children, clock, quota>>

\* saturating_sub(1), and the time of a release to zero.
Released(node, now) ==
    LET left == IF node.refs = 0 THEN 0 ELSE node.refs - 1
    IN  [snap |-> node.snap, refs |-> left, pinned |-> node.pinned,
         used |-> IF left = 0 THEN now ELSE node.used]

\* decr_ref_chain
DecrRefChain(c) ==
    /\ Unlocked
    /\ clock' = clock + 1
    /\ nodes' = [n \in DOMAIN nodes |->
                    IF n \in ChainNames(c) THEN Released(nodes[n], clock + 1)
                    ELSE nodes[n]]
    /\ UNCHANGED <<children, quota>>

\* pin_chain, unpin_chain
SetPinned(c, pinned) ==
    /\ Unlocked
    /\ nodes' = [n \in DOMAIN nodes |->
                    IF n \in ChainNames(c)
                    THEN [nodes[n] EXCEPT !.pinned = pinned]
                    ELSE nodes[n]]
    /\ UNCHANGED <<children, clock, quota>>

-----------------------------------------------------------------------------
\* evict_unreferenced_entries(max)
EvictBegin(max) ==
    /\ Unlocked
    /\ max > 0
    /\ quota' = max
    /\ UNCHANGED <<nodes, children, clock>>

\* The filter as a bug would write it: a node with cached children qualifies.
EvictableInterior ==
    {n \in DOMAIN nodes : nodes[n].refs = 0 /\ ~nodes[n].pinned}

\* The filter that looks at references only.
EvictablePinned == {n \in DOMAIN nodes : children[n] = {} /\ nodes[n].refs = 0}

Evictable ==
    {n \in DOMAIN nodes : children[n] = {} /\ nodes[n].refs = 0 /\ ~nodes[n].pinned}

\* One iteration: a candidate with the least last_used (the order of the hash
\* map breaks ties) goes, and its parent forgets it.
EvictOne(n) ==
    /\ quota > 0
    /\ n \in Evictable
    /\ \A m \in Evictable : nodes[n].used <= nodes[m].used
    /\ nodes' = [m \in DOMAIN nodes \ {n} |-> nodes[m]]
    /\ children' = [m \in DOMAIN children \ {n} |-> children[m] \ {n}]
    /\ quota' = quota - 1
    /\ UNCHANGED clock

\* No candidate is left.
EvictStop ==
    /\ quota > 0
    /\ Evictable = {}
    /\ quota' = 0
    /\ UNCHANGED <<nodes, children, clock>>

-----------------------------------------------------------------------------
TreeNext ==
    \/ \E c \in Chains : \E flagged \in SUBSET (1 .. Len(c)) : Insert(c, flagged)
    \/ \E c \in Chains : /\ \A n \in DOMAIN nodes : nodes[n].refs < MaxRefs
                         /\ IncrRefChain(c)
    \/ \E c \in Chains : clock < MaxClock /\ DecrRefChain(c)
    \/ \E c \in Chains, pinned \in BOOLEAN : SetPinned(c, pinned)
    \/ \E max \in 1 .. MaxEvict : EvictBegin(max)
    \/ \E n \in DOMAIN nodes : EvictOne(n)
    \/ EvictStop

TreeSpec == TreeInit /\ [][TreeNext]_treeVars

-----------------------------------------------------------------------------
\* Types of the tree's fields.
TreeTypeOK ==
    /\ DOMAIN nodes \subseteq Seq(Blocks) \ {Root}
    /\ nodes \in [DOMAIN nodes -> Node]
    /\ DOMAIN children = DOMAIN nodes \cup {Root}
    /\ clock \in Nat
    /\ quota \in Nat

\* Every cached block has all the blocks before it cached: insertions of shared
\* prefixes and evictions in any order never leave a hole that would hide the
\* deeper nodes from match_prefix.
PrefixClosed == \A n \in DOMAIN nodes : ChainNames(n) \subseteq DOMAIN nodes

\* The child links are exactly the parent links reversed, after any number of
\* insertions, evictions and re-insertions of the same hashes: a leaf by
\* `children.is_empty()' is a leaf of the tree.
LinksExact ==
    \A n \in DOMAIN children : children[n] = {m \in DOMAIN nodes : Parent(m) = n}

\* The inductive invariant: a removed leaf is a leaf by its own links, and the
\* links are right only if the nodes are closed and typed.
TreeInv == TreeTypeOK /\ PrefixClosed /\ LinksExact

\* A chain in use stays: no step removes a node that is referenced or pinned, nor
\* any node on the way to it, referenced or not.
HeldChainSurvives ==
    [][\A n \in DOMAIN nodes :
         nodes[n].refs > 0 \/ nodes[n].pinned =>
             ChainNames(n) \subseteq DOMAIN nodes']_treeVars

=============================================================================
