------------------------------ MODULE MCLayer ------------------------------
(***************************************************************************)
(* The parts of a layer, each on its own: instances of Moe for every way a *)
(* pass chooses its kernels, instances of Attention for the kernels of     *)
(* three geometries, and instances of DeltaNet for both forms its weights  *)
(* are loaded in; one sequence at a time and in batches.                   *)
(***************************************************************************)
EXTENDS Moe, Attention, DeltaNet

VARIABLE part    \* which part a behaviour is about

Shipped ==
    {[gate |-> "q6_k", up |-> "q6_k", down |-> "q8_0", shared |-> "tuned"],
     [gate |-> "q8_0", up |-> "q8_0", down |-> "q8_0", shared |-> "int8"]}
Community ==
    {[gate |-> "community", up |-> "community", down |-> "community", shared |-> "community"],
     [gate |-> "q6_k", up |-> "community", down |-> "q6_k", shared |-> "tuned"]}
TunedDown ==
    {[gate |-> "q6_k", up |-> "q6_k", down |-> "q6_k", shared |-> "tuned"],
     [gate |-> "community", up |-> "community", down |-> "q8_0", shared |-> "tuned"]}

Pass(w, b, x, m) == [width |-> w, block |-> b, exact |-> x, mma |-> m]
Row(a, b, c) == (0 :> a) @@ (1 :> b) @@ (2 :> c)
Three == {Row(2, 1, 0), Row(0, 1, 1), Row(1, 1, 1)}
One == {Row(0, 1, 2)}
Two == {Row(0, 1, 2), Row(1, 1, 1)}
Case(p, f, r) == [pass |-> p, file |-> f, probs |-> r]

RunCases ==
    {Case(Pass(1, 2, FALSE, TRUE), f, Three) : f \in {Shipped, Community, TunedDown}}
    \cup {Case(Pass(2, 2, x, TRUE), Shipped, Three) : x \in BOOLEAN}
    \cup {Case(Pass(3, 2, FALSE, TRUE), f, Two) : f \in {Shipped, Community, TunedDown}}
    \cup {Case(Pass(4, 3, FALSE, TRUE), f, Two) : f \in {Shipped, Community}}
    \cup {Case(Pass(4, 2, TRUE, TRUE), Shipped, Two),
          Case(Pass(4, 2, FALSE, TRUE), TunedDown, One),
          Case(Pass(4, 3, FALSE, FALSE), TunedDown, Two)}

\* Formats a narrow pass does not build tables for, and a down projection that
\* reads what the wide gate/up kernel did not write.
FormatCases ==
    {Case(Pass(2, 2, FALSE, TRUE), Community, Two),
     Case(Pass(4, 3, FALSE, TRUE), TunedDown, Two)}

-----------------------------------------------------------------------------
(* Attention.  Tiles and slices that the lengths do and do not divide.     *)

QueryTiles == [flash |-> 3, gqa |-> 2, mma |-> 4, t1 |-> 1]
KeyTiles == [flash |-> 2, gqa |-> 2, mma |-> 3, t1 |-> 2, split |-> 2, dmma |-> 2]

Geometry(split, warp, gqa, mma, dmma) ==
    [split |-> split, warp |-> warp, gqa |-> gqa, mma |-> mma, dmma |-> dmma]
AllKernels == Geometry(TRUE, TRUE, TRUE, TRUE, TRUE)
NoTensorCores == Geometry(TRUE, FALSE, TRUE, FALSE, FALSE)
OneHeadEach == Geometry(FALSE, FALSE, FALSE, FALSE, FALSE)

Rising == [p \in 0..(MaxSeq - 1) |-> p]
Falling == [p \in 0..(MaxSeq - 1) |-> MaxSeq - p]
Peaked == [p \in 0..(MaxSeq - 1) |-> IF p = 2 THEN 3 ELSE p % 2]

\* One sequence, three passes; the geometry without the split decodes only.
Solo(g, score) ==
    [geo |-> g, blocks |-> 1, sides |-> 0, score |-> score, seqs |-> 1, passes |-> 3,
     widths |-> IF g.split THEN {2, 3, 4} ELSE {}, windows |-> {}]
\* n sequences in steps, prefills and windows of two drafts over the side streams.
Batched(g, sides, n) ==
    [geo |-> g, blocks |-> 0, sides |-> sides, score |-> Peaked, seqs |-> n, passes |-> 2,
     widths |-> {3}, windows |-> {2}]

PrefillCases ==
    {Solo(AllKernels, Rising), Solo(NoTensorCores, Falling), Solo(OneHeadEach, Rising)}
    \cup {Batched(AllKernels, sides, 3) : sides \in {1, 2}}
    \cup {Batched(AllKernels, 0, 2), Batched(NoTensorCores, 1, 2)}

-----------------------------------------------------------------------------
(* Delta nets.  Chunks longer and shorter than the cache, windows whose    *)
(* rows the pieces do not divide.  With the repack, a window stays below   *)
(* the tensor-core width: WideWindows are those that do not.               *)

Delta(int8, n, bound, widths, windows) ==
    [int8 |-> int8, seqs |-> n, passes |-> bound, widths |-> widths, windows |-> windows]

LinearCases ==
    {Delta(TRUE, 1, 3, {1, 2, 5}, {3}), Delta(TRUE, 3, 2, {1, 3}, {2}), Delta(FALSE, 2, 2, {2}, {3})}

WideWindows == {Delta(TRUE, 2, 1, {1}, {4})}

-----------------------------------------------------------------------------
SomeCase == CHOOSE c \in Cases : TRUE
SomeAttnCase == CHOOSE c \in AttnCases : TRUE

MCInit ==
    /\ part \in {"experts", "attention", "delta"}
    /\ Init /\ AttnInit
    /\ part # "experts" => case = SomeCase
    /\ part # "attention" => attnCase = SomeAttnCase
    /\ IF part = "delta" THEN DeltaInit
       ELSE /\ deltaCase = 0 /\ deltaPasses = 0 /\ conv = 0 /\ recurrent = 0 /\ rings = 0
            /\ pending = 0 /\ last = 0 /\ saved = 0 /\ refused = FALSE /\ hist = 0

MCNext ==
    /\ UNCHANGED part
    /\ \/ part = "experts" /\ Next /\ UNCHANGED <<attnVars, deltaVars>>
       \/ part = "attention" /\ AttnNext /\ UNCHANGED <<vars, deltaVars>>
       \/ part = "delta" /\ DeltaNext /\ UNCHANGED <<vars, attnVars>>

MCSpec == MCInit /\ [][MCNext]_<<part, vars, attnVars, deltaVars>>

\* What a layer computes over the buffers its passes share is what its parts
\* promise of a fresh one: every row the causal softmax, or the delta recurrence,
\* of its own sequence, and every live token the sum of the experts its router
\* chose.  The cases are those the code serves: FormatCases and WideWindows, which
\* it does not, are outside.
LayerExact == ExpertsExact /\ AttentionExact /\ (part = "delta" => DeltaExact)

=============================================================================
