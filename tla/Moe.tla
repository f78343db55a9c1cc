-------------------------------- MODULE Moe --------------------------------
(***************************************************************************)
(* The mixture-of-experts half of a layer on the device: MoeBlock::forward *)
(* and the kernels it launches, for a pass of a fixed width.  One set of   *)
(* buffers serves every layer and every step of the pass, and no launch    *)
(* clears what it does not use, so a buffer holds what earlier layers and  *)
(* longer steps left there.                                                *)
(*                                                                         *)
(* A launch is an action; its blocks run in any order (Stores).  Numbers   *)
(* are symbols: an activation is the run and the token it belongs to, an   *)
(* expert's result the activation and the expert, a contribution the       *)
(* result, the expert that projected it down and the weight.               *)
(***************************************************************************)
EXTENDS Integers, Sequences, FiniteSets, SequencesExt

CONSTANTS
    NumExperts, TopK,   \* MoeGeometry
    Threads,            \* THREADS of a dispatch block
    TileRows,           \* MOE_TM, rows of a tile of the fp32 kernels
    NarrowTile,         \* MMA_M_NARROW
    WideTile,           \* MMA_M
    NarrowMax,          \* MOE_NARROW_DECODE_MAX and FUSED_SHARED_MAX_TOKENS
    MmaMin,             \* MMA_MIN_TOKENS
    SharedMmaMin,       \* SHARED_MMA_MIN_TOKENS
    Lanes, LaneExperts, \* a warp of the router and MOE_ROUTE_LANE_EXPERTS
    GridLimit,          \* 65535
    Cases,              \* a pass, the layers of a file and router outputs
    MaxRuns             \* bound: layers run

VARIABLES
    case,       \* what this behaviour runs
    run,        \* layers begun
    layer,      \* the formats of the layer being run
    stream,     \* launches still to come
    tokens,     \* the caller's token count
    probs,      \* router output of the live tokens
    built,      \* the dispatch tables belong to this run
    valid, published,                       \* valid_tokens, valid_published
    topk, weights,                          \* topk_ids, topk_weights
    sorted, experts, counts, postPad, live, \* the dispatch tables
    normed, xq, inter, iq, partial,         \* activations and results
    sinter, shexp, out                      \* shared expert, l_out

tableVars == <<sorted, experts, postPad, live>>
routeVars == <<topk, weights, probs>>
dataVars == <<xq, inter, iq, partial, sinter, shexp, out>>
hostVars == <<case, run, layer, tokens, normed, valid, published>>
vars == <<hostVars, stream, built, routeVars, counts, tableVars, dataVars>>

Zero == [zero |-> TRUE]      \* memory as alloc_zeros and memset_zeros leave it
Inactive == -1
Experts == 0..(NumExperts - 1)
pass == case.pass
B == pass.block

-----------------------------------------------------------------------------
(* Geometry *)

CeilDiv(a, b) == (a + b - 1) \div b
MaxFlatPairs(p) == p.width * TopK

SortedCapacity(p) ==
    LET numel == MaxFlatPairs(p)
        active == IF NumExperts < numel THEN NumExperts ELSE numel
    IN  CeilDiv(numel + active * (p.block - 1), p.block) * p.block

ExpertBlockCapacity(p) == SortedCapacity(p) \div p.block

\* What MoeKernels::new accepts.
GeometryAccepted(p) ==
    /\ p.block > 0 /\ p.block <= WideTile
    /\ TopK > 0 /\ TopK <= NumExperts
    /\ p.width > 0 /\ p.width <= GridLimit
    /\ ExpertBlockCapacity(p) <= GridLimit
    /\ NumExperts <= Lanes * LaneExperts

ASSUME CasesAccepted == \A c \in Cases : GeometryAccepted(c.pass)

MmaTile == IF B <= NarrowTile THEN NarrowTile ELSE WideTile
FusedIq == B > NarrowTile

Slots == 0..(SortedCapacity(pass) - 1)
Blocks == 0..(ExpertBlockCapacity(pass) - 1)
Flats == 0..(MaxFlatPairs(pass) - 1)
Rows == 0..(pass.width - 1)
Numel == valid * TopK

\* A buffer after a launch whose blocks wrote W.  Blocks of one launch are
\* unordered; ascending and descending put each two of them both ways round.
Landed(buf, W, ascending) ==
    [c \in DOMAIN buf |->
        LET ws == {w \in W : w.at = c}
        IN  IF ws = {} THEN buf[c]
            ELSE (CHOOSE w \in ws : \A v \in ws :
                    IF ascending THEN v.by <= w.by ELSE w.by <= v.by).val]

Stores(buf, W) == {Landed(buf, W, ascending) : ascending \in BOOLEAN}

Write(at, by, val) == [at |-> at, by |-> by, val |-> val]

-----------------------------------------------------------------------------
(* Which kernels a layer takes *)

FfnCommunity == layer.gate # layer.up \/ layer.gate = "community"
DownCommunity == layer.down = "community"
Gemv == pass.width = 1
UseMma == pass.mma /\ pass.width >= MmaMin /\ ~FfnCommunity /\ ~pass.exact
Narrow == ~Gemv /\ ~UseMma /\ (pass.width <= NarrowMax \/ pass.exact)
DownMma ==
    ~Gemv /\ pass.mma /\ pass.width >= MmaMin /\ layer.down = "q8_0" /\ ~pass.exact
FusedKernel == FusedIq /\ UseMma /\ layer.gate = "q6_k"

\* The shared expert has an int8 repack (Q8_0 files), and the pass is wide.
SharedMma == layer.shared = "int8" /\ pass.width >= SharedMmaMin /\ pass.mma

Covered ==
    /\ ~SharedMma /\ layer.shared # "community"
    /\ pass.width <= NarrowMax /\ ~FfnCommunity /\ ~DownCommunity

RoutingLaunches ==
    IF pass.width = 1 THEN <<"route_dispatch_t1">>
    ELSE IF pass.width <= NarrowMax \/ pass.exact THEN <<"route">>
    ELSE <<"route", "align_count", "align">>

FfnLaunches ==
    IF FfnCommunity THEN <<"ffn_community">>
    ELSE IF Gemv THEN <<"ffn_gemv">>
    ELSE IF UseMma THEN <<"quantize_x", "ffn_mma">>
    ELSE IF Narrow THEN <<"ffn_flat">> ELSE <<"ffn_tiled">>

DownLaunches ==
    IF DownCommunity THEN <<"down_community">>
    ELSE IF Gemv THEN <<"down_gemv">>
    ELSE IF DownMma
         THEN (IF FusedKernel THEN <<>> ELSE <<"quantize_inter">>) \o <<"down_mma">>
    ELSE IF Narrow THEN <<"down_flat">> ELSE <<"down_tiled">>

SharedLaunches ==
    IF SharedMma THEN <<"quantize_x", "shared_mma_ffn", "shared_mma_down">>
    ELSE <<"shared_ffn", "shared_down">>

\* The shared expert rides the routed launches when Covered: its blocks share
\* no buffer with theirs, so riding is coming right after.
LayerLaunches ==
    RoutingLaunches
    \o (IF Covered
        THEN (IF Gemv THEN <<"clear">> ELSE <<>>) \o FfnLaunches \o <<"shared_ffn">>
             \o DownLaunches \o <<"shared_down">>
        ELSE FfnLaunches \o (IF Narrow THEN <<>> ELSE <<"clear">>) \o DownLaunches
             \o SharedLaunches)
    \o <<"combine">>

-----------------------------------------------------------------------------
(* The host: MoeBlock::forward up to the launches *)

Init ==
    /\ case \in Cases
    /\ run = 0 /\ stream = <<>> /\ tokens = 0 /\ built = FALSE
    /\ layer = CHOOSE l \in case.file : TRUE
    /\ valid = 0 /\ published = 0 /\ postPad = 0
    /\ probs = <<>>
    /\ topk = [f \in Flats |-> 0] /\ weights = [f \in Flats |-> Zero]
    /\ sorted = [s \in Slots |-> 0] /\ experts = [b \in Blocks |-> 0]
    /\ live = [b \in Blocks |-> 0] /\ counts = [e \in Experts |-> 0]
    /\ normed = [t \in Rows |-> Zero] /\ xq = [t \in Rows |-> Zero]
    /\ inter = [s \in Slots |-> Zero] /\ iq = [s \in Slots |-> Zero]
    /\ partial = [f \in Flats |-> Zero]
    /\ sinter = [t \in Rows |-> Zero] /\ shexp = [t \in Rows |-> Zero]
    /\ out = [t \in Rows |-> Zero]

\* set_valid_tokens, which writes nothing for a count it wrote last.
SetValidTokens(n) ==
    IF published = n THEN UNCHANGED <<valid, published>>
    ELSE valid' = n /\ published' = n

\* A layer of a step with n tokens: the count, the norm of every row, and the
\* launches.  The router's logits come with the route.
Begin(n, l) ==
    /\ stream = <<>> /\ run < MaxRuns
    /\ UNCHANGED case
    /\ run' = run + 1 /\ tokens' = n /\ layer' = l
    /\ SetValidTokens(n)
    /\ normed' = [t \in Rows |-> [run |-> run + 1, token |-> t]]
    /\ stream' = LayerLaunches'
    /\ built' = FALSE /\ probs' = <<>>
    /\ UNCHANGED <<topk, weights, counts, tableVars, dataVars>>

\* A launch is refused: forward returns the error and the rest is not queued.
Refuse ==
    /\ stream # <<>>
    /\ stream' = <<>> /\ tokens' = 0 /\ built' = FALSE
    /\ UNCHANGED <<case, run, layer, normed, valid, published, routeVars, counts,
                   tableVars, dataVars>>

Launch(kernel) ==
    /\ stream # <<>> /\ Head(stream) = kernel
    /\ stream' = Tail(stream)
    /\ UNCHANGED hostVars

-----------------------------------------------------------------------------
(* Routing *)

\* The warp's selection: a lane holds experts lane, lane + Lanes, ...; what is
\* masked or past the last expert counts -1.
Better(a, b) == a.v > b.v \/ (a.v = b.v /\ a.i < b.i)

LaneBest(p, masked, lane) ==
    LET held == {[i |-> lane + Lanes * j,
                  v |-> IF lane + Lanes * j \in Experts \ masked
                        THEN p[lane + Lanes * j] ELSE -1] : j \in 0..(LaneExperts - 1)}
    IN  CHOOSE a \in held : \A b \in held \ {a} : Better(a, b)

RouteToken(p) ==
    LET pick[j \in 1..TopK] ==
            LET masked == {pick[i] : i \in 1..(j - 1)}
                bests == {LaneBest(p, masked, lane) : lane \in 0..(Lanes - 1)}
            IN  (CHOOSE a \in bests : \A b \in bests \ {a} : Better(a, b)).i
    IN  pick

Routed(rows) ==
    /\ probs' = rows
    /\ topk' = [f \in Flats |->
                  IF f < Numel THEN RouteToken(rows[f \div TopK])[(f % TopK) + 1]
                  ELSE topk[f]]
    /\ weights' = [f \in Flats |-> IF f < Numel THEN [run |-> run, flat |-> f]
                                   ELSE weights[f]]

RouterOutputs == [0..(valid - 1) -> case.probs]

Route ==
    /\ Launch("route")
    /\ \E rows \in RouterOutputs : Routed(rows)
    /\ UNCHANGED <<built, counts, tableVars, dataVars>>

-----------------------------------------------------------------------------
(* The dispatch tables *)

Hits(e, ids) == {i \in 0..(Numel - 1) : ids[i] = e}

\* Offsets of the experts' runs, each padded to whole blocks.
Cumsum(c) ==
    LET cum[e \in 0..NumExperts] ==
            IF e = 0 THEN 0 ELSE cum[e - 1] + CeilDiv(c[e - 1], B) * B
    IN  cum

\* Mutation: the fill covers the live pairs only.
FillLive(buf, sentinel) ==
    {Write(c, 0, sentinel) : c \in {d \in DOMAIN buf : d < Numel}}

\* Every slot of the capacity is filled, not only those this step uses.
Fill(buf, sentinel) == {Write(c, 0, sentinel) : c \in DOMAIN buf}

Counted(e, ids) == Cardinality(Hits(e, ids))

\* moe_align_count: block e counts expert e, all blocks fill.
AlignCount ==
    /\ Launch("align_count")
    /\ sorted' \in Stores(sorted, Fill(sorted, Numel))
    /\ experts' \in Stores(experts, Fill(experts, Inactive))
    /\ counts' = [e \in Experts |-> Counted(e, topk)]
    /\ UNCHANGED <<routeVars, built, postPad, live, dataVars>>

\* The place of hit i among expert e's: the hits of the tiles of Threads pairs
\* before it, and the scan of its own tile.
Rank(e, i, ids) ==
    LET tile == (i \div Threads) * Threads
        written == Cardinality({j \in Hits(e, ids) : j < tile})
    IN  written + Cardinality({j \in Hits(e, ids) : tile <= j /\ j < i})

Scattered(cum, ids) ==
    UNION {{Write(cum[e] + Rank(e, i, ids), e, i) : i \in Hits(e, ids)} : e \in Experts}

OwnBlocks(cum, e) == (cum[e] \div B)..((cum[e + 1] \div B) - 1)

Claimed(cum) == UNION {{Write(b, e, e) : b \in OwnBlocks(cum, e)} : e \in Experts}

Clamp(x) == IF x < 0 THEN 0 ELSE IF x > B THEN B ELSE x

LiveCounts(cum, c) ==
    UNION {{Write(b, e, Clamp(c[e] - (b - cum[e] \div B) * B)) : b \in OwnBlocks(cum, e)} :
           e \in Experts}

\* moe_align_block_size: block e places expert e.
Align ==
    /\ Launch("align")
    /\ LET cum == Cumsum(counts) IN
        /\ sorted' \in Stores(sorted, Scattered(cum, topk))
        /\ experts' \in Stores(experts, Claimed(cum))
        /\ live' \in Stores(live, LiveCounts(cum, counts))
        /\ postPad' = cum[NumExperts]
    /\ built' = TRUE
    /\ UNCHANGED <<routeVars, counts, dataVars>>

\* moe_route_dispatch_t1: one block, barriers between its parts; counts stay
\* private to a thread and bucket_live is not written.
RouteDispatchT1 ==
    /\ Launch("route_dispatch_t1")
    /\ \E rows \in RouterOutputs : Routed(rows)
    /\ LET cum == Cumsum([e \in Experts |-> Counted(e, topk')]) IN
        /\ \E s \in Stores(sorted, Fill(sorted, Numel)) : sorted' \in Stores(s, Scattered(cum, topk'))
        /\ \E x \in Stores(experts, Fill(experts, Inactive)) : experts' \in Stores(x, Claimed(cum))
        /\ postPad' = cum[NumExperts]
    /\ built' = TRUE
    /\ UNCHANGED <<counts, live, dataVars>>

-----------------------------------------------------------------------------
(* Gate and up *)

Result(x, e) == [x |-> x, e |-> e]
SlotOf(b, m) == b * B + m
ActiveBlocks == {b \in Blocks : experts[b] >= 0}
LiveSlots(b) == {m \in 0..(B - 1) : sorted[SlotOf(b, m)] < Numel}
TokenAt(b, m) == sorted[SlotOf(b, m)] \div TopK

keepForFfn == UNCHANGED <<routeVars, built, counts, tableVars, partial, sinter, shexp, out>>

FfnCommunityRows ==
    UNION {{Write(SlotOf(b, m), b, Result(normed[TokenAt(b, m)], experts[b])) :
            m \in LiveSlots(b)} : b \in ActiveBlocks}

\* The fp32 kernel takes TileRows slots at a time, up to the last live one;
\* padding among them is staged as zero.
LiveTileRows(b, m0) ==
    LET rows == {m \in LiveSlots(b) : m0 <= m /\ m < m0 + TileRows}
    IN  IF rows = {} THEN {} ELSE m0..(CHOOSE m \in rows : \A n \in rows : n <= m)

TiledSlots(b) == UNION {LiveTileRows(b, m0) : m0 \in {m \in 0..(B - 1) : m % TileRows = 0}}

FfnTiledRows ==
    UNION {{Write(SlotOf(b, m), b,
                  IF m \in LiveSlots(b) THEN Result(normed[TokenAt(b, m)], experts[b]) ELSE Zero) :
            m \in TiledSlots(b)} : b \in ActiveBlocks}

FfnGemvRows ==
    {Write(SlotOf(b, 0), b, Result(normed[TokenAt(b, 0)], experts[b])) :
     b \in {a \in ActiveBlocks : 0 \in LiveSlots(a)}}

\* Flat pairs are read straight from topk_ids.
LiveFlats == {f \in Flats : f < Numel}
FfnFlatRows == {Write(f, f, Result(normed[f \div TopK], topk[f])) : f \in LiveFlats}

\* The tensor-core kernels stage MmaTile slots (the q8_0 one always WideTile)
\* of the quantized activations.
MmaSlots(b, tile) == {m \in LiveSlots(b) : m < tile}
MmaRows(tile) ==
    UNION {{Write(SlotOf(b, m), b, Result(xq[TokenAt(b, m)], experts[b])) :
            m \in MmaSlots(b, tile)} : b \in ActiveBlocks}

FfnMmaQ6Rows == MmaRows(MmaTile)
FfnMmaQ8Rows == MmaRows(WideTile)
FfnMmaRows == IF layer.gate = "q8_0" THEN FfnMmaQ8Rows ELSE FfnMmaQ6Rows

FfnInto(kernel, rows) ==
    /\ Launch(kernel)
    /\ inter' \in Stores(inter, rows)
    /\ keepForFfn /\ UNCHANGED <<xq, iq>>

QuantizeX ==
    /\ Launch("quantize_x")
    /\ xq' = normed
    /\ keepForFfn /\ UNCHANGED <<inter, iq>>

\* With FusedIq the q6_k kernel quantizes its own output, and inter is not
\* written.
FfnMma ==
    /\ Launch("ffn_mma")
    /\ IF FusedKernel
       THEN iq' \in Stores(iq, FfnMmaRows) /\ UNCHANGED inter
       ELSE inter' \in Stores(inter, FfnMmaRows) /\ UNCHANGED iq
    /\ keepForFfn /\ UNCHANGED xq

Ffn ==
    \/ FfnInto("ffn_community", FfnCommunityRows)
    \/ FfnInto("ffn_gemv", FfnGemvRows)
    \/ FfnInto("ffn_flat", FfnFlatRows)
    \/ FfnInto("ffn_tiled", FfnTiledRows)
    \/ QuantizeX
    \/ FfnMma

-----------------------------------------------------------------------------
(* Down *)

keepForDown == UNCHANGED <<routeVars, built, counts, tableVars, xq, inter, sinter, shexp, out>>

Contribution(y, e, f) == [y |-> y, e |-> e, w |-> weights[f]]

\* store_slot_contribution drops what is past the live pairs.
SlotContributions(rows, slots) ==
    UNION {{Write(sorted[SlotOf(b, m)], b,
                  Contribution(rows[SlotOf(b, m)], experts[b], sorted[SlotOf(b, m)])) :
            m \in slots[b]} : b \in ActiveBlocks}

\* Mutation: the narrow kernel, whatever the block.
DownMmaNarrow(b) == MmaSlots(b, NarrowTile)
DownMmaSlots(b) == MmaSlots(b, MmaTile)
DownTiledSlots(b) == TiledSlots(b) \cap LiveSlots(b)
FirstSlot(b) == {0} \cap LiveSlots(b)

DownCommunityRows == SlotContributions(inter, [b \in ActiveBlocks |-> LiveSlots(b)])
DownFlatRows == {Write(f, f, Contribution(inter[f], topk[f], f)) : f \in LiveFlats}

DownInto(kernel, rows) ==
    /\ Launch(kernel)
    /\ partial' \in Stores(partial, rows)
    /\ keepForDown /\ UNCHANGED iq

Clear ==
    /\ Launch("clear")
    /\ partial' = [f \in Flats |-> Zero]
    /\ keepForDown /\ UNCHANGED iq

QuantizeInter ==
    /\ Launch("quantize_inter")
    /\ iq' = inter
    /\ keepForDown /\ UNCHANGED partial

Down ==
    \/ DownInto("down_community", DownCommunityRows)
    \/ DownInto("down_gemv", SlotContributions(inter, [b \in ActiveBlocks |-> FirstSlot(b)]))
    \/ DownInto("down_flat", DownFlatRows)
    \/ DownInto("down_tiled", SlotContributions(inter, [b \in ActiveBlocks |-> DownTiledSlots(b)]))
    \/ DownInto("down_mma", SlotContributions(iq, [b \in ActiveBlocks |-> DownMmaSlots(b)]))
    \/ QuantizeInter
    \/ Clear

-----------------------------------------------------------------------------
(* The shared expert and the combine *)

keepForShared == UNCHANGED <<routeVars, built, counts, tableVars, xq, inter, iq, partial>>

LiveRows(buf, vals) == [t \in Rows |-> IF t < valid THEN vals[t] ELSE buf[t]]

SharedFfn ==
    /\ Launch("shared_ffn")
    /\ sinter' = LiveRows(sinter, normed)
    /\ keepForShared /\ UNCHANGED <<shexp, out>>

SharedDown ==
    /\ Launch("shared_down")
    /\ shexp' = LiveRows(shexp, sinter)
    /\ keepForShared /\ UNCHANGED <<sinter, out>>

\* The tensor-core path works on every row, live or not.
SharedMmaFfn ==
    /\ Launch("shared_mma_ffn")
    /\ sinter' = xq
    /\ keepForShared /\ UNCHANGED <<shexp, out>>

SharedMmaDown ==
    /\ Launch("shared_mma_down")
    /\ shexp' = sinter
    /\ keepForShared /\ UNCHANGED <<sinter, out>>

Combine ==
    /\ Launch("combine")
    /\ out' = LiveRows(out, [t \in Rows |->
                 [routed |-> [k \in 0..(TopK - 1) |-> partial[t * TopK + k]],
                  shared |-> shexp[t], residual |-> normed[t]]])
    /\ keepForShared /\ UNCHANGED <<sinter, shexp>>

Next ==
    \/ \E n \in 1..pass.width, l \in case.file : Begin(n, l)
    \/ Refuse
    \/ Route \/ AlignCount \/ Align \/ RouteDispatchT1
    \/ Ffn \/ Down
    \/ SharedFfn \/ SharedDown \/ SharedMmaFfn \/ SharedMmaDown \/ Combine

Spec == Init /\ [][Next]_vars

-----------------------------------------------------------------------------
(* Properties *)

\* The reference router: a sort by falling probability, then by index.
Ranked(p) ==
    SetToSortSeq(Experts, LAMBDA a, b : p[a] > p[b] \/ (p[a] = p[b] /\ a < b))

\* The reference tables: experts in order, pairs ascending, each run padded.
ReferenceRun(e) ==
    LET hits == Hits(e, topk)
        pad == CeilDiv(Cardinality(hits), B) * B - Cardinality(hits)
    IN  SetToSortSeq(hits, <) \o [i \in 1..pad |-> Numel]
ReferenceSorted == FlattenSeq([i \in 1..NumExperts |-> ReferenceRun(i - 1)])
ReferenceExperts ==
    FlattenSeq([i \in 1..NumExperts |-> [j \in 1..(Len(ReferenceRun(i - 1)) \div B) |-> i - 1]])

\* The tables two launches of unordered blocks build are the reference's, fit
\* their fixed capacity, and are inactive past it to the last slot; a block's
\* live count is what it holds.
TableExact ==
    built =>
    LET ref == ReferenceSorted  own == ReferenceExperts IN
    /\ postPad = Len(ref)
    /\ postPad <= SortedCapacity(pass)
    /\ \A s \in Slots : sorted[s] = (IF s < Len(ref) THEN ref[s + 1] ELSE Numel)
    /\ \A b \in Blocks : experts[b] = (IF b < Len(own) THEN own[b + 1] ELSE Inactive)
    /\ ~Gemv => \A b \in ActiveBlocks : live[b] = Cardinality(LiveSlots(b))

\* After a layer every live token has, in order of rank, exactly its own top-k
\* experts' contributions, of this layer's activations and under its own
\* weights, and its own shared expert's: whichever kernels the width and the
\* formats of a case choose, in whatever order blocks ran, and whatever a longer
\* step, another layer or a refused one left in the buffers.  The tables it went
\* through are the reference's.  It is not so of every pairing of widths and
\* formats: a community stack in a narrow pass, or a tuned down projection behind
\* another gate/up stack in a wide one, reads tables or rows nothing wrote.
ExpertsExact ==
    /\ TableExact
    /\ (run > 0 /\ stream = <<>> /\ tokens > 0) =>
       \A t \in 0..(tokens - 1) :
        LET x == [run |-> run, token |-> t]
            expert(k) == Ranked(probs[t])[k + 1]
        IN  out[t] = [routed |-> [k \in 0..(TopK - 1) |->
                          [y |-> Result(x, expert(k)), e |-> expert(k),
                           w |-> [run |-> run, flat |-> t * TopK + k]]],
                      shared |-> x, residual |-> x]

=============================================================================
