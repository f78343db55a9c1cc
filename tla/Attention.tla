----------------------------- MODULE Attention -----------------------------
(***************************************************************************)
(* The attention half of a layer on the device: the three passes of        *)
(* GatedAttentionBlock, the launches they queue, and the kernels of        *)
(* kernels/attention.rs.  A pass appends its rows' keys and values to the  *)
(* caches of its sequences and reads the whole window back.                *)
(*                                                                         *)
(* A launch is an action; launches of one stream run in order, those of    *)
(* two streams in any order the events allow.  A softmax is exact when the *)
(* numbers are kept as exponents: a term weighs exp(e), so a rescale by    *)
(* exp(a - b) adds a - b to e.  Every head does the same: one is modelled. *)
(***************************************************************************)
EXTENDS Integers, Sequences, SequencesExt, FiniteSetsExt

CONSTANTS
    NumSeqs,         \* sequences
    MaxSeq,          \* positions of a cache
    QueryTile,       \* query rows of a block, by kernel
    KeyTile,         \* keys of a trip, by kernel
    WarpSplits,      \* WARP_DECODE_SPLITS, and DECODE_SPLITS
    MmaSplits,       \* mma_decode_splits
    MmaDepth,        \* DECODE_MMA_DEPTH_THRESHOLD
    RowMax,          \* ROW_DECODE_MAX_QUERY
    StepSlots,       \* STEP_SLOTS, and the scratches AttnScratch::new allocates
    AttnCases        \* geometry, scores, sequences, widths, and the bound on passes

ASSUME SplitsFit == MmaSplits \in 1..WarpSplits

VARIABLES
    attnCase,        \* what this behaviour is about
    passes,          \* passes begun
    position, delta, \* SequenceState: position, rope_delta
    version, fed,    \* history: rewinds of a sequence; by position, the version it was fed at
    batch, chunk,    \* sequences of the pass, rows of each
    verifies,        \* the rows are a window of drafts
    dev,             \* positions on the device, by place in the batch
    queues,          \* launches to come, by stream; 0 is the main stream
    forked,          \* the fork event is recorded
    rowPositions, queries, pregate,   \* buffers of the pass, by row
    scratch,         \* AttnDecodeScratch, by slot
    cache            \* KvCache, by sequence and position

hostAttn == <<attnCase, passes, position, delta, version, fed, batch, chunk, verifies, dev>>
deviceAttn == <<rowPositions, queries, pregate, scratch, cache>>
attnVars == <<hostAttn, queues, forked, deviceAttn>>

geo == attnCase.geo
SeqIds == 1..NumSeqs
Streams == 0..(NumSeqs - 1)
MaxRows == NumSeqs * MaxSeq
AttnRows == 0..(MaxRows - 1)
Places == 0..(Len(batch) - 1)
At(i) == batch[i + 1]
Untouched == [seq |-> 0, at |-> 0, version |-> 0, rope |-> 0]

-----------------------------------------------------------------------------
(* Online softmax *)

NegInf == -1         \* below every score
Score(cell) == attnCase.score[cell.at]
MaxOf(a, b) == IF a > b THEN a ELSE b
MinOf(a, b) == IF a < b THEN a ELSE b
Slices(n, width) == (n + width - 1) \div width
Through(a, b) == [k \in 1..(IF b > a THEN b - a ELSE 0) |-> a + k - 1]

NoSum == [m |-> NegInf, acc |-> << >>, l |-> << >>]

Shifted(terms, by) == [t \in DOMAIN terms |-> [terms[t] EXCEPT !.e = @ + by]]
Lowered(sums, by) == [t \in DOMAIN sums |-> sums[t] + by]

\* Mutation: the normaliser is not moved to the new maximum.
FoldTileUnscaled(p, cells, as) ==
    LET nm == FoldLeft(MaxOf, p.m, [c \in DOMAIN cells |-> Score(cells[c])])
        kept == p.m # NegInf
    IN  [m |-> nm,
         acc |-> (IF kept THEN Shifted(p.acc, p.m - nm) ELSE << >>)
                 \o [c \in DOMAIN cells |-> [cell |-> cells[c], as |-> as, e |-> Score(cells[c]) - nm]],
         l |-> p.l \o [c \in DOMAIN cells |-> Score(cells[c]) - nm]]

\* One trip over the unmasked keys of a tile: the accumulator and the normaliser
\* are moved to the new maximum, and are nothing before the first key.
FoldTile(p, cells, as) ==
    LET nm == FoldLeft(MaxOf, p.m, [c \in DOMAIN cells |-> Score(cells[c])])
        kept == p.m # NegInf
    IN  [m |-> nm,
         acc |-> (IF kept THEN Shifted(p.acc, p.m - nm) ELSE << >>)
                 \o [c \in DOMAIN cells |-> [cell |-> cells[c], as |-> as, e |-> Score(cells[c]) - nm]],
         l |-> (IF kept THEN Lowered(p.l, p.m - nm) ELSE << >>)
               \o [c \in DOMAIN cells |-> Score(cells[c]) - nm]]

\* Keys begin..end - 1 of a cache in tiles, those past limit masked.
Swept(window, begin, end, limit, width, as) ==
    LET trip(p, j0) ==
            LET keys == SelectSeq(Through(j0, MinOf(j0 + width, end)), LAMBDA key : key <= limit)
            IN  FoldTile(p, [k \in DOMAIN keys |-> window[keys[k]]], as)
        trips == IF end > begin THEN Slices(end - begin, width) ELSE 0
    IN  FoldLeft(trip, NoSum, [t \in 1..trips |-> begin + (t - 1) * width])

-----------------------------------------------------------------------------
(* The prefill kernels: a block carries a tile of rows, runs to the last   *)
(* row's bound and masks for the others.                                   *)

FirstOf(kernel, j) == (j \div QueryTile[kernel]) * QueryTile[kernel]
TileVisible(kernel, offset, j, n) ==
    offset + FirstOf(kernel, j) + MinOf(n - FirstOf(kernel, j), QueryTile[kernel])

\* attn_flash_causal reads the values without converting them from binary16.
FlashRow(window, offset, j, n) ==
    Swept(window, 0, TileVisible("flash", offset, j, n), offset + j, KeyTile.flash, "bits")

GqaRow(window, offset, j, n) ==
    Swept(window, 0, TileVisible("gqa", offset, j, n), offset + j, KeyTile.gqa, "half")

\* attn_flash_causal_t1: a row to a block.
T1Row(window, offset, j, n) ==
    Swept(window, 0, offset + j + 1, offset + j, KeyTile.t1, "half")

\* MMA_PREFETCH: a tile into registers, zeros past the visible keys.
MmaPrefetch(window, visible, j0) ==
    [c \in 1..KeyTile.mma |-> IF j0 + c - 1 < visible THEN window[j0 + c - 1] ELSE Untouched]

\* Mutation: the next tile is loaded before this one is landed.
MmaTripEarly(st, window, visible, limit, j0) ==
    LET next == IF j0 + KeyTile.mma < visible THEN MmaPrefetch(window, visible, j0 + KeyTile.mma) ELSE st.regs
        live == SelectSeq(Through(0, KeyTile.mma), LAMBDA c : j0 + c <= limit /\ j0 + c < visible)
    IN  [sum |-> FoldTile(st.sum, [c \in DOMAIN live |-> next[live[c] + 1]], "half"), regs |-> next]

\* A trip lands the tile loaded in the one before, loads the next, and computes.
MmaTrip(st, window, visible, limit, j0) ==
    LET next == IF j0 + KeyTile.mma < visible THEN MmaPrefetch(window, visible, j0 + KeyTile.mma) ELSE st.regs
        live == SelectSeq(Through(0, KeyTile.mma), LAMBDA c : j0 + c <= limit /\ j0 + c < visible)
    IN  [sum |-> FoldTile(st.sum, [c \in DOMAIN live |-> st.regs[live[c] + 1]], "half"), regs |-> next]

MmaRow(window, offset, j, n) ==
    LET visible == TileVisible("mma", offset, j, n)
        trip(st, j0) == MmaTrip(st, window, visible, offset + j, j0)
        starts == [t \in 1..Slices(visible, KeyTile.mma) |-> (t - 1) * KeyTile.mma]
    IN  FoldLeft(trip, [sum |-> NoSum, regs |-> MmaPrefetch(window, visible, 0)], starts).sum

TiledRow(kernel, window, offset, j, n) ==
    CASE kernel = "flash" -> FlashRow(window, offset, j, n)
      [] kernel = "gqa" -> GqaRow(window, offset, j, n)
      [] kernel = "mma" -> MmaRow(window, offset, j, n)
      [] kernel = "t1" -> T1Row(window, offset, j, n)

-----------------------------------------------------------------------------
(* The decode kernels: a block carries a slice of the keys.                *)

\* Mutation: the slices are rounded down.
KeysPerSplitShort(visible, splits) == MaxOf(visible \div splits, 1)

KeysPerSplit(visible, splits) == Slices(visible, splits)

SliceSwept(window, offset, per, s, width) ==
    Swept(window, s * per, MinOf((s + 1) * per, offset + 1), offset, width, "half")

WarpSlice(window, offset, splits, s) ==
    SliceSwept(window, offset, KeysPerSplit(offset + 1, splits), s, 1)

\* attn_flash_decode_split rounds a slice up to whole tiles.
SplitSlice(window, offset, splits, s) ==
    LET per == Slices(KeysPerSplit(offset + 1, splits), KeyTile.split) * KeyTile.split
    IN  SliceSwept(window, offset, per, s, KeyTile.split)

MmaSlice(window, offset, splits, s) ==
    SliceSwept(window, offset, KeysPerSplit(offset + 1, splits), s, KeyTile.dmma)

\* Mutation: one block for one slice, however many there are.
SplitsOfOne(how, b) == {b}

\* A block of the tensor-core kernel strides over the slices.
SplitsOf(how, b) == {s \in 0..(how.splits - 1) : s % how.blocks = b}

Partials(how, window, offset, old) ==
    [s \in DOMAIN old |->
        IF \E b \in 0..(how.blocks - 1) : s \in SplitsOf(how, b)
        THEN CASE how.kernel = "warp" -> WarpSlice(window, offset, how.splits, s)
               [] how.kernel = "split" -> SplitSlice(window, offset, how.splits, s)
               [] how.kernel = "dmma" -> MmaSlice(window, offset, how.splits, s)
        ELSE old[s]]

\* Mutation: every slot of the scratch is merged.
CombinedAll(how, parts) ==
    LET gm == Max({parts[s].m : s \in DOMAIN parts})
        add(sum, s) == IF parts[s].m = NegInf THEN sum
                       ELSE [acc |-> sum.acc \o Shifted(parts[s].acc, parts[s].m - gm),
                             l |-> sum.l \o Lowered(parts[s].l, parts[s].m - gm)]
    IN  FoldLeft(add, [acc |-> << >>, l |-> << >>], Through(0, WarpSplits))

Combined(how, parts) ==
    LET gm == Max({parts[s].m : s \in 0..(how.splits - 1)})
        add(sum, s) == IF parts[s].m = NegInf THEN sum
                       ELSE [acc |-> sum.acc \o Shifted(parts[s].acc, parts[s].m - gm),
                             l |-> sum.l \o Lowered(parts[s].l, parts[s].m - gm)]
    IN  FoldLeft(add, [acc |-> << >>, l |-> << >>], Through(0, how.splits))

-----------------------------------------------------------------------------
(* AttentionKernels::forward and decode: which kernel, for the host's      *)
(* key_depth.  A captured step keeps the one it was captured with.         *)

Decode(depth) ==
    IF geo.dmma /\ depth >= MmaDepth
    THEN [kernel |-> "dmma", splits |-> MmaSplits,
          blocks |-> IF attnCase.blocks >= 1 THEN MinOf(attnCase.blocks, MmaSplits) ELSE MmaSplits]
    ELSE [kernel |-> IF geo.warp THEN "warp" ELSE "split", splits |-> WarpSplits, blocks |-> WarpSplits]

TiledKernel(n) ==
    IF n < QueryTile.gqa THEN "t1"
    ELSE IF n >= QueryTile.mma /\ geo.mma THEN "mma"
    ELSE IF geo.gqa THEN "gqa" ELSE "flash"

\* AttnRows j.. of the sequence at a place: one through the split, or all through a
\* tile.  The row's position is the sequence's own or one of row_positions.
Launches(i, j, n, slot, depth, source) ==
    IF n = 1 /\ geo.split
    THEN LET how == Decode(depth)
         IN  << [op |-> "split", i |-> i, j |-> j, slot |-> slot, how |-> how, source |-> source],
                [op |-> "combine", i |-> i, j |-> j, slot |-> slot, how |-> how] >>
    ELSE << [op |-> "tiles", i |-> i, n |-> n, kernel |-> TiledKernel(n)] >>

AppendOf(places) == << [op |-> "append", places |-> places] >>

\* AttnRows one at a time.
RowByRow(i, n, slot) ==
    << [op |-> "rows", i |-> i, n |-> n] >>
    \o FlattenSeq([j \in 1..n |-> Launches(i, j - 1, 1, slot, dev'[i].pos + j, "rows")])

-----------------------------------------------------------------------------

AttnInit ==
    /\ attnCase \in AttnCases
    /\ passes = 0
    /\ position = [s \in SeqIds |-> 0]
    /\ delta = [s \in SeqIds |-> IF s = 1 THEN 0 ELSE -1]
    /\ version = [s \in SeqIds |-> 0] /\ fed = [s \in SeqIds |-> << >>]
    /\ batch = << >> /\ chunk = 0 /\ verifies = FALSE
    /\ dev = [i \in Streams |-> [pos |-> 0, rope |-> 0]]
    /\ queues = [t \in Streams |-> << >>] /\ forked = FALSE
    /\ rowPositions = [r \in AttnRows |-> 0]
    /\ queries = [r \in AttnRows |-> Untouched]
    /\ pregate = [r \in AttnRows |-> [q |-> Untouched, acc |-> << >>, l |-> << >>]]
    /\ scratch = [z \in 0..(StepSlots - 1) |-> [s \in 0..(WarpSplits - 1) |-> [NoSum EXCEPT !.m = 0]]]
    /\ cache = [s \in SeqIds |-> [p \in 0..(MaxSeq - 1) |-> Untouched]]

\* The caller's side of a pass: room in every cache, and the positions published.
BeginPass(b, n, verify) ==
    /\ batch = << >> /\ passes < attnCase.passes
    /\ \A i \in DOMAIN b : position[b[i]] + n <= MaxSeq
    /\ passes' = passes + 1
    /\ batch' = b /\ chunk' = n /\ verifies' = verify
    /\ dev' = [i \in Streams |->
                 IF i >= Len(b) THEN dev[i]
                 ELSE [pos |-> position[b[i + 1]], rope |-> position[b[i + 1]] + delta[b[i + 1]]]]
    /\ fed' = [s \in SeqIds |->
                 IF s \notin ToSet(b) THEN fed[s]
                 ELSE SubSeq(fed[s], 1, position[s]) \o [j \in 1..n |-> version[s]]]
    /\ forked' = FALSE
    /\ UNCHANGED <<attnCase, position, delta, version, deviceAttn>>

\* forward: one sequence, prefill, a decode step or a window of drafts.
Forward(s, n, depth, verify) ==
    /\ BeginPass(<<s>>, n, verify)
    /\ queues' = [queues EXCEPT ![0] = AppendOf({0})
         \o (IF n > 1 /\ n <= RowMax /\ geo.split THEN RowByRow(0, n, 0)
             ELSE Launches(0, 0, n, 0, depth, "own"))]

\* Mutation: the side streams start without waiting for the main one.
WaitNone == << >>
Wait == << [op |-> "wait"] >>

\* Mutation: every sequence's slices in one scratch.
ScratchZero(i) == 0
\* The scratch of a place: one per sequence, which may be on a stream of its own.
ScratchOf(i) == i

\* forward_batch_decode: a token of each sequence.  One launch appends for all;
\* then each place is on a stream of its own, or they follow each other from the
\* last to the first.  A batch wider than the scratches panics.
BatchDecode(b, depth, forks) ==
    LET n == Len(b)
        row(i) == Launches(i, 0, 1, ScratchOf(i), depth[i], "own")
    IN  /\ n <= StepSlots
        /\ BeginPass(b, 1, FALSE)
        /\ queues' = [t \in Streams |->
             IF t = 0 THEN AppendOf(0..(n - 1))
                           \o (IF forks THEN << [op |-> "fork"] >> \o row(0)
                               ELSE FlattenSeq([k \in 1..n |-> row(n - k)]))
             ELSE IF forks /\ t < n THEN Wait \o row(t) ELSE << >>]

\* forward_batch_prefill: equal chunks; places after the first take turns on the
\* side streams.
BatchPrefill(b, n, verify) ==
    LET streamOf(i) == IF i = 0 \/ attnCase.sides = 0 THEN 0 ELSE 1 + ((i - 1) % attnCase.sides)
        rows(i) == AppendOf({i})
                   \o (IF n > 1 /\ n <= RowMax /\ i < StepSlots /\ geo.split
                       THEN RowByRow(i, n, ScratchOf(i))
                       ELSE Launches(i, 0, n, 0, dev'[i].pos + n, "own"))
        own(t) == SelectSeq([i \in 1..Len(b) |-> i - 1], LAMBDA i : streamOf(i) = t)
        chain(t) == FlattenSeq([k \in DOMAIN own(t) |-> rows(own(t)[k])])
    IN  /\ BeginPass(b, n, verify)
        /\ queues' = [t \in Streams |->
             IF t = 0 THEN << [op |-> "fork"] >> \o chain(0)
             ELSE IF own(t) = << >> THEN << >> ELSE Wait \o chain(t)]

-----------------------------------------------------------------------------
(* Launches *)

RowOf(i, j) == i * chunk + j

\* The rotary and the append.  Row j of a sequence is its token at position + j.
RunAppend(a) ==
    LET cell(i, j) == [seq |-> At(i), at |-> position[At(i)] + j, version |-> version[At(i)],
                       rope |-> dev[i].rope + j]
    IN  /\ cache' = [s \in SeqIds |-> [p \in 0..(MaxSeq - 1) |->
                       IF \E i \in a.places : At(i) = s /\ p \in dev[i].pos..(dev[i].pos + chunk - 1)
                       THEN LET i == CHOOSE i \in a.places : At(i) = s IN cell(i, p - dev[i].pos)
                       ELSE cache[s][p]]]
        /\ queries' = [r \in AttnRows |->
                         IF r \div chunk \in a.places THEN cell(r \div chunk, r % chunk) ELSE queries[r]]
        /\ UNCHANGED <<rowPositions, pregate, scratch>>

RunRows(a) ==
    /\ rowPositions' = [r \in AttnRows |->
         IF r \in RowOf(a.i, 0)..RowOf(a.i, a.n - 1) THEN dev[a.i].pos + r - RowOf(a.i, 0) ELSE rowPositions[r]]
    /\ UNCHANGED <<queries, pregate, scratch, cache>>

RunTiles(a) ==
    /\ pregate' = [r \in AttnRows |->
         IF r \notin RowOf(a.i, 0)..RowOf(a.i, a.n - 1) THEN pregate[r]
         ELSE LET sum == TiledRow(a.kernel, cache[At(a.i)], dev[a.i].pos, r - RowOf(a.i, 0), a.n)
              IN  [q |-> queries[r], acc |-> sum.acc, l |-> sum.l]]
    /\ UNCHANGED <<rowPositions, queries, scratch, cache>>

RunSplit(a) ==
    LET offset == IF a.source = "own" THEN dev[a.i].pos ELSE rowPositions[RowOf(a.i, a.j)]
    IN  /\ scratch' = [scratch EXCEPT ![a.slot] = Partials(a.how, cache[At(a.i)], offset, @)]
        /\ UNCHANGED <<rowPositions, queries, pregate, cache>>

RunCombine(a) ==
    LET sum == Combined(a.how, scratch[a.slot])
        r == RowOf(a.i, a.j)
    IN  /\ pregate' = [pregate EXCEPT ![r] = [q |-> queries[r], acc |-> sum.acc, l |-> sum.l]]
        /\ UNCHANGED <<rowPositions, queries, scratch, cache>>

\* The next launch of a stream; a wait holds it until the fork is recorded.
RunLaunch(t) ==
    /\ queues[t] # << >>
    /\ LET a == Head(queues[t])
       IN  /\ queues' = [queues EXCEPT ![t] = Tail(@)]
           /\ forked' = (forked \/ a.op = "fork")
           /\ \/ a.op = "append" /\ RunAppend(a)
              \/ a.op = "rows" /\ RunRows(a)
              \/ a.op = "tiles" /\ RunTiles(a)
              \/ a.op = "split" /\ RunSplit(a)
              \/ a.op = "combine" /\ RunCombine(a)
              \/ a.op = "fork" /\ UNCHANGED deviceAttn
              \/ a.op = "wait" /\ forked /\ UNCHANGED deviceAttn
    /\ UNCHANGED hostAttn

Ended == batch # << >> /\ \A t \in Streams : queues[t] = << >>

\* After the joins.  A verified window commits as many rows as were accepted; the
\* cache keeps the rest, and later rows are written over it.
EndPass(kept) ==
    /\ Ended
    /\ kept \in 1..chunk /\ (verifies \/ kept = chunk)
    /\ position' = [s \in SeqIds |-> position[s] + (IF s \in ToSet(batch) THEN kept ELSE 0)]
    /\ version' = [s \in SeqIds |-> version[s] + (IF s \in ToSet(batch) /\ kept < chunk THEN 1 ELSE 0)]
    /\ batch' = << >> /\ chunk' = 0 /\ verifies' = FALSE
    /\ UNCHANGED <<attnCase, passes, delta, fed, dev, queues, forked, deviceAttn>>

\* SequenceState::reset: the caches keep what the last request left.
Reset(s) ==
    /\ batch = << >> /\ position[s] > 0 /\ passes < attnCase.passes
    /\ position' = [position EXCEPT ![s] = 0] /\ delta' = [delta EXCEPT ![s] = 0]
    /\ version' = [version EXCEPT ![s] = @ + 1]
    /\ UNCHANGED <<attnCase, passes, fed, batch, chunk, verifies, dev, queues, forked, deviceAttn>>

\* A step is captured once, below or above the threshold, and replayed since.
CapturedDepths == {MmaDepth - 1, MmaDepth}

Batches == {[i \in 1..n |-> i] : n \in 2..attnCase.seqs}

AttnNext ==
    \/ \E s \in 1..attnCase.seqs, n \in attnCase.widths, verify \in BOOLEAN : Forward(s, n, position[s] + n, verify /\ n > 1)
    \/ \E s \in 1..attnCase.seqs, depth \in CapturedDepths : Forward(s, 1, depth, FALSE)
    \/ \E b \in Batches, forks \in BOOLEAN :
          \E depth \in [0..(Len(b) - 1) -> CapturedDepths] : BatchDecode(b, depth, forks)
    \/ \E b \in Batches, n \in attnCase.windows : BatchPrefill(b, n, TRUE)
    \/ \E t \in Streams : RunLaunch(t)
    \/ \E kept \in 1..MaxSeq : EndPass(kept)
    \/ \E s \in SeqIds : Reset(s)

-----------------------------------------------------------------------------
(* Properties *)

\* What a row must be: over every key its position sees, the one its sequence
\* was last fed there, the softmax of the scores, and the values as they are.
Fed(s, p) == [seq |-> s, at |-> p, version |-> fed[s][p + 1], rope |-> p + delta[s]]

ExactRow(o, s, p) ==
    /\ o.q = Fed(s, p)
    /\ Len(o.acc) = p + 1
    /\ \A k \in DOMAIN o.acc :
          /\ o.acc[k].cell = Fed(s, k - 1) /\ o.acc[k].as = "half"
          /\ o.acc[k].e - o.acc[1].e = Score(o.acc[k].cell) - Score(o.acc[1].cell)
    /\ o.l = [k \in DOMAIN o.acc |-> o.acc[k].e]

\* When a pass has drained its streams, every row of every sequence is its own
\* causal softmax, over its own keys, each once: whichever kernel the width, the
\* depth and the geometry chose, however the slices and the tiles fell, in
\* whatever order the streams ran, and whatever rejected drafts, earlier requests
\* and earlier calls left in the caches and the scratch.
AttentionExact ==
    Ended =>
        \A i \in Places, j \in 0..(chunk - 1) : ExactRow(pregate[RowOf(i, j)], At(i), position[At(i)] + j)

=============================================================================
