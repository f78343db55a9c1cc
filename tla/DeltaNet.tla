------------------------------ MODULE DeltaNet ------------------------------
(***************************************************************************)
(* The gated delta-net layers on the device: the passes of GdnBlock and of *)
(* gdn_verify, the convolution cache and the recurrent matrix each         *)
(* sequence carries, and the kernels that advance them one token at a      *)
(* time, over a scan and over a chunk.                                     *)
(*                                                                         *)
(* The numbers are those of a prime field, so that the forms, which add up *)
(* in different orders, agree exactly or not at all.  A log-decay is the   *)
(* natural number it lies below zero: exp(g) is a power of Decay.  The     *)
(* launches of a pass follow each other on one stream: a pass is a step.   *)
(***************************************************************************)
EXTENDS Integers, Sequences, SequencesExt, FiniteSetsExt

CONSTANTS
    Modulus, Decay,  \* the field, and exp(-1)
    HeadDim, QkHeads, ValueHeads, ConvKernel,   \* GdnGeometry
    ChunkLen,        \* chunk_len
    StepMax,         \* STEP_MAX_BATCH
    SplitMma,        \* MMA_SPLIT_TOKENS
    ExactRows,       \* SPLIT_PROJ_EXACT_TOKENS
    DeltaSeqs,       \* sequences
    NumTokens,       \* the vocabulary
    DeltaCases       \* stored format, sequences, widths, windows, and the bound on passes

ASSUME WholeGroups == ValueHeads % QkHeads = 0     \* UnevenHeadGrouping

VARIABLES
    deltaCase,       \* what this behaviour is about
    deltaPasses,     \* passes begun
    conv, recurrent, \* GdnState, by sequence
    rings,           \* GdnSnapshotRing, by place in the batch
    pending,         \* places of a verified batch not committed yet
    last,            \* the last pass: its sequences, rows of each, what its core buffer holds
    saved,           \* a SequenceSnapshot
    refused,         \* a pass ended with ProjectionNotResident
    hist             \* history: what a sequence was fed, and the plain recurrence over it

deltaVars == <<deltaCase, deltaPasses, conv, recurrent, rings, pending, last, saved, refused, hist>>

Dims == 1..HeadDim
KHeads == 1..QkHeads
VHeads == 1..ValueHeads
Carry == ConvKernel - 1
KeyDim == QkHeads * HeadDim
ConvDim == 2 * KeyDim + ValueHeads * HeadDim

\* The sequence F(1), ..., F(n).
Vector(n, F(_)) == << >> \o [i \in 1..n |-> F(i)]
Mod(n) == n % Modulus
Total(from, to, F(_)) ==
    LET sum[i \in (from - 1)..to] == IF i < from THEN 0 ELSE sum[i - 1] + F(i) IN sum[to]
Dot(x, y) == Mod(Total(1, HeadDim, LAMBDA j : x[j] * y[j]))
PerHead(F(_)) == Vector(ValueHeads, F)
Column(F(_)) == Vector(HeadDim, F)
Matrix(F(_, _)) == Vector(HeadDim, LAMBDA i : Vector(HeadDim, LAMBDA j : F(i, j)))

\* exp of minus n.
Exp(n) == Mod(Decay ^ n)

ZeroRow == Vector(ConvDim, LAMBDA ch : 0)
ZeroCache == Vector(Carry, LAMBDA j : ZeroRow)
ZeroState == PerHead(LAMBDA h : Matrix(LAMBDA i, j : 0))

-----------------------------------------------------------------------------
(* Weights and pointwise functions: any would do that tells heads,         *)
(* channels, taps and tokens apart.                                        *)

Silu(x) == Mod(x * (x + 2))
Rsqrt(n) == 1 + (n % (Modulus - 1))
OutputScale == 3
Filter(ch, i) == Mod(ch + 2 * i + 1)

\* The projections of the normed row of a token: qkv, and through gdn_gates the
\* log-decay and the write gate of every head.
Projection(tok) ==
    [x |-> Vector(ConvDim, LAMBDA ch : Mod(tok * (ch + 1) + ch * ch)),
     decay |-> PerHead(LAMBDA h : (tok + h) % 3),
     beta |-> PerHead(LAMBDA h : Mod(tok + 2 * h + 1))]

Projected == Vector(NumTokens, Projection)

-----------------------------------------------------------------------------
(* The causal convolution *)

Convolved(Tap(_)) ==
    Vector(ConvDim, LAMBDA ch : Mod(Total(1, ConvKernel, LAMBDA i : Tap(i)[ch] * Filter(ch, i))))

\* conv1d_causal_depthwise: token t of a chunk; before the chunk, the cache.
ConvCausal(x, cache, t) ==
    Convolved(LAMBDA i : LET u == t - ConvKernel + i IN IF u >= 1 THEN x[u] ELSE cache[u + Carry])

\* Mutation: a chunk shorter than the cache leaves the old inputs where they were.
ConvUpdateUnshifted(x, cache, n) ==
    Vector(Carry, LAMBDA j : LET u == n - Carry + j IN IF u >= 1 THEN x[u] ELSE cache[j])

\* conv1d_update_state: the last inputs, those of the old cache among them.
ConvUpdate(x, cache, n) ==
    Vector(Carry, LAMBDA j : LET u == n - Carry + j IN IF u >= 1 THEN x[u] ELSE cache[u + Carry])

\* conv1d_step and gdn_conv_step_channel: the cache is staged, then shifted by one.
ConvStep(x, cache) ==
    [out |-> Convolved(LAMBDA i : IF i < ConvKernel THEN cache[i] ELSE x),
     cache |-> Vector(Carry, LAMBDA j : IF j < Carry THEN cache[j + 1] ELSE x)]

Conv1d(x, cache, n) ==
    IF n = 1
    THEN LET step == ConvStep(x[1], cache) IN [out |-> <<step.out>>, cache |-> step.cache]
    ELSE [out |-> Vector(n, LAMBDA t : ConvCausal(x, cache, t)), cache |-> ConvUpdate(x, cache, n)]

\* gdn_silu_split_qkv: queries, then keys, then values.
SiluSplit(c) ==
    LET part(from, heads) ==
            Vector(heads, LAMBDA h : Column(LAMBDA d : Silu(c[from + (h - 1) * HeadDim + d])))
    IN  [q |-> part(0, QkHeads), k |-> part(KeyDim, QkHeads), v |-> part(2 * KeyDim, ValueHeads)]

\* gdn_normalize_qk; the scale of the output rides on q.
Normalised(a) ==
    LET unit(x, scale) == Column(LAMBDA d : Mod(x[d] * Rsqrt(Dot(x, x)) * scale))
    IN  [q |-> Vector(QkHeads, LAMBDA hq : unit(a.q[hq], OutputScale)),
         k |-> Vector(QkHeads, LAMBDA hq : unit(a.k[hq], 1)),
         v |-> a.v]

-----------------------------------------------------------------------------
(* The delta rule *)

\* Mutation: neighbouring value heads share a query/key head.
QkHeadGrouped(h) == 1 + ((h - 1) \div (ValueHeads \div QkHeads))
QkHead(h) == 1 + ((h - 1) % QkHeads)

Decayed(S, g, h) == Matrix(LAMBDA i, j : Mod(S[i][j] * Exp(g.decay[h])))
\* vcorr: what the write gate lets through of the error of the state's own recall.
Correction(S, k, v, beta) == Column(LAMBDA i : Mod(beta * (v[i] - Dot(S[i], k))))
Updated(S, vcorr, k) == Matrix(LAMBDA i, j : Mod(S[i][j] + vcorr[i] * k[j]))
Read(S, q) == [state |-> S, out |-> Column(LAMBDA i : Dot(S[i], q))]
Corrected(S, a, g, h) ==
    Updated(S, Correction(S, a.k[QkHead(h)], a.v[h], g.beta[h]), a.k[QkHead(h)])

\* Mutation: the correction is formed before the decay.
RecurrentStepUndecayed(S, a, g, h) ==
    Read(Updated(Decayed(S, g, h), Correction(S, a.k[QkHead(h)], a.v[h], g.beta[h]), a.k[QkHead(h)]),
         a.q[QkHead(h)])

\* gdn_recurrent_step and a trip of gdn_scan_prefill: decay, correct against the
\* decayed state, update, and read the output from the updated state.
RecurrentStep(S, a, g, h) == Read(Corrected(Decayed(S, g, h), a, g, h), a.q[QkHead(h)])

\* The state carried on, and one more row of output.
Extended(st, step) == [state |-> step.state, out |-> Append(st.out, step.out)]

\* gdn_scan_prefill: the state in registers from the first token to the last.
ScanHead(S, acts, gates, n, h) ==
    FoldLeft(LAMBDA st, t : Extended(st, RecurrentStep(st.state, acts[t], gates[t], h)),
             [state |-> S, out |-> << >>], [t \in 1..n |-> t])

AllHeads(n, heads) ==
    [state |-> PerHead(LAMBDA h : heads[h].state),
     out |-> Vector(n, LAMBDA t : PerHead(LAMBDA h : heads[h].out[t]))]

\* mix: one token takes the step, more take the scan.
MixSeq(S, acts, gates, n) ==
    AllHeads(n, PerHead(LAMBDA h :
        IF n = 1 THEN LET step == RecurrentStep(S[h], acts[1], gates[1], h)
                      IN  [state |-> step.state, out |-> <<step.out>>]
        ELSE ScanHead(S[h], acts, gates, n, h)))

-----------------------------------------------------------------------------
(* The chunked forms, on the device and in the reference crate; a forward  *)
(* pass runs the scan.                                                     *)

\* Tokens 1..c of a chunk, as one head sees them.
HeadRows(acts, gates, start, c, h) ==
    Vector(c, LAMBDA t :
        [k |-> acts[start + t].k[QkHead(h)], q |-> acts[start + t].q[QkHead(h)], v |-> acts[start + t].v[h],
         beta |-> gates[start + t].beta[h],
         gcum |-> Total(1, t, LAMBDA e : gates[start + e].decay[h])])

\* gram, inter, solve_and_apply and state_update: u by forward substitution over
\* the tokens before, the outputs over those and the token itself.
ChunkHead(S, acts, gates, start, c, h) ==
    LET r == HeadRows(acts, gates, start, c, h)
        between(e, t) == Exp(r[t].gcum - r[e].gcum)
        solve(u, t) ==
            Append(u, Column(LAMBDA i :
                Mod(r[t].beta * (r[t].v[i] - Exp(r[t].gcum) * Dot(S[i], r[t].k))
                    - Total(1, t - 1, LAMBDA e : r[t].beta * Dot(r[e].k, r[t].k) * between(e, t) * u[e][i]))))
        u == FoldLeft(solve, << >>, [t \in 1..c |-> t])
    IN  [out |-> Vector(c, LAMBDA t : Column(LAMBDA i :
                    Mod(Exp(r[t].gcum) * Dot(S[i], r[t].q)
                        + Total(1, t, LAMBDA e : Dot(r[e].k, r[t].q) * between(e, t) * u[e][i])))),
         state |-> Matrix(LAMBDA i, j :
                    Mod(Exp(r[c].gcum) * S[i][j]
                        + Total(1, c, LAMBDA t : u[t][i] * between(t, c) * r[t].k[j])))]

\* invert_unit_lower_triangular: row by row.
Inverted(A, c) ==
    LET row(inv, i) ==
            Append(inv, Vector(c, LAMBDA j :
                IF j = i THEN 1 ELSE IF j > i THEN 0
                ELSE Mod(-Total(j, i - 1, LAMBDA e : A[i][e] * inv[e][j]))))
    IN  FoldLeft(row, << >>, [t \in 1..c |-> t])

\* chunked_forward: the same chunk with the triangular system inverted.
ReferenceChunk(S, acts, gates, start, c, h) ==
    LET r == HeadRows(acts, gates, start, c, h)
        between(e, t) == Exp(r[t].gcum - r[e].gcum)
        w == Vector(c, LAMBDA t : Column(LAMBDA i :
                Mod(r[t].beta * (r[t].v[i] - Exp(r[t].gcum) * Dot(S[i], r[t].k)))))
        inv == Inverted(Vector(c, LAMBDA t : Vector(t, LAMBDA e :
                   r[t].beta * Dot(r[e].k, r[t].k) * between(e, t))), c)
        u == Vector(c, LAMBDA t : Column(LAMBDA i : Mod(Total(1, c, LAMBDA e : inv[t][e] * w[e][i]))))
    IN  [out |-> Vector(c, LAMBDA t : Column(LAMBDA i :
                    Mod(Exp(r[t].gcum) * Dot(S[i], r[t].q)
                        + Total(1, t, LAMBDA e : Dot(r[e].k, r[t].q) * between(e, t) * u[e][i])))),
         state |-> Matrix(LAMBDA i, j :
                    Mod(Exp(r[c].gcum) * S[i][j]
                        + Total(1, c, LAMBDA t : u[t][i] * between(t, c) * r[t].k[j])))]

\* The chunks in order, the last possibly short.
InChunks(Chunk(_, _, _, _, _, _), S, acts, gates, h) ==
    LET n == Len(acts)
        piece(st, start) ==
            LET c == (IF start + ChunkLen < n THEN start + ChunkLen ELSE n) - start
                done == Chunk(st.state, acts, gates, start, c, h)
            IN  [state |-> done.state, out |-> st.out \o done.out]
        starts == [i \in 1..((n + ChunkLen - 1) \div ChunkLen) |-> (i - 1) * ChunkLen]
    IN  FoldLeft(piece, [state |-> S, out |-> << >>], starts)

\* GdnChunkedKernels::prefill, and chunked_forward of the reference crate.
ChunkedPrefill(S, acts, gates, h) == InChunks(ChunkHead, S, acts, gates, h)
ChunkedForward(S, acts, gates, h) == InChunks(ReferenceChunk, S, acts, gates, h)

-----------------------------------------------------------------------------
(* History: the plain recurrence, over everything fed since the reset.     *)

\* S (I - beta k k^T) decayed, plus beta v k^T; head h reads the queries and keys
\* of the head its group repeats.
PlainHead(S, a, g, h) ==
    LET hq == CHOOSE hq \in KHeads : \E r \in 0..(ValueHeads \div QkHeads) : h = r * QkHeads + hq
        k == a.k[hq]
        new == Matrix(LAMBDA i, j :
                  Mod(Exp(g.decay[h]) * (S[i][j] - g.beta[h] * Dot(S[i], k) * k[j])
                      + g.beta[h] * a.v[h][i] * k[j]))
    IN  [state |-> new, out |-> Column(LAMBDA i : Dot(new[i], a.q[hq]))]

\* The input p tokens ago.
PlainInput(past, p) == IF p < Len(past) THEN Projected[past[Len(past) - p].tok].x ELSE ZeroRow

PlainFeed(past, tok) ==
    LET a == Normalised(SiluSplit(Convolved(LAMBDA i :
                IF i = ConvKernel THEN Projected[tok].x ELSE PlainInput(past, Carry - i))))
        S == IF past = << >> THEN ZeroState ELSE Last(past).state
        heads == PerHead(LAMBDA h : PlainHead(S[h], a, Projected[tok], h))
    IN  Append(past, [tok |-> tok, acts |-> a,
                      state |-> PerHead(LAMBDA h : heads[h].state), out |-> PerHead(LAMBDA h : heads[h].out)])

-----------------------------------------------------------------------------
(* The passes *)

Ids == 1..DeltaSeqs
NoPass == [batch |-> << >>, chunk |-> 0, core |-> << >>]

\* The token of row j of the sequence at place z; every pass feeds others.
TokenOf(z, j) == 1 + ((2 * deltaPasses + 3 * z + j) % NumTokens)
Gates(z, n) == Vector(n, LAMBDA t : Projected[TokenOf(z, t)])
Inputs(z, n) == Vector(n, LAMBDA t : Projected[TokenOf(z, t)].x)
ActsOf(out, n) == Vector(n, LAMBDA t : Normalised(SiluSplit(out[t])))

\* Where run, run_batch_decode and run_batch_prefill read the projections: in the
\* repack at every width, if there is one.
PassReads(rows) ==
    IF ~deltaCase.int8 THEN "stored"
    ELSE IF rows >= SplitMma THEN "mma" ELSE IF rows = 1 THEN "gemv" ELSE "split"

\* run_layer_with_snapshots_batch: the repack below the tensor-core width only.
VerifyReads(rows) ==
    IF deltaCase.int8 /\ rows > 1 /\ rows < SplitMma THEN "split" ELSE "stored"

\* A Q8_0 projection is loaded as its repack only, any other as it is stored.
IsResident(form) == (form = "stored") <=> ~deltaCase.int8

\* A pass over the rows of a batch: what it leaves of the sequence at each place,
\* or ProjectionNotResident.
RunDelta(b, n, form, done) ==
    LET place(s) == CHOOSE z \in DOMAIN b : b[z] = s
        ran == done
    IN  /\ pending = << >> /\ ~refused /\ deltaPasses < deltaCase.passes
        /\ refused' = ~IsResident(form)
        /\ deltaPasses' = deltaPasses + 1
        /\ IF refused' THEN UNCHANGED <<conv, recurrent, last, hist>>
           ELSE /\ conv' = Vector(DeltaSeqs, LAMBDA s : IF s \in ToSet(b) THEN ran[place(s)].conv ELSE conv[s])
                /\ recurrent' = Vector(DeltaSeqs, LAMBDA s :
                     IF s \in ToSet(b) THEN ran[place(s)].state ELSE recurrent[s])
                /\ last' = [batch |-> b, chunk |-> n, core |-> FlattenSeq(Vector(Len(b), LAMBDA z : ran[z].out))]
                /\ hist' = Vector(DeltaSeqs, LAMBDA s :
                     IF s \in ToSet(b)
                     THEN FoldLeft(PlainFeed, hist[s], [j \in 1..n |-> TokenOf(place(s), j)])
                     ELSE hist[s])
        /\ UNCHANGED <<deltaCase, saved>>

\* conv1d, silu_split_qkv and mix over the n rows of the sequence at a place.
PerSequence(s, z, n) ==
    LET c == Conv1d(Inputs(z, n), conv[s], n)
        mixed == MixSeq(recurrent[s], ActsOf(c.out, n), Gates(z, n), n)
    IN  [conv |-> c.cache, state |-> mixed.state, out |-> mixed.out]

\* run: one sequence.
DeltaForward(s, n) ==
    /\ RunDelta(<<s>>, n, PassReads(n), <<PerSequence(s, 1, n)>>)
    /\ UNCHANGED <<rings, pending>>

\* Mutation: every slice advances the state of the first.
PointerSlotFirst(b, z) == b[1]
\* The pointer slot the slice of a batched launch selects.
PointerSlot(b, z) == b[z]

\* gdn_conv_silu_split_step_batch and step_batch_raw, or conv1d and scan_batch_raw:
\* one launch, a slice of the grid per sequence.
Sliced(b, z, n) ==
    LET s == PointerSlot(b, z)
        c == Conv1d(Inputs(z, n), conv[IF n = 1 THEN s ELSE b[z]], n)
        acts == ActsOf(c.out, n)
        mixed == AllHeads(n, PerHead(LAMBDA h : ScanHead(recurrent[s][h], acts, Gates(z, n), n, h)))
    IN  [conv |-> c.cache, state |-> mixed.state, out |-> mixed.out]

\* run_batch_decode and run_batch_prefill: up to STEP_MAX_BATCH sequences in one
\* launch, more one after the other.
DeltaBatch(b, n) ==
    /\ RunDelta(b, n, PassReads(Len(b) * n),
                Vector(Len(b), LAMBDA z :
                   IF Len(b) <= StepMax THEN Sliced(b, z, n) ELSE PerSequence(b[z], z, n)))
    /\ UNCHANGED <<rings, pending>>

\* Mutation: a slot is taken before its row is folded in.
RingSlotEarly(states, i) == states[IF i = 0 THEN 1 ELSE i]
\* Slot i of a ring: the state with i rows folded in.
RingSlot(states, i) == states[i + 1]

\* Mutation: as many pieces as fit.
PiecesOfWhole(rows) ==
    UNION {((p - 1) * ExactRows + 1)..(p * ExactRows) : p \in 1..(rows \div ExactRows)}

\* The rows of a window's projections, in pieces, the last possibly short.
Pieces(rows) ==
    UNION {((p - 1) * ExactRows + 1)..(IF p * ExactRows < rows THEN p * ExactRows ELSE rows) :
              p \in 1..((rows + ExactRows - 1) \div ExactRows)}

\* The window's rows one at a time; a row no piece of the projections covers is
\* what the scratch was allocated with.
WindowRows(b, z, n) ==
    LET row(st, t) ==
            LET x == IF VerifyReads(Len(b) * n) = "stored" \/ (z - 1) * n + t \in Pieces(Len(b) * n)
                     THEN Inputs(z, n)[t] ELSE ZeroRow
                c == Conv1d(<<x>>, Last(st.states).conv, 1)
                mixed == MixSeq(Last(st.states).state, ActsOf(c.out, 1), <<Gates(z, n)[t]>>, 1)
            IN  [states |-> Append(st.states, [conv |-> c.cache, state |-> mixed.state]),
                 out |-> st.out \o mixed.out]
    IN  FoldLeft(row, [states |-> <<[conv |-> conv[b[z]], state |-> recurrent[b[z]]]>>, out |-> << >>],
                 [t \in 1..n |-> t])

\* run_layer_with_snapshots_batch: a ring of each sequence's states, and the state
\* where a plain pass over the window would leave it.
DeltaVerify(b, n) ==
    LET walk == Vector(Len(b), LAMBDA z : WindowRows(b, z, n))
    IN  /\ RunDelta(b, n, VerifyReads(Len(b) * n), Vector(Len(b), LAMBDA z :
                      [conv |-> Last(walk[z].states).conv, state |-> Last(walk[z].states).state,
                       out |-> walk[z].out]))
        /\ rings' = Vector(DeltaSeqs, LAMBDA z :
             IF z \in DOMAIN b /\ ~refused'
             THEN Vector(n + 1, LAMBDA i : RingSlot(walk[z].states, i - 1)) ELSE rings[z])
        /\ pending' = IF refused' THEN << >> ELSE [z \in 1..Len(b) |-> z]

\* commit_verify_window: slot kept of the ring becomes the state; kept rows stay.
DeltaCommit(kept) ==
    /\ pending # << >> /\ kept \in 1..last.chunk
    /\ LET z == Head(pending)
           s == last.batch[z]
           slot == rings[z][kept + 1]
       IN  /\ conv' = [conv EXCEPT ![s] = slot.conv]
           /\ recurrent' = [recurrent EXCEPT ![s] = slot.state]
           /\ hist' = [hist EXCEPT ![s] = SubSeq(@, 1, Len(@) - last.chunk + kept)]
    /\ pending' = Tail(pending)
    /\ last' = IF pending' = << >> THEN NoPass ELSE last
    /\ UNCHANGED <<deltaCase, deltaPasses, rings, saved, refused>>

\* SequenceState::reset.
DeltaReset(s) ==
    /\ pending = << >> /\ hist[s] # << >> /\ deltaPasses < deltaCase.passes
    /\ conv' = [conv EXCEPT ![s] = ZeroCache]
    /\ recurrent' = [recurrent EXCEPT ![s] = ZeroState]
    /\ hist' = [hist EXCEPT ![s] = << >>]
    /\ last' = NoPass
    /\ UNCHANGED <<deltaCase, deltaPasses, rings, pending, saved, refused>>

\* SequenceState::snapshot: one, of sequence s.
DeltaSave(s) ==
    /\ pending = << >> /\ hist[s] # << >> /\ saved.hist = << >> /\ deltaPasses < deltaCase.passes
    /\ saved' = [conv |-> conv[s], state |-> recurrent[s], hist |-> hist[s]]
    /\ last' = NoPass
    /\ UNCHANGED <<deltaCase, deltaPasses, conv, recurrent, rings, pending, refused, hist>>

\* SequenceState::restore: into any sequence, whatever it held.
DeltaRestore(s) ==
    /\ pending = << >> /\ saved.hist # << >> /\ hist[s] # saved.hist /\ deltaPasses < deltaCase.passes
    /\ conv' = [conv EXCEPT ![s] = saved.conv]
    /\ recurrent' = [recurrent EXCEPT ![s] = saved.state]
    /\ hist' = [hist EXCEPT ![s] = saved.hist]
    /\ last' = NoPass
    /\ UNCHANGED <<deltaCase, deltaPasses, rings, pending, saved, refused>>

DeltaInit ==
    /\ deltaCase \in DeltaCases
    /\ deltaPasses = 0
    /\ conv = Vector(DeltaSeqs, LAMBDA s : ZeroCache)
    /\ recurrent = Vector(DeltaSeqs, LAMBDA s : ZeroState)
    /\ rings = Vector(DeltaSeqs, LAMBDA z : << >>)
    /\ pending = << >> /\ last = NoPass /\ refused = FALSE
    /\ saved = [conv |-> ZeroCache, state |-> ZeroState, hist |-> << >>]
    /\ hist = Vector(DeltaSeqs, LAMBDA s : << >>)

DeltaBatches == {[i \in 1..n |-> n + 1 - i] : n \in 2..deltaCase.seqs}

DeltaNext ==
    \/ \E s \in 1..deltaCase.seqs, n \in deltaCase.widths : DeltaForward(s, n)
    \/ \E b \in DeltaBatches, n \in deltaCase.widths : DeltaBatch(b, n)
    \/ \E b \in DeltaBatches \cup {<<1>>}, n \in deltaCase.windows : DeltaVerify(b, n)
    \/ \E kept \in 1..last.chunk : DeltaCommit(kept)
    \/ \E s \in 1..deltaCase.seqs : DeltaReset(s) \/ DeltaRestore(s)
    \/ DeltaSave(1)

-----------------------------------------------------------------------------
(* Properties *)

\* The cache holds the last inputs, zeros before the first.
StateExact(s) ==
    /\ conv[s] = Vector(Carry, LAMBDA j : PlainInput(hist[s], Carry - j))
    /\ recurrent[s] = IF hist[s] = << >> THEN ZeroState ELSE Last(hist[s]).state

\* Nothing of the last pass is rolled back yet.
Fresh == Len(pending) \in {0, Len(last.batch)}

\* Rows of the place z in the last pass, and both chunked forms over them.
RowsExact(z) ==
    LET past == hist[last.batch[z]]
        before == Len(past) - last.chunk
        rows == SubSeq(past, before + 1, Len(past))
        S == IF before = 0 THEN ZeroState ELSE past[before].state
        acts == Vector(last.chunk, LAMBDA t : rows[t].acts)
        gates == Vector(last.chunk, LAMBDA t : Projected[rows[t].tok])
    IN  /\ \A t \in 1..last.chunk : last.core[(z - 1) * last.chunk + t] = rows[t].out
        /\ \A h \in VHeads :
              LET plain == [state |-> Last(rows).state[h], out |-> Vector(last.chunk, LAMBDA t : rows[t].out[h])]
              IN  /\ ChunkedPrefill(S[h], acts, gates, h) = plain
                  /\ ChunkedForward(S[h], acts, gates, h) = plain

\* No pass is refused, and each leaves of its sequences the convolution cache,
\* the recurrent matrix and the rows of the plain recurrence over exactly the
\* tokens that sequence keeps: token by token, in a scan or in windows, alone or
\* beside others in one launch, past rejected drafts, resets and restored
\* snapshots.  The chunked forms compute the same.  This is said of cases whose
\* windows stay below SplitMma rows, or whose weights have no repack: a verify
\* pass of that many rows asks for projections that are not resident.
DeltaExact ==
    /\ ~refused
    /\ \A s \in Ids : StateExact(s)
    /\ Fresh => \A z \in DOMAIN last.batch : RowsExact(z)

=============================================================================
