------------------------------ MODULE Runtime -------------------------------
(***************************************************************************)
(* A worker's device runtime, crates/xabe-engine/src/runtime.rs, with the  *)
(* state of its sequences, state.rs, and the parts of forward.rs and       *)
(* block/gdn_verify.rs that move it: prefill in pieces, plain decoding,    *)
(* decoding with drafts (round by round, or verified in one pass and       *)
(* rolled back), snapshots in the pinned arena and their restoration.      *)
(*                                                                         *)
(* The device is symbolic.  A sequence's recurrent state is the tokens     *)
(* folded into it; an entry of its key/value cache is the prefix it was    *)
(* computed from.  A pass gives the model's choice after a prefix only if  *)
(* recurrent state and cache agree on that prefix; otherwise its result is *)
(* Garbage.  Worker.tla and Engine.tla use the runtime by what it reports; *)
(* here is why the reports are right.                                      *)
(***************************************************************************)
EXTENDS Prefill, SequencesExt

CONSTANTS
    Ids,             \* request ids, naturals
    Prompts,
    Eos,             \* the token that ends a turn
    Trigger,         \* the token that arms a tool-call constraint
    Kinds,           \* requests sent: records [sampled, constrained, heads]
    MaxOutput,       \* output limit of every request
    Choose(_, _, _), \* the model: Choose(masked, draw, prefix) is the next
                     \* token, draw 0 the most likely one
    Interval,        \* retention_interval
    Slots,           \* slots of the pinned snapshot arena
    Window,          \* tokens a verify pass feeds: drafts plus one
    DraftMin,        \* draft_n_min
    Chunk, MaxBatch, \* prefill_chunk, max_batch
    Gated,           \* TRUE: no verify passes, LLMXABE_NGRAM_GATED
    Guesses,         \* what a drafter may propose, sequences of tokens
    Faults,          \* bound: device failures
    Absent, None, Free,
    Garbage          \* a token or an entry computed from a state that is wrong

VARIABLES
    seqs,            \* sequences: the resident ones, or Absent
    arena,           \* slot -> its snapshot, or Free
    shared,          \* slots the engine keeps for later requests
    draining,        \* sequences the driver cancels after a failed step
    asked,           \* history: the request of each id
    reported,        \* history: tokens reported for each id, with the final Eos
    refused,         \* history: errors execute returned with no device fault
    faults

runtimeVars == <<seqs, arena, shared, draining, asked, reported, refused, faults>>

Config == [chunk |-> Chunk, interval |-> Interval, max_batch |-> MaxBatch]
Tails == TailWidths(Config, 256)

Take(s, n) == SubSeq(s, 1, Min({n, Len(s)}))
Resident == {id \in Ids : seqs[id] # Absent}

-----------------------------------------------------------------------------
(* The state of a sequence on the device: pos tokens were fed. *)

\* SequenceState::new.
NewState(max) == [pos |-> 0, gdn |-> << >>, kv |-> [i \in 1..max |-> None]]

Sound(d) ==
    /\ Len(d.gdn) = d.pos
    /\ \A i \in 1..d.pos : d.kv[i] = SubSeq(d.gdn, 1, i)

\* GdnBlock::run: the delta rule folds the rows into the recurrent state.
FoldRows(gdn, toks) == gdn \o toks

\* GatedAttentionBlock::forward: the keys and values of all rows are appended
\* past the position, each computed from the rows before it.
AppendRows(d, toks) ==
    LET sound == Sound(d)
        row(n) == IF sound THEN d.gdn \o SubSeq(toks, 1, n) ELSE Garbage
    IN  [i \in DOMAIN d.kv |->
            IF i \in (d.pos + 1)..(d.pos + Len(toks)) THEN row(i - d.pos) ELSE d.kv[i]]

\* What a pass over toks leaves behind before the position moves.
Folded(d, toks) == [d EXCEPT !.gdn = FoldRows(d.gdn, toks), !.kv = AppendRows(d, toks)]

\* Forward::run over a prefill piece: the position moves last.
Feed(d, toks) == [Folded(d, toks) EXCEPT !.pos = @ + Len(toks)]

\* One captured decode step, every sequence of the batch on its own state.
ReplayStep(d, token) == Feed(d, <<token>>)

\* GdnSnapshotRing: slot n is the recurrent state after n tokens of the window.
Ring(d, toks) == [n \in 0..Len(toks) |-> d.gdn \o SubSeq(toks, 1, n)]

\* Mutation: the whole drafted window is committed, accepted or not.
CommitVerifyWindowWhole(d, ring, n) ==
    [d EXCEPT !.gdn = ring[Window], !.pos = @ + n]

\* commit_verify_window: the recurrent state is the ring's; keys and values
\* past the new position stay, to be overwritten by the next pass.
CommitVerifyWindow(d, ring, n) == [d EXCEPT !.gdn = ring[n], !.pos = @ + n]

\* The prefix the logits of the last row fed are conditioned on.
Logits(d) == IF Sound(d) THEN d.gdn ELSE Garbage

HasRoom(d, n) == d.pos + n <= Len(d.kv)

-----------------------------------------------------------------------------
(* The choice of a token. *)

\* RuntimeSequence::choose: mask, then draw or take the most likely.  A row
\* without sampler and grammar is decided on the device by the same rule.
Pick(q, prefix) ==
    IF prefix = Garbage THEN Garbage
    ELSE Choose(q.armed, IF q.sampled THEN q.draws + 1 ELSE 0, prefix)

Argmax(prefix) == IF prefix = Garbage THEN Garbage ELSE Choose(FALSE, 0, prefix)

\* The sampler's generator moves with every draw.
Drawn(q) == IF q.sampled THEN [q EXCEPT !.draws = @ + 1] ELSE q

\* RuntimeSequence::observe: an idle constraint watches for its trigger.
Observe(q, token) == [q EXCEPT !.armed = @ \/ (q.constrained /\ token = Trigger)]

-----------------------------------------------------------------------------
(* Snapshots.  w is the runtime within one execute: seqs, arena, the slots  *)
(* retained, the tokens reported and the errors met.                        *)

\* Slots reachable from roots: a snapshot holds its parent.
Reach(ar, roots) ==
    LET step[n \in 0..Cardinality(Slots)] ==
            IF n = 0 THEN roots
            ELSE step[n - 1] \cup ({ar[s].parent : s \in step[n - 1]} \ {None})
    IN  step[Cardinality(Slots)]

Held(sq, sh) == sh \cup ({sq[id].last : id \in {i \in Ids : sq[i] # Absent}} \ {None})

\* A slot goes back to the arena when its last holder lets go: Lease::drop.
Released(ar, sq, sh) ==
    [s \in Slots |-> IF s \in Reach(ar, Held(sq, sh)) THEN ar[s] ELSE Free]

\* The cache entries a chain of snapshots restores: restore_attention_chain
\* copies the parent's range first, then its own.
Restored(ar, slot) ==
    LET chain == Reach(ar, {slot})
    IN  [i \in 1..ar[slot].pos |->
            LET covering == {s \in chain : ar[s].start < i /\ i <= ar[s].pos}
            IN  IF covering = {} THEN None
                ELSE LET s == CHOOSE t \in covering : \A u \in covering : ar[u].pos <= ar[t].pos
                     IN  ar[s].kv[i - ar[s].start]]

Due(q) ==
    /\ Interval > 0
    /\ ~q.disabled
    /\ q.dev.pos > q.lastPos
    /\ q.dev.pos % Interval = 0

\* Mutation: the next token is recorded whoever chose it.
RecordAlways(q, token) == token

\* The token recorded on a snapshot: never one that was drawn.
Record(q, token) == IF q.sampled THEN None ELSE token

\* SequenceState::snapshot and what execute does with its result.
Retain(w, id, record) ==
    LET q     == w.seqs[id]
        start == IF q.last = None THEN 0 ELSE w.arena[q.last].pos
        free  == {s \in Slots : w.arena[s] = Free}
        slot  == CHOOSE s \in free : TRUE
        \* `masked' and `names' are history: whether a grammar was masking, and
        \* what the engine files the snapshot under
        taken == [masked |-> q.armed,
                  pos |-> q.dev.pos,
                  gdn |-> q.dev.gdn, kv |-> SubSeq(q.dev.kv, start + 1, q.dev.pos),
                  parent |-> q.last, start |-> start,
                  next |-> record,
                  names |-> Take(q.prompt \o w.reported[id], q.dev.pos)]
    IN  IF ~Due(q) THEN w
        ELSE IF start > q.dev.pos \/ q.dev.pos - start > Interval
             THEN [w EXCEPT !.refused = @ \cup {"SnapshotShape"}]
        ELSE IF free = {} THEN [w EXCEPT !.seqs[id].disabled = TRUE]
        ELSE IF q.dev.pos - start # Interval \* asserted by snapshot_range_into
             THEN [w EXCEPT !.refused = @ \cup {"assertion"}]
        ELSE [w EXCEPT !.arena[slot] = taken,
                       !.kept = @ \cup {slot},
                       !.seqs[id].last = slot,
                       !.seqs[id].lastPos = q.dev.pos]

-----------------------------------------------------------------------------
(* Admission. *)

\* Mutation: no room for the rows a verify pass writes past the last token.
MaxSeqExact(prompt) == Len(prompt) + MaxOutput

\* The positions allocated: a verify pass writes its whole window before
\* acceptance decides anything.
MaxSeq(prompt) == Len(prompt) + MaxOutput + (Window - 1)

NewSequence(prompt, kind) ==
    [sampled |-> kind.sampled, constrained |-> kind.constrained, heads |-> kind.heads,
     armed |-> FALSE, draws |-> 0,
     last |-> None, disabled |-> FALSE,
     dev |-> NewState(MaxSeq(prompt)), lastPos |-> 0,
     next |-> None, prompt |-> prompt, prefilled |-> 0, emitted |-> 0]

Admitted(id, prompt, kind, q) ==
    /\ asked[id] = None
    /\ seqs' = [seqs EXCEPT ![id] = q]
    /\ asked' = [asked EXCEPT ![id] = [prompt |-> prompt, kind |-> kind]]
    /\ UNCHANGED <<arena, shared, draining, reported, refused, faults>>

\* admit.
Admit(id) ==
    \E prompt \in Prompts, kind \in Kinds : Admitted(id, prompt, kind, NewSequence(prompt, kind))

\* admit_restored, with a snapshot the engine found for a prefix of the prompt.
\* The placement grants one that covers the whole prompt only to a greedy
\* request, and only if it names the next token.
AdmitRestored(id) ==
    \E prompt \in Prompts, kind \in Kinds, slot \in shared :
        LET snap  == arena[slot]
            whole == snap.pos = Len(prompt)
            fresh == NewSequence(prompt, kind)
            kv    == Restored(arena, slot)
        IN  /\ IsPrefix(snap.names, prompt)
            /\ whole => ~kind.sampled /\ snap.next # None
            /\ Admitted(id, prompt, kind,
                   [fresh EXCEPT !.dev.pos = snap.pos,
                                 !.dev.gdn = snap.gdn,
                                 !.dev.kv = [i \in DOMAIN @ |-> IF i <= snap.pos THEN kv[i] ELSE @[i]],
                                 !.prefilled = snap.pos,
                                 !.lastPos = snap.pos,
                                 !.last = slot,
                                 !.heads = FALSE,
                                 !.next = IF whole THEN snap.next ELSE None])

-----------------------------------------------------------------------------
(* Decoding. *)

Report(w, id, tokens) == [w EXCEPT !.reported[id] = @ \o tokens]

\* Mutation: the draft may reach past the retention boundary by one.
TruncatedPast(q, guess) ==
    LET limited == Take(guess, MaxOutput - (q.emitted + 1))
        bounded == IF Interval > 0 /\ ~q.disabled
                   THEN Take(limited, ToBoundary(Config, q.dev.pos)) ELSE limited
    IN  IF Len(bounded) < DraftMin THEN << >> ELSE bounded

\* execute_decodes: the draft is cut to the output left, then so that the step
\* lands on a retention boundary at most, then dropped if it is too short.
Truncated(q, guess) ==
    LET limited == Take(guess, MaxOutput - (q.emitted + 1))
        bounded == IF Interval > 0 /\ ~q.disabled
                   THEN Take(limited, ToBoundary(Config, q.dev.pos) - 1) ELSE limited
    IN  IF Len(bounded) < DraftMin THEN << >> ELSE bounded

\* The emissions of one verified window: rows are chosen one at a time while
\* they agree with the draft.  A constraint that arms ends the window.
Emission(q, draft, rows) ==
    LET choose(acc, j) ==
            LET token == Pick(acc.q, rows[j])
                after == Observe(Drawn(acc.q), token)
            IN  IF acc.closed THEN acc
                ELSE [q |-> after, emit |-> Append(acc.emit, token),
                      closed |-> \/ j > Len(draft)
                                 \/ token # draft[j]
                                 \/ after.armed # acc.q.armed]
    IN  FoldLeft(choose, [q |-> q, emit |-> << >>, closed |-> FALSE],
                 [j \in 1..(Len(draft) + 1) |-> j])

\* Up to and including the first Eos.
CutAtEos(emit) ==
    LET ends == {i \in DOMAIN emit : emit[i] = Eos}
    IN  IF ends = {} THEN emit ELSE Take(emit, Min(ends))

\* The window a verify pass is fed: the pending token, the draft, and the
\* pending token again where the draft is short.
WindowOf(q, draft) ==
    [j \in 1..Window |-> IF j \in 2..(Len(draft) + 1) THEN draft[j - 1] ELSE q.next]

\* verify_decode_step, one sequence of the batch.
VerifySequence(w, id, draft) ==
    LET q    == w.seqs[id]
        toks == WindowOf(q, draft)
        ran  == Folded(q.dev, toks)
        out  == Emission(q, draft, [j \in 1..(Len(draft) + 1) |-> Logits(Feed(q.dev, Take(toks, j)))])
        emit == CutAtEos(out.emit)
        last == Last(emit)
        v    == [w EXCEPT !.seqs[id] =
                    [out.q EXCEPT !.dev = CommitVerifyWindow(ran, Ring(q.dev, toks), Len(emit)),
                                  !.next = last,
                                  !.emitted = IF last = Eos THEN MaxOutput ELSE @ + Len(emit)]]
    IN  IF ~HasRoom(q.dev, Window) THEN [w EXCEPT !.refused = @ \cup {"CacheExhausted"}]
        ELSE Retain(Report(v, id, emit), id, Record(q, last))

\* One sequence's part of one round of the plain path; w.active are the
\* sequences still in the step.
RoundOf(w, id, draft, round) ==
    LET q     == w.seqs[id]
        fed   == ReplayStep(q.dev, q.next)
        token == Pick(q, Logits(fed))
        after == Observe(Drawn(q), token)
        v     == [w EXCEPT !.seqs[id] =
                     [after EXCEPT !.dev = fed,
                                   !.next = token,
                                   !.emitted = IF token = Eos THEN MaxOutput ELSE @ + 1],
                            !.active = IF /\ token # Eos
                                          /\ q.emitted + 1 < MaxOutput
                                          /\ round <= Len(draft)
                                          /\ draft[round] = token
                                       THEN @ ELSE @ \ {id}]
    IN  IF id \notin w.active THEN w
        ELSE IF ~HasRoom(q.dev, 1)
             THEN [w EXCEPT !.refused = @ \cup {"CacheExhausted"}, !.active = @ \ {id}]
        ELSE Retain(Report(v, id, <<token>>), id, Record(q, token))

\* Whether the step verifies: a pass was built, and some sequence has a draft or
\* a draft head whose seed only the verify pass refreshes.
Verifies(sq, D, draft) ==
    ~Gated /\ Window >= 2 /\ \E id \in D : draft[id] # << >> \/ sq[id].heads

\* execute_decodes over the scheduled sequences, in order.
ExecuteDecodes(w, order, draft) ==
    IF Verifies(w.seqs, Range(order), draft)
    THEN FoldLeft(LAMBDA v, id : VerifySequence(v, id, draft[id]), w, order)
    ELSE FoldLeft(LAMBDA v, round :
                      FoldLeft(LAMBDA u, id : RoundOf(u, id, draft[id], round), v, order),
                  [w EXCEPT !.active = Range(order)],
                  [r \in 1..Max({Window, 1}) |-> r])

-----------------------------------------------------------------------------
(* Prefill. *)

\* One piece of the slice: run, then retain if it ended on a boundary.  At the
\* end of the prompt a sampled sequence draws there; inside it the token is
\* the model's prediction.
PrefillPiece(w, id, end) ==
    LET q      == w.seqs[id]
        width  == ChoosePrefillWidth(Config, Tails, q.dev.pos, end - q.dev.pos)
        fed    == Feed(q.dev, SubSeq(q.prompt, q.dev.pos + 1, q.dev.pos + width))
        moved  == [q EXCEPT !.dev = fed]
        here   == fed.pos = Len(q.prompt) /\ q.sampled
        next   == IF here THEN Pick(moved, Logits(fed)) ELSE Argmax(Logits(fed))
        at     == IF ~Due(moved) THEN moved
                  ELSE [(IF here THEN Drawn(moved) ELSE moved) EXCEPT !.next = next]
    IN  IF q.dev.pos >= end THEN w
        ELSE IF width \notin Prebuilt(Config, Tails) \/ width > end - q.dev.pos
             THEN [w EXCEPT !.refused = @ \cup {"width"}]
        ELSE Retain([w EXCEPT !.seqs[id] = at], id, IF here THEN None ELSE next)

\* execute_prefill.
ExecutePrefill(w, id, tokens) ==
    LET before  == w.seqs[id]
        end     == before.prefilled + tokens
        v       == FoldLeft(LAMBDA u, i : PrefillPiece(u, id, end), w, [i \in 1..tokens |-> i])
        q       == [v.seqs[id] EXCEPT !.prefilled = end]
        stands  == tokens = 0 \/ q.dev.pos = q.lastPos
        first   == IF stands THEN q.next ELSE Pick(q, Logits(q.dev))
        drawn   == IF stands THEN q ELSE Drawn(q)
        started == [Observe(drawn, first) EXCEPT
                       !.next = first,
                       !.emitted = IF first = Eos THEN MaxOutput ELSE @ + 1]
    IN  IF end < Len(q.prompt) THEN [v EXCEPT !.seqs[id] = q]
        ELSE IF first = None THEN [v EXCEPT !.refused = @ \cup {"SnapshotPrefix"}]
        ELSE Report([v EXCEPT !.seqs[id] = started], id, <<first>>)

-----------------------------------------------------------------------------
(* Execution. *)

Ready(id) == seqs[id] # Absent /\ seqs[id].emitted > 0
Prefilling(id) == seqs[id] # Absent /\ seqs[id].emitted = 0

\* Slices the scheduler may grant: some tokens left, or none when the whole
\* prompt was restored.
Slices(id) ==
    LET left == Len(seqs[id].prompt) - seqs[id].prefilled
    IN  IF left = 0 THEN {0} ELSE 1..left

\* execute reports, and drops the sequences that reached their limit; the
\* engine files what was retained.
Finish(w) ==
    LET sq == [id \in Ids |-> IF w.seqs[id] # Absent /\ w.seqs[id].emitted >= MaxOutput
                              THEN Absent ELSE w.seqs[id]]
        sh == shared \cup w.kept
    IN  /\ seqs' = sq
        /\ shared' = sh
        /\ arena' = Released(w.arena, sq, sh)
        /\ reported' = w.reported
        /\ refused' = refused \cup w.refused
        /\ UNCHANGED <<draining, asked, faults>>

\* The scheduler's order of the decodes; which request has which id is open.
Order(D) == SetToSortSeq(D, <)

\* The drafts a step may run with: any guess of any drafter, cut.
Drafts(D) ==
    LET cut(id) == {Truncated(seqs[id], guess) : guess \in Guesses}
    IN  {d \in [D -> UNION {cut(id) : id \in D}] : \A id \in D : d[id] \in cut(id)}

\* execute: the scheduled decodes, then at most one prefill slice here.  The
\* driver steps again only when it has cancelled all that a failed step left.
Execute ==
    /\ draining = {}
    /\ refused = {}
    /\ \E D \in SUBSET {id \in Ids : Ready(id)},
          P \in {{}} \cup {{id} : id \in {i \in Ids : Prefilling(i)}} :
          \E draft \in Drafts(D) :
              LET w == [seqs |-> seqs, arena |-> arena, kept |-> {}, active |-> {},
                        reported |-> reported, refused |-> {}]
                  v == IF D = {} THEN w ELSE ExecuteDecodes(w, Order(D), draft)
              IN  /\ D \cup P # {}
                  /\ Cardinality(D) <= MaxBatch
                  /\ IF P = {} THEN Finish(v)
                     ELSE \E id \in P : \E n \in Slices(id) : Finish(ExecutePrefill(v, id, n))

\* The driver stands aside from stepping until its cancellations are done.
Drain == {id \in Ids : seqs[id] # Absent}

\* The verify pass fails after its layers ran: every sequence of the batch is
\* put back, its recurrent state a window ahead of its position.  The driver
\* then cancels every client it knows before it steps again.
VerifyFails ==
    /\ draining = {} /\ faults < Faults /\ ~Gated
    /\ \E D \in SUBSET {id \in Ids : Ready(id)} :
          /\ D # {}
          /\ \A id \in D : HasRoom(seqs[id].dev, Window)
          /\ seqs' = [id \in Ids |->
                         IF id \in D
                         THEN [seqs[id] EXCEPT
                                  !.dev = Folded(seqs[id].dev, WindowOf(seqs[id], << >>))]
                         ELSE seqs[id]]
    /\ draining' = Drain
    /\ faults' = faults + 1
    /\ UNCHANGED <<arena, shared, asked, reported, refused>>

\* An error with the sequences moved out of the map: they are gone.
StepLosesSequences ==
    /\ draining = {} /\ faults < Faults
    /\ \E D \in SUBSET Resident :
          LET sq == [id \in Ids |-> IF id \in D THEN Absent ELSE seqs[id]]
          IN  /\ D # {}
              /\ seqs' = sq
              /\ arena' = Released(arena, sq, shared)
    /\ draining' = Drain
    /\ faults' = faults + 1
    /\ UNCHANGED <<shared, asked, reported, refused>>

\* remove: a client's cancellation, or one of the driver's.
RemoveSequence(id) ==
    LET sq == [seqs EXCEPT ![id] = Absent]
    IN  /\ seqs[id] # Absent \/ id \in draining
        /\ seqs' = sq
        /\ arena' = Released(arena, sq, shared)
        /\ draining' = draining \ {id}
        /\ UNCHANGED <<shared, asked, reported, refused, faults>>

\* The engine gives up a published snapshot: reclaim_for, or an eviction.
Forget(slot) ==
    LET sh == shared \ {slot}
    IN  /\ slot \in shared
        /\ shared' = sh
        /\ arena' = Released(arena, seqs, sh)
        /\ UNCHANGED <<seqs, draining, asked, reported, refused, faults>>

RuntimeInit ==
    /\ seqs = [id \in Ids |-> Absent]
    /\ arena = [s \in Slots |-> Free]
    /\ shared = {} /\ draining = {} /\ refused = {} /\ faults = 0
    /\ asked = [id \in Ids |-> None]
    /\ reported = [id \in Ids |-> << >>]

RuntimeNext ==
    \/ \E id \in Ids : Admit(id) \/ AdmitRestored(id) \/ RemoveSequence(id)
    \/ Execute
    \/ VerifyFails
    \/ StepLosesSequences
    \/ \E slot \in Slots : Forget(slot)

RuntimeSpec == RuntimeInit /\ [][RuntimeNext]_runtimeVars

-----------------------------------------------------------------------------
(* What the runtime promises. *)

\* The n-th token of plain decoding without drafts, snapshots or batches, if
\* `extra' draws were made before the first.
PlainToken(request, out, n, extra) ==
    LET before == SubSeq(out, 1, n - 1)
        masked == request.kind.constrained /\ \E i \in DOMAIN before : before[i] = Trigger
    IN  Choose(masked, IF request.kind.sampled THEN n + extra ELSE 0, request.prompt \o before)

\* Whatever was drafted, accepted, rolled back, retained, restored or failed,
\* a request is answered with the tokens plain decoding gives, to the end of
\* the turn or the limit.  The one exception is a draw thrown away, which a
\* sampled request can meet when its prompt ends on a boundary.
OutputIsPlain ==
    \A id \in Ids : asked[id] # None =>
        LET out   == reported[id]
            extra == IF asked[id].kind.sampled /\ Interval > 0
                        /\ Len(asked[id].prompt) % Interval = 0 THEN {0, 1} ELSE {0}
        IN  /\ Len(out) <= MaxOutput
            /\ \E e \in extra : \A n \in DOMAIN out :
                   out[n] = PlainToken(asked[id], out, n, e)
            /\ \A n \in DOMAIN out : out[n] = Eos => n = Len(out)

\* Equal seeds replay equal outputs: the draws do not depend on the arena.
SeedReplays ==
    \A id \in Ids : \A n \in DOMAIN reported[id] :
        reported[id][n] = PlainToken(asked[id], reported[id], n, 0)

\* A snapshot in the arena restores exactly the prefix the engine files it
\* under, through parents that are still there, and names the model's own
\* prediction or nothing, unless a grammar was masking.
SnapshotsExact ==
    \A s \in Slots : arena[s] # Free =>
        LET snap == arena[s]
            kv   == Restored(arena, s)
        IN  /\ snap.gdn = snap.names
            /\ Len(snap.names) = snap.pos
            /\ \A i \in 1..snap.pos : kv[i] = SubSeq(snap.names, 1, i)
            /\ snap.next # None /\ ~snap.masked => snap.next = Argmax(snap.names)

\* A sequence that still retains has its last snapshot at the last boundary it
\* passed, whatever width its steps had.
CadenceKept ==
    \A id \in Resident \ draining :
        LET q == seqs[id]
        IN  /\ Interval > 0 /\ ~q.disabled => q.lastPos = (q.dev.pos \div Interval) * Interval
            /\ q.last # None => arena[q.last] # Free /\ arena[q.last].pos = q.lastPos

\* execute finds room for every row it writes, a pass for every width, a state
\* a snapshot slot can hold, and a first token for a restored prompt.
ExecuteNeverRefuses == refused = {}

=============================================================================
