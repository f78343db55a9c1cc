---------------------------- MODULE SequenceHost ----------------------------
(***************************************************************************)
(* The host's side of one sequence, crates/xabe-engine/src/runtime.rs:     *)
(* the pieces its prompt is cut into, the rotary position and the image    *)
(* row every token is fed with, and the drafter that follows its tokens.   *)
(* Runtime.tla has the device's side, for any drafts; here the prompt may  *)
(* hold images, the configuration is arbitrary and the drafts are those    *)
(* the drafters make.  Tokens the model chooses are arbitrary.             *)
(***************************************************************************)
EXTENDS Prefill, Images, Drafters

CONSTANTS
    Configs,         \* records: the runtime's configuration and the prompt
    Tokens,
    MaxOutput

VARIABLES
    cfg,
    position,        \* tokens fed
    delta,           \* rope_delta
    fed,             \* history: per token fed, its rotary triple and image row
    pieces,          \* history: the pieces of the last prefill slice
    emitted,
    drafter          \* as in Drafters

hostVars == <<cfg, position, delta, fed, pieces, emitted, drafter>>

Tails(c) == TailWidths(c, 256)

\* A row fed with the scalar base: slot position plus delta.
ScalarRow(pos) == [rope |-> <<pos, pos, pos>>, row |-> 0]

\* The rows of a piece: per-token positions and projector rows if it overlaps
\* an image, the scalar base otherwise.
PieceRows(images, at, width) ==
    LET base == at + RopeDeltaAt(images, at)
    IN  [r \in 1..width |->
            IF ChunkOverlapsImages(images, at, width)
            THEN [rope |-> MropeTriple(images, at + r - 1), row |-> StagedRow(images, at + r - 1)]
            ELSE ScalarRow(base + r - 1)]

\* One piece of a slice that goes up to end.
HostPiece(acc, end) ==
    LET width == ChoosePrefillWidth(cfg, Tails(cfg), acc.at, end - acc.at)
    IN  IF acc.at >= end THEN acc
        ELSE [at |-> acc.at + width,
              rows |-> acc.rows \o PieceRows(cfg.images, acc.at, width),
              cut |-> acc.cut \cup {[at |-> acc.at, width |-> width, end |-> end]}]

-----------------------------------------------------------------------------
\* The last slice of a prompt gives the first token, which the drafter sees.
Started(w, end) ==
    IF end < Len(cfg.prompt) THEN {w} ELSE {Observe(cfg, w, token) : token \in Tokens}

\* The slice from position to end, cut.
SliceCut(end) ==
    FoldLeft(LAMBDA acc, i : HostPiece(acc, end),
             [at |-> position, rows |-> << >>, cut |-> {}], [i \in 1..(end - position) |-> i])

\* execute_prefill over n tokens, 0 if the whole prompt was restored.
PrefillSlice(n) ==
    LET end == position + n
    IN  /\ emitted = 0
        /\ end <= Len(cfg.prompt)
        /\ n = 0 => position = Len(cfg.prompt)
        /\ \E slice \in {SliceCut(end)} :
              /\ position' = slice.at
              /\ fed' = fed \o slice.rows
              /\ pieces' = slice.cut
        /\ delta' = RopeDeltaAt(cfg.images, end)
        /\ emitted' = IF end = Len(cfg.prompt) THEN 1 ELSE 0
        /\ drafter' \in Started(ObserveAll(cfg, drafter, SubSeq(cfg.prompt, position + 1, end)), end)
        /\ UNCHANGED cfg

\* admit_restored: the rows of the prefix were fed by whoever took the snapshot.
RestorePrefix(prefix) ==
    /\ position = 0 /\ fed = << >> /\ emitted = 0
    /\ cfg.interval > 0 /\ prefix % cfg.interval = 0 /\ prefix <= Len(cfg.prompt)
    /\ position' = prefix
    /\ delta' = RopeDeltaAt(cfg.images, prefix)
    /\ fed' = [i \in 1..prefix |-> [rope |-> AssignedPosition(cfg.images, i - 1),
                                    row |-> AssignedRow(cfg.images, i - 1)]]
    /\ drafter' = ObserveAll(cfg, drafter, SubSeq(cfg.prompt, 1, prefix))
    /\ UNCHANGED <<cfg, pieces, emitted>>

\* The draft that runs: cut to the output left and to the next boundary, and
\* dropped if too short.  A sequence that stopped retaining cuts as one with
\* interval 0.
RunningDraft(draft) ==
    LET room == {MaxOutput - (emitted + 1), Len(draft)}
                    \cup IF cfg.interval = 0 THEN {} ELSE {ToBoundary(cfg, position) - 1}
    IN  IF Min(room) < cfg.draft_n_min THEN << >> ELSE SubSeq(draft, 1, Min(room))

\* The drafter learns how much of the draft was accepted, then the tokens.
Told(w, ran, emit) ==
    FoldLeft(LAMBDA v, token : Observe(cfg, v, token),
             [(IF ran = << >> THEN w ELSE Accept(cfg, w, Len(emit) - 1)) EXCEPT !.draft = << >>],
             emit)

\* A decode step: propose, verify, commit what was accepted and one more token.
DecodeStep ==
    /\ emitted \in 1..(MaxOutput - 1)
    /\ \E w \in {Propose(cfg, drafter)} :
       \E ran \in {RunningDraft(w.draft)} :
       \E accepted \in 0..Len(ran), token \in Tokens :
       \E emit \in {Append(SubSeq(ran, 1, accepted), token)} :
          /\ accepted < Len(ran) => token # ran[accepted + 1]
          /\ position' = position + Len(emit)
          /\ fed' = fed \o [r \in 1..Len(emit) |-> ScalarRow(position + delta + r - 1)]
          /\ emitted' = emitted + Len(emit)
          /\ drafter' = Told(w, ran, emit)
    /\ UNCHANGED <<cfg, delta, pieces>>

\* Another sequence of the worker drafts with ngram-mod: it learns, or resets
\* the table.
OtherSequence ==
    /\ cfg.drafter = "mod"
    /\ \/ \E gram \in [1..cfg.n -> Tokens], token \in Tokens :
              drafter' = [drafter EXCEPT !.table = TableAdd(drafter.table, gram, token)]
       \/ drafter' = [drafter EXCEPT !.table = NewTable]
    /\ UNCHANGED <<cfg, position, delta, fed, pieces, emitted>>

HostInit ==
    /\ cfg \in {c \in Configs : ValidPlacements(c.images, Len(c.prompt))}
    /\ position = 0 /\ delta = 0 /\ emitted = 0
    /\ fed = << >> /\ pieces = {}
    /\ drafter = [draft |-> << >>, table |-> NewTable, history |-> << >>,
                  spec |-> NewSpeculator(cfg)]

HostNext ==
    \/ \E n \in 0..Len(cfg.prompt) : PrefillSlice(n)
    \/ \E prefix \in 1..Len(cfg.prompt) : RestorePrefix(prefix)
    \/ DecodeStep
    \/ OtherSequence

HostSpec == HostInit /\ [][HostNext]_hostVars

-----------------------------------------------------------------------------
(* What the passes are fed, and what is drafted. *)

\* No piece is empty, leaves its slice or crosses a retention boundary, and a
\* pass of its width was built at load.
PieceFits ==
    \A p \in pieces : WellCut(cfg, Tails(cfg), p.at, p.width, p.end)

\* Every token is fed with the rotary position and the image row that
\* assign_positions and the order of the patches give it, however the prompt was
\* sliced and cut, wherever a restored prefix ended, and after the prompt too; and the cuts fit.
FedExactly ==
    /\ PieceFits
    /\ Len(fed) = position
    /\ \A i \in 1..position :
          /\ fed[i].rope = AssignedPosition(cfg.images, i - 1)
          /\ fed[i].row = AssignedRow(cfg.images, i - 1)

\* A draft of n tokens from index j on, copied after a match of the last n.
Copied(h, draft, n) ==
    \E j \in 0..(Len(h) - n - 1) :
        /\ Gram(h, j, n) = LastGram(h, n)
        /\ j + n + Len(draft) <= Len(h)
        /\ draft = Gram(h, j + n, Len(draft))

Grounded(h, draft) ==
    CASE cfg.drafter = "ngram" -> draft = ScannedDraft(cfg, h)
      [] cfg.drafter \in {"simple", "map"} ->
             draft # << >> => Len(draft) <= cfg.drafts /\ Copied(h, draft, cfg.n)
      [] cfg.drafter = "mod" ->
             /\ Len(draft) <= cfg.drafts
             /\ 0..(drafter.spec.i_last - 1) \subseteq drafter.spec.learned
             /\ drafter.table.used =
                    Cardinality({s \in HashSlots : drafter.table.entries[s] # Empty})
      [] OTHER -> draft = << >>

\* What a drafter would propose now is what the tokens observed say.  `ngram'
\* finds exactly what a scan finds, through ring, offsets and collisions; the
\* others copy what followed the same tokens before; and ngram-mod has skipped
\* no n-gram below its watermark and knows how full the shared table is.
DraftsGrounded == Grounded(drafter.history, Propose(cfg, drafter).draft)

\* The value that dominated when p was proposed.
DominantGram(h, p) ==
    Gram(h, p.spec.keys[p.spec.key].values[p.spec.value].value_idx, cfg.drafts)

\* ngram-map-k4v drafts only the continuation that dominates.
DominantDrafted ==
    cfg.drafter = "map" /\ ~cfg.key_only =>
        \A p \in {MapPropose(cfg, drafter.spec, drafter.history)} :
            p.draft # << >> => IsPrefix(p.draft, DominantGram(drafter.history, p))

=============================================================================
