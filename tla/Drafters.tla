------------------------------ MODULE Drafters ------------------------------
(***************************************************************************)
(* The self-speculative drafters, crates/xabe-sched/src/{ngram, ngram_map, *)
(* ngram_mod, spec}.rs: they propose how the tokens of a sequence go on,   *)
(* from what followed the same tokens before.                              *)
(*                                                                         *)
(* The drafter of a sequence is a record [history, spec, table, draft]:    *)
(* the tokens observed, its own state, the table the worker's ngram-mod    *)
(* drafters share, and the last draft.  Histories count from 0, as in the  *)
(* code: Gram(h, j, n) are the n tokens from index j.  Histories never     *)
(* outgrow what they are allocated for, except the ring of `ngram'.        *)
(***************************************************************************)
EXTENDS Integers, SequencesExt

CONSTANTS
    HashSlots,       \* slots of every hash table
    Hash(_),         \* mix, map_hash and NgramModTable::idx: n-gram -> slot
    MaxValues,       \* NGRAM_MAP_MAX_VALUES, 4
    MaxCount,        \* MAX_VALUE_COUNT, 16380
    IndexBatch,      \* the 32 n-grams ngram-mod waits for
    LowStreak,       \* LOW_ACCEPTANCE_STREAK, 5
    Empty            \* NGRAM_MOD_EMPTY

Gram(h, j, n) == SubSeq(h, j + 1, j + n)
LastGram(h, n) == Gram(h, Len(h) - n, n)

-----------------------------------------------------------------------------
(* ngram: an index of the n-grams in a ring, n from min to max. *)

\* NgramSpeculator::new.
NewNgram(c) ==
    [start |-> 0, ring |-> [i \in 0..(c.capacity - 1) |-> 0], len |-> 0, total |-> 0,
     tables |-> [n \in c.min..c.max |-> [slot \in HashSlots |-> 0]]]

\* The n tokens from logical index i of the ring.
RingGram(c, s, i, n) == [k \in 1..n |-> s.ring[(s.start + i + k - 1) % c.capacity]]

\* The token goes into the ring; a full one loses its oldest.
NgramPush(c, s, token) ==
    LET full == s.len = c.capacity
    IN  [s EXCEPT !.ring[(s.start + s.len) % c.capacity] = token,
                  !.start = IF full THEN (@ + 1) % c.capacity ELSE @,
                  !.len = IF full THEN @ ELSE @ + 1,
                  !.total = @ + 1]

\* Mutation: the offset stored is the one past the continuation.
NgramIndexLate(c, s) ==
    [s EXCEPT !.tables = [n \in c.min..c.max |->
        IF s.len - 1 < n THEN @[n]
        ELSE [@[n] EXCEPT ![Hash(RingGram(c, s, s.len - 1 - n, n))] = s.total]]]

\* The n-grams that end before the newest token now have a continuation; they
\* are indexed at the absolute offset where they end.
NgramIndex(c, s) ==
    [s EXCEPT !.tables = [n \in c.min..c.max |->
        IF s.len - 1 < n THEN @[n]
        ELSE [@[n] EXCEPT ![Hash(RingGram(c, s, s.len - 1 - n, n))] = s.total - 1]]]

\* NgramSpeculator::observe.
NgramObserve(c, s, token) == NgramIndex(c, NgramPush(c, s, token))

\* NgramSpeculator::propose_into: the longest suffix whose slot leads to an
\* n-gram still in the ring and equal to the suffix.
NgramPropose(c, s) ==
    LET base      == s.total - s.len
        suffix(n) == RingGram(c, s, s.len - n, n)
        entry(n)  == s.tables[n][Hash(suffix(n))]
        usable    == {n \in c.min..Min({c.max, s.len}) :
                         /\ entry(n) # 0
                         /\ entry(n) < s.total
                         /\ entry(n) >= base + n
                         /\ RingGram(c, s, entry(n) - base - n, n) = suffix(n)}
        end       == entry(Max(usable)) - base
    IN  IF usable = {} THEN << >>
        ELSE RingGram(c, s, end, Min({c.drafts, s.len - end}))

-----------------------------------------------------------------------------
(* ngram-simple: a backward scan; index 0 doubles as "no match". *)

\* NgramSimpleSpeculator::propose_into.
SimplePropose(c, h) ==
    LET cur     == Len(h) - 1
        matches == {j \in 1..(cur - c.n - 1) : Gram(h, j, c.n) = LastGram(h, c.n)}
        from    == Max(matches) + c.n
        length  == Min({c.drafts, cur - from})
    IN  IF cur <= c.n + c.drafts + 1 \/ matches = {} THEN << >>
        ELSE IF length < c.n THEN << >> ELSE Gram(h, from, length)

-----------------------------------------------------------------------------
(* ngram-map-k and ngram-map-k4v: a key is an n-gram that matched. *)

NewMap ==
    [keys |-> << >>, key |-> 0, value |-> 0,
     key_map |-> [slot \in HashSlots |-> 0], key_map_last_idx |-> 0,
     size_last_begin |-> 0, started |-> FALSE, created |-> FALSE]

NewValue(c, at) == [value_idx |-> at, value_num |-> 0, n_accepted |-> c.drafts]

\* The values are the slots in use; ngram-map-k keeps one acceptance count.
NewKey(c, at) ==
    [values |-> IF c.key_only THEN <<NewValue(c, 0)>> ELSE << >>,
     key_idx |-> at, stat_idx |-> 0, key_num |-> 0]

\* An occurrence of the key folded into its values: the slot with the same
\* m-gram, or a new one; nothing if all are taken by others.
CountValue(c, h, values, at) ==
    LET same == SelectInSeq(values, LAMBDA v :
                    Gram(h, v.value_idx, c.drafts) = Gram(h, at, c.drafts))
    IN  IF same # 0
        THEN [values EXCEPT ![same].value_num = Min({@ + 1, MaxCount})]
        ELSE IF Len(values) < MaxValues
             THEN Append(values, [NewValue(c, at) EXCEPT !.value_num = 1])
        ELSE values

\* Where the tail of the history occurred before: by the index, else among the
\* n-grams not indexed yet, of the prompt first, the newest of each; 0: nowhere.
MapMatch(c, s, h) ==
    LET top      == Len(h) - 1 - c.n - c.drafts - 1
        indexed  == s.key_map[Hash(LastGram(h, c.n))]
        equal(J) == {j \in J : Gram(h, j, c.n) = LastGram(h, c.n)}
        prompt   == equal((s.key_map_last_idx + 1)..(s.size_last_begin - c.n - c.drafts - 1))
        output   == equal((Max({s.size_last_begin, s.key_map_last_idx}) + 1)..top)
    IN  IF indexed # 0 /\ indexed < top /\ equal({indexed}) # {} THEN indexed
        ELSE IF prompt # {} THEN Max(prompt)
        ELSE IF output # {} THEN Max(output) ELSE 0

\* The n-grams just scanned are indexed; a slot keeps its first writer.
MapIndexed(c, s, h) ==
    LET top    == Len(h) - 1 - c.n - c.drafts - 1
        prompt == (s.key_map_last_idx + 1)..(s.size_last_begin - c.n - c.drafts - 1)
        output == (Max({s.size_last_begin, s.key_map_last_idx}) + 1)..top
        in(J, slot) == {j \in J : Hash(Gram(h, j, c.n)) = slot}
    IN  [s EXCEPT !.key_map = [slot \in HashSlots |->
                      IF @[slot] # 0 THEN @[slot]
                      ELSE IF in(prompt, slot) # {} THEN Max(in(prompt, slot))
                      ELSE IF in(output, slot) # {} THEN Max(in(output, slot)) ELSE 0],
                  !.key_map_last_idx = Max({@, top})]

\* The slot that occurred most, the first of them.
Dominant(values) ==
    CHOOSE v \in DOMAIN values :
        /\ \A u \in DOMAIN values : values[u].value_num <= values[v].value_num
        /\ \A u \in 1..(v - 1) : values[u].value_num < values[v].value_num

\* The key's entry is found, or made, and hit once more.
WithKey(c, s, h, at) ==
    IF \E k \in DOMAIN s.keys : Gram(h, s.keys[k].key_idx, c.n) = LastGram(h, c.n) THEN s
    ELSE [s EXCEPT !.keys = Append(@, NewKey(c, at))]

KeyOf(c, s, h) == SelectInSeq(s.keys, LAMBDA key : Gram(h, key.key_idx, c.n) = LastGram(h, c.n))

KeyHit(s, k) == [s EXCEPT !.key = k, !.keys[k].key_num = Min({@ + 1, MaxCount})]

\* ngram-map-k4v: the occurrences of the key from where the statistics stopped
\* up to the match, both included.
KeyCounted(c, s, h, at, from) ==
    LET seen == SelectSeq([i \in 1..(at - from + 1) |-> from + i - 1],
                          LAMBDA i : Gram(h, i, c.n) = LastGram(h, c.n))
    IN  [s EXCEPT !.keys[s.key].stat_idx = at,
                  !.keys[s.key].values =
                      FoldLeft(LAMBDA values, i : CountValue(c, h, values, i + c.n),
                               s.keys[s.key].values, seen)]

\* A value dominates when it occurred twice as often as all others together.
Dominates(values, slot) ==
    LET rest == FoldLeft(LAMBDA sum, v : sum + (IF v = slot THEN 0 ELSE values[v].value_num),
                         0, [v \in DOMAIN values |-> v])
    IN  rest = 0 \/ values[slot].value_num >= 2 * rest

\* No draft: accept has nothing to record.
NoMapDraft(s) == [draft |-> << >>, spec |-> [s EXCEPT !.created = FALSE, !.key = 0, !.value = 0]]

\* The continuation of the match, as long as the value's last draft was accepted.
MapDraft(c, s, h, at, slot) ==
    [draft |-> Gram(h, at + c.n, Min({c.drafts, s.keys[s.key].values[slot].n_accepted})),
     spec  |-> [s EXCEPT !.created = TRUE, !.value = slot]]

MapDraftCounted(c, s, h, at, slot) ==
    IF Dominates(s.keys[s.key].values, slot) THEN MapDraft(c, s, h, at, slot) ELSE NoMapDraft(s)

MapDraftFrom(c, s, h, at) ==
    IF c.key_only THEN MapDraft(c, s, h, at, 1)
    ELSE IF s.keys[s.key].key_num < c.min_hits THEN NoMapDraft(s)
    ELSE LET counted == KeyCounted(c, s, h, at, s.keys[s.key].stat_idx)
         IN  MapDraftCounted(c, counted, h, at, Dominant(counted.keys[s.key].values))

MapDraftKeyed(c, s, h, at) == MapDraftFrom(c, KeyHit(s, KeyOf(c, s, h)), h, at)

\* NgramMapSpeculator::propose_into: the drafter after it, and the draft.
MapPropose(c, s, h) ==
    IF Len(h) - 1 < 2 * c.n + c.drafts THEN NoMapDraft(s)
    ELSE LET at == MapMatch(c, s, h)
         IN  IF at = 0 THEN NoMapDraft(MapIndexed(c, s, h))
             ELSE MapDraftKeyed(c, WithKey(c, MapIndexed(c, s, h), h, at), h, at)

\* NgramMapSpeculator::accept.
MapAccept(s, n) == IF s.created THEN [s EXCEPT !.keys[s.key].values[s.value].n_accepted = n] ELSE s

-----------------------------------------------------------------------------
(* ngram-mod: n-gram -> next token, one table for a worker. *)

NewTable == [used |-> 0, entries |-> [slot \in HashSlots |-> Empty]]

\* `learned' is history: the indices this sequence has put into the table.
NewMod == [i_last |-> 0, learned |-> {}, started |-> FALSE, n_draft_last |-> 0, n_low |-> 0]

\* NgramModTable::add.
TableAdd(table, gram, token) ==
    [used |-> table.used + IF table.entries[Hash(gram)] = Empty THEN 1 ELSE 0,
     entries |-> [table.entries EXCEPT ![Hash(gram)] = token]]

\* The n-grams of the history from index i up to, not including, end.
TableAddAll(c, table, h, i, end) ==
    FoldLeft(LAMBDA t, j : TableAdd(t, Gram(h, j, c.n), h[j + c.n + 1]), table,
             [k \in 1..Max({end - i, 0}) |-> i + k - 1])

\* A table more than a quarter full is emptied.
Relieved(table) == IF 4 * table.used > Cardinality(HashSlots) THEN NewTable ELSE table

\* NgramModSpeculator::begin, at the first generated token.  The watermark
\* stays even if the table is emptied at once.
ModBegin(c, w) ==
    LET last  == Len(w.history) - c.n
        begun == [w EXCEPT !.spec.started = TRUE, !.spec.i_last = 0, !.spec.n_draft_last = 0]
    IN  IF last < 0 THEN begun
        ELSE [begun EXCEPT !.spec.i_last = last,
                           !.spec.learned = 0..(last - 1),
                           !.table = Relieved(TableAddAll(c, w.table, w.history, 0, last))]

\* The chain of lookups from the tail of the history.
ModChain(c, table, h) ==
    FoldLeft(LAMBDA chain, i :
                 LET next == table.entries[Hash(LastGram(chain.toks, c.n))]
                 IN  IF chain.ended \/ next = Empty THEN [chain EXCEPT !.ended = TRUE]
                     ELSE [chain EXCEPT !.toks = Append(@, next)],
             [toks |-> LastGram(h, c.n), ended |-> FALSE], [i \in 1..c.drafts |-> i])

\* The n-grams observed since the last time are indexed, once there are enough.
ModCatchUp(c, w) ==
    LET from == w.spec.i_last
        end  == Len(w.history) - 1 - c.n
    IN  IF from + IndexBatch >= Len(w.history) - 1 THEN w
        ELSE [w EXCEPT !.table = TableAddAll(c, w.table, w.history, from, end),
                       !.spec.i_last = end,
                       !.spec.learned = @ \cup (from..(end - 1))]

\* A chain that broke before n_min tokens is dropped.
ModDraft(c, w, chain) ==
    LET draft == IF chain.ended /\ Len(chain.toks) < c.n + c.n_min THEN << >>
                 ELSE SubSeq(chain.toks, c.n + 1, Len(chain.toks))
    IN  [w EXCEPT !.spec.n_draft_last = Len(draft), !.draft = draft]

ModDraftCaughtUp(c, w) == ModDraft(c, w, ModChain(c, w.table, w.history))

\* NgramModSpeculator::propose_into.
ModPropose(c, w) ==
    IF Len(w.history) - 1 < c.n THEN [w EXCEPT !.spec.n_draft_last = 0, !.draft = << >>]
    ELSE ModDraftCaughtUp(c, ModCatchUp(c, w))

\* NgramModSpeculator::accept: a streak of drafts with less than a quarter
\* accepted resets the table, for every sequence.
ModAccept(w, n) ==
    LET low   == 4 * n < w.spec.n_draft_last
        reset == low /\ w.spec.n_low + 1 >= LowStreak
    IN  IF w.spec.n_draft_last = 0 THEN w
        ELSE [w EXCEPT !.table = IF reset THEN NewTable ELSE @,
                       !.spec.i_last = IF reset THEN 0 ELSE @,
                       !.spec.n_low = IF low /\ ~reset THEN @ + 1 ELSE 0]

-----------------------------------------------------------------------------
(* SelfSpeculator: one of them, by c.drafter. *)

\* new_speculator.
NewSpeculator(c) ==
    CASE c.drafter = "ngram" -> NewNgram(c)
      [] c.drafter = "map" -> NewMap
      [] c.drafter = "mod" -> NewMod
      [] OTHER -> << >>

\* observe_all: tokens of the prompt.
ObserveAll(c, w, toks) ==
    IF c.drafter = "none" THEN w
    ELSE [w EXCEPT !.history = @ \o toks,
                   !.spec = IF c.drafter = "ngram"
                            THEN FoldLeft(LAMBDA s, token : NgramObserve(c, s, token), w.spec, toks)
                            ELSE w.spec]

\* observe: one generated token; the first is where generation begins.
Observe(c, w, token) ==
    LET begun == CASE c.drafter = "mod" /\ ~w.spec.started -> ModBegin(c, w)
                   [] c.drafter = "map" /\ ~w.spec.started ->
                          [w EXCEPT !.spec.started = TRUE, !.spec.size_last_begin = Len(w.history)]
                   [] OTHER -> w
    IN  ObserveAll(c, begun, <<token>>)

\* propose_into.
Propose(c, w) ==
    CASE c.drafter = "ngram" -> [w EXCEPT !.draft = NgramPropose(c, w.spec)]
      [] c.drafter = "simple" -> [w EXCEPT !.draft = SimplePropose(c, w.history)]
      [] c.drafter = "map" -> LET p == MapPropose(c, w.spec, w.history)
                              IN  [w EXCEPT !.spec = p.spec, !.draft = p.draft]
      [] c.drafter = "mod" -> ModPropose(c, w)
      [] OTHER -> w

\* accept, called only for a draft that ran.
Accept(c, w, n) ==
    CASE c.drafter = "map" -> [w EXCEPT !.spec = MapAccept(w.spec, n)]
      [] c.drafter = "mod" -> ModAccept(w, n)
      [] OTHER -> w

-----------------------------------------------------------------------------
(* The reference of `ngram': a scan of everything observed. *)

\* For each n the newest n-gram before the suffix that hashes like it counts,
\* if the ring still holds it and it is the suffix; the longest such n drafts.
ScannedDraft(c, h) ==
    LET held    == Max({0, Len(h) - c.capacity})
        alike(n) == {e \in n..(Len(h) - 1) : Hash(Gram(h, e - n, n)) = Hash(LastGram(h, n))}
        matched == {n \in c.min..Min({c.max, Len(h)}) :
                       /\ alike(n) # {}
                       /\ Max(alike(n)) - n >= held
                       /\ Gram(h, Max(alike(n)) - n, n) = LastGram(h, n)}
        end     == Max(alike(Max(matched)))
    IN  IF matched = {} THEN << >> ELSE Gram(h, end, Min({c.drafts, Len(h) - end}))

=============================================================================
