------------------------------- MODULE Engine -------------------------------
(***************************************************************************)
(* The shared prefix cache and the bookkeeping around it,                  *)
(* crates/xabe-engine/src/engine.rs and prefix.rs: one prefix tree and one *)
(* map of published snapshots used by all workers, and for every live      *)
(* request the chain that names its blocks and the tree nodes it holds.    *)
(*                                                                         *)
(* Three kinds of thread meet here: HTTP handlers placing a request (one   *)
(* at a time, under the placement mutex), one driver per worker stepping   *)
(* its device and folding the result into the cache, and handlers          *)
(* cancelling a request.  No lock is held from one map to the next, so an  *)
(* action is what a thread does under one lock and `placing', `driver' and *)
(* `cancel' hold each thread's position and locals in between.             *)
(*                                                                         *)
(* The worker behind its mutex is reduced to the sequences on its device:  *)
(* what they were fed, what they picked, and where a snapshot was kept.    *)
(* Worker.tla models the rest.  A step is one request and one token wide.  *)
(***************************************************************************)
EXTENDS Integers, SequencesExt

CONSTANTS
    Requests, Workers,
    Tokens,        \* token ids, naturals
    Eos,           \* the end-of-sequence token
    Prompts,       \* prompts callers send, sequences of tokens
    Kinds,         \* of "greedy", "sampled" and "tool" (greedy with a grammar)
    MaxOutputs,    \* output limits callers send
    BlockSize,     \* attention_block_size
    Interval,      \* gdn_retention_interval
    MaxNodes,      \* max_prefix_nodes
    MaxLen,        \* bound: tokens a device may be fed for one request
    Argmax,        \* the model: the token it predicts after a sequence
    Chunks,        \* prompt tokens the scheduler may grant in one step
    Pressure,      \* TRUE: a snapshot arena may be short of slots
    Failing,       \* workers whose device may fail a step
    MaxCancels     \* bound: cancellations

\* CacheConfig::new refuses a retention interval that is not a whole number of
\* blocks, and Generation::start an empty prompt.
ASSUME CacheAssumption ==
    /\ {BlockSize, Interval, MaxNodes, MaxLen} \subseteq Nat \ {0}
    /\ Interval % BlockSize = 0
    /\ Tokens \subseteq Nat /\ Eos \in Nat
    /\ \A n \in 1 .. MaxLen : \A s \in [1 .. n -> Tokens] : Argmax[s] \in Tokens
    /\ Prompts \subseteq Seq(Tokens) /\ \A s \in Prompts : Len(s) \in 1 .. MaxLen
    /\ MaxOutputs \subseteq Nat \ {0}
    /\ Kinds \subseteq {"greedy", "sampled", "tool"}
    /\ Failing \subseteq Workers
    /\ Chunks \subseteq Nat \ {0}
    /\ Pressure \in BOOLEAN
    /\ MaxCancels \in Nat

VARIABLES
    nodes, children, clock, quota,   \* prefix_tree
    shared,        \* SharedSnapshots::entries, name -> what is held there
    recency,       \* their names by last_used, least recent first: no two
                   \* entries have the same stamp
    chains,        \* request_chains
    refs,          \* request_refs, the chain of the nodes a request holds
    live,          \* sequences resident on a worker
    placing,       \* the handler inside the placement mutex
    driver,        \* the driver thread of each worker
    cancel,        \* how far the cancellation of each request is
    issued,        \* request ids handed out
    outrun,        \* history: requests whose chain missed a token, because the
                   \* step was folded before place_tokens had recorded the chain
                   \* or because it failed
    lineage,       \* history: the requests whose passes a request's state
                   \* comes from, itself and those it was restored from
    masked,        \* history: requests that picked a token under a grammar
    missedChain,   \* history: requests whose chain, and whose references,
    missedRefs     \* were last removed before place_tokens recorded them

treeVars == <<nodes, children, clock, quota>>
cacheVars == <<shared, recency>>
bookVars == <<chains, refs>>
threadVars == <<placing, driver, cancel>>
pastVars == <<outrun, lineage, masked>>
missedVars == <<missedChain, missedRefs>>
engineVars == <<treeVars, cacheVars, bookVars, live, threadVars, issued, pastVars, missedVars>>

NoToken == -1

Tree == INSTANCE RadixTree
            WITH Blocks <- [1 .. BlockSize -> Tokens], Chains <- {},
                 MaxEvict <- 0, MaxRefs <- 0, MaxClock <- 0

\* A map without an entry.
Drop(f, x) == [y \in DOMAIN f \ {x} |-> f[y]]

\* HashMap::insert
Put(f, x, v) == [y \in DOMAIN f \cup {x} |-> IF y = x THEN v ELSE f[y]]

\* SequenceChain::hashes: only complete blocks are named.
BlocksOf(s) ==
    [i \in 1 .. Len(s) \div BlockSize |->
        SubSeq(s, (i - 1) * BlockSize + 1, i * BlockSize)]

NotPlacing == [pc |-> "idle"]
Parked == [pc |-> "idle"]

EngineInit ==
    /\ Tree!TreeInit
    /\ shared = [n \in {} |-> 0]
    /\ recency = << >>
    /\ chains = [r \in {} |-> 0]
    /\ refs = [r \in {} |-> 0]
    /\ live = [r \in {} |-> 0]
    /\ placing = NotPlacing
    /\ driver = [w \in Workers |-> Parked]
    /\ cancel = [r \in Requests |-> "none"]
    /\ issued = {}
    /\ outrun = {} /\ masked = {}
    /\ lineage = [r \in Requests |-> {r}]
    /\ missedChain = {} /\ missedRefs = {}

-----------------------------------------------------------------------------
(* place_tokens, from the placement lock to the end.                       *)

\* The lock, and the first match_prefix.
PlaceMatch(r, prompt, kind, max) ==
    /\ placing.pc = "idle"
    /\ quota = 0
    /\ r \notin issued
    /\ issued' = issued \cup {r}
    /\ placing' = [pc |-> "claim", r |-> r, prompt |-> prompt, kind |-> kind,
                   max |-> max, hit |-> Tree!SnapshotDepth(BlocksOf(prompt))]
    /\ UNCHANGED <<treeVars, cacheVars, bookVars, live, driver, cancel, pastVars, missedVars>>

\* The snapshot filter: one that covers the whole prompt supplies the first
\* output token, which only a greedy request may inherit.
Usable(snap, prompt, kind) ==
    \/ Len(snap.tokens) < Len(prompt)
    \/ kind # "sampled" /\ snap.next # NoToken

\* The entries without some names, and a name stamped as the most recent.
Fewer(gone) == SelectSeq(recency, LAMBDA n : n \notin gone)
Stamped(name) == Append(Fewer({name}), name)

\* take_for_reuse and the filter; the clone leaves the entry where it is.
PlaceClaim ==
    LET name == Tree!NameAt(BlocksOf(placing.prompt), placing.hit)
        found == placing.hit > 0 /\ name \in DOMAIN shared
        snap == [tokens |-> shared[name].tokens, next |-> shared[name].next]
    IN  /\ placing.pc = "claim"
        /\ recency' = IF found THEN Stamped(name) ELSE recency
        /\ placing' = [pc |-> "score", r |-> placing.r, prompt |-> placing.prompt,
                       kind |-> placing.kind, max |-> placing.max,
                       snap |-> IF found /\ Usable(snap, placing.prompt, placing.kind)
                                THEN <<snap>> ELSE << >>]
        /\ lineage' = IF found
                      THEN [lineage EXCEPT ![placing.r] = @ \cup lineage[shared[name].by]]
                      ELSE lineage
        /\ UNCHANGED <<treeVars, shared, bookVars, live, driver, cancel, issued, outrun, masked,
                       missedVars>>

\* score_workers matches again ...
PlaceScore ==
    /\ placing.pc = "score"
    /\ quota = 0
    /\ placing' = [pc |-> "route", r |-> placing.r, prompt |-> placing.prompt,
                   kind |-> placing.kind, max |-> placing.max, snap |-> placing.snap,
                   hit |-> Tree!SnapshotDepth(BlocksOf(placing.prompt))]
    /\ UNCHANGED <<treeVars, cacheVars, bookVars, live, driver, cancel, issued, pastVars, missedVars>>

\* ... and credits what the snapshot map still holds; route picks a worker from
\* the loads, which are not modelled, or finds every worker saturated.
PlaceRoute ==
    LET name == Tree!NameAt(BlocksOf(placing.prompt), placing.hit)
        credit == IF placing.hit > 0 /\ name \in DOMAIN shared THEN placing.hit ELSE 0
    IN  /\ placing.pc = "route"
        /\ \/ placing' = NotPlacing
           \/ \E w \in Workers :
                 placing' = [pc |-> "admit", r |-> placing.r, prompt |-> placing.prompt,
                             kind |-> placing.kind, max |-> placing.max,
                             snap |-> placing.snap, credit |-> credit, worker |-> w]
        /\ UNCHANGED <<treeVars, cacheVars, bookVars, live, driver, cancel, issued, pastVars, missedVars>>

\* A sequence as admit and admit_restored leave it on the device.
Admitted(p) ==
    LET base == IF p.snap = << >> THEN << >> ELSE p.snap[1].tokens
    IN  [worker |-> p.worker, kind |-> p.kind, prompt |-> p.prompt, max |-> p.max,
         fed |-> base, last |-> Len(base), off |-> FALSE, out |-> 0,
         next |-> IF Len(base) = Len(p.prompt) THEN p.snap[1].next ELSE NoToken]

\* The chain of the blocks the score credited.
Credited(p) == Tree!NameAt(BlocksOf(p.prompt), p.credit)

\* admit_tokens or admit_tokens_restored under the worker's lock, or its error.
PlaceAdmit ==
    /\ placing.pc = "admit"
    /\ \/ /\ live' = Put(live, placing.r, Admitted(placing))
          /\ placing' = [pc |-> IF placing.credit > 0 THEN "incr" ELSE "chain",
                         r |-> placing.r, prompt |-> placing.prompt,
                         held |-> Credited(placing)]
       \/ /\ placing' = NotPlacing
          /\ UNCHANGED live
    /\ UNCHANGED <<treeVars, cacheVars, bookVars, driver, cancel, issued, pastVars, missedVars>>

\* incr_ref_chain over the credited blocks ...
PlaceIncr ==
    /\ placing.pc = "incr"
    /\ Tree!IncrRefChain(placing.held)
    /\ placing' = [placing EXCEPT !.pc = "hold"]
    /\ UNCHANGED <<cacheVars, bookVars, live, driver, cancel, issued, pastVars, missedVars>>

\* ... and the entry in request_refs.
PlaceRefs ==
    /\ placing.pc = "hold"
    /\ refs' = Put(refs, placing.r, placing.held)
    /\ placing' = [placing EXCEPT !.pc = "chain"]
    /\ UNCHANGED <<treeVars, cacheVars, chains, live, driver, cancel, issued, pastVars, missedVars>>

\* The entry in request_chains; the lock is released.
PlaceChain ==
    /\ placing.pc = "chain"
    /\ chains' = Put(chains, placing.r,
                     [tokens |-> placing.prompt, prompt |-> Len(placing.prompt)])
    /\ placing' = NotPlacing
    /\ UNCHANGED <<treeVars, cacheVars, refs, live, driver, cancel, issued, pastVars, missedVars>>

Place ==
    \/ \E r \in Requests, prompt \in Prompts, kind \in Kinds, max \in MaxOutputs :
          PlaceMatch(r, prompt, kind, max)
    \/ PlaceClaim
    \/ PlaceScore
    \/ PlaceRoute
    \/ PlaceAdmit
    \/ PlaceIncr
    \/ PlaceRefs
    \/ PlaceChain

\* The request is on its worker and place_tokens has yet to record it.
Unrecorded(r) == placing.pc \in {"incr", "hold", "chain"} /\ placing.r = r

\* place_tokens has references for the request and has yet to record them.
Unheld(r) == placing.pc \in {"incr", "hold"} /\ placing.r = r

\* Whether the last removal of a request's entry came before the entry.
Missed(set, r, early) == IF early THEN set \cup {r} ELSE set \ {r}

-----------------------------------------------------------------------------
(* step_worker: the device step under the worker's lock.                   *)

\* The position past which the next snapshot lies, the i-th boundary behind it, and
\* how many of them a sequence that moves to `end' meets.
Since(rec) == IF rec.last > Len(rec.fed) THEN rec.last ELSE Len(rec.fed)
Boundary(rec, i) == (Since(rec) \div Interval + i) * Interval
Due(rec, end) ==
    IF rec.off \/ end < Since(rec) THEN 0 ELSE end \div Interval - Since(rec) \div Interval

\* At how many of them the arena had a slot; the first refusal disables retention.
Retentions(rec, end) == IF Pressure THEN 0 .. Due(rec, end) ELSE {Due(rec, end)}

\* The sequence after a step that fed it up to `fed', kept snapshots at `kept'
\* boundaries and picked token t (none in the middle of the prompt).
Advanced(rec, fed, kept, t) ==
    [rec EXCEPT !.fed = fed,
                !.last = IF kept = 0 THEN rec.last ELSE Boundary(rec, kept),
                !.off = rec.off \/ kept # Due(rec, Len(fed)),
                !.next = t,
                !.out = IF t = Eos THEN rec.max
                        ELSE IF t = NoToken THEN rec.out ELSE rec.out + 1]

\* The report that leaves out the token a prefill ends with.
ReportedAfterFirst(rec, t) ==
    IF t \in {Eos, NoToken} \/ rec.out = 0 THEN << >> ELSE <<t>>

\* What `generated' tells of the token; an end-of-sequence token is not in it.
Reported(rec, t) == IF t \in {Eos, NoToken} THEN << >> ELSE <<t>>

\* The snapshot that also records a sampled token.
RecordedAlways(rec, fed, position, t) ==
    IF position < Len(rec.prompt) THEN Argmax[SubSeq(fed, 1, position)] ELSE t

\* The token a snapshot records as the next one.  Inside the prompt it is the model's
\* prediction; from its end on, the output token unless it was sampled.
Recorded(rec, fed, position, t) ==
    IF position < Len(rec.prompt) THEN Argmax[SubSeq(fed, 1, position)]
    ELSE IF rec.kind = "sampled" THEN NoToken ELSE t

\* What a step does to a sequence and reports of it.
Outcome(rec, fed, kept, t) ==
    [rec  |-> Advanced(rec, fed, kept, t),
     gen  |-> Reported(rec, t),
     kept |-> [i \in 1 .. kept |->
                  [tokens |-> SubSeq(fed, 1, Boundary(rec, i)),
                   next   |-> Recorded(rec, fed, Boundary(rec, i), t)]]]

\* execute_prefill: n tokens of the prompt, cut at every boundary.  At the end of
\* the prompt the first output token is the model's, the sampler's, or the one a
\* whole-prompt snapshot recorded.
Left(rec) == Len(rec.prompt) - Len(rec.fed)
Slices(rec) == {IF c < Left(rec) THEN c ELSE Left(rec) : c \in Chunks}
Filled(rec, n) == rec.fed \o SubSeq(rec.prompt, Len(rec.fed) + 1, Len(rec.fed) + n)

FirstTokens(rec, n) ==
    IF n < Left(rec) THEN {NoToken}
    ELSE IF n = 0 THEN {rec.next}
    ELSE IF rec.kind = "sampled" THEN Tokens ELSE {Argmax[Filled(rec, n)]}

PrefillOutcomes(rec) ==
    UNION {{Outcome(rec, Filled(rec, n), kept, t) :
               kept \in Retentions(rec, Len(rec.fed) + n), t \in FirstTokens(rec, n)} :
           n \in Slices(rec)}

\* execute_decodes: the last token is fed and the next one picked, by the model,
\* the sampler, or the model under the grammar's mask.
Extended(rec) == Append(rec.fed, rec.next)
Picks(rec) == IF rec.kind = "greedy" THEN {Argmax[Extended(rec)]} ELSE Tokens

DecodeOutcomes(rec) ==
    {Outcome(rec, Extended(rec), kept, t) :
        kept \in Retentions(rec, Len(rec.fed) + 1), t \in Picks(rec)}

Outcomes(rec) == IF rec.out = 0 THEN PrefillOutcomes(rec) ELSE DecodeOutcomes(rec)

\* A decode of a request with a grammar.
Masked(r) == IF live[r].kind = "tool" /\ live[r].out > 0 THEN masked \cup {r} ELSE masked

\* step_device on worker w, for one of its requests; a request that reached its
\* limit or stopped leaves the worker in the same call.
StepDevice(w, r) ==
    /\ driver[w].pc = "idle"
    /\ r \in DOMAIN live
    /\ live[r].worker = w
    /\ Len(live[r].fed) < MaxLen
    /\ \E o \in Outcomes(live[r]) :
          /\ live' = IF o.rec.out >= o.rec.max THEN Drop(live, r)
                     ELSE Put(live, r, o.rec)
          /\ driver' = [driver EXCEPT ![w] =
                           [pc |-> "extend", r |-> r, gen |-> o.gen, kept |-> o.kept,
                            done |-> o.rec.out >= o.rec.max]]
    /\ masked' = Masked(r)
    /\ UNCHANGED <<treeVars, cacheVars, bookVars, placing, cancel, issued, outrun, lineage,
                   missedVars>>

\* step_device fails after r's part of it ran: the device has moved and nothing
\* is reported.
StepFails(w, r) ==
    /\ w \in Failing
    /\ driver[w].pc = "idle"
    /\ r \in DOMAIN live
    /\ live[r].worker = w
    /\ Len(live[r].fed) < MaxLen
    /\ \E o \in Outcomes(live[r]) : live' = Put(live, r, o.rec)
    /\ outrun' = outrun \cup {r}
    /\ masked' = Masked(r)
    /\ UNCHANGED <<treeVars, cacheVars, bookVars, threadVars, issued, lineage, missedVars>>

-----------------------------------------------------------------------------
(* apply_step: the fold into the shared bookkeeping, without the worker's  *)
(* lock.                                                                   *)

Goto(w, pc) == driver' = [driver EXCEPT ![w].pc = pc]

\* Extend the chain by the reported token, if the chain is there.
ExtendChain(w) ==
    LET r == driver[w].r
    IN  /\ driver[w].pc = "extend"
        /\ chains' = IF r \in DOMAIN chains
                     THEN [chains EXCEPT ![r].tokens = @ \o driver[w].gen]
                     ELSE chains
        /\ outrun' = IF driver[w].gen # << >> /\ Unrecorded(r) THEN outrun \cup {r} ELSE outrun
        /\ Goto(w, "install")
        /\ UNCHANGED <<treeVars, cacheVars, refs, live, placing, cancel, issued, lineage, masked,
                       missedVars>>

\* generated_token_at: the token after `position', if it was generated and is
\* still in the block being filled.
GeneratedTokenAt(chain, position) ==
    LET hashed == (Len(chain.tokens) \div BlockSize) * BlockSize
    IN  IF position >= chain.prompt /\ position >= hashed /\ position < Len(chain.tokens)
        THEN chain.tokens[position + 1]
        ELSE NoToken

\* install_snapshot may file the snapshot: the chain names its position and does
\* not disagree with it about the token that followed.
CanName(chain, snap) ==
    LET position == Len(snap.tokens)
        followed == GeneratedTokenAt(chain, position)
    IN  /\ position \div BlockSize <= Len(chain.tokens) \div BlockSize
        /\ followed # NoToken /\ snap.next # NoToken => followed = snap.next

\* Drop the snapshot at the head of the list and go on with the next one.
NextSnapshot(w) ==
    driver' = [driver EXCEPT ![w] =
                  [pc |-> "install", r |-> driver[w].r, gen |-> << >>,
                   kept |-> Tail(driver[w].kept), done |-> driver[w].done]]

\* The snapshot filed under every block the chain has, not those it covers.
InstallNameDeepest(w) ==
    LET d == driver[w]
    IN  /\ d.pc = "install"
        /\ d.kept # << >>
        /\ IF d.r \in DOMAIN chains /\ CanName(chains[d.r], d.kept[1])
           THEN driver' = [driver EXCEPT ![w] =
                   [pc |-> "reclaim", r |-> d.r, kept |-> d.kept, done |-> d.done,
                    name |-> BlocksOf(chains[d.r].tokens)]]
           ELSE NextSnapshot(w)
        /\ UNCHANGED <<treeVars, cacheVars, bookVars, live, placing, cancel, issued, pastVars, missedVars>>

\* Take the next retained snapshot and a clone of the chain that names it.
InstallName(w) ==
    LET d == driver[w]
    IN  /\ d.pc = "install"
        /\ d.kept # << >>
        /\ IF d.r \in DOMAIN chains /\ CanName(chains[d.r], d.kept[1])
           THEN driver' = [driver EXCEPT ![w] =
                   [pc |-> "reclaim", r |-> d.r, kept |-> d.kept, done |-> d.done,
                    name |-> Tree!NameAt(BlocksOf(chains[d.r].tokens),
                                         Len(d.kept[1].tokens) \div BlockSize)]]
           ELSE NextSnapshot(w)
        /\ UNCHANGED <<treeVars, cacheVars, bookVars, live, placing, cancel, issued, pastVars, missedVars>>

\* reclaim_for drops the worker's least recently used entries until its arena,
\* which is not modelled, has room; without room and entries, the snapshot is not
\* shared.
Mine(w) == SelectSeq(recency, LAMBDA n : shared[n].worker = w)
Oldest(w, k) == ToSet(SubSeq(Mine(w), 1, k))

Reclaim(w) ==
    /\ driver[w].pc = "reclaim"
    /\ \E k \in IF Pressure THEN 0 .. Len(Mine(w)) ELSE {0} :
          /\ shared' = [n \in DOMAIN shared \ Oldest(w, k) |-> shared[n]]
          /\ recency' = Fewer(Oldest(w, k))
          /\ \/ Goto(w, "insert")
             \/ Pressure /\ k = Len(Mine(w)) /\ NextSnapshot(w)
    /\ UNCHANGED <<treeVars, bookVars, live, placing, cancel, issued, pastVars, missedVars>>

\* The tree insert, which flags the last block only.
InsertPrefix(w) ==
    /\ driver[w].pc = "insert"
    /\ Tree!Insert(driver[w].name, {Len(driver[w].name)})
    /\ Goto(w, "publish")
    /\ UNCHANGED <<cacheVars, bookVars, live, placing, cancel, issued, pastVars, missedVars>>

\* SharedSnapshots::publish
Publish(w) ==
    LET snap == driver[w].kept[1]
    IN  /\ driver[w].pc = "publish"
        /\ shared' = Put(shared, driver[w].name,
                         [worker |-> w, tokens |-> snap.tokens, next |-> snap.next,
                          by |-> driver[w].r])
        /\ recency' = Stamped(driver[w].name)
        /\ Goto(w, "measure")
        /\ UNCHANGED <<treeVars, bookVars, live, placing, cancel, issued, pastVars, missedVars>>

\* len() against max_prefix_nodes, in a lock of its own.
MeasureExcess(w) ==
    LET excess == Cardinality(DOMAIN nodes) - MaxNodes
    IN  /\ driver[w].pc = "measure"
        /\ quota = 0
        /\ IF excess > 0
           THEN driver' = [driver EXCEPT ![w] =
                   [pc |-> "excess", r |-> driver[w].r, kept |-> driver[w].kept,
                    done |-> driver[w].done, name |-> driver[w].name, excess |-> excess]]
           ELSE NextSnapshot(w)
        /\ UNCHANGED <<treeVars, cacheVars, bookVars, live, placing, cancel, issued, pastVars, missedVars>>

\* evict_unreferenced_entries(excess) takes the tree's lock ...
EvictExcess(w) ==
    /\ driver[w].pc = "excess"
    /\ Tree!EvictBegin(driver[w].excess)
    /\ driver' = [driver EXCEPT ![w] =
                     [pc |-> "evict", r |-> driver[w].r, kept |-> driver[w].kept,
                      done |-> driver[w].done, name |-> driver[w].name, gone |-> {}]]
    /\ UNCHANGED <<cacheVars, bookVars, live, placing, cancel, issued, pastVars, missedVars>>

\* ... and releases it when its loop ends.
EvictLoop(w) ==
    /\ driver[w].pc = "evict"
    /\ \/ \E n \in DOMAIN nodes :
             /\ Tree!EvictOne(n)
             /\ driver' = [driver EXCEPT ![w].gone = @ \cup {n},
                                         ![w].pc = IF quota = 1 THEN "forget" ELSE "evict"]
       \/ Tree!EvictStop /\ Goto(w, "forget")
    /\ UNCHANGED <<cacheVars, bookVars, live, placing, cancel, issued, pastVars, missedVars>>

\* The fold that forgets the evicted nodes but keeps their snapshots.
ForgetNothing(w) ==
    /\ driver[w].pc = "forget"
    /\ NextSnapshot(w)
    /\ UNCHANGED <<treeVars, cacheVars, bookVars, live, placing, cancel, issued, pastVars, missedVars>>

\* SharedSnapshots::remove for every evicted node.
ForgetEvicted(w) ==
    /\ driver[w].pc = "forget"
    /\ shared' = [n \in DOMAIN shared \ driver[w].gone |-> shared[n]]
    /\ recency' = Fewer(driver[w].gone)
    /\ NextSnapshot(w)
    /\ UNCHANGED <<treeVars, bookVars, live, placing, cancel, issued, pastVars, missedVars>>

\* A completed request loses its chain ...
FoldCompleted(w) ==
    LET d == driver[w]
    IN  /\ d.pc = "install"
        /\ d.kept = << >>
        /\ IF d.done
           THEN /\ chains' = Drop(chains, d.r)
                /\ driver' = [driver EXCEPT ![w] = [pc |-> "unref", r |-> d.r]]
                /\ missedChain' = Missed(missedChain, d.r, Unrecorded(d.r))
           ELSE /\ driver' = [driver EXCEPT ![w] = Parked]
                /\ UNCHANGED <<chains, missedChain>>
        /\ UNCHANGED <<treeVars, cacheVars, refs, live, placing, cancel, issued, pastVars,
                       missedRefs>>

\* ... then its entry in request_refs ...
FoldUnref(w) ==
    LET r == driver[w].r
    IN  /\ driver[w].pc = "unref"
        /\ refs' = Drop(refs, r)
        /\ driver' = [driver EXCEPT ![w] =
                         IF r \in DOMAIN refs THEN [pc |-> "decr", r |-> r, held |-> refs[r]]
                         ELSE Parked]
        /\ missedRefs' = Missed(missedRefs, r, Unheld(r))
        /\ UNCHANGED <<treeVars, cacheVars, chains, live, placing, cancel, issued, pastVars,
                       missedChain>>

\* The nodes it held are not released.
FoldForgets(w) ==
    /\ driver[w].pc = "decr"
    /\ driver' = [driver EXCEPT ![w] = Parked]
    /\ UNCHANGED <<treeVars, cacheVars, bookVars, live, placing, cancel, issued, pastVars, missedVars>>

\* ... and the nodes it held.
FoldReleased(w) ==
    /\ driver[w].pc = "decr"
    /\ Tree!DecrRefChain(driver[w].held)
    /\ driver' = [driver EXCEPT ![w] = Parked]
    /\ UNCHANGED <<cacheVars, bookVars, live, placing, cancel, issued, pastVars, missedVars>>

Drive(w) ==
    \/ \E r \in Requests : StepDevice(w, r) \/ StepFails(w, r)
    \/ ExtendChain(w)
    \/ InstallName(w)
    \/ Reclaim(w)
    \/ InsertPrefix(w)
    \/ Publish(w)
    \/ MeasureExcess(w)
    \/ EvictExcess(w)
    \/ EvictLoop(w)
    \/ ForgetEvicted(w)
    \/ FoldCompleted(w)
    \/ FoldUnref(w)
    \/ FoldReleased(w)

-----------------------------------------------------------------------------
(* Engine::cancel                                                          *)

CancelStep(r, from, to) ==
    /\ cancel[r] = from
    /\ cancel' = [cancel EXCEPT ![r] = to]

\* The worker that has the request; cancel returns false when none has.
CancelFind(r) ==
    /\ r \in DOMAIN live
    /\ Cardinality({q \in Requests : cancel[q] # "none"}) < MaxCancels
    /\ CancelStep(r, "none", "unchain")
    /\ UNCHANGED <<treeVars, cacheVars, bookVars, live, placing, driver, issued, pastVars, missedVars>>

\* The cancellation that leaves the chain to the driver.
CancelKeepsChain(r) ==
    /\ CancelStep(r, "unchain", "unref")
    /\ UNCHANGED <<treeVars, cacheVars, bookVars, live, placing, driver, issued, pastVars, missedVars>>

CancelChain(r) ==
    /\ CancelStep(r, "unchain", "unref")
    /\ chains' = Drop(chains, r)
    /\ missedChain' = Missed(missedChain, r, Unrecorded(r))
    /\ UNCHANGED <<treeVars, cacheVars, refs, live, placing, driver, issued, pastVars, missedRefs>>

\* The guard on request_refs lives to the end of the `if let', so the release of
\* the nodes is under it.
CancelRefs(r) ==
    /\ CancelStep(r, "unref", "drop")
    /\ IF r \in DOMAIN refs
       THEN Tree!DecrRefChain(refs[r]) /\ refs' = Drop(refs, r)
       ELSE UNCHANGED <<treeVars, refs>>
    /\ missedRefs' = Missed(missedRefs, r, Unheld(r))
    /\ UNCHANGED <<cacheVars, chains, live, placing, driver, issued, pastVars, missedChain>>

\* Worker::cancel, if the request is still there.
CancelDrop(r) ==
    /\ CancelStep(r, "drop", "done")
    /\ live' = Drop(live, r)
    /\ UNCHANGED <<treeVars, cacheVars, bookVars, placing, driver, issued, pastVars, missedVars>>

Cancel(r) ==
    \/ CancelFind(r)
    \/ CancelChain(r)
    \/ CancelRefs(r)
    \/ CancelDrop(r)

EngineNext ==
    \/ Place
    \/ \E w \in Workers : Drive(w)
    \/ \E r \in Requests : Cancel(r)

EngineSpec == EngineInit /\ [][EngineNext]_engineVars

-----------------------------------------------------------------------------
\* No chain that named any part of a request's state has missed a token.
Clean(r) == lineage[r] \cap outrun = {}

\* No request its state comes from picked a token under a grammar.
Unmasked(r) == lineage[r] \cap masked = {}

\* The promise of a published snapshot: it is filed under the blocks of exactly
\* the tokens its state was computed from, whichever threads interleaved and
\* wherever the tokens came from.  A chain that missed a token, in a step folded
\* before place_tokens recorded the chain or in a failed one, breaks it for that
\* request's snapshots and for those of requests restored from them, and for no
\* others: see ChainsNeverDrift.
SnapshotsNamedTruly ==
    \A n \in DOMAIN shared :
        Clean(shared[n].by) => /\ BlocksOf(shared[n].tokens) = n
                               /\ Len(shared[n].tokens) % BlockSize = 0

\* What that promise is for: a sequence was never fed anything but its own
\* prompt, restored or not, unless one it descends from missed a token.
ResumesOwnPrompt ==
    \A r \in DOMAIN live :
        LET rec == live[r]
            common == IF Len(rec.fed) < Len(rec.prompt) THEN Len(rec.fed) ELSE Len(rec.prompt)
        IN  Clean(r) => SubSeq(rec.fed, 1, common) = SubSeq(rec.prompt, 1, common)

\* A request restored over its whole prompt emits, as its first token, the one
\* the model predicts after that prompt: it never inherits another request's
\* sampled draw.  A choice masked by a grammar it may inherit, but only from a
\* request that decodes under one: see GreedyInheritsThePrediction.
InheritsThePrediction ==
    \A r \in DOMAIN live :
        live[r].out = 0 /\ Len(live[r].fed) = Len(live[r].prompt) /\ Unmasked(r) =>
            live[r].next = Argmax[live[r].fed]

\* Those who hold node n: requests, and threads between the tree and the map.
Holders(n) ==
    {r \in DOMAIN refs : IsPrefix(n, refs[r])}
    \cup {r \in Requests : /\ placing.pc = "hold" /\ placing.r = r
                            /\ IsPrefix(n, placing.held)}
    \cup {r \in Requests : \E w \in Workers : /\ driver[w].pc = "decr" /\ driver[w].r = r
                                              /\ IsPrefix(n, driver[w].held)}

\* A node never counts more references than holders, so a node nobody holds can
\* be evicted, also when nodes vanish between a match and the reference and are
\* inserted anew.
RefsWithinHolders == \A n \in DOMAIN nodes : nodes[n].refs <= Cardinality(Holders(n))

\* Requests that a thread is still recording or removing.
Attended(r) ==
    \/ Unrecorded(r)
    \/ cancel[r] \in {"unchain", "unref"}
    \/ \E w \in Workers : driver[w].pc # "idle" /\ driver[w].r = r

\* What a request leaves behind once it is off its worker and nobody is at it:
\* its chain if the last removal of the chain, by its completion or by a
\* cancellation, overtook place_tokens, which then recorded it for good; its
\* references likewise; and else nothing.
BookkeepingFollowsRequest ==
    \A r \in Requests : r \notin DOMAIN live /\ ~ Attended(r) =>
        /\ r \in DOMAIN chains <=> r \in missedChain
        /\ r \in DOMAIN refs <=> r \in missedRefs

\* The name of a snapshot that hangs on no cached node, and that no driver is about
\* to remove with the node: no lookup reaches it and only memory pressure drops it.
InHand == UNION {driver[w].gone : w \in {v \in Workers : driver[v].pc \in {"evict", "forget"}}}
Stranded == DOMAIN shared \ (DOMAIN nodes \cup InHand)

\* However the five locks of install_snapshot interleave with another worker's, a
\* snapshot is stranded in one way only: its node is evicted, and forgotten, by
\* another driver between its insertion and its publication.  Removing the nodes
\* and the snapshots of an eviction under two locks strands none.
StrandedByPublishing ==
    [][\A n \in Stranded' \ Stranded :
          \E w \in Workers : /\ driver[w].pc = "publish" /\ driver[w].name = n
                             /\ n \notin DOMAIN nodes
                             /\ Publish(w)]_engineVars

-----------------------------------------------------------------------------
(* What the repository says of the cache and the code does not keep.       *)

\* prefix.rs: a chain is assembled from the prompt and every token the runtime
\* reported generating, so a snapshot is never filed under another prefix.
ChainsNeverDrift ==
    \A n \in DOMAIN shared : BlocksOf(shared[n].tokens) = n

\* engine.rs: cancel releases the cache bookkeeping of a live request.
CancelReleases ==
    \A r \in Requests :
        cancel[r] = "done" => r \notin DOMAIN chains \cup DOMAIN refs

\* engine.rs: the inherited first token is right for a greedy request.
GreedyInheritsThePrediction ==
    \A r \in DOMAIN live :
        /\ live[r].kind = "greedy"
        /\ live[r].out = 0
        /\ Len(live[r].fed) = Len(live[r].prompt)
        => live[r].next = Argmax[live[r].fed]

-----------------------------------------------------------------------------
(* The inductive invariants behind the six.                                *)

Names == Seq([1 .. BlockSize -> Tokens])
Picked == Tokens \cup {NoToken}
Snapshot == [tokens : Seq(Tokens), next : Picked]
Published == [worker : Workers, tokens : Seq(Tokens), next : Picked, by : Requests]

LiveSequence ==
    [worker : Workers, kind : Kinds, prompt : Prompts, max : MaxOutputs, fed : Seq(Tokens),
     last : Nat, off : BOOLEAN, out : Nat, next : Picked]

PlacingState ==
    [pc : {"idle"}]
        \cup [pc : {"claim"}, r : Requests, prompt : Prompts, kind : Kinds, max : MaxOutputs,
              hit : Nat]
        \cup [pc : {"score"}, r : Requests, prompt : Prompts, kind : Kinds, max : MaxOutputs,
              snap : Seq(Snapshot)]
        \cup [pc : {"route"}, r : Requests, prompt : Prompts, kind : Kinds, max : MaxOutputs,
              snap : Seq(Snapshot), hit : Nat]
        \cup [pc : {"admit"}, r : Requests, prompt : Prompts, kind : Kinds, max : MaxOutputs,
              snap : Seq(Snapshot), credit : Nat, worker : Workers]
        \cup [pc : {"incr", "hold", "chain"}, r : Requests, prompt : Prompts, held : Names]

\* A driver that has snapshots to file, and one that is filing the first of them.
Filing == {"reclaim", "insert", "publish", "measure", "excess", "evict", "forget"}
Folding == {"extend", "install"} \cup Filing

DriverState ==
    [pc : {"idle"}]
        \cup [pc : {"extend", "install"}, r : Requests, gen : Seq(Tokens),
              kept : Seq(Snapshot), done : BOOLEAN]
        \cup [pc : {"reclaim", "insert", "publish", "measure"}, r : Requests,
              kept : Seq(Snapshot), done : BOOLEAN, name : Names]
        \cup [pc : {"excess"}, r : Requests, kept : Seq(Snapshot), done : BOOLEAN,
              name : Names, excess : Nat]
        \cup [pc : {"evict", "forget"}, r : Requests, kept : Seq(Snapshot), done : BOOLEAN,
              name : Names, gone : SUBSET Names]
        \cup [pc : {"unref"}, r : Requests]
        \cup [pc : {"decr"}, r : Requests, held : Names]

HistoryOK ==
    /\ outrun \cup masked \cup missedChain \cup missedRefs \subseteq Requests
    /\ lineage \in [Requests -> SUBSET Requests]
    /\ \A r \in Requests : r \in lineage[r]

\* Every variable has its type.
EngineTypeOK ==
    /\ DOMAIN shared \subseteq Names
    /\ shared \in [DOMAIN shared -> Published]
    /\ DOMAIN chains \subseteq Requests
    /\ chains \in [DOMAIN chains -> [tokens : Seq(Tokens), prompt : Nat]]
    /\ DOMAIN refs \subseteq Requests
    /\ refs \in [DOMAIN refs -> Names]
    /\ DOMAIN live \subseteq Requests
    /\ live \in [DOMAIN live -> LiveSequence]
    /\ placing \in PlacingState
    /\ driver \in [Workers -> DriverState]
    /\ cancel \in [Requests -> {"none", "unchain", "unref", "drop", "done"}]
    /\ issued \subseteq Requests
    /\ HistoryOK

\* Lengths: a snapshot ends on a block and its name has as many blocks; a sequence has
\* output once it is through its prompt, and then knows its next token.
Whole(s) == Len(s) > 0 /\ Len(s) % BlockSize = 0

SnapshotFits(p) ==
    p.snap # << >> =>
        /\ Len(p.snap[1].tokens) <= Len(p.prompt)
        /\ Len(p.snap[1].tokens) = Len(p.prompt) => p.snap[1].next # NoToken

LiveFits(rec) ==
    IF rec.out = 0
    THEN /\ Len(rec.fed) <= Len(rec.prompt)
         /\ Len(rec.fed) = Len(rec.prompt) => rec.next # NoToken
    ELSE Len(rec.prompt) <= Len(rec.fed) /\ rec.next # NoToken

DriverFits(d) ==
    /\ d.pc \in Folding => \A i \in DOMAIN d.kept : Whole(d.kept[i].tokens)
    /\ d.pc \in Filing => /\ d.kept # << >>
                          /\ Len(d.kept[1].tokens) = BlockSize * Len(d.name)

LengthsFit ==
    /\ \A n \in DOMAIN shared : Len(n) > 0 /\ Len(shared[n].tokens) = BlockSize * Len(n)
    /\ \A r \in DOMAIN live : LiveFits(live[r])
    /\ \A w \in Workers : DriverFits(driver[w])
    /\ placing.pc \in {"claim", "route"} => placing.hit <= Len(placing.prompt) \div BlockSize
    /\ placing.pc = "admit" => placing.credit <= Len(placing.prompt) \div BlockSize
    /\ placing.pc \in {"score", "route", "admit"} => SnapshotFits(placing)

\* Who acts on which request: a driver on the requests of its worker, and nobody on a
\* request before it is admitted.
Busy(w, r) == driver[w].pc # "idle" /\ driver[w].r = r

Known(r) ==
    \/ r \in DOMAIN live \cup DOMAIN chains \cup DOMAIN refs
    \/ cancel[r] # "none"
    \/ \E w \in Workers : Busy(w, r)

Ownership ==
    /\ IsFiniteSet(issued)
    /\ \A r \in Requests : Known(r) => r \in issued
    /\ placing.pc # "idle" => placing.r \in issued
    /\ placing.pc \in {"claim", "score", "route", "admit"} => ~Known(placing.r)
    /\ \A w \in Workers, r \in DOMAIN live : Busy(w, r) => live[r].worker = w
    /\ \A v, w \in Workers, r \in Requests : Busy(v, r) /\ Busy(w, r) => v = w
    /\ \A r \in Requests : Unrecorded(r) => r \notin DOMAIN chains
    /\ placing.pc \in {"incr", "hold"} => placing.r \notin DOMAIN refs
    /\ \A w \in Workers : driver[w].pc = "decr" =>
           /\ driver[w].r \notin DOMAIN refs
           /\ placing.pc \in {"incr", "hold"} => driver[w].r # placing.r

\* The part the others rest on.
TreeOK == Tree!TreeInv /\ IsFiniteSet(DOMAIN nodes)

EngineInv == TreeOK /\ EngineTypeOK /\ LengthsFit /\ Ownership

\* Requests whose chain, or whose references, are recorded or about to be.
Tracked(r) == r \in DOMAIN chains \/ Unrecorded(r)
Referred(r) == r \in DOMAIN refs \/ Unheld(r)

\* What is recorded is either what a removal overtook, or nobody has removed it yet
\* and somebody will: the worker it runs on, its last fold or a cancellation.
Finishing(w, r) ==
    Busy(w, r) /\ (driver[w].pc \in Folding => driver[w].done)

ChainDue(r) ==
    /\ cancel[r] \in {"none", "unchain"}
    /\ \A w \in Workers : Busy(w, r) => driver[w].pc \in Folding
    /\ \/ r \in DOMAIN live
       \/ cancel[r] = "unchain"
       \/ \E w \in Workers : Finishing(w, r) /\ driver[w].pc \in Folding

RefsDue(r) ==
    /\ cancel[r] \in {"none", "unchain", "unref"}
    /\ \A w \in Workers : Busy(w, r) => driver[w].pc # "decr"
    /\ \/ r \in DOMAIN live
       \/ cancel[r] \in {"unchain", "unref"}
       \/ \E w \in Workers : Finishing(w, r) /\ driver[w].pc # "decr"

BookInv ==
    \A r \in Requests :
        /\ r \in missedChain => Tracked(r)
        /\ Tracked(r) => r \in missedChain \/ ChainDue(r)
        /\ r \in missedRefs => Referred(r)
        /\ Referred(r) => r \in missedRefs \/ RefsDue(r)

\* A recorded token is the model's prediction, wherever the snapshot is.
Predicts(snap) == snap.next # NoToken => snap.next = Argmax[snap.tokens]

PredictInv ==
    /\ \A n \in DOMAIN shared : Unmasked(shared[n].by) => Predicts(shared[n])
    /\ \A w \in Workers : driver[w].pc \in Folding /\ Unmasked(driver[w].r) =>
           \A i \in DOMAIN driver[w].kept : Predicts(driver[w].kept[i])
    /\ placing.pc \in {"score", "route", "admit"} /\ placing.snap # << >> /\ Unmasked(placing.r) =>
           Predicts(placing.snap[1])
    /\ InheritsThePrediction

\* The tokens a request's chain names, or will name once place_tokens has recorded it,
\* and what its driver has not folded in yet.
Named(r) == IF r \in DOMAIN chains THEN chains[r].tokens ELSE placing.prompt
Unfolded(r) ==
    LET d == driver[live[r].worker]
    IN  IF d.pc = "extend" /\ d.r = r THEN d.gen ELSE << >>

\* The chain of a live request is what its device was fed and will be fed next.
ChainFollows(r) ==
    IF live[r].out = 0
    THEN Named(r) = live[r].prompt /\ Unfolded(r) = << >>
    ELSE Named(r) \o Unfolded(r) = Append(live[r].fed, live[r].next)

FedOwn(rec) ==
    IF rec.out = 0 THEN IsPrefix(rec.fed, rec.prompt) ELSE IsPrefix(rec.prompt, rec.fed)

NamingInv ==
    /\ \A n \in DOMAIN shared : Clean(shared[n].by) => BlocksOf(shared[n].tokens) = n
    /\ \A w \in Workers : driver[w].pc \in Filing /\ Clean(driver[w].r) =>
           BlocksOf(driver[w].kept[1].tokens) = driver[w].name
    /\ \A w \in Workers : driver[w].pc \in Folding /\ Tracked(driver[w].r) /\ Clean(driver[w].r) =>
           \A i \in DOMAIN driver[w].kept :
               IsPrefix(driver[w].kept[i].tokens, Named(driver[w].r))
    /\ placing.pc \in {"score", "route", "admit"} /\ placing.snap # << >> /\ Clean(placing.r) =>
           IsPrefix(placing.snap[1].tokens, placing.prompt)
    /\ \A r \in DOMAIN live :
           Clean(r) => FedOwn(live[r]) /\ (Tracked(r) => ChainFollows(r))

=============================================================================
