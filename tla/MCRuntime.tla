------------------------------ MODULE MCRuntime -----------------------------
(***************************************************************************)
(* A worker's device runtime, and the host's side of one of its sequences, *)
(* each on its own.                                                        *)
(*                                                                         *)
(* Runtime: two requests over tokens 1 to 3, where 3 ends a turn and 2     *)
(* arms a constraint.  The model's choices are a checksum of the prefix,   *)
(* so that they differ with the prefix, the draw and the mask.             *)
(*                                                                         *)
(* SequenceHost: prompts with images under every small configuration of    *)
(* widths, without a drafter; then every drafter over short histories of   *)
(* two tokens, with a hash of three values that collides.                  *)
(***************************************************************************)
EXTENDS Runtime

VARIABLES
    part,                   \* which of the two a behaviour is about
    cfg, position, delta, fed, pieces, emitted, drafter    \* SequenceHost's

Weighted(prefix) == FoldLeft(LAMBDA sum, i : sum + i * prefix[i], 0, [i \in DOMAIN prefix |-> i])

\* A mask forbids 2.
MCChoose(masked, draw, prefix) ==
    LET h == Weighted(prefix) + Len(prefix) \div 3 + draw
    IN  IF h % 7 = 6 THEN 3 ELSE IF masked \/ h % 2 = 0 THEN 1 ELSE 2

Greedy == [sampled |-> FALSE, constrained |-> FALSE, heads |-> FALSE]
Tooled == [sampled |-> FALSE, constrained |-> TRUE, heads |-> TRUE]
Drawing == [sampled |-> TRUE, constrained |-> FALSE, heads |-> FALSE]

MCKinds == {Greedy, Tooled, Drawing}
MCPrompts == {<<1, 1, 2>>, <<1, 1>>}
MCGuesses == {<< >>, <<1, 2>>, <<2, 1>>, <<3, 1>>}

-----------------------------------------------------------------------------
MCHash(gram) == FoldLeft(LAMBDA sum, token : 2 * sum + token, 0, gram) % 3

Image(start, h, w) == [start |-> start, grid_h |-> h, grid_w |-> w]

\* No images, one wide, one tall and at the end, two that touch, two apart.
Placed == {<< >>, <<Image(1, 2, 3)>>, <<Image(7, 3, 1)>>,
           <<Image(0, 1, 2), Image(2, 2, 2)>>, <<Image(1, 2, 1), Image(6, 2, 2)>>}

Base == [chunk |-> 4, interval |-> 0, max_batch |-> 1, images |-> << >>, prompt |-> <<1>>,
         drafter |-> "none", draft_n_min |-> 0, drafts |-> 2, n |-> 2,
         min |-> 1, max |-> 2, capacity |-> 4, key_only |-> FALSE, min_hits |-> 1, n_min |-> 1]

Widths ==
    {[Base EXCEPT !.chunk = chunk, !.interval = interval, !.max_batch = batch,
                  !.images = images, !.prompt = [i \in 1..length |-> 1]] :
        chunk \in {4, 8}, interval \in {0, 1, 2, 3, 4, 6, 8}, batch \in 1..3,
        images \in Placed, length \in {10, 13}}

Drafting ==
    {[Base EXCEPT !.drafter = kind, !.prompt = prompt, !.n = n, !.key_only = key_only,
                  !.interval = interval, !.min_hits = min_hits] :
        kind \in {"ngram", "simple", "map", "mod"}, prompt \in {<<1, 2>>, <<2, 1, 2, 1>>},
        n \in 1..2, key_only \in BOOLEAN, interval \in {0, 3}, min_hits \in 1..2}

\* Fields a drafter does not read are fixed.
MCConfigs == Widths \cup {c \in Drafting :
    /\ c.drafter # "map" => ~c.key_only /\ c.min_hits = 1
    /\ c.drafter = "ngram" => c.n = 2
    /\ c.drafter = "mod" => c.n = 1 /\ c.interval = 0 /\ Len(c.prompt) = 2
    /\ c.key_only => c.min_hits = 1}

Host == INSTANCE SequenceHost
    WITH Configs <- MCConfigs, Tokens <- {1, 2}, MaxOutput <- 8, HashSlots <- {0, 1, 2},
         Hash <- MCHash, MaxValues <- 2, MaxCount <- 3, IndexBatch <- 2, LowStreak <- 2,
         Empty <- None

-----------------------------------------------------------------------------
hostVars == <<cfg, position, delta, fed, pieces, emitted, drafter>>

MCInit ==
    /\ part \in {"runtime", "host"}
    /\ RuntimeInit
    /\ IF part = "host" THEN Host!HostInit
       ELSE /\ cfg = 0 /\ position = 0 /\ delta = 0 /\ fed = 0
            /\ pieces = 0 /\ emitted = 0 /\ drafter = 0

MCNext ==
    /\ UNCHANGED part
    /\ \/ part = "runtime" /\ RuntimeNext /\ UNCHANGED hostVars
       \/ part = "host" /\ Host!HostNext /\ UNCHANGED runtimeVars

MCSpec == MCInit /\ [][MCNext]_<<part, runtimeVars, hostVars>>

\* Every token is fed with the rotary position and the image row that
\* assign_positions and the order of the patches give it, however the prompt was
\* sliced, restored and continued, and the cuts fit: SequenceHost's FedExactly.
FedExactly == part = "host" => Host!FedExactly

\* What a drafter proposes is what the tokens it observed, or the shared table, say:
\* SequenceHost's DraftsGrounded.
DraftsGrounded == part = "host" => Host!DraftsGrounded

\* ngram-map-k4v drafts only the continuation that dominates: SequenceHost's
\* DominantDrafted.
DominantDrafted == part = "host" => Host!DominantDrafted

=============================================================================
