----------------------------- MODULE Scheduler -----------------------------
(***************************************************************************)
(* The chunked-prefill scheduler of one worker,                            *)
(* crates/xabe-sched/src/scheduler.rs.                                     *)
(*                                                                         *)
(* The scheduler owns a waiting queue, a running list and a count of free  *)
(* attention blocks.  A request reserves the blocks of its whole lifetime  *)
(* (prompt, output and one window of draft tokens) when a step moves it    *)
(* from waiting to running, and gives them back when it finishes, is       *)
(* cancelled or is preempted.                                              *)
(*                                                                         *)
(* Every method takes &mut self, so a call is never interleaved with       *)
(* another one.  `step_into' is a sequence of three loops over one token   *)
(* budget; one action here is one iteration of one loop, `phase' is the    *)
(* loop being executed, and every other method waits for phase "idle".     *)
(* That keeps the whole step one uninterrupted call and makes the loops'   *)
(* invariants invariants of the specification.                             *)
(***************************************************************************)
EXTENDS Queues, FiniteSets

CONSTANTS
    Requests,              \* request ids
    Prompts, Outputs,      \* prompt lengths and output limits callers submit
    CachedPrefixes,        \* lengths of the restorable cached prefixes, with 0
    TokenBudget, BlockSize, MaxConcurrentDecodes, WatermarkPercent,
    DraftTokens, PrefillSlice,     \* SchedulerConfig; PrefillSlice = 0: no cap
    WaitingMultiplier,     \* DEFAULT_WAITING_REQUESTS_MULTIPLIER, 4 in the code
    TotalBlocks,           \* attention blocks of the worker's pool
    U32Max,                \* largest u32: sums wrap or saturate there
    CursorPeriod,          \* bound on prefill_cursor, see EndPrefills
    Preemptible            \* requests the caller may preempt

\* SchedulerConfig::new: the configurations the constructor accepts.
ConfigAccepted ==
    /\ BlockSize # 0
    /\ WatermarkPercent \in 0 .. 99
    /\ TokenBudget > BlockSize + MaxConcurrentDecodes

ASSUME ConfigAssumption ==
    /\ {TokenBudget, BlockSize, MaxConcurrentDecodes, DraftTokens, PrefillSlice,
        WaitingMultiplier, TotalBlocks, U32Max} \subseteq Nat
    /\ ConfigAccepted

ASSUME RequestAssumption ==
    /\ IsFiniteSet(Requests)
    /\ Prompts \subseteq 1 .. U32Max
    /\ Outputs \subseteq 1 .. U32Max
    /\ CachedPrefixes \subseteq Nat
    /\ Preemptible \subseteq Requests

\* The cursor is only read modulo the length of `running', so counting modulo a
\* common multiple of every such length loses nothing.
ASSUME CursorAssumption ==
    /\ CursorPeriod \in Nat \ {0}
    /\ \A n \in 1 .. MaxConcurrentDecodes : CursorPeriod % n = 0

VARIABLES
    waiting,    \* ids in the waiting queue, front first
    running,    \* ids in the running list, in admission order
    req,        \* the TrackedRequest of every id in one of the two
    free,       \* free_attention_blocks
    cursor,     \* prefill_cursor
    phase,      \* the loop step_into is in
    budget,     \* tokens of the step not yet spent
    reserve,    \* admission_reserve of the step
    pos,        \* next index of the loop
    decodes,    \* batch.decodes, the ids
    prefills    \* batch.prefills

queues == <<waiting, running, req, free>>
stepVars == <<phase, budget, reserve, pos, decodes, prefills>>
vars == <<waiting, running, req, free, cursor, phase, budget, reserve, pos,
          decodes, prefills>>

-----------------------------------------------------------------------------
Lesser(a, b) == IF a <= b THEN a ELSE b

\* The record of an id that is in neither list.
NoRequest == [prompt |-> 0, output |-> 0, computed |-> 0, blocks |-> 0]

\* NewRequest::full_seq_len saturates, TrackedRequest::full_seq_len wraps in a
\* release build.
SubmittedSeqLen(p, m) == Lesser(p + m, U32Max)
FullSeqLen(r) == (req[r].prompt + req[r].output) % (U32Max + 1)

IsDecodeReady(r) == req[r].computed >= req[r].prompt

TokensPerDecodeStep == 1 + DraftTokens
MaxWaitingRequests == Lesser(MaxConcurrentDecodes * WaitingMultiplier, U32Max)

\* f64 floor of the fraction of the pool held back.
Watermark == (WatermarkPercent * TotalBlocks) \div 100

\* (full_seq_len + draft_tokens_per_step).div_ceil(block_size)
AttentionBlocksNeeded(n) ==
    LET tokens == (n + DraftTokens) % (U32Max + 1)
    IN  (tokens + BlockSize - 1) \div BlockSize

\* admission_can_proceed, and the three conditions of phase 3.
AdmissionCanProceed ==
    /\ Len(running) < MaxConcurrentDecodes
    /\ waiting # <<>>
    /\ free >= AttentionBlocksNeeded(FullSeqLen(Head(waiting))) + Watermark

\* Mutation: admit_with_prefix trusts the length of the restored prefix.
RefusalWithoutPrefixCheck(p, m, prefix) ==
    IF AttentionBlocksNeeded(SubmittedSeqLen(p, m)) > TotalBlocks
    THEN "ExceedsTotalCapacity"
    ELSE IF Len(waiting) >= MaxWaitingRequests THEN "WaitingQueueFull"
    ELSE "none"

\* refusal_for / can_admit, with the reusable-prefix check of admit_with_prefix
\* before them: why a submission is turned away.
Refusal(p, m, prefix) ==
    IF prefix > p THEN "InvalidReusablePrefix"
    ELSE IF AttentionBlocksNeeded(SubmittedSeqLen(p, m)) > TotalBlocks
         THEN "ExceedsTotalCapacity"
    ELSE IF Len(waiting) >= MaxWaitingRequests THEN "WaitingQueueFull"
    ELSE "none"

-----------------------------------------------------------------------------
Init ==
    /\ waiting = <<>>
    /\ running = <<>>
    /\ req = [r \in Requests |-> NoRequest]
    /\ free = TotalBlocks
    /\ cursor = 0
    /\ phase = "idle"
    /\ budget = 0
    /\ reserve = 0
    /\ pos = 0
    /\ decodes = <<>>
    /\ prefills = <<>>

\* admit_with_prefix (admit is the prefix 0).  Ids are unique among the live
\* requests: the caller refuses a duplicate before it gets here.
Enqueue(r, p, m, prefix) ==
    /\ r \notin ToSet(waiting) \cup ToSet(running)
    /\ Refusal(p, m, prefix) = "none"
    /\ waiting' = Append(waiting, r)
    /\ req' = [req EXCEPT ![r] = [prompt |-> p, output |-> m,
                                  computed |-> prefix, blocks |-> 0]]
    /\ UNCHANGED <<running, free, cursor>>

\* finish_request on a running request; on any other id it returns false.
FinishRequest(r) ==
    /\ r \in ToSet(running)
    /\ running' = Without(running, r)
    /\ free' = free + req[r].blocks
    /\ req' = [req EXCEPT ![r] = NoRequest]
    /\ UNCHANGED <<waiting, cursor>>

\* The second half of cancel_request, for an id finish_request did not know.
CancelWaiting(r) ==
    /\ r \in ToSet(waiting) \ ToSet(running)
    /\ waiting' = Without(waiting, r)
    /\ req' = [req EXCEPT ![r] = NoRequest]
    /\ UNCHANGED <<running, free, cursor>>

CancelRequest(r) == FinishRequest(r) \/ CancelWaiting(r)

\* Mutation: a preempted request keeps its blocks out of the free count.
PreemptLeaking(r) ==
    /\ r \in ToSet(running)
    /\ running' = Without(running, r)
    /\ req' = [req EXCEPT ![r].blocks = 0, ![r].computed = 0]
    /\ waiting' = <<r>> \o waiting
    /\ UNCHANGED <<free, cursor>>

\* preempt: recompute from zero, at the front of the waiting queue, whatever
\* the length of that queue.
Preempt(r) ==
    /\ r \in ToSet(running)
    /\ running' = Without(running, r)
    /\ free' = free + req[r].blocks
    /\ req' = [req EXCEPT ![r].blocks = 0, ![r].computed = 0]
    /\ waiting' = <<r>> \o waiting
    /\ UNCHANGED cursor

\* advance_speculative: n accepted draft tokens beyond the one step charged.
AdvanceSpeculative(r, n) ==
    /\ r \in ToSet(running)
    /\ req' = [req EXCEPT ![r].computed =
                   Lesser(Lesser(@ + n, U32Max), FullSeqLen(r))]
    /\ UNCHANGED <<waiting, running, free, cursor>>

-----------------------------------------------------------------------------
(* step_into *)

BeginStep ==
    /\ phase = "idle"
    /\ phase' = "decode"
    /\ budget' = TokenBudget
    /\ pos' = 1
    /\ decodes' = <<>>
    /\ prefills' = <<>>
    /\ UNCHANGED <<waiting, running, req, free, cursor, reserve>>

\* Phase 1 visits the running requests that pass its filter, in order.
Decodable(r) == IsDecodeReady(r) /\ req[r].computed < FullSeqLen(r)

NextDecode(i) ==
    /\ i \in pos .. Len(running)
    /\ Decodable(running[i])
    /\ \A j \in pos .. (i - 1) : ~ Decodable(running[j])

\* Mutation: a decode is charged its accepted token and not its drafts.
DecodeOneUncharged(i) ==
    /\ phase = "decode"
    /\ NextDecode(i)
    /\ budget >= TokensPerDecodeStep
    /\ decodes' = Append(decodes, running[i])
    /\ req' = [req EXCEPT ![running[i]].computed = @ + 1]
    /\ budget' = budget - 1
    /\ pos' = i + 1
    /\ UNCHANGED <<waiting, running, free, cursor, phase, reserve, prefills>>

DecodeOne(i) ==
    /\ phase = "decode"
    /\ NextDecode(i)
    /\ budget >= TokensPerDecodeStep
    /\ decodes' = Append(decodes, running[i])
    /\ req' = [req EXCEPT ![running[i]].computed = @ + 1]
    /\ budget' = budget - TokensPerDecodeStep
    /\ pos' = i + 1
    /\ UNCHANGED <<waiting, running, free, cursor, phase, reserve, prefills>>

\* The loop ends or breaks, and the admission reserve is decided.
EndDecodes ==
    /\ phase = "decode"
    /\ \/ budget < TokensPerDecodeStep
       \/ ~ \E i \in pos .. Len(running) : NextDecode(i)
    /\ reserve' = IF AdmissionCanProceed THEN TokenBudget \div 2 ELSE 0
    /\ phase' = "prefill"
    /\ pos' = 0
    /\ UNCHANGED <<waiting, running, req, free, cursor, budget, decodes, prefills>>

\* Phase 2 walks the running list once, from the rotating start.
Rotated(offset) ==
    running[(((cursor % Len(running)) + offset) % Len(running)) + 1]

\* Mutation: phase 2 forgets the admission reserve.
SpendableIgnoringReserve == budget

Spendable == budget - reserve
Slice == IF PrefillSlice = 0 THEN U32Max ELSE PrefillSlice
Remaining(r) == req[r].prompt - req[r].computed
Chunk(r, tokens) == Lesser(Lesser(Remaining(r), Slice), tokens)

NextPrefill(offset) ==
    /\ offset \in pos .. (Len(running) - 1)
    /\ ~ IsDecodeReady(Rotated(offset))
    /\ \A o \in pos .. (offset - 1) : IsDecodeReady(Rotated(o))

PrefillOne(offset) ==
    /\ phase = "prefill"
    /\ Spendable > 0
    /\ NextPrefill(offset)
    /\ LET r == Rotated(offset)
           chunk == Chunk(r, Spendable)
       IN  /\ prefills' = Append(prefills, [id |-> r, tokens |-> chunk])
           /\ req' = [req EXCEPT ![r].computed = @ + chunk]
           /\ budget' = budget - chunk
    /\ pos' = offset + 1
    /\ UNCHANGED <<waiting, running, free, cursor, phase, reserve, decodes>>

\* The loop ends or breaks; the cursor advances when anything was granted.
EndPrefills ==
    /\ phase = "prefill"
    /\ \/ Spendable <= 0
       \/ ~ \E o \in pos .. (Len(running) - 1) : NextPrefill(o)
    /\ cursor' = IF prefills = <<>> THEN cursor ELSE (cursor + 1) % CursorPeriod
    /\ phase' = "admit"
    /\ pos' = 0
    /\ UNCHANGED <<waiting, running, req, free, budget, reserve, decodes, prefills>>

\* One admission of phase 3: the request, the blocks reserved for it and the
\* queue it leaves behind.
AdmitFrom(r, needed, rest) ==
    LET chunk == Chunk(r, budget)
    IN  /\ waiting' = rest
        /\ running' = Append(running, r)
        /\ free' = free - needed
        /\ req' = [req EXCEPT ![r] = [prompt |-> req[r].prompt, output |-> req[r].output,
                                      computed |-> req[r].computed + chunk,
                                      blocks |-> needed]]
        /\ prefills' = Append(prefills, [id |-> r, tokens |-> chunk])
        /\ budget' = budget - chunk
        /\ phase' = IF chunk < Remaining(r) THEN "planned" ELSE "admit"
        /\ UNCHANGED <<cursor, reserve, pos, decodes>>

AdmitGuard == phase = "admit" /\ budget > 0 /\ AdmissionCanProceed

\* Mutation: only the first chunk is reserved.
AdmitOneByChunk ==
    /\ AdmitGuard
    /\ AdmitFrom(Head(waiting), AttentionBlocksNeeded(Chunk(Head(waiting), budget)),
                 Tail(waiting))

\* Mutation: the newest request is admitted first.
AdmitOneFromBack ==
    /\ AdmitGuard
    /\ AdmitFrom(Last(waiting), AttentionBlocksNeeded(FullSeqLen(Last(waiting))),
                 Front(waiting))

\* Phase 3: one request from the front of the queue; a truncated first chunk
\* ends the phase.  A fully restored prompt is granted a chunk of 0 tokens.
AdmitOne ==
    /\ AdmitGuard
    /\ AdmitFrom(Head(waiting), AttentionBlocksNeeded(FullSeqLen(Head(waiting))),
                 Tail(waiting))

EndAdmissions ==
    /\ phase = "admit"
    /\ ~ (budget > 0 /\ AdmissionCanProceed)
    /\ phase' = "planned"
    /\ UNCHANGED <<waiting, running, req, free, cursor, budget, reserve, pos,
                   decodes, prefills>>

\* The planned batch belongs to the caller from here on.
ReturnBatch ==
    /\ phase = "planned"
    /\ phase' = "idle"
    /\ budget' = 0
    /\ reserve' = 0
    /\ pos' = 0
    /\ decodes' = <<>>
    /\ prefills' = <<>>
    /\ UNCHANGED <<waiting, running, req, free, cursor>>

\* The iterations of one call of step_into, without the return to the caller.
PlanStep ==
    \/ \E i \in 1 .. Len(running) : DecodeOne(i)
    \/ EndDecodes
    \/ \E o \in 0 .. (Len(running) - 1) : PrefillOne(o)
    \/ EndPrefills
    \/ AdmitOne
    \/ EndAdmissions

Step == BeginStep \/ PlanStep \/ ReturnBatch

-----------------------------------------------------------------------------
(* The calls a client of the scheduler makes between two steps. *)

Call(A) == phase = "idle" /\ A /\ UNCHANGED stepVars

Admit(r) ==
    \E p \in Prompts, m \in Outputs, prefix \in CachedPrefixes :
        Call(Enqueue(r, p, m, prefix))

\* A client finishes a request that has sampled a token, at the latest when its
\* output is used up.
Finish(r) == IsDecodeReady(r) /\ Call(FinishRequest(r))
Exhausted(r) == r \in ToSet(running) /\ req[r].computed >= FullSeqLen(r)

Cancel(r) == Call(CancelRequest(r))
DoPreempt(r) == r \in Preemptible /\ Call(Preempt(r))
Accept(r) == \E n \in 1 .. DraftTokens :
                 IsDecodeReady(r) /\ Call(AdvanceSpeculative(r, n))

Next ==
    \/ Step
    \/ \E r \in Requests : Admit(r)
    \/ \E r \in Requests : Finish(r)
    \/ \E r \in Requests : Cancel(r)
    \/ \E r \in Requests : DoPreempt(r)
    \/ \E r \in Requests : Accept(r)

Spec == Init /\ [][Next]_vars

\* A worker with live requests keeps stepping and finishes every request whose
\* output is used up; arrivals and cancellations are never promised.
Fairness ==
    /\ WF_vars(Step)
    /\ \A r \in Requests : SF_vars(Exhausted(r) /\ Finish(r))

FairSpec == Spec /\ Fairness

-----------------------------------------------------------------------------
(* Properties *)

Phases == {"idle", "decode", "prefill", "admit", "planned"}
TrackedRequest == [prompt : Nat, output : Nat, computed : Nat, blocks : Nat]
PrefillItem == [id : Requests, tokens : Nat]

\* Every variable of the scheduler has its type, and the loop index stays inside
\* the list it walks.
TypeOK ==
    /\ waiting \in Seq(Requests)
    /\ running \in Seq(Requests)
    /\ req \in [Requests -> TrackedRequest]
    /\ free \in Nat
    /\ cursor \in 0 .. (CursorPeriod - 1)
    /\ phase \in Phases
    /\ budget \in 0 .. TokenBudget
    /\ reserve \in 0 .. TokenBudget
    /\ pos \in 0 .. (Len(running) + 1)
    /\ decodes \in Seq(Requests)
    /\ prefills \in Seq(PrefillItem)

\* One element per block held, where request r holds f[r] blocks: the holdings as
\* a set, so that their sum is a cardinality.
Holdings(f) == {h \in Requests \X (1 .. TotalBlocks) : h[2] <= f[h[1]]}
BlocksOf == [r \in Requests |-> req[r].blocks]

\* Blocks are conserved (free_attention_blocks and blocks_reserved): whatever
\* sequence of admissions, finishes, cancellations and preemptions ran, the free
\* blocks and the reservations add up to the pool.  A leak or a double free would
\* show here; both finish_request and preempt give blocks back.
BlocksConserved == free + Cardinality(Holdings(BlocksOf)) = TotalBlocks

\* A request is tracked once: never twice in a list and never in both lists,
\* also while step_into moves it from one to the other and preempt back.
TrackedOnce ==
    /\ IsInjective(waiting)
    /\ IsInjective(running)
    /\ ToSet(waiting) \cap ToSet(running) = {}

\* A reservation belongs to a running request and covers its whole lifetime
\* (rule 4: attention_blocks_needed of the full sequence), and a request in
\* neither list has left no record behind.
ReservationCoversLifetime ==
    \A r \in Requests :
        /\ r \in ToSet(running) =>
               req[r].blocks = AttentionBlocksNeeded(FullSeqLen(r))
        /\ r \notin ToSet(running) => req[r].blocks = 0
        /\ r \notin ToSet(running) \cup ToSet(waiting) => req[r] = NoRequest

\* A queued request claims no progress beyond its prompt, whether it was restored
\* from a prefix or preempted: `prompt_tokens - computed_tokens' of phase 3 is an
\* unsigned subtraction.
PrefixWithinPrompt ==
    \A r \in ToSet(waiting) : req[r].computed <= req[r].prompt

\* The inductive invariant behind BlocksConserved: what a request holds is known
\* from the list it is in, so what finish_request and preempt give back is what
\* phase 3 took.
IInv ==
    /\ TypeOK
    /\ phase = "idle" => pos = 0
    /\ TrackedOnce
    /\ PrefixWithinPrompt
    /\ ReservationCoversLifetime
    /\ \A r \in Requests : req[r].blocks <= TotalBlocks
    /\ BlocksConserved

\* One element per prompt token the items s grant, so that their sum is a
\* cardinality.
Granted(s) == {g \in (DOMAIN s) \X (1 .. TokenBudget) : g[2] <= s[g[1]].tokens}

\* What the batch grants, decodes at their drafted cost.
ScheduledTokens == Len(decodes) * TokensPerDecodeStep + Cardinality(Granted(prefills))

PrefillIds == [i \in DOMAIN prefills |-> prefills[i].id]

\* A step spends exactly what it grants (step_into's running `budget'): the batch
\* total and the unspent budget add up to token_budget in every phase, and no
\* request is granted two items, so a prompt that ends in phase 2 does not also
\* decode and a newcomer of phase 3 is not continued.
StepSpendsItsBudget ==
    phase # "idle" =>
        /\ budget + ScheduledTokens = TokenBudget
        /\ IsInjective(decodes) /\ IsInjective(PrefillIds)
        /\ ToSet(decodes) \cap ToSet(PrefillIds) = {}

\* The reserve is never dead budget (admission_can_proceed): when phase 2 ends
\* and decodes left anything to spend, phase 3 can really admit the request the
\* reserve was held for.
ReserveReachesNewcomer ==
    [][ (/\ phase = "prefill" /\ phase' = "admit"
         /\ reserve > 0
         /\ Len(decodes) * TokensPerDecodeStep < TokenBudget)
        => (budget > 0 /\ AdmissionCanProceed)' ]_vars

\* No overtaking: step_into admits from the front only, so a request starts only
\* when nobody who was ahead of it is still waiting (preempt re-queues at the
\* front and so keeps this).
NoOvertaking ==
    [][ \A i, j \in DOMAIN waiting :
          (i < j /\ waiting[j] \in ToSet(running')) => waiting[i] \notin ToSet(waiting') ]_vars

\* The inductive invariant behind the two: where the loops have been, what the
\* decoded requests have computed, and why the reserve is still there.
BatchInv ==
    /\ phase = "idle" => decodes = <<>> /\ prefills = <<>>
    /\ ToSet(decodes) \cup ToSet(PrefillIds) \subseteq ToSet(running)
    /\ \A r \in ToSet(decodes) : req[r].computed \in req[r].prompt .. FullSeqLen(r)
    /\ phase = "decode" =>
           /\ prefills = <<>>
           /\ ToSet(decodes) \subseteq {running[j] : j \in 1 .. (pos - 1)}
    /\ phase = "prefill" =>
           /\ ToSet(PrefillIds) \subseteq {Rotated(o) : o \in 0 .. (pos - 1)}
           /\ reserve > 0 => AdmissionCanProceed
           /\ reserve > 0 /\ Len(decodes) * TokensPerDecodeStep < TokenBudget => budget > 0
    /\ StepSpendsItsBudget

\* Liveness: a queued request starts (or is cancelled); the watermark, the slot
\* limit and the head of the queue may delay it but not forever.
WaitingStarts ==
    \A r \in Requests : r \in ToSet(waiting) ~> r \notin ToSet(waiting)

\* Liveness: a running request finishes its prompt (or leaves), however phases 1
\* and 3 compete for the budget and however the rotating start interacts with
\* requests joining and leaving the list.
MidPrefill(r) == r \in ToSet(running) /\ ~ IsDecodeReady(r)
PrefillCompletes ==
    \A r \in Requests : MidPrefill(r) ~> ~ MidPrefill(r)

=============================================================================
