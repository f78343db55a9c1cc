------------------------------- MODULE Worker -------------------------------
(***************************************************************************)
(* One worker: the scheduler, the two block pools, the pending prompts and *)
(* the sequences resident on the device,                                   *)
(* crates/xabe-engine/src/worker.rs with the control of execute in         *)
(* crates/xabe-engine/src/runtime.rs.                                      *)
(*                                                                         *)
(* `step_device' plans a batch, gives every newcomer of the batch its      *)
(* cache and its device state, executes the batch and settles what         *)
(* completed.  Any call on the way may fail, and the error returns at      *)
(* once: the plan is already charged, the newcomers before it are already  *)
(* resident, and nothing is rolled back.  `stage' is the part of           *)
(* step_device being executed and `at' the index of its loop.  The worker  *)
(* is behind a mutex, so the other methods run between two steps only.     *)
(*                                                                         *)
(* Block ids are handed out and taken back unread, so a pool is its count  *)
(* of free blocks and a reservation is the number of blocks it holds.      *)
(***************************************************************************)
EXTENDS Scheduler

CONSTANTS
    GdnSlots,    \* slots of the recurrent-state pool
    Faults       \* device calls that may fail: "admit", "restore", "decode",
                 \* "prefill", and "stop" for the end of the device thread

ASSUME WorkerAssumption ==
    /\ GdnSlots \in Nat
    /\ Faults \subseteq {"admit", "restore", "decode", "prefill", "stop"}

VARIABLES
    pending,         \* ids whose prompt still waits on the host
    snapshot,        \* position of the snapshot a pending prompt resumes from
    reserved,        \* ids that own a reservation slot
    held,            \* attention blocks of each slot
    attentionFree,   \* attention_pool.free_count()
    gdnFree,         \* gdn_pool.free_count()
    alive,           \* the device thread answers
    sequences,       \* ids resident on the device
    seq,             \* what the device knows of each
    stage, at,       \* where step_device is
    emitted,         \* tokens each decode of the step produced
    done,            \* completed ids the step has not settled yet
    generated,       \* tokens of each request in the step's result
    torn,            \* history: ids planned by a step that failed
    given            \* history: tokens of each live request in earlier results

cacheVars == <<pending, snapshot, reserved, held, attentionFree, gdnFree>>
deviceVars == <<alive, sequences, seq>>
outputVars == <<generated, given>>
stepDeviceVars == <<stage, at, emitted, done, torn, outputVars>>
workerVars == <<cacheVars, deviceVars, stepDeviceVars>>
allVars == <<vars, workerVars>>

-----------------------------------------------------------------------------
NoSequence == [prefilled |-> 0, emitted |-> 0, next |-> FALSE]
NoneEmitted == [r \in Requests |-> 0]
Forgotten(lost) == [r \in Requests |-> IF r \in lost THEN NoSequence ELSE seq[r]]
BatchIds == ToSet(decodes) \cup {prefills[i].id : i \in DOMAIN prefills}

WorkerInit ==
    /\ Init
    /\ pending = {}
    /\ snapshot = [r \in Requests |-> 0]
    /\ reserved = {}
    /\ held = [r \in Requests |-> 0]
    /\ attentionFree = TotalBlocks
    /\ gdnFree = GdnSlots
    /\ alive = TRUE
    /\ sequences = {}
    /\ seq = [r \in Requests |-> NoSequence]
    /\ stage = "idle"
    /\ at = 0
    /\ emitted = NoneEmitted
    /\ done = {}
    /\ torn = {}
    /\ generated = NoneEmitted
    /\ given = NoneEmitted

\* admit_tokens and admit_tokens_restored, with validate_pending.
AdmitTokens(r) ==
    /\ stage = "idle"
    /\ r \notin pending
    /\ \E p \in Prompts, m \in Outputs, prefix \in CachedPrefixes :
          /\ Call(Enqueue(r, p, m, prefix))
          /\ snapshot' = [snapshot EXCEPT ![r] = prefix]
    /\ pending' = pending \cup {r}
    /\ UNCHANGED <<reserved, held, attentionFree, gdnFree, deviceVars, stepDeviceVars>>

-----------------------------------------------------------------------------
(* Planning and the error return of step_device. *)

BeginStepDevice ==
    /\ stage = "idle"
    /\ BeginStep
    /\ stage' = "reserve"
    /\ at' = 1
    /\ UNCHANGED <<cacheVars, deviceVars, emitted, done, torn, outputVars>>

PlanBatch == PlanStep /\ UNCHANGED workerVars

\* An error returns at once: the planned batch and what it generated are forgotten,
\* what the scheduler charged for it is not.
StepFails ==
    /\ ReturnBatch
    /\ stage' = "idle"
    /\ at' = 0
    /\ emitted' = NoneEmitted
    /\ torn' = torn \cup BatchIds
    /\ generated' = NoneEmitted
    /\ UNCHANGED <<done, given>>

\* The next entry of a loop of step_device or execute.
Advances == at' = at + 1 /\ UNCHANGED <<vars, stage, done, torn, given>>

Enters(next) ==
    /\ stage' = next
    /\ at' = 1
    /\ UNCHANGED <<vars, cacheVars, deviceVars, emitted, done, torn, outputVars>>

-----------------------------------------------------------------------------
(* The newcomers of the batch get their cache and their device state. *)

Newcomer == prefills[at].id

ReserveLoop ==
    /\ phase = "planned"
    /\ stage = "reserve"
    /\ at \in DOMAIN prefills

\* A free reservation slot, the attention blocks and one recurrent-state slot.
CanReserve(r) ==
    /\ Cardinality(reserved) < MaxConcurrentDecodes
    /\ attentionFree >= req[r].blocks
    /\ gdnFree > 0

\* reserve_cache, and the removal from the pending map after it.
ReserveCache(r) ==
    /\ CanReserve(r)
    /\ reserved' = reserved \cup {r}
    /\ held' = [held EXCEPT ![r] = req[r].blocks]
    /\ attentionFree' = attentionFree - req[r].blocks
    /\ gdnFree' = gdnFree - 1
    /\ pending' = pending \ {r}
    /\ snapshot' = [snapshot EXCEPT ![r] = 0]

AlreadyResident ==
    /\ ReserveLoop
    /\ Newcomer \notin pending
    /\ Advances
    /\ UNCHANGED <<cacheVars, deviceVars, emitted, generated>>

\* Mutation: a whole-prompt restore does not inherit the first token.
AdmitWithoutNextToken ==
    /\ ReserveLoop
    /\ LET r == Newcomer
       IN  /\ r \in pending
           /\ ReserveCache(r)
           /\ alive
           /\ r \notin sequences
           /\ sequences' = sequences \cup {r}
           /\ seq' = [seq EXCEPT ![r] = [prefilled |-> snapshot[r], emitted |-> 0,
                                         next |-> FALSE]]
    /\ Advances
    /\ UNCHANGED <<alive, emitted, generated>>

\* admit, or admit_restored when the prompt resumes from a snapshot: a snapshot
\* of the whole prompt also names the first output token.
AdmitToDevice ==
    /\ ReserveLoop
    /\ LET r == Newcomer
       IN  /\ r \in pending
           /\ ReserveCache(r)
           /\ alive
           /\ r \notin sequences
           /\ sequences' = sequences \cup {r}
           /\ seq' = [seq EXCEPT ![r] = [prefilled |-> snapshot[r], emitted |-> 0,
                                         next |-> snapshot[r] = req[r].prompt]]
    /\ Advances
    /\ UNCHANGED <<alive, emitted, generated>>

\* The device refuses: the cache is reserved, the prompt is gone, and either
\* nothing is resident or, when only the restore failed, an empty sequence is.
AdmitToDeviceFails ==
    /\ ReserveLoop
    /\ LET r == Newcomer
       IN  /\ r \in pending
           /\ ReserveCache(r)
           /\ \/ /\ "admit" \in Faults \/ ~ alive \/ r \in sequences
                 /\ UNCHANGED <<sequences, seq>>
              \/ /\ "restore" \in Faults /\ alive /\ r \notin sequences
                 /\ snapshot[r] > 0
                 /\ sequences' = sequences \cup {r}
                 /\ seq' = [seq EXCEPT ![r] = NoSequence]
    /\ StepFails
    /\ UNCHANGED alive

\* Mutation: the blocks taken before the slot was refused are not given back.
ReserveFailsLeaking ==
    /\ ReserveLoop
    /\ Newcomer \in pending
    /\ ~ CanReserve(Newcomer)
    /\ StepFails
    /\ attentionFree' = attentionFree - req[Newcomer].blocks
    /\ UNCHANGED <<pending, snapshot, reserved, held, gdnFree, deviceVars>>

\* PoolExhausted: the request stays pending and holds nothing.
ReserveCacheFails ==
    /\ ReserveLoop
    /\ Newcomer \in pending
    /\ ~ CanReserve(Newcomer)
    /\ StepFails
    /\ UNCHANGED <<cacheVars, deviceVars>>

BeginExecute ==
    /\ phase = "planned"
    /\ stage = "reserve"
    /\ at \notin DOMAIN prefills
    /\ Enters("decode")

-----------------------------------------------------------------------------
(* execute: the decodes as one pass, then the prefills one by one. *)

Executing(s) == phase = "planned" /\ stage = s

\* The sequences of a failed call that the device forgets.
DeviceFails(lost) ==
    /\ StepFails
    /\ sequences' = sequences \ lost
    /\ seq' = Forgotten(lost)
    /\ UNCHANGED <<cacheVars, alive>>

\* The command or the reply channel is closed.
RuntimeStopped ==
    /\ Executing("decode")
    /\ ~ alive
    /\ DeviceFails({})

\* execute_decodes takes the sequences out of the map one by one, and drops the
\* ones it has when the next is unknown.
Collected == ToSet(decodes) \subseteq sequences

UnknownDecode ==
    /\ Executing("decode")
    /\ alive
    /\ \E i \in DOMAIN decodes :
          /\ decodes[i] \notin sequences
          /\ \A j \in 1 .. (i - 1) : decodes[j] \in sequences
          /\ DeviceFails({decodes[j] : j \in 1 .. (i - 1)})

\* Every input token is known before the pass runs.
Primed == \A r \in ToSet(decodes) : seq[r].next

\* A failed plain pass drops every sequence of the batch, a failed verify pass
\* puts them all back with what they have emitted.
DecodeFails ==
    /\ Executing("decode")
    /\ alive
    /\ Collected
    /\ decodes # <<>>
    /\ ~ Primed \/ "decode" \in Faults
    /\ \/ DeviceFails(ToSet(decodes))
       \/ DeviceFails({})

\* Mutation: the drafts are not cut to the output limit.
WindowUncut(r) == 1 + DraftTokens

\* Drafts are cut to what the output limit leaves beyond the one plain token.
Window(r) ==
    LET left == req[r].output - (seq[r].emitted + 1)
    IN  1 + Lesser(DraftTokens, IF left > 0 THEN left ELSE 0)

\* The window yields n output tokens, and possibly the end of the turn after
\* them, which ends the sequence and is not output.
DecodeSequence ==
    /\ Executing("decode")
    /\ alive
    /\ Collected
    /\ Primed
    /\ at \in DOMAIN decodes
    /\ LET r == decodes[at]
       IN  \E n \in 0 .. Window(r), eos \in BOOLEAN :
             /\ IF eos THEN n < Window(r) ELSE n > 0
             /\ seq' = [seq EXCEPT ![r] =
                          [prefilled |-> seq[r].prefilled, next |-> TRUE,
                           emitted |-> IF eos THEN req[r].output
                                              ELSE seq[r].emitted + n]]
             /\ emitted' = [emitted EXCEPT ![r] = n]
             /\ generated' = [generated EXCEPT ![r] = n]
    /\ Advances
    /\ UNCHANGED <<cacheVars, alive, sequences>>

BeginPrefills ==
    /\ Executing("decode")
    /\ alive
    /\ at \notin DOMAIN decodes
    /\ Enters("prefill")

Prefilling ==
    /\ Executing("prefill")
    /\ at \in DOMAIN prefills

\* The device's own count decides where the chunk starts, and the end of the
\* prompt yields the first output token.  Inside the prompt a token is only named
\* when the chunk crosses a retention boundary.
PrefillSequence ==
    /\ Prefilling
    /\ LET item == prefills[at]
           r == item.id
           end == seq[r].prefilled + item.tokens
       IN  /\ r \in sequences
           /\ \/ /\ end # req[r].prompt
                 /\ \E named \in BOOLEAN :
                      seq' = [seq EXCEPT ![r] =
                                [prefilled |-> end, emitted |-> seq[r].emitted,
                                 next |-> seq[r].next \/ (named /\ item.tokens > 0)]]
                 /\ UNCHANGED generated
              \/ /\ end = req[r].prompt
                 /\ item.tokens > 0 \/ seq[r].next
                 /\ \E eos \in BOOLEAN :
                      /\ seq' = [seq EXCEPT ![r] =
                                   [prefilled |-> end, next |-> TRUE,
                                    emitted |-> IF eos THEN req[r].output
                                                       ELSE seq[r].emitted + 1]]
                      /\ generated' = IF eos THEN generated
                                             ELSE [generated EXCEPT ![r] = 1]
    /\ Advances
    /\ UNCHANGED <<cacheVars, alive, sequences, emitted>>

\* An id the device does not know, a whole-prompt restore without a first token,
\* or a failed pass: the sequence in hand is dropped.
NoFirstToken(item) ==
    /\ item.tokens = 0
    /\ seq[item.id].prefilled = req[item.id].prompt
    /\ ~ seq[item.id].next

PrefillFails ==
    /\ Prefilling
    /\ \/ Newcomer \notin sequences
       \/ NoFirstToken(prefills[at])
       \/ "prefill" \in Faults
    /\ DeviceFails({Newcomer})

\* The device thread ends inside a pass, and everything resident with it.
RuntimeStops ==
    /\ "stop" \in Faults
    /\ Executing("decode") \/ Executing("prefill")
    /\ alive
    /\ alive' = FALSE
    /\ sequences' = {}
    /\ seq' = Forgotten(Requests)
    /\ StepFails
    /\ UNCHANGED cacheVars

-----------------------------------------------------------------------------
(* The step's results. *)

\* Mutation: > for >=.
CompleteBeyond == {r \in sequences : seq[r].emitted > req[r].output}

Complete == {r \in sequences : seq[r].emitted >= req[r].output}

\* execute returns: whatever has used up its output leaves the device.
EndExecute ==
    /\ Executing("prefill")
    /\ at \notin DOMAIN prefills
    /\ ReturnBatch
    /\ sequences' = sequences \ Complete
    /\ seq' = Forgotten(Complete)
    /\ done' = Complete
    /\ stage' = "advance"
    /\ at' = 0
    /\ given' = [r \in Requests |-> given[r] + generated[r]]
    /\ generated' = NoneEmitted
    /\ UNCHANGED <<cacheVars, alive, emitted, torn>>

\* Mutation: the token the scheduler already charged is counted again.
AdvanceDecodeTwice(r) ==
    /\ stage = "advance"
    /\ emitted[r] > 1
    /\ Call(AdvanceSpeculative(r, emitted[r]))
    /\ emitted' = [emitted EXCEPT ![r] = 0]
    /\ UNCHANGED <<cacheVars, deviceVars, stage, at, done, torn, outputVars>>

\* advance_speculative for every decode that produced more than its one token.
AdvanceDecode(r) ==
    /\ stage = "advance"
    /\ emitted[r] > 1
    /\ Call(AdvanceSpeculative(r, emitted[r] - 1))
    /\ emitted' = [emitted EXCEPT ![r] = 0]
    /\ UNCHANGED <<cacheVars, deviceVars, stage, at, done, torn, outputVars>>

BeginFinish ==
    /\ stage = "advance"
    /\ \A r \in Requests : emitted[r] <= 1
    /\ stage' = "finish"
    /\ emitted' = NoneEmitted
    /\ UNCHANGED <<vars, cacheVars, deviceVars, at, done, torn, outputVars>>

\* release_cache: both groups together, or nothing when the id has no slot.
ReleaseCache(r) ==
    /\ reserved' = reserved \ {r}
    /\ held' = [held EXCEPT ![r] = 0]
    /\ attentionFree' = attentionFree + held[r]
    /\ gdnFree' = gdnFree + Cardinality(reserved \cap {r})

FinishCompleted(r) ==
    /\ stage = "finish"
    /\ r \in done
    /\ Call(FinishRequest(r))
    /\ ReleaseCache(r)
    /\ done' = done \ {r}
    /\ torn' = torn \ {r}
    /\ given' = [given EXCEPT ![r] = 0]
    /\ UNCHANGED <<pending, snapshot, deviceVars, stage, at, emitted, generated>>

EndStepDevice ==
    /\ stage = "finish"
    /\ done = {}
    /\ stage' = "idle"
    /\ UNCHANGED <<vars, cacheVars, deviceVars, at, emitted, done, torn, outputVars>>

\* Mutation: the device is not told of a cancellation.
CancelOnHost(r) ==
    /\ stage = "idle"
    /\ Call(CancelRequest(r))
    /\ pending' = pending \ {r}
    /\ snapshot' = [snapshot EXCEPT ![r] = 0]
    /\ ReleaseCache(r)
    /\ torn' = torn \ {r}
    /\ given' = [given EXCEPT ![r] = 0]
    /\ UNCHANGED <<deviceVars, stage, at, emitted, generated, done>>

\* cancel: the reply of the device's remove is ignored.
CancelTokens(r) ==
    /\ stage = "idle"
    /\ Call(CancelRequest(r))
    /\ pending' = pending \ {r}
    /\ snapshot' = [snapshot EXCEPT ![r] = 0]
    /\ LET removed == {r} \cap ToSet(running)
       IN  sequences' = sequences \ removed /\ seq' = Forgotten(removed)
    /\ ReleaseCache(r)
    /\ torn' = torn \ {r}
    /\ given' = [given EXCEPT ![r] = 0]
    /\ UNCHANGED <<alive, stage, at, emitted, generated, done>>

StepDevice ==
    \/ BeginStepDevice
    \/ PlanBatch
    \/ AlreadyResident
    \/ AdmitToDevice
    \/ AdmitToDeviceFails
    \/ ReserveCacheFails
    \/ BeginExecute
    \/ RuntimeStopped
    \/ UnknownDecode
    \/ DecodeFails
    \/ DecodeSequence
    \/ BeginPrefills
    \/ PrefillSequence
    \/ PrefillFails
    \/ RuntimeStops
    \/ EndExecute
    \/ \E r \in Requests : AdvanceDecode(r)
    \/ BeginFinish
    \/ \E r \in Requests : FinishCompleted(r)
    \/ EndStepDevice

WorkerNext ==
    \/ StepDevice
    \/ \E r \in Requests : AdmitTokens(r)
    \/ \E r \in Requests : CancelTokens(r)

WorkerSpec == WorkerInit /\ [][WorkerNext]_allVars

\* The driver thread keeps stepping the worker; nothing is assumed of the
\* clients.
FairWorkerSpec == WorkerSpec /\ WF_allVars(StepDevice)

-----------------------------------------------------------------------------
(* Properties *)

Stages == {"idle", "reserve", "decode", "prefill", "advance", "finish"}
DeviceSequence == [prefilled : Nat, emitted : Nat, next : BOOLEAN]

\* Every variable of the worker has its type, the pool counts are natural numbers
\* (an unsigned underflow would show here), and the stage agrees with the
\* scheduler's phase.
WorkerTypeOK ==
    /\ pending \subseteq Requests
    /\ snapshot \in [Requests -> Nat]
    /\ reserved \subseteq Requests
    /\ held \in [Requests -> Nat]
    /\ attentionFree \in Nat
    /\ gdnFree \in Nat
    /\ alive \in BOOLEAN
    /\ sequences \subseteq Requests
    /\ seq \in [Requests -> DeviceSequence]
    /\ stage \in Stages
    /\ at \in Nat
    /\ emitted \in [Requests -> Nat]
    /\ done \subseteq Requests
    /\ torn \subseteq Requests
    /\ stage \in {"idle", "advance", "finish"} <=> phase = "idle"
    /\ stage \in {"decode", "prefill"} => phase = "planned"

\* Whoever is running is either still pending or holds a reservation and never
\* both, whoever waits is pending, and the device holds nobody else (reserve_cache
\* comes before pending.remove, cancel clears all three): no failed step, however
\* far it got, leaves a request without its prompt, or a cache slot or a device
\* sequence that no cancel or completion will ever release.
StateFollowsScheduler ==
    /\ pending \cap reserved = {}
    /\ pending \cup reserved = ToSet(waiting) \cup ToSet(running)
    /\ reserved \subseteq ToSet(running)
    /\ sequences \cup done \subseteq reserved

\* The two books agree (attention_pool against free_attention_blocks, which
\* kv_utilization and the router read): a slot holds what the scheduler reserved,
\* and the pool is short of its total by exactly what the slots hold.
PoolsMirrorScheduler ==
    /\ \A r \in Requests : held[r] = IF r \in reserved THEN req[r].blocks ELSE 0
    /\ attentionFree + Cardinality(Holdings(held)) = TotalBlocks
    /\ gdnFree + Cardinality(reserved) = GdnSlots

\* The prompt chunks of the batch the device has not seen yet.
Ahead == {i \in DOMAIN prefills : stage = "prefill" => i >= at}

\* Nobody is given more output than it asked for, in the results of all its steps
\* together: not by a window of accepted drafts, and not after steps that failed
\* when the device had already counted their tokens.  The slice execute_prefill
\* takes, prompt[prefilled .. prefilled + tokens], stays inside the prompt, even
\* when earlier chunks were charged and lost.  And of a request that no failed step
\* touched the counts agree between two steps, in the prompt and after it, with any
\* acceptance of drafts and any restored prefix: it was given every token the device
\* counts, and computed_tokens is the prefilled prompt, or the prompt and every one
\* of those tokens but the last.
CountsAgree ==
    /\ \A r \in Requests : given[r] + generated[r] <= req[r].output
    /\ \A r \in sequences : seq[r].prefilled <= req[r].prompt
    /\ \A i \in Ahead, r \in sequences :
           prefills[i].id = r => seq[r].prefilled + prefills[i].tokens <= req[r].prompt
    /\ stage = "idle" /\ phase = "idle" => \A r \in sequences \ torn :
           /\ req[r].computed = seq[r].prefilled
                                + (IF seq[r].emitted > 0 THEN seq[r].emitted - 1 ELSE 0)
           /\ seq[r].emitted > 0 => seq[r].prefilled = req[r].prompt
           /\ seq[r].emitted = given[r] /\ seq[r].emitted < req[r].output

\* Without a failed device call, an error return of step_device is unreachable:
\* every planned decode is resident, knows its input token and has its whole
\* prompt behind it, and every planned prefill is resident.
NoErrorWithoutFault ==
    (alive /\ BatchIds \cap torn = {}) =>
        /\ Executing("decode") => Collected /\ Primed
        /\ Executing("decode") =>
               \A r \in ToSet(decodes) : seq[r].prefilled = req[r].prompt
        /\ Prefilling => Newcomer \in sequences /\ ~ NoFirstToken(prefills[at])

\* The worker drives its scheduler only as the scheduler's specification allows:
\* every step of step_device and cancel is a step of Scheduler or leaves its
\* variables alone, so what holds of Scheduler holds inside the worker.
ImplementsScheduler == Spec

\* Liveness: with the device working and the driver stepping, every admitted
\* request leaves, without any assumption on what finishes it.
Live(r) == r \in ToSet(waiting) \cup ToSet(running)
RequestsLeave == \A r \in Requests : Live(r) ~> ~ Live(r)

-----------------------------------------------------------------------------
(* The inductive invariant behind them. *)

\* Who is at what point of step_device.
StageFollows ==
    /\ sequences \cap done = {}
    /\ stage \notin {"advance", "finish"} => done = {}
    /\ stage \in {"idle", "reserve", "finish"} => emitted = NoneEmitted

\* Where a request resumes, on the host or on the device.
Base(r) == IF r \in pending THEN snapshot[r] ELSE seq[r].prefilled

\* The scheduler has charged every prompt token the device has seen, and every
\* chunk of the batch ahead lies between the two counts.
ChargedBeforeSeen ==
    /\ \A r \in pending \cup sequences : Base(r) <= req[r].computed
    /\ \A i \in Ahead, r \in pending \cup sequences :
           prefills[i].id = r => Base(r) + prefills[i].tokens <= req[r].computed

\* Whoever has output, or has completed, has its whole prompt charged, and a
\* decode that ran is within its window and has not been charged beyond its length.
OutputAfterPrompt ==
    /\ \A r \in ToSet(waiting) \cup ToSet(running) : req[r].output > 0
    /\ \A r \in sequences : seq[r].emitted > 0 => IsDecodeReady(r)
    /\ \A r \in done : IsDecodeReady(r)
    /\ \A r \in Requests : emitted[r] > 0 =>
           /\ emitted[r] <= TokensPerDecodeStep
           /\ req[r].computed \in req[r].prompt .. FullSeqLen(r)

\* The conjunction that is inductive together with the scheduler's invariants.
WorkerInv ==
    /\ IInv
    /\ BatchInv
    /\ WorkerTypeOK
    /\ StateFollowsScheduler
    /\ PoolsMirrorScheduler
    /\ StageFollows
    /\ ChargedBeforeSeen
    /\ OutputAfterPrompt

\* The requests of the batch whose item has not run yet.
DecodesAhead ==
    {decodes[j] : j \in {k \in DOMAIN decodes :
                            stage = "reserve" \/ (stage = "decode" /\ k >= at)}}
PrefillsAhead == {prefills[i].id : i \in Ahead}

\* What a decode of this step produced beyond the token the plan charged, and the
\* output that is computed: the last token's pass is still to come.
Uncounted(r) == IF emitted[r] > 0 THEN emitted[r] - 1 ELSE 0
OutputComputed(r) == IF seq[r].emitted > 0 THEN seq[r].emitted - 1 ELSE 0
Knows(r) == seq[r].next

\* A request no failed step has planned.
Whole(r) == r \notin torn

\* No chunk reaches beyond the prompt, whatever was lost before it.
InsidePrompt ==
    /\ \A r \in pending \cup sequences : Base(r) <= req[r].prompt
    /\ \A i \in Ahead, r \in pending \cup sequences :
           prefills[i].id = r => Base(r) + prefills[i].tokens <= req[r].prompt

\* Where the loops of step_device stand, and that nobody runs unplaced.
StepInOrder ==
    /\ stage \in {"reserve", "decode", "prefill"} => at >= 1
    /\ phase \in {"decode", "prefill", "admit"} => at = 1
    /\ \A r \in Requests : phase = "planned" /\ emitted[r] > 0 => r \in ToSet(decodes)
    /\ \A r \in ToSet(waiting) \cup ToSet(running) :
           req[r].prompt <= U32Max /\ req[r].output <= U32Max
    /\ alive => \A r \in ToSet(running) :
                    Whole(r) => r \in pending \cup sequences \cup done

\* A whole request whose prompt is on the host waits, or is a newcomer of the batch
\* that the reserve loop has yet to reach.
OnHost(r) ==
    /\ r \in ToSet(waiting) => req[r].computed = snapshot[r]
    /\ r \in ToSet(running) =>
           stage = "reserve" /\ \E i \in DOMAIN prefills : i >= at /\ prefills[i].id = r
    /\ \A i \in DOMAIN prefills : prefills[i].id = r =>
           /\ req[r].computed = snapshot[r] + prefills[i].tokens
           /\ prefills[i].tokens = 0 => snapshot[r] = req[r].prompt

\* The two counts of a whole request on the device: with a chunk ahead, with a decode
\* ahead, and with neither.
ChunkAhead(r, tokens) ==
    /\ seq[r].emitted = 0 /\ emitted[r] = 0
    /\ req[r].computed = seq[r].prefilled + tokens
    /\ tokens = 0 => Knows(r)

DecodeAhead(r) ==
    /\ seq[r].emitted < req[r].output /\ emitted[r] = 0
    /\ req[r].computed = seq[r].prefilled + seq[r].emitted

Settled(r) ==
    seq[r].emitted < req[r].output =>
        /\ req[r].computed + Uncounted(r) = seq[r].prefilled + OutputComputed(r)
        /\ seq[r].emitted = 0 => seq[r].prefilled < req[r].prompt

OutputKnown(r) ==
    /\ seq[r].emitted <= req[r].output
    /\ seq[r].emitted > 0 => seq[r].prefilled = req[r].prompt /\ Knows(r)
    /\ seq[r].emitted = req[r].output => stage \in {"decode", "prefill"} /\ r \in BatchIds
    /\ r \in ToSet(decodes) => seq[r].emitted > 0

OnDevice(r) ==
    /\ OutputKnown(r)
    /\ \A i \in Ahead : prefills[i].id = r => ChunkAhead(r, prefills[i].tokens)
    /\ r \in DecodesAhead => DecodeAhead(r)
    /\ r \notin PrefillsAhead \cup DecodesAhead => Settled(r)

CountsInv ==
    /\ InsidePrompt
    /\ StepInOrder
    /\ \A r \in pending : Whole(r) => OnHost(r)
    /\ \A r \in sequences : Whole(r) => OnDevice(r)

\* What a request has been given: nothing before it is on the device, there never
\* more than the device counts, and as much if no failed step planned it; less than
\* it asked for until it completes.
Result(r) == given[r] + generated[r]

GivenInv ==
    /\ generated \in [Requests -> Nat] /\ given \in [Requests -> Nat]
    /\ stage \notin {"decode", "prefill"} => generated = NoneEmitted
    /\ stage = "decode" => generated = emitted
    /\ \A r \in Requests :
           /\ Result(r) <= req[r].output
           /\ r \notin reserved => Result(r) = 0
           /\ r \in reserved \ done => given[r] < req[r].output
           /\ generated[r] > 0 => r \in sequences \cap BatchIds
    /\ \A r \in sequences :
           /\ Result(r) <= seq[r].emitted
           /\ Whole(r) /\ seq[r].emitted < req[r].output => Result(r) = seq[r].emitted

=============================================================================
