# A verification project for llmxabe

llmxabe serves one large language model on several GPUs from one process. An
HTTP server hands tokenized prompts to an engine; the engine routes each to a
worker, one per GPU; a worker plans steps with a chunked-prefill scheduler and
executes them on its device; the workers share one prefix tree and one map of
recurrent-state snapshots, so that a prompt another worker has seen is resumed
rather than recomputed.

The numeric part (what the kernels, layers and samplers compute) is out of a
model checker's reach. The control part is not: it is concurrent, it fails half
way, and the tests of the repository run it one call at a time. That part is what
is modelled here, down to which slot of which buffer a kernel writes.

## Inventory

| Component | Source | State | Operations | Hard part |
|---|---|---|---|---|
| Step scheduler | `xabe-sched/src/scheduler.rs`, `config.rs`, `request.rs` | waiting queue, running list, free block count, rotating cursor | admit, step_into (three phases), finish, cancel, preempt, advance_speculative | budget and watermark limits, starvation, u32 edges |
| Worker | `xabe-engine/src/worker.rs` | scheduler, two block pools, reservation slots, pending prompts | admit_tokens, step_device, cancel | a step that fails at any of its calls |
| Device runtime | `xabe-engine/src/runtime.rs` | resident sequences, counts, drafts, retained snapshots | admit, restore, execute, remove | verified windows and their rollback, retention boundaries, failures half way, the end of its thread |
| Block pool | `xabe-cache/src/pool.rs` | free list | alloc, free | exhaustion |
| Prefix tree | `xabe-cache/src/radix.rs` | nodes by chained hash, child links, reference counts, pins, release times | insert, match, reference, release, pin, evict | eviction among shared prefixes |
| Engine | `xabe-engine/src/engine.rs` | request chains, request references, the placement mutex | place_tokens, step_worker, apply_step, install_snapshot, cancel | three kinds of thread, no lock held between two maps |
| Chains and snapshots | `xabe-engine/src/prefix.rs` | tokens to block hashes; published snapshots and their recency | push, hashes_for, take_for_reuse, publish, reclaim_for | a chain that disagrees with its sequence |
| Router | `xabe-engine/src/router.rs` | none | score, route | floating-point order |
| Snapshot arena | `xabe-engine/src/state.rs` | pinned slots, leases, parent chains | snapshot, restore, release | exhaustion turns retention off for good; parents outlive their sequences |
| Image placements | `xabe-engine/src/image.rs` | images of a prompt | rope_delta_at, fill_mrope_triples | pieces and restorations that cut an image |
| Drafters | `xabe-sched/src/ngram*.rs`, `spec.rs` | n-gram tables, a ring, a shared table | observe, propose, accept | stale offsets, collisions, other sequences' entries |
| Server loop | `xabe-server/src/http/mod.rs` | client map, submit_waiters | worker_loop | errors and disconnects against placements; a lock taken again at once |
| Generation | `xabe-server/src/http/generate.rs` | guard, detokenizer window, held-back text, reasoning span | start, next event, drop | cancellation at every moment, stop sequences and delimiters across tokens |
| Tool-call grammar | `xabe-grammar/src` | cursors of a byte machine, tail of the output | mask, observe | a trigger across tokens, a state without a way out |
| Tool-call parser | `xabe-server/src/http/tools.rs` | pending text, the block in hand | push, finish | must agree with the grammar, which it does not share code with |
| Dialects | `xabe-server/src/http/{openai,anthropic,responses,chat,vision}.rs` | the request's turns and images, the open block of a stream | conversation, render, expand_images, messages, chat_completions, create | what a client replays must be what the model said; images are paired by order |
| MoE layer | `xabe-cuda/src/kernels/moe.rs`, `xabe-engine/src/block/moe.rs` | dispatch tables, intermediate and output rows, shared by all layers of a pass | route, align, grouped and shared experts, combine | unordered blocks; a kernel per width and format; leftovers of a longer step |
| Attention layer | `xabe-cuda/src/kernels/attention.rs`, `xabe-engine/src/block/attention.rs` | caches of the sequences, the scratch of a pass, side streams and events | forward, forward_batch_decode, forward_batch_prefill | a kernel per width and depth; tiles and slices; streams that share a scratch; rejected drafts in the cache |
| Delta-net layer | `xabe-cuda/src/kernels/{gdn,gdn_chunked,layer_ops}.rs`, `xabe-engine/src/block/{gdn,gdn_verify}.rs` | a convolution cache and a recurrent matrix per sequence, a ring of copies per verified window | forward, forward_batch_decode, forward_batch_prefill, run_layer_with_snapshots_batch, commit | a state that cannot be rewound; a step, a scan and a chunked form of one recurrence; a form of the weights per width |
| Other kernels and layers, templates, CLI, GGUF, logging | the rest | | | I/O, text and numerics: not modelled |

How they interact. A handler thread runs `place_tokens` under the placement
mutex: it matches the prompt in the tree, clones a snapshot, scores the workers,
admits under one worker's mutex, and then writes three more maps. One driver
thread per worker runs `step_worker` in a loop: the device step under the
worker's mutex, then `apply_step` without it, then the fan-out of the step's
tokens into the clients' channels. Handlers and drivers call `cancel`. Inside a
worker, `step_device` calls the scheduler and the device thread in turn and
returns at the first error. The runtime masks a sequence's choices with its
tool-call constraint; the handler decodes the tokens it receives, splits off the
reasoning, watches for stop sequences and parses tool calls.

What makes each correct:

- scheduler: blocks are conserved, a reservation covers a request's lifetime, a
  step spends what it grants, nobody is overtaken, everybody starts and every
  prompt completes;
- worker: however a step fails, what the scheduler, the pools, the pending map
  and the device know of a request stays consistent and can be released;
- tree: no holes, exact links, nothing in use or on the way to it is evicted;
- engine: a snapshot is filed under the tokens it was computed from, a request
  resumes its own prompt and inherits only the model's prediction, and the
  bookkeeping of a request goes when the request goes;
- runtime: whatever was drafted, verified, rolled back, retained, restored or
  lost, the output is that of plain decoding, and a snapshot restores the prefix
  it is filed under; every token is fed with the position and image row that one
  pass over the whole prompt would give it;
- drafters: a draft is what followed the same tokens before;
- server: a stream has every token once and in order and one end, no request
  stays on a worker without anybody to take it off, a submission is not starved,
  every response ends;
- generation: how a text was cut into tokens does not show, no stop sequence is
  returned, no text is lost between text and tool calls;
- grammar and parser: the mask is the machine's, and a call the grammar let
  through is the call the client gets;
- dialects: a stream carries what the response in one piece does, a client in a
  tool loop shows the model all it was shown and all it said, reasoning included,
  and each image stands where its marker is;
- MoE layer: every token gets its own experts' contributions under its own
  weights, whichever kernels ran over whatever was in the buffers;
- attention layer: every row is the causal softmax over its own sequence's keys,
  each once, however they were cut and in whatever order the streams ran;
- delta-net layer: the state of a sequence is the recurrence over the tokens it
  keeps and no others, in whichever form and beside whomever they were fed.

The hazards behind these, each at its line, are in `PROJECT.json`.

## Modules

### `Scheduler`, `Queues`

`waiting`, `running`, `req`, `free`, `cursor` are the fields of `Scheduler`; a
`TrackedRequest` is found in `req` by its id and the lists hold ids. `step_into`
mutates lists while it walks them, so each loop iteration is an action:
`BeginStep`, `DecodeOne`/`EndDecodes` (phase 1), `PrefillOne`/`EndPrefills`
(phase 2), `AdmitOne`/`EndAdmissions` (phase 3), `ReturnBatch`. `phase`,
`budget`, `reserve` and `pos` are its locals. The other methods take `&mut
self` and run only between two steps (`Call`).

Lengths keep their width: `SubmittedSeqLen` saturates at `U32Max` as
`NewRequest::full_seq_len` does, and the sums that do not saturate wrap.
`ConfigAccepted` is the check of `SchedulerConfig::new` and an assumption on the
constants. The cursor is read modulo the length of the list only, so counting it
modulo a common multiple of the lengths (`CursorPeriod`) loses nothing.

### `Worker`

EXTENDS `Scheduler` and composes it with the pools, the pending map and the
device. `stage` and `at` are the position in `step_device`; a device call named
in `Faults` may fail wherever the code propagates its error, and leaves what the
code leaves (a failed decode loses the sequences it had moved out of the map, a
failed prefill loses its own, nothing is rolled back). Block ids are handed out
and taken back unread, so a pool is a count. The number of accepted drafts is
any number the window allows. `generated` is what the step has for each request so
far, dropped when the step fails as the code drops it. Two history variables:
`torn`, the requests a failed step planned, and `given`, how many tokens each live
request got in the results of earlier steps.

### `RadixTree`

A chained hash stands for a whole prefix, so a node is named by its prefix, the
sequence of its blocks (`hash_block` is taken to be injective). Each method is
an action; the loop of `evict_unreferenced_entries` is one action an iteration,
with `quota` the iterations left and, while it is not 0, the lock taken. Ties of
`last_used` are broken by the order of a hash map, hence by any choice.

### `Engine`

Instantiates `RadixTree` over blocks of tokens. An action is what a thread does
under one lock; `placing`, `driver` and `cancel` are the threads' positions and
locals. The worker is reduced to what the cache depends on: what each sequence
was fed, what it picked, where it kept snapshots. `Argmax` is the model's
prediction. A sampled token, or one picked under a tool grammar's mask, is any
token. A snapshot carries the tokens its state was computed from, which the code
does not store: it is what the properties speak of. Least-recently-used stamps
are unique, so the published snapshots have a recency list. `cancel` keeps the
guard on `request_refs` while it releases the nodes, so these are one action
there and two in `apply_step`.

Five history variables tell exactly whom the code's own promises fail, so that the
properties hold for all others. `outrun`: the requests whose chain really missed a
token, in a step folded before `place_tokens` had recorded the chain or in a failed
one (a request that was merely overtaken is not in it). `lineage`: for each request,
itself and those whose passes its restored state comes from; `Clean(r)` says that
none of them is in `outrun`, and a request is never touched by what happened to one
it does not descend from. `masked`, the same for requests that decoded under a
grammar (`Unmasked`). `missedChain` and `missedRefs`: the requests whose last removal
from `request_chains`, and from `request_refs`, came before `place_tokens` had put
anything there.

### `Prefill`, `Runtime`

`Prefill` is `choose_prefill_width` and the widths passes are built for.
`Runtime` is the device runtime with its sequences (`seqs`) and the pinned arena
(`arena`, with `shared` the slots the engine holds). The device is symbolic: a
recurrent state is the sequence of tokens folded into it, an entry of the
key/value cache is the prefix it was computed from, and a pass gives the model's
choice only if the two agree; otherwise its result is `Garbage`. So a rollback
that forgets a token, a cache entry of a rejected draft or a slot reused too
early show up in the output. `Execute` is one `execute` for every resident
sequence: a prefill slice or a decode step with a draft, either round by round or
as one verify pass (`VerifySequence`) with `commit_verify_window`.
`VerifyFails` and `StepLosesSequences` are the two ways a step fails half way;
after one the driver cancels what was in it (`draining`). A sampler is a count of
draws. Drafts are arbitrary (`Guesses`).

### `Images`, `Drafters`, `SequenceHost`

The host's side of one sequence with what `Runtime` leaves open: prompts with
images, arbitrary widths, and the drafts the drafters really make. `Images` is
`image.rs`; `AssignedPosition` and `AssignedRow` are the reference, a pass over
the whole prompt as `assign_positions` in `xabe-kernels` does. `Drafters` has the
four drafters over an arbitrary hash. `SequenceHost` composes them: `fed` records
what every token was fed with.

### `Server`

The client map, the handlers and one driver per worker, over an engine reduced to
its interface. A handler's `pc` goes through `Generation::start` at the
granularity of its locks, then reads; it may hang up at any moment, and the guard
then searches the workers in order. A driver's `pc` goes through `worker_loop`:
find clients, step (the lock held), stand aside, deliver, cancel; or, after a
failed step, drain and cancel. `made`, `got` and `overtaken` are history
variables.

### `Text`, `Markup`, `ToolParser`, `Grammar`, `Generation`, `Constrained`

`Text` has the searches over texts. `Markup` is the format of a tool call, which
the grammar and the parser each spell out on their own: a tag is two or three
characters, so that tags begin alike and can be cut. `ToolParser` is
`ToolCallParser` with `parse_call`. `Grammar` is `xabe-grammar`: a state of the
machine is what is left to consume, a `Split` is a name with alternatives
(`Expand`), and `CloseOver`, `StepByte`, `Mask` and `ObservePiece` are `close`,
`step`, `mask` and `observe`. The only caller compiles it with parallel calls
allowed, and so does the model. `Generation` is `raw_next` and `chunk`; a token
is a sequence of bytes and one character takes two. `Constrained` runs the
constraint and the response over the same tokens: the model chooses any token
the mask leaves, both sides observe it. Cursors carry the calls they have read
as history, which is what the parser's calls are compared with.

### `Conversation`, `Dialects`

`Conversation` is the way from a request to its prompt: the fold of content parts
(`FoldPart` to `Fold`), one operator per dialect for what a message or item does
to the conversation, `Render` and `ExpandAccepts`. A text is a sequence of words, and
a run of white space one of them, so that what `render` trims and what it sets off
with line breaks is there to the character (`RenderTurn`, `RenderCalls`, `ThinkEnd`).
A call is one word; `Respelled` is what `parameter_value` makes of its arguments,
the identity for some calls and not for others.
The code's image markers are all alike; here a marker names its image, which is
what `ImagesPlaced` speaks of. `Dialects` puts a client around it: `Ask` renders a
history, `Serve` sends the events of one chunk, `EndResponse` the last ones,
`FailResponse` is an error in mid-stream; `AnswerCalls` and `AskAgain` append
what the client made of the response and go on. What a client makes of a stream
(`BlockAt`, `Gathered`, `Replayed`) is external: it is what these APIs' clients
do, an unsigned thinking block being dropped included. `Render` is the renderer
the server has for a model without a template of its own.

`LoopExtendsPrompt` has two halves. Of every turn but two kinds (see its comment),
the next prompt says what the last one and the model's output said, in that order,
white space, an added `</think>` and the spelling of arguments aside: nothing is lost
or doubled on the client's way. A turn the model wrote as the template would
(`Canonical`), with no call that is spelled differently, is extended character for
character. Both are about text. Which of its tokens the prefix cache then finds
depends on the tokenizer and is not claimed.

### `Moe`

One MoE half of a layer as the launches of a stream (`stream` holds what is
queued, one launch runs at a time, its thread blocks in any order). Buffers are
functions from slots to values, and they persist: `Begin` starts a layer over
what the one before left. An activation is named by the run and the token it is
of, a contribution by the activation, the expert and the weight. `route`,
`moe_align_count`, `moe_align_block_size`, the grouped and the shared experts in
their one-token, flat, tiled, tensor-core and community-format forms and the
combine step are actions; which of them a pass takes is decided by its width,
regime and formats as the code decides it. A launch may be refused, and the next
run finds what that left.

### `Attention`

One attention half of a layer: the three passes of `GatedAttentionBlock`
(`Forward`, `BatchDecode`, `BatchPrefill`) queue launches on the main and the
side streams (`queues`), and `RunLaunch` runs the next launch of any stream that
does not wait for the fork. A launch reads positions, caches and scratch as they
are when it runs. The kernels are operators over a cache: `FlashRow`, `GqaRow`,
`MmaRow` (with its tile held in registers for the next trip) and `T1Row` for
prefill; `WarpSlice`, `SplitSlice` and `MmaSlice` with `Combined` for decode.
A softmax is kept as the list of its terms with their exponents, so that
rescaling by `exp(a - b)` is an addition and an exact result can be told from
one that is nearly right. A term names the key it was computed from: sequence,
position, rotary position, and the `version` of the sequence it was fed by. A
version ends when drafts are rejected or the sequence is reset, so that what they
left in the cache is told from what belongs there. `Decode`, `TiledKernel` and
`Launches` choose the kernel as `AttentionKernels` does; a captured step keeps the
choice it was captured with (`CapturedDepths`). One head stands for all.

### `DeltaNet`

The gated delta nets: `GdnBlock`'s passes over one sequence (`DeltaForward`) and
over several (`DeltaBatch`), the verify pass with its ring of states
(`DeltaVerify`) and the commit that rolls back to one of them (`DeltaCommit`),
and what `SequenceState` does to the same buffers (`DeltaReset`, `DeltaSave`,
`DeltaRestore`). The arithmetic is kept, over a prime field in place of the
floats: the step, the scan, the device's chunked form and the reference crate's
(which inverts the triangular system) add up in different orders and agree in the
field exactly or not at all, so an index, a decay or a head that is off shows.
The history `hist` is the textbook recurrence, written differently from the
kernels, over the tokens a sequence keeps. `PassReads`, `VerifyReads` and
`IsResident` are which form of the projections a pass asks for and which one was
loaded.

## Runs

| Run | What it asks |
|---|---|
| `sched_safety` | all of the scheduler's safety: three requests, preemption, drafts, restored prefixes |
| `worker_faults` | the worker's books under every device fault and a recurrent-state pool narrower than the batch; the worker implements the scheduler |
| `worker_live` | every admitted request leaves |
| `radix_tree` | the tree under every order of its operations |
| `engine` | one worker, greedy and sampled requests and requests under a grammar, a snapshot arena that may be full at any time |
| `engine_workers` | two workers over one tree, failing steps, a cancellation: how a snapshot can be stranded, and what a request leaves behind |
| `engine_drift` | one request, no failure: a chain that does not name its tokens. It is violated, see the disagreements |
| `runtime` | two sequences with drafts, verification, snapshots, restorations and a failure: is the output plain decoding's; and the host's side of one sequence: positions, image rows and pieces under 42 configurations of widths, and the drafts of each drafter |
| `server` | two responses, two workers, a failing step, hang-ups at every moment |
| `server_live` | every response ends |
| `generation` | every token sequence of eight requests, from bytes to events, with and without the grammar; and clients of the three dialects, from their history to their next prompt |
| `layer` | two MoE layers over the same buffers, with every kernel a width can take, ties in the router and refused launches; attention passes of one to three sequences through every kernel, side streams in any order, rejected drafts and resets in between; delta nets one token at a time, in scans and in windows, with snapshots restored into other sequences |

The bounds are the smallest that make the interesting cases happen.

- Scheduler: a waiting queue of one multiple of the slots, so that it fills;
  prompts above and below the slice and the budget; a pool two long requests do
  not fit together; a restored prefix of none, a part and all of the prompt.
- Worker: an output of three: after the prompt's own token a window of one draft
  may be accepted whole, and one after a rejected draft is cut by the limit; faults at every call; three slots and two
  recurrent-state slots, so that the second pool refuses after the first one
  granted.
- Tree: three chains with a fork, two releases, so that release times differ.
- Engine: blocks and retention intervals of two tokens, one prompt that is the
  greedy continuation of the other, so that a snapshot taken while decoding is
  found by a later prompt, `MaxNodes` 1, so that every publication evicts, and at
  most five tokens a sequence. With one worker the arena may refuse any snapshot
  and force any reclaim; with two, the steps of one may fail. The prediction flips the last token: a chain that
  lost a token is then a different chain.
- Runtime: two slots, so that the arena fills while a parent is in use; windows
  of three and outputs of four, so that a window is accepted whole, in part, not
  at all, cut by a boundary, by an end of turn and by the limit; one prompt ends
  on a boundary and one does not; the second may be restored from a snapshot of
  the first. The model's choice is a checksum of prefix, mask and draw. One
  failure.
- Sequence host, the second part of `runtime` (`part`): chunks of 4 and 8, intervals 0 to 8, batches of 1 to 3; images
  wide, tall, touching, apart and at the end of the prompt; histories of two
  tokens, a hash of three values, a ring of four entries, so that entries collide
  and are evicted. `MaxCount`, `IndexBatch` and `LowStreak` stand for 16380, 32
  and 5.
- Server: two workers, so that one fails while the other serves; two tokens, so
  that an end and a token may come in one step. `server_live` has one worker, on
  which two responses compete.
- Generation: at most `limit` tokens (5 to 9), after at most `lead` tokens before
  a call; tokens that cut every tag and every stop sequence; values that begin
  their own closing tag; `TrackedParams` 1 in place of 64, so that the second
  parameter is past the limit; a block limit of 5 characters in `Free`, so that it
  is met.
- Dialects: a first response of up to three chunks and a second of up to two, so
  that reasoning, text and a call follow one another and a call closes a block of
  each kind; three requests; one namespaced tool and one plain, the arguments of
  the former spelled differently when they come back; a model that ends its spans
  as the template does, and one that does not; a result may be an
  image. For images alone, every pair of an entry of any role with an image, a
  result or text and one with images on both sides of a result. The two parts of
  the run have nothing in common but the module that starts them (`part`).
- MoE: three experts, two per token, widths 1 to 4 standing for the ranges of the
  one-token, flat, tiled and tensor-core kernels; tiles of two and three rows for
  the narrow and the wide one, so that an expert fills one, overflows one or has
  none; router outputs with and without ties; two runs, so that the second finds
  the buffers of a longer or a refused first.
- Attention: caches of six positions, tiles of two to four rows and of two or
  three keys, three slices for the warp and two for the tensor-core kernel, so
  that lengths divide evenly, leave a rest and leave a slice empty; scores that
  rise, fall and peak, so that the running maximum moves at every, at no and at
  one trip. Three passes of one sequence, two of a batch. Decode scratches for
  two sequences (`StepSlots`, 8 in the code), so that a third is over the limit.
  Three geometries: every kernel, no tensor cores, and one query head per key
  head, which decodes only (its prefill is the first disagreement below).
- Delta nets: the field of seven elements; two query/key heads under four value
  heads, two dimensions, a convolution of four taps, so that a chunk may be
  shorter than the cache, and chunks of two. Batches of two share a launch and
  batches of three (`StepMax` is two, 8 in the code) do not. Windows stay below
  the tensor-core width, here seven rows (see the disagreements).
  The three parts of the run have nothing in common but the module that starts
  them.

Deadlock is checked in the scheduler's, the worker's and the tree's runs. The
other runs say `CHECK_DEADLOCK FALSE`: ids are handed out once, outputs have
limits, and a run ends when all was served.

Symmetry is used in runs without liveness only.

### Fairness

`FairWorkerSpec` assumes weak fairness of `StepDevice` only, because
`worker_loop` steps as long as a client is registered. Nothing is assumed of
arrivals or cancellations.

`FairServerSpec`: weak fairness of a handler's and a driver's own steps, which
are threads that run. Strong fairness of taking a mutex, for a handler and for the
driver's cancels: the mutexes are `parking_lot`'s, which are eventually fair.
`SleepOver` needs the waiters gone: the driver sleeps a millisecond for a
handler that only has to take the lock, and the model takes the millisecond to
be enough. That is the code's own assumption, and where `OvertakenOnce` rests
on it. Nobody has to hang up.

### Configurations to run by hand

Each of these is a `.cfg` of the named module that is not among the runs. All but
the first fail, and show a disagreement of the next section.

| Configuration | Module | Shows |
|---|---|---|
| `MCSchedulerLive.cfg` | `MCScheduler` | holds: every queued request starts, every prompt completes, when decodes leave more than half of the budget. `Fairness` there: weak for `Step`, strong for finishing a request whose output is used up |
| `MCSchedulerWatermark.cfg` | `MCScheduler` | `WaitingStarts` fails |
| `MCSchedulerReserve.cfg` | `MCScheduler` | `PrefillCompletes` fails |
| `MCEngineOutrun.cfg` | `MCEngine` | `CancelReleases` fails |
| `MCEngineGrammar.cfg` | `MCEngine` | `GreedyInheritsThePrediction` fails |
| `MCServerError.cfg` | `MCServer` | `OtherWorkersUntouched` fails |
| `MCRuntimeReplay.cfg` | `MCRuntime` | `SeedReplays` fails |
| `MCRuntimeDominant.cfg` | `MCRuntime` | `DominantDrafted` fails |
| `MCLayerFormats.cfg` | `MCLayer` | `LayerExact` fails for mixed formats |
| `MCLayerWindow.cfg` | `MCLayer` | `LayerExact` fails for a verify pass at the tensor-core width |

### Disagreements met on the way

Where a property of a run would run into one of these, its comment says so and
the property states what remains true.

Scheduler and engine:

- A request that fits the pool but not the pool less the watermark is accepted,
  never starts, and blocks the queue (`scheduler.rs:513`); the refusal for it,
  `BelowWatermark`, is never returned.
- With wide drafts the admission reserve starves a prompt in flight for as long
  as newcomers arrive (`scheduler.rs:474`).
- Decodes are said to be scheduled unconditionally (`scheduler.rs:362`); phase 1
  breaks when the budget is below one drafted decode, and rule 3 of
  `SchedulerConfig::new` compares the budget with the number of decodes and not
  with their drafted cost.
- `attention_blocks_needed` adds the draft window to a saturated length without
  saturating. `cap_output_reservation` in the engine keeps lengths below that.
- A step folded between the admission and the insertion of the chain loses its
  token to the chain (`engine.rs:460`); a later snapshot is filed under a prefix
  that is not its own, though `prefix.rs:30` says a chain is only ever assembled from
  the prompt and every reported token; the cross-check (`docs/CACHE.md:169`) does not
  see it. The run `engine_drift` shows it. `SnapshotsNamedTruly` and
  `ResumesOwnPrompt` say how far it goes: to that request and those that descend
  from it.
- A cancellation that overtakes the recording of a placement leaves a chain
  behind (`engine.rs:479`, the comment at 469), and so does a completion; held
  references likewise. `BookkeepingFollowsRequest` says that nothing else does.
- A token chosen under a tool grammar is recorded on a snapshot and inherited by
  a request without one (`runtime.rs:1569`, the comment at `engine.rs:427`).
  `InheritsThePrediction` excludes every other way to a wrong first token.
- The nodes a placement is credited with can be evicted before `incr_ref_chain`
  runs; the request then records references it does not have, and giving them back
  counts down those of others. `RefsWithinHolders` says what remains true: a count is
  never too high. That it may be too low is the code's.
- `reclaim_for` drops a snapshot and leaves the flag on its node; a match stops
  at the flag although a shallower snapshot is held. A lost hit.
- With two workers, a node can be evicted between its insertion and the
  publication of its snapshot, which no lookup then reaches. `StrandedByPublishing`
  says that this is the only way, with any number of workers.

Runtime and drafters:

- A sampled request whose prompt ends on a boundary draws its first token twice
  if the arena refused the snapshot there (`runtime.rs:2414`), so equal seeds may
  answer differently (`docs/API.md:173`).
- After a failed verify pass the recurrent state may be a window ahead of its
  position (the comment near `runtime.rs:1847` takes it to be unchanged); the
  driver cancels the sequences of a failed step, so it is never read. On the same
  path `verify_scratch` is not put back (`forward.rs`, around 3060).
- `snapshot` asserts that it is called on a boundary; nothing calls it elsewhere.
- `ngram_map.rs:356` promises the newest match, but a slot keeps the first
  writer's. With values (`k4v`), a hit counts the matched continuation again,
  and the draft is the match's continuation, not the dominant value's. A cap that
  a rejection lowered never grows back.
- The low-acceptance streak of ngram-mod counts drafts that a boundary had cut.

Server, text and tools:

- The error branch of one worker's loop tells every client, those of the other
  workers too, that the step failed (`mod.rs:328`; its comment says the others
  are untouched).
- A stop sequence that arrives together with the delimiter that closes the
  reasoning, as the last text of a response, is returned (`docs/API.md`, stop
  sequences).
- A bare `<function=name>` block that is not a call is given back with a
  `<tool_call>` the model did not write (`tools.rs:524`).
- `MAX_CALL_BYTES` is compared once a piece, so which blocks are given up depends
  on how the text was cut.
- The grammar's text value admits `</parameter>` and `</tool_call>` as long as
  the full closing line does not occur; the parser ends the value there and gives
  the block back as text.
- A bare `<function=name>` inside the reasoning arms the grammar, but does not
  end the span: the call stays in the reasoning.
- The integer grammar admits exponents, also negative ones.
- `param as u8` wraps past 255 parameters, and then shares the bits of the first
  ones.
- Of two tokens with one spelling the trie keeps the later; the other is masked.
- A Responses stream of text, a call and text gives both messages one item id,
  the done events of the second repeat the text of the first, and
  `response.completed` lists the message before the call. A stream without text
  and calls ends with an empty message that had no events.
- A namespaced call that a client replays loses its group: the input item has no
  `namespace`, though output is said to be handed back as input
  (`docs/API.md:226`).
- An image in an Anthropic system message or in a Responses reasoning item is
  dropped and its marker stays; `chat.rs:16` says refused rather than dropped.
  Results in such a message are dropped as well.
- Text the model wrote after a call is rendered before it, and a call that ended
  the reasoning without `</think>` is replayed with one. Neither prompt then
  extends the one before, and the prefix cache misses.

Kernels and layers:

- Passes of 2 to 4 tokens, and exact passes, skip the dispatch tables
  (`moe.rs:5508`) although stacks of mixed or community formats read them
  (`moe.rs:4237`, `moe.rs:5719`).
- With `Q6_K` gate and up projections and a down projection that is not `Q8_0`, a
  wide pass writes the quantized intermediate only and the down kernel reads the
  other (`moe.rs:6025`).
- `attn_flash_causal` reads a binary16 value cache without converting it
  (`kernels/attention.rs:672`), although `forward` calls it the fallback for every
  geometry (`:3434`); it runs only where the shared variant is not available.
  `FlashRow` has it. The comment on `DEC_MMA_SPLITS` says 72 where the code has 96.
- An error between `mem::take(&mut self.sampled)` and its return
  (`runtime.rs:1449`) leaves the buffer empty.
- `forward_batch_prefill` with chunks of one token uses one decode scratch from
  several streams (`block/attention.rs`, around 2163), although its comment says
  that each has its own. Nothing in the server calls it so.
- `forward_batch_decode` says that above the slot count the launches for single
  sequences carry a batch, but those index a scratch that has as many entries as
  slots (`block/attention.rs`, around 1690): nine sequences would panic.
- A verify pass of 64 rows or more (width times window) takes no repack
  (`gdn_verify.rs:405`) and asks for the projections as they are stored, which the
  engine does not keep for `Q8_0` (`block_holds_own_copy` in `forward.rs`, around
  712): it ends with `ProjectionNotResident`. The module's comment says "The MMA
  path is never taken: a verify window does not cross" that width
  (`gdn_verify.rs:53`). One sequence under `ngram-mod` with its default of 64
  drafts, or two under `ngram-simple` with 48, reach it.

## Proofs

Five modules of proofs, one per component, and a theorem in `Prefill`. Each proves one or more inductive
invariants and reads the properties off them, for every value of the constants.
The inductive invariants stand at the end of the component's own module.

| Module | Inductive invariant | Properties that follow |
|---|---|---|
| `SchedulerProofs` | `IInv` | `TypeOK`, `BlocksConserved`, `TrackedOnce`, `ReservationCoversLifetime` |
| `SchedulerProofs` | `BatchInv` | `StepSpendsItsBudget`, `ReserveReachesNewcomer`, `NoOvertaking` |
| `WorkerProofs` | `WorkerInv` | `StateFollowsScheduler`, `PoolsMirrorScheduler`, `ImplementsScheduler` |
| `WorkerProofs` | `CountsInv` | `NoErrorWithoutFault` |
| `WorkerProofs` | `GivenInv`, with `CountsInv` | `CountsAgree` |
| `RadixTreeProofs` | `TreeInv` | `PrefixClosed`, `HeldChainSurvives` |
| `ServerProofs` | `StreamInv` | `StreamFaithful`, `NeverClosedSilently`, `NoZombie` |
| `ServerProofs` | `OvertakenInv` | `OvertakenOnce` |
| `EngineProofs` | `EngineInv` | types, lengths, the tree's links, who owns which request |
| `EngineProofs` | `BookInv` | `BookkeepingFollowsRequest` |
| `EngineProofs` | `RefsWithinHolders` itself | `RefsWithinHolders` |
| `EngineProofs` | `EngineInv` suffices | `StrandedByPublishing` |
| `EngineProofs` | `PredictInv` | `InheritsThePrediction` |
| `EngineProofs` | `NamingInv` | `SnapshotsNamedTruly`, `ResumesOwnPrompt` |

The assumptions are those of the modules: the ids are finitely many, the
configuration is one `SchedulerConfig::new` accepts, the recurrent-state pool is
of any size, `Faults` is any set of the device's calls, the workers of `Server` are
numbered. For the engine: the retention interval is a multiple of the block
size, as `CacheConfig::new` demands; a prompt has at least one token, as
`Generation::start` demands, and is within the bound on lengths; `Argmax` is any
function that gives a token for every context.

**Scheduler.** Conservation is not inductive: to know that `finish_request` and
`preempt` give back what phase 3 took, one has to know that a request holds
blocks only while running, and holds what its lengths need
(`ReservationCoversLifetime`), that it is in one list once (`TrackedOnce`), and
that a queued request's progress is within its prompt, so that the unsigned
subtractions stay natural (`PrefixWithinPrompt`). `IInv` is the conjunction. Sums
over requests and over the batch are written as cardinalities of sets of pairs
(request and block index, item and token index), so the argument needs finite-set
facts and no induction.

`BatchInv` is about the middle of a step. That no request gets two items needs the
loops' progress: phase 1 has decoded only positions it has passed, phase 2 only
offsets from the rotating cursor it has passed, and nobody is met twice because a
rotation of an injective list is injective. That the reserve is usable needs that
`admission_can_proceed`, read before phase 2, is still true after it, although
phase 2 spends the budget: it spends at most what is above the reserve.

**Worker.** Every action of the worker is a step of its scheduler or leaves it
alone, so `IInv` and `BatchInv` carry over, which is also the refinement. The books are not inductive
without them: a reservation's blocks are what the scheduler reserved for it, a
newcomer of the batch is running, and no id is in the batch twice. The one step
that is not a free rewriting is `advance_speculative`, which the scheduler's
specification allows only for a request that is ready to decode and only up to its length.
`ChargedBeforeSeen` and `OutputAfterPrompt` give that: the scheduler has charged
every prompt token the device has seen, and whoever has output has its prompt
behind it. They hold for requests of failed steps too, whose charge runs ahead of
the device for good.

`CountsInv` says the exact relation of the two counts, for requests no failed
step has touched and at every point of a step: with a chunk of the batch still
ahead, `computed` is `prefilled` and the chunk; with a decode ahead, `prefilled`
and every emitted token; with neither, one less, up to what the step has emitted
and not yet reported (`Uncounted`). A request on the host has the same relation to the
position of its snapshot. From these: the window is cut so that `emitted` never
passes the output, a sequence with its output complete leaves in the same step,
every decode knows its input token, and a chunk of no tokens is a restored prompt
with its first token known. `InsidePrompt` is the part that holds whatever was lost.

`GivenInv` is about what leaves the worker, and says something of every request,
those of failed steps included. A failed step's tokens are dropped, but the device has
counted them; so what was given is at most what the device counts, and the device
stops at the limit: nobody is given more than it asked for, after whatever failures.
For a request no failed step planned the two are equal. `CountsAgree` is this,
`InsidePrompt`, and the equation of the two counts between steps.

**Tree.** `TreeInv` has types, closure under prefixes and exact links. The three
parts need one another: a removed node has no cached children by its own links;
only if the links are exact is it a leaf of the tree, and only then does its
removal leave no hole. `HeldChainSurvives` follows.

**Server.** A stream is faithful because a token is in exactly one place: with
the reader, in the channel, or in the hands of one driver (`HandsExact`: a request
is in the hands of the worker it is or was on and of no other). `Done` comes last
because a completed request is on no worker and never will be again
(`DoneIsFinal`), and a client still in the map was sent tokens only
(`ClientsFresh`), so an end is never followed by anything. `NoZombie` needs that a guard searches
for its own request and that where it found it is where it is (`GuardKnows`).
`OvertakenInv` counts `submit_waiters` exactly (`WaitersCounted`): a driver that
finishes a step and finds the counter at zero may begin another, and only if the
counter is exact is there then nobody to be overtaken.

**Engine.** `EngineInv` is what the others rest on. The tree's part is
`RadixTreeProofs`' own invariant, for the tree the engine instantiates, so
`Insert` and `EvictOne` cost a lemma each; references touch no link. `Ownership`
is the discipline of the threads: a driver acts only on requests of its own
worker, no two drivers on the same one, and before its admission nobody knows a
request. It is what lets a step of one thread leave what another one is
about to do alone.

`BookInv` says how far the removal of a request has come: at each point of a
completion's and of a cancellation's release, which of `request_chains` and
`request_refs` is already empty and who will empty the other. Both release by
removing from the map, so whoever comes second finds nothing. A removal may come
before `place_tokens` has put anything there; the request is then in `missedChain` or
`missedRefs` from that removal on, and what is put there later stays. For every other
request whatever is recorded, or about to be, is `ChainDue` or `RefsDue`: a worker, a
fold or a cancellation has its removal still ahead. The property is an equivalence:
the code leaves behind what was missed, and nothing else.

`RefsWithinHolders` is inductive beside `EngineInv`, by counting the holders of
a node: a reference is taken by a placement that is from then on a holder (`hold`),
and given back by a thread that still is one (`decr`). A node that vanished and
was inserted anew starts at no references, which is below any number of holders; a
decrement saturates at zero. This is why it is an inequality, and why a node that
nobody holds counts none.

`StrandedByPublishing` is an action property, of any number of workers. A snapshot is
`Stranded` when its name is neither a node nor in the hand of a driver that has
evicted the node and has yet to `forget` it. Each action is looked at: an eviction
moves a name from the tree to a hand, a `forget` empties the hand and drops the
snapshots in one go with it, nothing else removes a node; and a publication strands
only if the node it was to hang on is gone.

`PredictInv` follows a recorded token from the device (`kept`) to `SharedSnapshots`
to a placement's clone (`snap`) to the sequence that inherits it, for every request
whose lineage is unmasked, with requests under a grammar around it. That a masked
choice does travel is the code's: `MCEngineGrammar.cfg`.

`NamingInv` is the longest argument. A snapshot is named by its request's chain, not
by its own tokens, so one has to know that the chain is what the device was
fed and will be fed next (`ChainFollows`), at every moment between a step and its
fold, when the chain lags by the tokens the driver has in hand (`Unfolded`), and
between admission and recording, when it exists only in the thread that
places (`Named`). A later request's chain begins with the same blocks as its
prompt (`BlocksDetermine`: equal names are equal tokens), so what it is restored
from begins its prompt, and the sequence was fed its own (`FedOwn`). What a
device step does to `fed`, `next` and the snapshots it keeps is stated apart from the
invariant, as lemmas about `Outcome` (`StepFeedsOwn`, `StepFollows`). Each part is said
of the requests that are `Clean`. That works because `lineage` only grows at an
admission, by the lineage of the snapshot's request, and `outrun` only grows: whatever is
still clean was clean at every moment before, and so was everything it descends from.
A chain that lost a token takes its own request, and what is restored from it, out of
the claim, and nobody else.

**Prefill.** `PieceIsWellCut` is about one call of `choose_prefill_width`, whatever
chunk, batch width and interval were configured (load refuses a chunk or a batch of
zero) and whichever tail shapes exist: the width is that of a built pass, is within
the slice and has no retention boundary inside. It is what `PieceFits` says of
every piece (`WellCut`); that the loop over a slice makes nothing but such calls is in
`SequenceHost`, and checked there. The theorem stands in `Prefill` itself.

Only model-checked:

- liveness (`RequestsLeave`, `ResponseEnds`), which is out of the prover's reach;
- `Runtime` and `SequenceHost`: a step is a fold over the sequences, rounds, pieces
  and tokens of a batch, and what it is compared with is a recursion over tokens or
  images, so that each needs induction over data. Only the width of one piece is
  proved;
- `Generation`, `Constrained`, `Dialects`, `Moe`, `Attention` and `DeltaNet`: their
  operators are recursive over texts, turns, tiles and tokens, and what a
  recursive definition computes for every input needs induction over data.

## Not modelled

Numerics, kernels, file formats and start-up, for good; each is listed in
`PROJECT.json` with its reason. They are most of the repository: the kernels, the
blocks and the forward pass with their differential tests, whose correctness is
a statement about floating-point results. What they do to positions, caches and
recurrent states is in `Runtime`; how, is not, but for the parts of a
layer in `Moe`, `Attention` and `DeltaNet`, where who reads and writes which slot is the
difficulty. Of the dialects, the model file's
own template, `/v1/completions` and the shape of the JSON are left out. Reading a
JSON schema into the kinds of values the grammar knows is left out as well: a
tool is given with its kinds.

Within the modelled parts: drafts longer than one token in `Engine` (a step there
is one request and one token wide), image lanes in the chains, the scores of the
router, `cap_output_reservation`, the draft heads (arbitrary guesses in
`Runtime`), and the read-only queries.

## Plan

1. Done: `Scheduler`, checked and its core proved.
2. Done: `Worker`, checked, with the scheduler's specification as the one it
   implements.
3. Done: `RadixTree`, checked and proved; `Engine` over it, checked.
4. Done: `Server` over an abstract engine.
5. Done: `Runtime` with the arena, `Prefill`, `Images`, `Drafters` and
   `SequenceHost`.
6. Done: `Generation` with `ToolParser`, `Grammar` and their composition.
7. Done: `Moe`, `Attention` and `DeltaNet`; `Conversation` and `Dialects`.
8. Done: proofs of `Server`, of the scheduler's batch and queue, of the worker's
   books and counts, and that `Worker` implements `Scheduler`.
9. Done: proofs of `Engine`'s six properties, over `TreeInv`.
10. Done: that a piece chosen by `Prefill` fits, for every position and configuration.
11. Left: the scores of the router; image lanes in the chains.
