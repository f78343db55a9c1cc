---------------------------- MODULE WorkerProofs ----------------------------
(***************************************************************************)
(* The worker drives its scheduler as the scheduler's specification        *)
(* allows, and its caches, its device and its scheduler stay in step       *)
(* through every failure of step_device, for every configuration and every *)
(* finite set of requests.                                                 *)
(***************************************************************************)
EXTENDS Worker, SchedulerProofs

-----------------------------------------------------------------------------
(* Every step of the worker is a step of its scheduler or none. *)

LEMMA WorkerStepIsSchedulerStep ==
    ASSUME WorkerInv, [WorkerNext]_allVars
    PROVE  [Next]_vars
  <1>1. CASE UNCHANGED allVars
    BY <1>1 DEF allVars
  <1>2. ASSUME NEW r \in Requests, AdmitTokens(r) PROVE Next
    BY <1>2 DEF AdmitTokens, Admit, Next
  <1>3. ASSUME NEW r \in Requests, CancelTokens(r) PROVE Next
    BY <1>3 DEF CancelTokens, Cancel, Next
  <1>4. CASE BeginStepDevice \/ PlanBatch
    BY <1>4 DEF BeginStepDevice, PlanBatch, Next, Step
  <1>5. CASE ReturnBatch
    BY <1>5 DEF Next, Step
  <1>6. CASE AdmitToDeviceFails \/ ReserveCacheFails \/ RuntimeStopped \/ UnknownDecode
             \/ DecodeFails \/ PrefillFails \/ RuntimeStops \/ EndExecute
    BY <1>5, <1>6 DEF AdmitToDeviceFails, ReserveCacheFails, RuntimeStopped, UnknownDecode,
                      DecodeFails, PrefillFails, RuntimeStops, EndExecute, DeviceFails,
                      StepFails
  <1>7. CASE AlreadyResident \/ AdmitToDevice \/ BeginExecute \/ DecodeSequence
             \/ BeginPrefills \/ PrefillSequence \/ BeginFinish \/ EndStepDevice
    BY <1>7 DEF AlreadyResident, AdmitToDevice, BeginExecute, DecodeSequence, BeginPrefills,
                PrefillSequence, BeginFinish, EndStepDevice, Advances, Enters
  <1>8. ASSUME NEW r \in Requests, AdvanceDecode(r) PROVE Next
    <2>1. emitted[r] \in Nat /\ emitted[r] > 1 /\ emitted[r] <= TokensPerDecodeStep
      BY <1>8 DEF AdvanceDecode, WorkerInv, WorkerTypeOK, OutputAfterPrompt
    <2>2. DraftTokens \in Nat
      BY ConfigAssumption
    <2>3. emitted[r] - 1 \in 1 .. DraftTokens
      BY <2>1, <2>2 DEF TokensPerDecodeStep
    <2>4. req[r].computed \in req[r].prompt .. FullSeqLen(r)
      BY <2>1 DEF WorkerInv, OutputAfterPrompt
    <2>5. IsDecodeReady(r)
      <3>1. FullSeqLen(r) \in Nat /\ req[r].prompt \in Nat
        BY SeqLenType DEF WorkerInv, IInv, TypeOK, TrackedRequest
      <3>2. QED
        BY <2>4, <3>1 DEF IsDecodeReady
    <2>6. QED
      BY <1>8, <2>3, <2>5 DEF AdvanceDecode, Accept, Next
  <1>9. ASSUME NEW r \in Requests, FinishCompleted(r) PROVE Next
    BY <1>9 DEF FinishCompleted, Finish, Next, WorkerInv, OutputAfterPrompt
  <1>10. QED
    BY <1>1, <1>2, <1>3, <1>4, <1>6, <1>7, <1>8, <1>9 DEF WorkerNext, StepDevice

\* What the scheduler's own proofs say of the next state.
LEMMA WorkerKeepsScheduler ==
    ASSUME WorkerInv, [WorkerNext]_allVars
    PROVE  IInv' /\ BatchInv'
  BY WorkerStepIsSchedulerStep, NextKeepsInvariant, NextKeepsBatch DEF WorkerInv

-----------------------------------------------------------------------------
(* What a planning step changes. *)

\* What planning may do to the requests and to the items of the batch.
Plans ==
    /\ ToSet(waiting') \cup ToSet(running') = ToSet(waiting) \cup ToSet(running)
    /\ ToSet(running) \subseteq ToSet(running')
    /\ \A r \in Requests : /\ req'[r].prompt = req[r].prompt
                           /\ req'[r].output = req[r].output
                           /\ req[r].computed <= req'[r].computed
    /\ \A r \in ToSet(running) : req'[r].blocks = req[r].blocks
    /\ \A i \in DOMAIN prefills' :
           \/ i \in DOMAIN prefills /\ prefills'[i] = prefills[i]
           \/ /\ req[prefills'[i].id].computed + prefills'[i].tokens
                     = req'[prefills'[i].id].computed
              /\ req'[prefills'[i].id].computed <= req[prefills'[i].id].prompt

LEMMA QuietPlans ==
    ASSUME IInv, UNCHANGED <<waiting, running, req>>,
           prefills' = prefills \/ prefills' = <<>>
    PROVE  Plans
  <1>1. \A r \in Requests : req[r].computed <= req[r].computed
    BY DEF IInv, TypeOK, TrackedRequest
  <1>2. QED
    BY <1>1 DEF Plans

LEMMA AppendItem ==
    ASSUME prefills \in Seq(PrefillItem), NEW item \in PrefillItem,
           prefills' = Append(prefills, item)
    PROVE  \A i \in DOMAIN prefills' :
               (i \in DOMAIN prefills /\ prefills'[i] = prefills[i]) \/ prefills'[i] = item
  OBVIOUS

LEMMA DecodePlans ==
    ASSUME IInv, NEW i \in 1 .. Len(running), DecodeOne(i)
    PROVE  Plans
  <1> DEFINE r == running[i]
  <1>1. /\ req' = [req EXCEPT ![r].computed = @ + 1]
        /\ UNCHANGED <<waiting, running, prefills>>
    BY DEF DecodeOne
  <1>2. r \in Requests /\ req \in [Requests -> TrackedRequest]
    BY DEF IInv, TypeOK
  <1>3. req'[r].computed = req[r].computed + 1
    BY <1>1, <1>2 DEF TrackedRequest
  <1> HIDE DEF r
  <1>4. /\ \A q \in Requests : /\ req'[q].prompt = req[q].prompt
                                /\ req'[q].output = req[q].output
                                /\ req'[q].blocks = req[q].blocks
        /\ \A q \in Requests \ {r} : req'[q] = req[q]
    BY <1>1, <1>2, GrantFacts
  <1>5. \A q \in Requests : req[q].computed <= req'[q].computed
    <2>1. \A q \in Requests : req[q].computed \in Nat
      BY <1>2 DEF TrackedRequest
    <2>2. QED
      BY <1>2, <1>3, <1>4, <2>1
  <1>6. ToSet(running) \subseteq Requests
    BY ElementType DEF IInv, TypeOK
  <1>7. QED
    BY <1>1, <1>4, <1>5, <1>6 DEF Plans

LEMMA PrefillPlans ==
    ASSUME IInv, NEW o \in 0 .. (Len(running) - 1), PrefillOne(o)
    PROVE  Plans
  <1> DEFINE r == Rotated(o)
             chunk == Chunk(r, Spendable)
             item == [id |-> r, tokens |-> chunk]
  <1>1. /\ Spendable > 0 /\ ~ IsDecodeReady(r)
        /\ req' = [req EXCEPT ![r].computed = @ + chunk]
        /\ prefills' = Append(prefills, item)
        /\ UNCHANGED <<waiting, running>>
    BY DEF PrefillOne, NextPrefill
  <1>2. /\ running \in Seq(Requests) /\ cursor \in Nat
        /\ req \in [Requests -> TrackedRequest]
        /\ reserve \in Nat /\ budget \in Nat
        /\ prefills \in Seq(PrefillItem)
    BY ConfigAssumption, CursorAssumption DEF IInv, TypeOK
  <1>3. r \in Requests
    BY <1>2, RotatedRuns, ElementType
  <1> HIDE DEF r
  <1>4. /\ req[r].computed \in Nat /\ req[r].prompt \in Nat
        /\ req[r].computed <= req[r].prompt
    BY <1>1, <1>2, <1>3 DEF IsDecodeReady, TrackedRequest
  <1>5. Spendable \in Nat
    BY <1>1, <1>2 DEF Spendable
  <1>6. chunk \in Nat /\ req[r].computed + chunk <= req[r].prompt
    BY <1>3, <1>4, <1>5, ChunkType DEF IInv
  <1> HIDE DEF chunk
  <1>7. item \in PrefillItem /\ item.id = r /\ item.tokens = chunk
    BY <1>3, <1>6 DEF PrefillItem
  <1>8. req'[r].computed = req[r].computed + chunk
    BY <1>1, <1>2, <1>3 DEF TrackedRequest
  <1>9. /\ \A q \in Requests : /\ req'[q].prompt = req[q].prompt
                                /\ req'[q].output = req[q].output
                                /\ req'[q].blocks = req[q].blocks
        /\ \A q \in Requests \ {r} : req'[q] = req[q]
    BY <1>1, <1>2, <1>3, <1>6, GrantFacts
  <1>10. \A q \in Requests : req[q].computed <= req'[q].computed
    <2>1. \A q \in Requests : req[q].computed \in Nat
      BY <1>2 DEF TrackedRequest
    <2>2. QED
      BY <1>3, <1>6, <1>8, <1>9, <2>1
  <1>11. ToSet(running) \subseteq Requests
    BY <1>2, ElementType
  <1> HIDE DEF item
  <1>12. \A i \in DOMAIN prefills' :
             (i \in DOMAIN prefills /\ prefills'[i] = prefills[i]) \/ prefills'[i] = item
    BY <1>1, <1>2, <1>7, AppendItem
  <1>13. /\ req[item.id].computed + item.tokens = req'[item.id].computed
         /\ req'[item.id].computed <= req[item.id].prompt
    BY <1>4, <1>6, <1>7, <1>8
  <1>14. QED
    BY <1>1, <1>9, <1>10, <1>11, <1>12, <1>13 DEF Plans

LEMMA AdmitPlans ==
    ASSUME IInv, AdmitOne,
           NEW r, r = Head(waiting),
           NEW needed, needed = AttentionBlocksNeeded(FullSeqLen(r)),
           NEW chunk, chunk = Chunk(r, budget)
    PROVE  Plans
  <1> DEFINE item == [id |-> r, tokens |-> chunk]
  <1>1. /\ waiting # <<>>
        /\ waiting' = Tail(waiting)
        /\ running' = Append(running, r)
        /\ req' = [req EXCEPT ![r] = [prompt |-> req[r].prompt, output |-> req[r].output,
                                      computed |-> req[r].computed + chunk,
                                      blocks |-> needed]]
        /\ prefills' = Append(prefills, item)
    BY DEF AdmitOne, AdmitFrom, AdmitGuard, AdmissionCanProceed
  <1>2. /\ waiting \in Seq(Requests) /\ running \in Seq(Requests)
        /\ prefills \in Seq(PrefillItem)
        /\ req \in [Requests -> TrackedRequest]
        /\ ToSet(waiting) \cap ToSet(running) = {}
        /\ budget \in Nat
    BY ConfigAssumption DEF IInv, TypeOK, TrackedOnce
  <1>3. /\ r \in Requests /\ r \in ToSet(waiting) /\ r \notin ToSet(running)
        /\ ToSet(waiting) = ToSet(waiting') \cup {r}
    BY <1>1, <1>2, TailFacts
  <1>4. needed \in Nat
    BY <1>3, SeqLenType DEF IInv
  <1>5. req[r].computed <= req[r].prompt
    BY <1>3 DEF IInv, PrefixWithinPrompt
  <1>6. chunk \in Nat /\ req[r].computed + chunk <= req[r].prompt
    BY <1>2, <1>3, <1>5, ChunkType DEF IInv
  <1>7. ToSet(running') = ToSet(running) \cup {r}
    BY <1>1, <1>2, <1>3, AppendFacts
  <1>8. item \in PrefillItem /\ item.id = r /\ item.tokens = chunk
    BY <1>3, <1>6 DEF PrefillItem
  <1>9. req'[r].computed = req[r].computed + chunk
    BY <1>1, <1>2, <1>3
  <1>10. /\ req'[r].prompt = req[r].prompt
         /\ req'[r].output = req[r].output
         /\ \A q \in Requests \ {r} : req'[q] = req[q]
    BY <1>1, <1>2, <1>3, <1>4, <1>6, ReserveFacts
  <1>11. \A q \in Requests : /\ req'[q].prompt = req[q].prompt
                              /\ req'[q].output = req[q].output
                              /\ req[q].computed <= req'[q].computed
    <2>1. \A q \in Requests : req[q].computed \in Nat
      BY <1>2 DEF TrackedRequest
    <2>2. QED
      BY <1>3, <1>6, <1>9, <1>10, <2>1
  <1>12. \A q \in ToSet(running) : req'[q].blocks = req[q].blocks
    <2>1. ToSet(running) \subseteq Requests \ {r}
      BY <1>2, <1>3, ElementType
    <2>2. QED
      BY <1>10, <2>1
  <1> HIDE DEF item
  <1>13. \A i \in DOMAIN prefills' :
             (i \in DOMAIN prefills /\ prefills'[i] = prefills[i]) \/ prefills'[i] = item
    BY <1>1, <1>2, <1>8, AppendItem
  <1>14. /\ req[item.id].computed + item.tokens = req'[item.id].computed
         /\ req'[item.id].computed <= req[item.id].prompt
    BY <1>6, <1>8, <1>9
  <1>15. QED
    BY <1>3, <1>7, <1>11, <1>12, <1>13, <1>14 DEF Plans

LEMMA PlanFacts == ASSUME IInv, Step PROVE Plans
  <1>1. CASE BeginStep \/ EndDecodes \/ EndPrefills \/ EndAdmissions \/ ReturnBatch
    BY <1>1, QuietPlans DEF BeginStep, EndDecodes, EndPrefills, EndAdmissions, ReturnBatch
  <1>2. QED
    BY <1>1, DecodePlans, PrefillPlans, AdmitPlans DEF Step, PlanStep

-----------------------------------------------------------------------------
(* Steps that take nothing new to the device and settle nothing. *)

Steady ==
    /\ Plans
    /\ UNCHANGED cacheVars
    /\ sequences' \subseteq sequences
    /\ \A r \in sequences' : seq'[r] = seq[r]
    /\ emitted' = NoneEmitted \/ (emitted' = emitted /\ UNCHANGED req)
    /\ done' \subseteq done
    /\ \A i \in Ahead' : i \in DOMAIN prefills => i \in Ahead

LEMMA ItemType ==
    ASSUME NEW s \in Seq(PrefillItem), NEW i \in DOMAIN s
    PROVE  s[i].id \in Requests /\ s[i].tokens \in Nat
  <1>1. s[i] \in PrefillItem
    OBVIOUS
  <1>2. QED
    BY <1>1 DEF PrefillItem

LEMMA WorkerTypes ==
    ASSUME WorkerInv
    PROVE  /\ req \in [Requests -> TrackedRequest]
           /\ \A r \in Requests : /\ req[r].computed \in Nat /\ req[r].prompt \in Nat
                                  /\ req[r].output \in Nat /\ req[r].blocks \in Nat
                                  /\ snapshot[r] \in Nat /\ emitted[r] \in Nat
                                  /\ seq[r].prefilled \in Nat /\ seq[r].emitted \in Nat
                                  /\ Base(r) \in Nat /\ FullSeqLen(r) \in Nat
           /\ prefills \in Seq(PrefillItem) /\ decodes \in Seq(Requests)
           /\ \A i \in DOMAIN prefills :
                  prefills[i].id \in Requests /\ prefills[i].tokens \in Nat
           /\ \A i \in DOMAIN decodes : decodes[i] \in Requests
           /\ pending \cup sequences \subseteq Requests
           /\ ToSet(running) \subseteq Requests /\ ToSet(waiting) \subseteq Requests
  <1>1. /\ req \in [Requests -> TrackedRequest]
        /\ prefills \in Seq(PrefillItem) /\ decodes \in Seq(Requests)
        /\ running \in Seq(Requests) /\ waiting \in Seq(Requests)
        /\ snapshot \in [Requests -> Nat] /\ emitted \in [Requests -> Nat]
        /\ seq \in [Requests -> DeviceSequence]
        /\ pending \cup sequences \subseteq Requests
    BY DEF WorkerInv, IInv, TypeOK, WorkerTypeOK
  <1>2. \A r \in Requests : /\ req[r].computed \in Nat /\ req[r].prompt \in Nat
                             /\ req[r].output \in Nat /\ req[r].blocks \in Nat
    BY <1>1 DEF TrackedRequest
  <1>3. \A r \in Requests : seq[r].prefilled \in Nat /\ seq[r].emitted \in Nat
    BY <1>1 DEF DeviceSequence
  <1>4. \A r \in Requests : snapshot[r] \in Nat /\ emitted[r] \in Nat /\ Base(r) \in Nat
    BY <1>1, <1>3 DEF Base
  <1>5. \A r \in Requests : FullSeqLen(r) \in Nat
    BY SeqLenType DEF WorkerInv, IInv
  <1>6. /\ \A i \in DOMAIN prefills :
                  prefills[i].id \in Requests /\ prefills[i].tokens \in Nat
        /\ \A i \in DOMAIN decodes : decodes[i] \in Requests
    BY <1>1, ItemType
  <1>7. ToSet(running) \subseteq Requests /\ ToSet(waiting) \subseteq Requests
    BY <1>1, ElementType
  <1>8. QED
    BY <1>1, <1>2, <1>3, <1>4, <1>5, <1>6, <1>7

LEMMA SteadyState == ASSUME WorkerInv, Steady PROVE StateFollowsScheduler'
  BY DEF WorkerInv, Steady, Plans, StateFollowsScheduler, cacheVars

LEMMA SteadyPools == ASSUME WorkerInv, Steady PROVE PoolsMirrorScheduler'
  <1>1. /\ UNCHANGED <<reserved, held, attentionFree, gdnFree>>
        /\ \A r \in reserved : req'[r].blocks = req[r].blocks
    BY DEF WorkerInv, Steady, Plans, StateFollowsScheduler, cacheVars
  <1>2. \A r \in Requests : held[r] = IF r \in reserved THEN req[r].blocks ELSE 0
    BY DEF WorkerInv, PoolsMirrorScheduler
  <1>3. \A r \in Requests : held'[r] = IF r \in reserved' THEN req'[r].blocks ELSE 0
    BY <1>1, <1>2
  <1>4. QED
    BY <1>1, <1>3 DEF WorkerInv, PoolsMirrorScheduler, Holdings

LEMMA SteadyCharged ==
    ASSUME WorkerInv, Steady, IInv'
    PROVE  ChargedBeforeSeen'
  <1>1. /\ pending' = pending /\ snapshot' = snapshot
        /\ sequences' \subseteq sequences
        /\ \A r \in sequences' : seq'[r] = seq[r]
        /\ \A r \in Requests : req[r].computed <= req'[r].computed
        /\ \A i \in Ahead' : i \in DOMAIN prefills => i \in Ahead
    BY DEF Steady, Plans, cacheVars
  <1>2. \A r \in pending' \cup sequences' : Base(r)' = Base(r) /\ r \in pending \cup sequences
    BY <1>1 DEF Base
  <1>3. \A r \in Requests : Base(r) \in Nat /\ req[r].computed \in Nat
    BY WorkerTypes
  <1>4. \A r \in Requests : req'[r].computed \in Nat
    BY DEF IInv, TypeOK, TrackedRequest
  <1>5. \A r \in pending \cup sequences : r \in Requests /\ Base(r) <= req[r].computed
    BY WorkerTypes DEF WorkerInv, ChargedBeforeSeen
  <1>6. \A a, b, c \in Nat : a <= b /\ b <= c => a <= c
    OBVIOUS
  <1>7. \A r \in pending \cup sequences : Base(r) <= req'[r].computed
    BY <1>1, <1>3, <1>4, <1>5, <1>6
  <1>8. ASSUME NEW i \in Ahead', NEW r \in pending' \cup sequences', prefills'[i].id = r
        PROVE  Base(r)' + prefills'[i].tokens <= req'[r].computed
    <2>2. PICK n : n = prefills'[i].tokens
      OBVIOUS
    <2>3. i \in DOMAIN prefills'
      BY DEF Ahead
    <2>4. n \in Nat
      BY <2>2, <2>3, ItemType DEF IInv, TypeOK
    <2>5. r \in pending \cup sequences /\ r \in Requests /\ Base(r)' = Base(r)
      BY <1>2, <1>5
    <2>6. CASE i \in DOMAIN prefills /\ prefills'[i] = prefills[i]
      <3>1. i \in Ahead /\ prefills[i].id = r /\ prefills[i].tokens = n
        BY <1>1, <1>8, <2>2, <2>6
      <3>2. Base(r) + n <= req[r].computed
        BY <2>5, <3>1 DEF WorkerInv, ChargedBeforeSeen
      <3>3. Base(r) + n \in Nat
        BY <1>3, <2>4, <2>5
      <3>4. Base(r) + n <= req'[r].computed
        BY <1>1, <1>3, <1>4, <1>6, <2>5, <3>2, <3>3
      <3>5. QED
        BY <2>2, <2>5, <3>4
    <2>7. CASE req[r].computed + n = req'[r].computed
      <3>1. Base(r) <= req[r].computed
        BY <1>5, <2>5
      <3>2. \A a, b, c \in Nat : a <= b => a + c <= b + c
        OBVIOUS
      <3>3. Base(r) + n <= req'[r].computed
        BY <1>3, <2>4, <2>5, <2>7, <3>1, <3>2
      <3>4. QED
        BY <2>2, <2>5, <3>3
    <2>8. QED
      BY <1>8, <2>2, <2>3, <2>6, <2>7 DEF Steady, Plans
  <1>9. \A r \in pending' \cup sequences' : Base(r)' <= req'[r].computed
    BY <1>2, <1>7
  <1>10. QED
    BY <1>8, <1>9 DEF ChargedBeforeSeen

LEMMA SteadyOutput ==
    ASSUME WorkerInv, Steady, IInv'
    PROVE  OutputAfterPrompt'
  <1>1. /\ ToSet(waiting') \cup ToSet(running') = ToSet(waiting) \cup ToSet(running)
        /\ \A r \in Requests : /\ req'[r].prompt = req[r].prompt
                               /\ req'[r].output = req[r].output
                               /\ req[r].computed <= req'[r].computed
        /\ sequences' \subseteq sequences
        /\ \A r \in sequences' : seq'[r] = seq[r]
        /\ done' \subseteq done
    BY DEF Steady, Plans
  <1>2. \A r \in ToSet(waiting) \cup ToSet(running) : r \in Requests
    BY WorkerTypes
  <1>3. /\ \A r \in Requests : /\ req[r].computed \in Nat /\ req[r].prompt \in Nat
                                /\ req'[r].computed \in Nat
    BY WorkerTypes DEF IInv, TypeOK, TrackedRequest
  <1>4. \A r \in Requests : IsDecodeReady(r) => IsDecodeReady(r)'
    BY <1>1, <1>3 DEF IsDecodeReady
  <1>5. sequences \cup done \subseteq Requests
    BY DEF WorkerInv, WorkerTypeOK
  <1>6. /\ \A r \in ToSet(waiting') \cup ToSet(running') : req'[r].output > 0
        /\ \A r \in sequences' : seq'[r].emitted > 0 => IsDecodeReady(r)'
        /\ \A r \in done' : IsDecodeReady(r)'
    BY <1>1, <1>2, <1>4, <1>5 DEF WorkerInv, OutputAfterPrompt
  <1>7. CASE emitted' = NoneEmitted
    <2>1. \A r \in Requests : ~ (emitted'[r] > 0)
      BY <1>7 DEF NoneEmitted
    <2>2. QED
      BY <1>6, <2>1 DEF OutputAfterPrompt
  <1>8. CASE emitted' = emitted /\ UNCHANGED req
    <2>1. \A r \in Requests : FullSeqLen(r)' = FullSeqLen(r)
      BY <1>8 DEF FullSeqLen
    <2>2. \A r \in Requests : emitted'[r] > 0 =>
               /\ emitted'[r] <= TokensPerDecodeStep
               /\ req'[r].computed \in req'[r].prompt .. FullSeqLen(r)'
      BY <1>8, <2>1 DEF WorkerInv, OutputAfterPrompt
    <2>3. QED
      BY <1>6, <2>2 DEF OutputAfterPrompt, TokensPerDecodeStep
  <1>9. QED
    BY <1>7, <1>8 DEF Steady

LEMMA SteadyKeeps ==
    ASSUME WorkerInv, Steady, IInv', BatchInv', WorkerTypeOK', StageFollows'
    PROVE  WorkerInv'
  BY SteadyState, SteadyPools, SteadyCharged, SteadyOutput DEF WorkerInv

LEMMA ForgottenFacts ==
    ASSUME seq \in [Requests -> DeviceSequence], NEW lost, seq' = Forgotten(lost)
    PROVE  /\ seq' \in [Requests -> DeviceSequence]
           /\ \A r \in Requests \ lost : seq'[r] = seq[r]
  <1>1. NoSequence \in DeviceSequence
    BY DEF NoSequence, DeviceSequence
  <1>2. QED
    BY <1>1 DEF Forgotten

LEMMA BatchIdsType == ASSUME WorkerInv PROVE BatchIds \subseteq Requests
  <1>1. ToSet(decodes) \subseteq Requests
    BY WorkerTypes, ElementType
  <1>2. QED
    BY <1>1, WorkerTypes DEF BatchIds

LEMMA PlanPhases ==
    ASSUME PlanStep
    PROVE  /\ phase \in {"decode", "prefill", "admit"}
           /\ phase' \in {"decode", "prefill", "admit", "planned"}
  BY DEF PlanStep, DecodeOne, EndDecodes, PrefillOne, EndPrefills, AdmitOne, AdmitGuard,
         AdmitFrom, EndAdmissions

LEMMA PlanBatchKeeps ==
    ASSUME WorkerInv, PlanBatch, IInv', BatchInv'
    PROVE  WorkerInv'
  <1>1. PlanStep /\ UNCHANGED workerVars
    BY DEF PlanBatch
  <1>2. Plans
    BY <1>1, PlanFacts DEF WorkerInv, Step
  <1>3. stage = "reserve" /\ stage' = "reserve"
    BY <1>1, PlanPhases DEF WorkerInv, WorkerTypeOK, Stages, workerVars, stepDeviceVars
  <1>4. Ahead = DOMAIN prefills
    BY <1>3 DEF Ahead
  <1>5. Steady
    BY <1>1, <1>2, <1>3, <1>4
       DEF Steady, workerVars, deviceVars, stepDeviceVars, WorkerInv, StageFollows
  <1>6. WorkerTypeOK'
    BY <1>1, <1>3, PlanPhases
       DEF WorkerInv, WorkerTypeOK, workerVars, cacheVars, deviceVars, stepDeviceVars
  <1>7. StageFollows'
    BY <1>1 DEF WorkerInv, StageFollows, workerVars, deviceVars, stepDeviceVars, NoneEmitted
  <1>8. QED
    BY <1>5, <1>6, <1>7, SteadyKeeps

LEMMA BeginStepKeeps ==
    ASSUME WorkerInv, BeginStepDevice, IInv', BatchInv'
    PROVE  WorkerInv'
  <1>1. /\ BeginStep /\ stage = "idle" /\ stage' = "reserve" /\ at' = 1
        /\ phase' = "decode" /\ prefills' = <<>>
        /\ UNCHANGED <<cacheVars, deviceVars, emitted, done, torn>>
    BY DEF BeginStepDevice, BeginStep
  <1>2. Plans
    BY <1>1, PlanFacts DEF WorkerInv, Step
  <1>3. Ahead' = {}
    BY <1>1 DEF Ahead
  <1>4. Steady
    BY <1>1, <1>2, <1>3 DEF Steady, deviceVars, WorkerInv, StageFollows
  <1>5. WorkerTypeOK'
    BY <1>1 DEF WorkerInv, WorkerTypeOK, cacheVars, deviceVars, Stages
  <1>6. StageFollows'
    BY <1>1 DEF WorkerInv, StageFollows, deviceVars, NoneEmitted
  <1>7. QED
    BY <1>4, <1>5, <1>6, SteadyKeeps

\* An error return of step_device: whatever the device forgets, what is left
\* agrees.
LEMMA FailureKeeps ==
    ASSUME WorkerInv, StepFails, UNCHANGED cacheVars, IInv', BatchInv',
           alive' \in BOOLEAN, NEW lost, sequences' = sequences \ lost, seq' = Forgotten(lost)
    PROVE  WorkerInv'
  <1>1. /\ ReturnBatch /\ phase = "planned" /\ phase' = "idle" /\ prefills' = <<>>
        /\ stage' = "idle" /\ at' = 0 /\ emitted' = NoneEmitted
        /\ torn' = torn \cup BatchIds /\ done' = done
    BY DEF StepFails, ReturnBatch
  <1>2. Plans
    BY <1>1, PlanFacts DEF WorkerInv, Step
  <1>3. Ahead' = {}
    BY <1>1 DEF Ahead
  <1>4. seq' \in [Requests -> DeviceSequence] /\ \A r \in sequences' : seq'[r] = seq[r]
    BY ForgottenFacts DEF WorkerInv, WorkerTypeOK
  <1>5. Steady
    BY <1>1, <1>2, <1>3, <1>4 DEF Steady
  <1>6. NoneEmitted \in [Requests -> Nat]
    BY DEF NoneEmitted
  <1>7. WorkerTypeOK'
    BY <1>1, <1>4, <1>6, BatchIdsType DEF WorkerInv, WorkerTypeOK, cacheVars, Stages
  <1>8. done = {}
    BY <1>1 DEF WorkerInv, StageFollows, WorkerTypeOK
  <1>9. StageFollows'
    BY <1>1, <1>8 DEF StageFollows, NoneEmitted
  <1>10. QED
    BY <1>5, <1>7, <1>9, SteadyKeeps

LEMMA NothingForgotten ==
    ASSUME WorkerInv, UNCHANGED <<sequences, seq>>
    PROVE  sequences' = sequences \ {} /\ seq' = Forgotten({})
  BY DEF WorkerInv, WorkerTypeOK, Forgotten

LEMMA ErrorsKeep ==
    ASSUME WorkerInv, IInv', BatchInv',
           ReserveCacheFails \/ RuntimeStopped \/ UnknownDecode \/ DecodeFails
           \/ PrefillFails \/ RuntimeStops
    PROVE  WorkerInv'
  <1>1. alive \in BOOLEAN /\ sequences \subseteq Requests
    BY DEF WorkerInv, WorkerTypeOK
  <1>2. CASE ReserveCacheFails
    BY <1>1, <1>2, NothingForgotten, FailureKeeps DEF ReserveCacheFails, deviceVars
  <1>3. ASSUME NEW lost, DeviceFails(lost) PROVE WorkerInv'
    BY <1>1, <1>3, FailureKeeps DEF DeviceFails
  <1>4. CASE RuntimeStops
    <2>1. /\ StepFails /\ UNCHANGED cacheVars /\ alive' \in BOOLEAN
          /\ sequences' = sequences \ Requests /\ seq' = Forgotten(Requests)
      BY <1>1, <1>4 DEF RuntimeStops
    <2>2. QED
      BY <2>1, FailureKeeps
  <1>5. QED
    BY <1>2, <1>3, <1>4 DEF RuntimeStopped, UnknownDecode, DecodeFails, PrefillFails

\* Moves from one loop of step_device to the next, and over a resident request.
LEMMA MovesKeep ==
    ASSUME WorkerInv, IInv', BatchInv', UNCHANGED <<vars, cacheVars, deviceVars>>,
           AlreadyResident \/ BeginExecute \/ BeginPrefills \/ BeginFinish \/ EndStepDevice
    PROVE  WorkerInv'
  <1>1. Plans
    BY QuietPlans DEF WorkerInv, vars
  <1>2. UNCHANGED <<phase, prefills>>
    BY DEF vars
  <1>3. /\ at' \in Nat /\ done' = done /\ torn' = torn
        /\ emitted' = emitted \/ emitted' = NoneEmitted
    BY DEF AlreadyResident, BeginExecute, BeginPrefills, BeginFinish, EndStepDevice,
           Advances, Enters, WorkerInv, WorkerTypeOK
  <1>4. NoneEmitted \in [Requests -> Nat]
    BY DEF NoneEmitted
  <1>5. WorkerTypeOK'
    BY <1>2, <1>3, <1>4
       DEF AlreadyResident, BeginExecute, BeginPrefills, BeginFinish, EndStepDevice,
           Advances, Enters, WorkerInv, WorkerTypeOK, Stages, cacheVars, deviceVars,
           ReserveLoop, Executing
  <1>6. StageFollows'
    BY <1>3 DEF AlreadyResident, BeginExecute, BeginPrefills, BeginFinish, EndStepDevice,
           Advances, Enters, WorkerInv, StageFollows, deviceVars, NoneEmitted,
           ReserveLoop, Executing
  <1>7. \A i \in Ahead' : i \in DOMAIN prefills => i \in Ahead
    BY <1>2 DEF Ahead, AlreadyResident, BeginExecute, BeginPrefills, BeginFinish,
           EndStepDevice, Advances, Enters, ReserveLoop, Executing
  <1>8. Steady
    BY <1>1, <1>3, <1>7 DEF Steady, cacheVars, deviceVars, vars
  <1>9. QED
    BY <1>5, <1>6, <1>8, SteadyKeeps

-----------------------------------------------------------------------------
(* Steps of the device. *)

LEMMA SeqUpdate ==
    ASSUME seq \in [Requests -> DeviceSequence], NEW r \in Requests,
           NEW p \in Nat, NEW e \in Nat, NEW b \in BOOLEAN,
           seq' = [seq EXCEPT ![r] = [prefilled |-> p, emitted |-> e, next |-> b]]
    PROVE  /\ seq' \in [Requests -> DeviceSequence]
           /\ seq'[r].prefilled = p
           /\ seq'[r].emitted = e
           /\ \A q \in Requests \ {r} : seq'[q] = seq[q]
  <1>1. [prefilled |-> p, emitted |-> e, next |-> b] \in DeviceSequence
    BY DEF DeviceSequence
  <1>2. QED
    BY <1>1

LEMMA CacheAlone ==
    ASSUME WorkerInv, UNCHANGED <<vars, cacheVars, sequences, done>>
    PROVE  StateFollowsScheduler' /\ PoolsMirrorScheduler'
  BY DEF WorkerInv, StateFollowsScheduler, PoolsMirrorScheduler, vars, cacheVars, Holdings

LEMMA WindowType ==
    ASSUME WorkerInv, NEW r \in Requests
    PROVE  Window(r) \in Nat /\ Window(r) <= TokensPerDecodeStep
  <1>1. req[r].output \in Nat /\ seq[r].emitted \in Nat /\ DraftTokens \in Nat
    BY WorkerTypes, ConfigAssumption
  <1>2. QED
    BY <1>1 DEF Window, Lesser, TokensPerDecodeStep

LEMMA DecodeSequenceKeeps ==
    ASSUME WorkerInv, DecodeSequence, IInv', BatchInv'
    PROVE  WorkerInv'
  <1>1. PICK r : r = decodes[at]
    OBVIOUS
  <1>2. PICK n \in 0 .. Window(r), eos \in BOOLEAN :
            /\ seq' = [seq EXCEPT ![r] =
                          [prefilled |-> seq[r].prefilled, next |-> TRUE,
                           emitted |-> IF eos THEN req[r].output
                                              ELSE seq[r].emitted + n]]
            /\ emitted' = [emitted EXCEPT ![r] = n]
    BY <1>1 DEF DecodeSequence
  <1>3. /\ phase = "planned" /\ stage = "decode" /\ at \in DOMAIN decodes
        /\ at' = at + 1 /\ UNCHANGED <<vars, stage, done, torn>>
        /\ UNCHANGED <<cacheVars, alive, sequences>>
    BY DEF DecodeSequence, Executing, Advances
  <1>4. r \in Requests /\ r \in ToSet(decodes)
    BY <1>1, <1>3, WorkerTypes DEF ToSet
  <1>5. n \in Nat /\ n <= TokensPerDecodeStep
    <2>1. Window(r) \in Nat /\ Window(r) <= TokensPerDecodeStep
      BY <1>4, WindowType
    <2>2. QED
      BY <2>1, DecodeCost
  <1>6. PICK e \in Nat : e = IF eos THEN req[r].output ELSE seq[r].emitted + n
    <2>1. req[r].output \in Nat /\ seq[r].emitted + n \in Nat
      BY <1>4, <1>5, WorkerTypes
    <2>2. QED
      BY <2>1
  <1>7. seq' = [seq EXCEPT ![r] = [prefilled |-> seq[r].prefilled, emitted |-> e, next |-> TRUE]]
    BY <1>2, <1>6
  <1>8. /\ seq' \in [Requests -> DeviceSequence]
        /\ seq'[r].prefilled = seq[r].prefilled
        /\ \A q \in Requests \ {r} : seq'[q] = seq[q]
    <2>1. seq \in [Requests -> DeviceSequence] /\ seq[r].prefilled \in Nat
      BY <1>4, WorkerTypes DEF WorkerInv, WorkerTypeOK
    <2>2. QED
      BY <1>4, <1>7, <2>1, SeqUpdate
  <1>9. emitted' \in [Requests -> Nat] /\ emitted'[r] = n
        /\ \A q \in Requests \ {r} : emitted'[q] = emitted[q]
    BY <1>2, <1>4, <1>5 DEF WorkerInv, WorkerTypeOK
  <1>10. WorkerTypeOK'
    BY <1>3, <1>8, <1>9 DEF WorkerInv, WorkerTypeOK, vars, cacheVars
  <1>11. StageFollows'
    BY <1>3 DEF WorkerInv, StageFollows
  <1>12. \A q \in Requests : Base(q)' = Base(q)
    BY <1>3, <1>8 DEF Base, cacheVars
  <1>13. Ahead' = Ahead
    BY <1>3 DEF Ahead, vars
  <1>14. ChargedBeforeSeen'
    <2>1. UNCHANGED <<pending, sequences, req, prefills>> /\ pending \cup sequences \subseteq Requests
      BY <1>3, WorkerTypes DEF vars, cacheVars
    <2>2. QED
      BY <1>12, <1>13, <2>1 DEF WorkerInv, ChargedBeforeSeen
  <1>15. req[r].computed \in req[r].prompt .. FullSeqLen(r)
    BY <1>4 DEF WorkerInv, BatchInv
  <1>16. IsDecodeReady(r)
    BY <1>4, <1>15, WorkerTypes DEF IsDecodeReady
  <1>17. OutputAfterPrompt'
    <2>1. UNCHANGED <<waiting, running, req, sequences, done>> /\ sequences \subseteq Requests
      BY <1>3 DEF vars, WorkerInv, WorkerTypeOK
    <2>2. \A q \in Requests : FullSeqLen(q)' = FullSeqLen(q) /\ IsDecodeReady(q)' = IsDecodeReady(q)
      BY <2>1 DEF FullSeqLen, IsDecodeReady
    <2>3. \A q \in sequences' : seq'[q].emitted > 0 => IsDecodeReady(q)'
      BY <1>8, <1>16, <2>1, <2>2 DEF WorkerInv, OutputAfterPrompt
    <2>4. \A q \in Requests : emitted'[q] > 0 =>
              /\ emitted'[q] <= TokensPerDecodeStep
              /\ req'[q].computed \in req'[q].prompt .. FullSeqLen(q)'
      BY <1>5, <1>9, <1>15, <2>1, <2>2 DEF WorkerInv, OutputAfterPrompt
    <2>5. QED
      BY <2>1, <2>2, <2>3, <2>4 DEF WorkerInv, OutputAfterPrompt, IsDecodeReady, TokensPerDecodeStep
  <1>18. QED
    BY <1>3, <1>10, <1>11, <1>14, <1>17, CacheAlone DEF WorkerInv

LEMMA PrefillSequenceKeeps ==
    ASSUME WorkerInv, PrefillSequence, IInv', BatchInv'
    PROVE  WorkerInv'
  <1>1. PICK r, k : r = prefills[at].id /\ k = prefills[at].tokens
    OBVIOUS
  <1>2. /\ phase = "planned" /\ stage = "prefill" /\ at \in DOMAIN prefills
        /\ r \in sequences
        /\ at' = at + 1 /\ UNCHANGED <<vars, stage, done, torn>>
        /\ UNCHANGED <<cacheVars, alive, sequences, emitted>>
    BY <1>1 DEF PrefillSequence, Prefilling, Executing, Advances
  <1>3. /\ r \in Requests /\ k \in Nat
        /\ seq \in [Requests -> DeviceSequence]
        /\ seq[r].prefilled \in Nat /\ seq[r].emitted \in Nat /\ req[r].output \in Nat
        /\ seq[r].next \in BOOLEAN
    BY <1>1, <1>2, WorkerTypes DEF WorkerInv, WorkerTypeOK, DeviceSequence
  <1>4. PICK end \in Nat : end = seq[r].prefilled + k
    BY <1>3
  <1>5. PICK e \in Nat, b \in BOOLEAN :
            /\ seq' = [seq EXCEPT ![r] = [prefilled |-> end, emitted |-> e, next |-> b]]
            /\ e = seq[r].emitted \/ end = req[r].prompt
    <2>1. CASE end # req[r].prompt
      <3>1. PICK named \in BOOLEAN :
                seq' = [seq EXCEPT ![r] =
                                [prefilled |-> end, emitted |-> seq[r].emitted,
                                 next |-> seq[r].next \/ (named /\ k > 0)]]
        BY <1>1, <1>4, <2>1 DEF PrefillSequence
      <3>2. (seq[r].next \/ (named /\ k > 0)) \in BOOLEAN
        OBVIOUS
      <3>3. QED
        BY <1>3, <3>1, <3>2
    <2>2. CASE end = req[r].prompt
      <3>1. PICK eos \in BOOLEAN :
                seq' = [seq EXCEPT ![r] =
                                [prefilled |-> end, next |-> TRUE,
                                 emitted |-> IF eos THEN req[r].output
                                                    ELSE seq[r].emitted + 1]]
        BY <1>1, <1>4, <2>2 DEF PrefillSequence
      <3>2. PICK e \in Nat : e = IF eos THEN req[r].output ELSE seq[r].emitted + 1
        BY <1>3
      <3>3. seq' = [seq EXCEPT ![r] = [prefilled |-> end, emitted |-> e, next |-> TRUE]]
        BY <3>1, <3>2
      <3>4. QED
        BY <2>2, <3>3
    <2>3. QED
      BY <2>1, <2>2
  <1>6. /\ seq' \in [Requests -> DeviceSequence]
        /\ seq'[r].prefilled = end /\ seq'[r].emitted = e
        /\ \A q \in Requests \ {r} : seq'[q] = seq[q]
    BY <1>3, <1>5, SeqUpdate
  <1>7. WorkerTypeOK'
    BY <1>2, <1>6 DEF WorkerInv, WorkerTypeOK, vars, cacheVars
  <1>8. StageFollows'
    BY <1>2 DEF WorkerInv, StageFollows
  <1>9. r \notin pending /\ Base(r) = seq[r].prefilled /\ Base(r)' = end
    <2>1. r \notin pending
      BY <1>2 DEF WorkerInv, StateFollowsScheduler
    <2>2. QED
      BY <1>2, <1>6, <2>1 DEF Base, cacheVars
  <1>10. end <= req[r].computed
    <2>1. at \in Ahead
      BY <1>2, WorkerTypes DEF Ahead, WorkerInv, WorkerTypeOK
    <2>2. QED
      BY <1>1, <1>2, <1>4, <1>9, <2>1 DEF WorkerInv, ChargedBeforeSeen
  <1>11. \A q \in Requests \ {r} : Base(q)' = Base(q)
    BY <1>2, <1>6 DEF Base, cacheVars
  <1>12. \A i \in Ahead' : i \in Ahead /\ prefills[i].id # r
    <2>1. IsInjective(PrefillIds)
      BY <1>2 DEF WorkerInv, BatchInv, StepSpendsItsBudget
    <2>2. SUFFICES ASSUME NEW i \in Ahead' PROVE i \in Ahead /\ prefills[i].id # r
      OBVIOUS
    <2>3. i \in DOMAIN prefills /\ i >= at + 1 /\ i \in Nat /\ at \in Nat
      BY <1>2, WorkerTypes DEF Ahead, vars, WorkerInv, WorkerTypeOK
    <2>4. i \in Ahead /\ i # at
      BY <2>3 DEF Ahead
    <2>5. prefills[i].id # prefills[at].id
      BY <1>2, <2>1, <2>3, <2>4 DEF IsInjective, PrefillIds
    <2>6. QED
      BY <1>1, <2>4, <2>5
  <1>13. ChargedBeforeSeen'
    <2>1. UNCHANGED <<pending, sequences, req, prefills>> /\ pending \cup sequences \subseteq Requests
      BY <1>2, WorkerTypes DEF vars, cacheVars
    <2>2. \A q \in pending' \cup sequences' : Base(q)' <= req'[q].computed
      BY <1>9, <1>10, <1>11, <2>1 DEF WorkerInv, ChargedBeforeSeen
    <2>3. ASSUME NEW i \in Ahead', NEW q \in pending' \cup sequences', prefills'[i].id = q
          PROVE  Base(q)' + prefills'[i].tokens <= req'[q].computed
      <3>1. i \in Ahead /\ q \in pending \cup sequences /\ q \in Requests \ {r} /\ prefills[i].id = q
        BY <1>12, <2>1, <2>3
      <3>2. Base(q) + prefills[i].tokens <= req[q].computed
        BY <3>1 DEF WorkerInv, ChargedBeforeSeen
      <3>3. QED
        BY <1>11, <2>1, <3>1, <3>2
    <2>4. QED
      BY <2>2, <2>3 DEF ChargedBeforeSeen
  <1>14. OutputAfterPrompt'
    <2>1. UNCHANGED <<waiting, running, req, sequences, done, emitted>> /\ sequences \subseteq Requests
      BY <1>2 DEF vars, WorkerInv, WorkerTypeOK
    <2>2. \A q \in Requests : FullSeqLen(q)' = FullSeqLen(q) /\ IsDecodeReady(q)' = IsDecodeReady(q)
      BY <2>1 DEF FullSeqLen, IsDecodeReady
    <2>3. e > 0 => IsDecodeReady(r)
      <3>1. CASE e = seq[r].emitted
        BY <1>2, <3>1 DEF WorkerInv, OutputAfterPrompt
      <3>2. CASE end = req[r].prompt
        BY <1>3, <1>10, <3>2, WorkerTypes DEF IsDecodeReady
      <3>3. QED
        BY <1>5, <3>1, <3>2
    <2>4. \A q \in sequences' : seq'[q].emitted > 0 => IsDecodeReady(q)'
      BY <1>6, <2>1, <2>2, <2>3 DEF WorkerInv, OutputAfterPrompt
    <2>5. QED
      BY <2>1, <2>2, <2>4 DEF WorkerInv, OutputAfterPrompt, IsDecodeReady, TokensPerDecodeStep
  <1>15. QED
    BY <1>2, <1>7, <1>8, <1>13, <1>14, CacheAlone DEF WorkerInv

-----------------------------------------------------------------------------
(* reserve_cache and release_cache, against the scheduler's books. *)

LEMMA HeldType ==
    ASSUME WorkerInv
    PROVE  /\ held \in [Requests -> 0 .. TotalBlocks]
           /\ IsFiniteSet(reserved) /\ Cardinality(reserved) \in Nat
           /\ Cardinality(Holdings(held)) \in Nat
  <1>1. held \in [Requests -> Nat] /\ TotalBlocks \in Nat
    BY ConfigAssumption DEF WorkerInv, WorkerTypeOK
  <1>2. \A r \in Requests : held[r] <= TotalBlocks
    BY <1>1 DEF WorkerInv, PoolsMirrorScheduler, IInv
  <1>3. IsFiniteSet(reserved)
    BY RequestAssumption, FS_Subset DEF WorkerInv, WorkerTypeOK
  <1>4. QED
    BY <1>1, <1>2, <1>3, FS_CardinalityType, HoldingsFinite

LEMMA ReservePools ==
    ASSUME WorkerInv, NEW r \in pending, ReserveCache(r),
           \A q \in Requests : req'[q].blocks = req[q].blocks
    PROVE  /\ PoolsMirrorScheduler'
           /\ held' \in [Requests -> Nat] /\ attentionFree' \in Nat /\ gdnFree' \in Nat
  <1>1. /\ reserved' = reserved \cup {r}
        /\ held' = [held EXCEPT ![r] = req[r].blocks]
        /\ attentionFree >= req[r].blocks
        /\ attentionFree' = attentionFree - req[r].blocks
        /\ gdnFree > 0
        /\ gdnFree' = gdnFree - 1
    BY DEF ReserveCache, CanReserve
  <1>2. /\ r \in Requests /\ r \notin reserved
        /\ attentionFree \in Nat /\ gdnFree \in Nat /\ GdnSlots \in Nat /\ TotalBlocks \in Nat
    BY ConfigAssumption, WorkerAssumption DEF WorkerInv, WorkerTypeOK, StateFollowsScheduler
  <1>3. /\ held \in [Requests -> 0 .. TotalBlocks]
        /\ IsFiniteSet(reserved) /\ Cardinality(reserved) \in Nat
        /\ Cardinality(Holdings(held)) \in Nat
    BY HeldType
  <1>4. req[r].blocks \in Nat /\ req[r].blocks <= TotalBlocks
    BY <1>2, WorkerTypes DEF WorkerInv, IInv
  <1>5. /\ \A q \in Requests : held[q] = IF q \in reserved THEN req[q].blocks ELSE 0
        /\ attentionFree + Cardinality(Holdings(held)) = TotalBlocks
        /\ gdnFree + Cardinality(reserved) = GdnSlots
    BY DEF WorkerInv, PoolsMirrorScheduler
  <1>6. /\ held' \in [Requests -> 0 .. TotalBlocks]
        /\ held'[r] = req[r].blocks
        /\ \A q \in Requests \ {r} : held'[q] = held[q]
    BY <1>1, <1>2, <1>3, <1>4
  <1>7. held[r] = 0
    BY <1>2, <1>5
  <1>8. Cardinality(Holdings(held')) = Cardinality(Holdings(held)) - 0 + req[r].blocks
    BY <1>2, <1>3, <1>6, <1>7, HoldingsUpdate
  <1>9. attentionFree' + Cardinality(Holdings(held')) = TotalBlocks
    <2>1. \A a, b, c, d \in Nat : a >= d /\ a + b = c => (a - d) + (b - 0 + d) = c
      OBVIOUS
    <2>2. QED
      BY <1>1, <1>2, <1>3, <1>4, <1>5, <1>8, <2>1
  <1>10. Cardinality(reserved') = Cardinality(reserved) + 1
    BY <1>1, <1>2, <1>3, FS_AddElement
  <1>11. gdnFree' + Cardinality(reserved') = GdnSlots
    BY <1>1, <1>2, <1>3, <1>5, <1>10
  <1>12. \A q \in Requests : held'[q] = IF q \in reserved' THEN req'[q].blocks ELSE 0
    BY <1>1, <1>2, <1>5, <1>6
  <1>13. held' \in [Requests -> Nat] /\ attentionFree' \in Nat /\ gdnFree' \in Nat
    BY <1>1, <1>2, <1>4, <1>6
  <1>14. QED
    BY <1>9, <1>11, <1>12, <1>13 DEF PoolsMirrorScheduler, Holdings

LEMMA ReleasePools ==
    ASSUME WorkerInv, NEW r \in Requests, ReleaseCache(r),
           \A q \in Requests \ {r} : req'[q].blocks = req[q].blocks
    PROVE  /\ PoolsMirrorScheduler'
           /\ held' \in [Requests -> Nat] /\ attentionFree' \in Nat /\ gdnFree' \in Nat
  <1>1. /\ reserved' = reserved \ {r}
        /\ held' = [held EXCEPT ![r] = 0]
        /\ attentionFree' = attentionFree + held[r]
        /\ gdnFree' = gdnFree + Cardinality(reserved \cap {r})
    BY DEF ReleaseCache
  <1>2. /\ attentionFree \in Nat /\ gdnFree \in Nat /\ GdnSlots \in Nat /\ TotalBlocks \in Nat
    BY ConfigAssumption, WorkerAssumption DEF WorkerInv, WorkerTypeOK
  <1>3. /\ held \in [Requests -> 0 .. TotalBlocks]
        /\ IsFiniteSet(reserved) /\ Cardinality(reserved) \in Nat
        /\ Cardinality(Holdings(held)) \in Nat
    BY HeldType
  <1>4. held[r] \in Nat /\ 0 \in 0 .. TotalBlocks
    BY <1>2, <1>3
  <1>5. /\ \A q \in Requests : held[q] = IF q \in reserved THEN req[q].blocks ELSE 0
        /\ attentionFree + Cardinality(Holdings(held)) = TotalBlocks
        /\ gdnFree + Cardinality(reserved) = GdnSlots
    BY DEF WorkerInv, PoolsMirrorScheduler
  <1>6. /\ held' \in [Requests -> 0 .. TotalBlocks]
        /\ held'[r] = 0
        /\ \A q \in Requests \ {r} : held'[q] = held[q]
    BY <1>1, <1>3, <1>4
  <1>7. Cardinality(Holdings(held')) = Cardinality(Holdings(held)) - held[r] + 0
    BY <1>3, <1>6, HoldingsUpdate
  <1>8. attentionFree' + Cardinality(Holdings(held')) = TotalBlocks
    <2>1. \A a, b, c, d \in Nat : a + b = c => (a + d) + (b - d + 0) = c
      OBVIOUS
    <2>2. QED
      BY <1>1, <1>2, <1>3, <1>4, <1>5, <1>7, <2>1
  <1>9. gdnFree' + Cardinality(reserved') = GdnSlots /\ gdnFree' \in Nat
    <2>1. CASE r \in reserved
      <3>1. reserved \cap {r} = {r} /\ Cardinality({r}) = 1
        BY <2>1, FS_Singleton
      <3>2. Cardinality(reserved') = Cardinality(reserved) - 1
        BY <1>1, <1>3, <2>1, FS_RemoveElement
      <3>3. gdnFree' = gdnFree + 1
        BY <1>1, <3>1
      <3>4. QED
        BY <1>2, <1>3, <1>5, <3>2, <3>3
    <2>2. CASE r \notin reserved
      <3>1. reserved \cap {r} = {} /\ Cardinality({}) = 0 /\ reserved' = reserved
        BY <1>1, <2>2, FS_EmptySet
      <3>2. gdnFree' = gdnFree + 0
        BY <1>1, <3>1
      <3>3. QED
        BY <1>2, <1>3, <1>5, <3>1, <3>2
    <2>3. QED
      BY <2>1, <2>2
  <1>10. \A q \in Requests : held'[q] = IF q \in reserved' THEN req'[q].blocks ELSE 0
    BY <1>1, <1>5, <1>6
  <1>11. held' \in [Requests -> Nat] /\ attentionFree' \in Nat
    BY <1>1, <1>2, <1>4, <1>6
  <1>12. QED
    BY <1>8, <1>9, <1>10, <1>11 DEF PoolsMirrorScheduler, Holdings

-----------------------------------------------------------------------------
(* A newcomer of the batch moves from the host to the device, or is lost on *)
(* the way.                                                                 *)

LEMMA NewcomerRuns ==
    ASSUME WorkerInv, ReserveLoop
    PROVE  /\ Newcomer \in ToSet(running) /\ Newcomer \in Requests
           /\ stage = "reserve" /\ phase = "planned"
           /\ emitted = NoneEmitted /\ done = {} /\ Ahead = DOMAIN prefills
  <1>1. Newcomer \in ToSet(PrefillIds)
    BY DEF ReserveLoop, Newcomer, ToSet, PrefillIds
  <1>2. QED
    BY <1>1, WorkerTypes
       DEF ReserveLoop, Newcomer, WorkerInv, BatchInv, StageFollows, Ahead

LEMMA AdmissionKeeps ==
    ASSUME WorkerInv, NEW r \in pending, r \in ToSet(running), ReserveCache(r),
           UNCHANGED <<waiting, running, req, done>>, emitted' = NoneEmitted,
           sequences' \subseteq sequences \cup {r},
           \A q \in Requests \ {r} : seq'[q] = seq[q],
           r \in sequences' => seq'[r].emitted = 0 /\ seq'[r].prefilled \in 0 .. snapshot[r]
    PROVE  /\ StateFollowsScheduler' /\ PoolsMirrorScheduler' /\ OutputAfterPrompt'
           /\ pending' \subseteq Requests /\ reserved' \subseteq Requests
           /\ snapshot' \in [Requests -> Nat]
           /\ held' \in [Requests -> Nat] /\ attentionFree' \in Nat /\ gdnFree' \in Nat
           /\ \A q \in pending' \cup sequences' :
                  q \in pending \cup sequences /\ Base(q)' \in 0 .. Base(q)
  <1>1. /\ reserved' = reserved \cup {r}
        /\ pending' = pending \ {r}
        /\ snapshot' = [snapshot EXCEPT ![r] = 0]
    BY DEF ReserveCache
  <1>2. /\ pending \subseteq Requests /\ sequences \subseteq Requests
        /\ reserved \subseteq Requests /\ snapshot \in [Requests -> Nat]
        /\ r \notin reserved /\ r \notin sequences
    BY DEF WorkerInv, WorkerTypeOK, StateFollowsScheduler
  <1>3. StateFollowsScheduler'
    BY <1>1 DEF WorkerInv, StateFollowsScheduler
  <1>4. /\ PoolsMirrorScheduler'
        /\ held' \in [Requests -> Nat] /\ attentionFree' \in Nat /\ gdnFree' \in Nat
    BY ReservePools
  <1>5. /\ pending' \subseteq Requests /\ reserved' \subseteq Requests
        /\ snapshot' \in [Requests -> Nat]
        /\ \A q \in Requests \ {r} : snapshot'[q] = snapshot[q]
    BY <1>1, <1>2
  <1>6. \A q \in Requests : FullSeqLen(q)' = FullSeqLen(q) /\ IsDecodeReady(q)' = IsDecodeReady(q)
    BY DEF FullSeqLen, IsDecodeReady
  <1>7. OutputAfterPrompt'
    <2>1. \A q \in Requests : ~ (emitted'[q] > 0)
      BY DEF NoneEmitted
    <2>2. \A q \in sequences' : seq'[q].emitted > 0 => IsDecodeReady(q)'
      BY <1>2, <1>6 DEF WorkerInv, OutputAfterPrompt
    <2>3. \A q \in done' : IsDecodeReady(q)'
      BY <1>6 DEF WorkerInv, OutputAfterPrompt, WorkerTypeOK
    <2>4. QED
      BY <2>1, <2>2, <2>3 DEF WorkerInv, OutputAfterPrompt
  <1>8. ASSUME NEW q \in pending' \cup sequences'
        PROVE  q \in pending \cup sequences /\ Base(q)' \in 0 .. Base(q)
    <2>1. q \in pending \cup sequences /\ q \in Requests
      BY <1>1, <1>2
    <2>2. CASE q = r
      <3>1. Base(q)' = seq'[r].prefilled /\ Base(q) = snapshot[r] /\ r \in sequences'
        BY <1>1, <2>2 DEF Base
      <3>2. QED
        BY <2>1, <3>1
    <2>3. CASE q # r
      <3>1. Base(q)' = Base(q)
        BY <1>1, <1>5, <2>1, <2>3 DEF Base
      <3>2. Base(q) \in Nat
        BY <2>1, WorkerTypes
      <3>3. QED
        BY <2>1, <3>1, <3>2
    <2>4. QED
      BY <2>2, <2>3
  <1>9. QED
    BY <1>3, <1>4, <1>5, <1>7, <1>8

LEMMA AdmissionCharged ==
    ASSUME WorkerInv, UNCHANGED req, Ahead' \subseteq Ahead,
           \A i \in Ahead' : prefills'[i] = prefills[i],
           \A q \in pending' \cup sequences' :
                  q \in pending \cup sequences /\ Base(q)' \in 0 .. Base(q)
    PROVE  ChargedBeforeSeen'
  <1>1. \A q \in pending \cup sequences :
            /\ q \in Requests /\ Base(q) \in Nat /\ req[q].computed \in Nat
            /\ Base(q) <= req[q].computed
    BY WorkerTypes DEF WorkerInv, ChargedBeforeSeen
  <1>2. \A q \in pending' \cup sequences' : Base(q)' <= req'[q].computed
    BY <1>1
  <1>3. ASSUME NEW i \in Ahead', NEW q \in pending' \cup sequences', prefills'[i].id = q
        PROVE  Base(q)' + prefills'[i].tokens <= req'[q].computed
    <2>1. Base(q) + prefills[i].tokens <= req[q].computed
      BY <1>3 DEF WorkerInv, ChargedBeforeSeen
    <2>2. prefills[i].tokens \in Nat /\ prefills'[i].tokens = prefills[i].tokens
      BY WorkerTypes DEF Ahead
    <2>3. \A a, b, c, d \in Nat : d \in 0 .. a /\ a + b <= c => d + b <= c
      OBVIOUS
    <2>4. Base(q)' \in Nat /\ Base(q)' \in 0 .. Base(q)
      BY <1>1
    <2>5. QED
      BY <1>1, <2>1, <2>2, <2>3, <2>4
  <1>4. QED
    BY <1>2, <1>3 DEF ChargedBeforeSeen

LEMMA AdmitToDeviceKeeps ==
    ASSUME WorkerInv, AdmitToDevice, IInv', BatchInv'
    PROVE  WorkerInv'
  <1>1. PICK r : r = Newcomer
    OBVIOUS
  <1>2. /\ ReserveLoop /\ r \in pending /\ ReserveCache(r) /\ r \notin sequences
        /\ sequences' = sequences \cup {r}
        /\ seq' = [seq EXCEPT ![r] = [prefilled |-> snapshot[r], emitted |-> 0,
                                      next |-> snapshot[r] = req[r].prompt]]
        /\ at' = at + 1 /\ UNCHANGED <<vars, stage, done, torn, alive, emitted>>
    BY <1>1 DEF AdmitToDevice, Advances
  <1>3. /\ r \in ToSet(running) /\ r \in Requests
        /\ stage = "reserve" /\ phase = "planned"
        /\ emitted = NoneEmitted /\ done = {} /\ Ahead = DOMAIN prefills
    BY <1>1, <1>2, NewcomerRuns
  <1>4. snapshot[r] \in Nat /\ seq \in [Requests -> DeviceSequence]
    BY <1>3, WorkerTypes DEF WorkerInv, WorkerTypeOK
  <1>5. PICK b \in BOOLEAN : b = (snapshot[r] = req[r].prompt)
    OBVIOUS
  <1>6. seq' = [seq EXCEPT ![r] = [prefilled |-> snapshot[r], emitted |-> 0, next |-> b]]
    BY <1>2, <1>5
  <1>7. /\ seq' \in [Requests -> DeviceSequence]
        /\ seq'[r].prefilled = snapshot[r] /\ seq'[r].emitted = 0
        /\ \A q \in Requests \ {r} : seq'[q] = seq[q]
    BY <1>3, <1>4, <1>6, SeqUpdate
  <1>8. UNCHANGED <<waiting, running, req, phase, prefills>>
    BY <1>2 DEF vars
  <1>9. seq'[r].prefilled \in 0 .. snapshot[r]
    BY <1>4, <1>7
  <1>10. /\ StateFollowsScheduler' /\ PoolsMirrorScheduler' /\ OutputAfterPrompt'
         /\ pending' \subseteq Requests /\ reserved' \subseteq Requests
         /\ snapshot' \in [Requests -> Nat]
         /\ held' \in [Requests -> Nat] /\ attentionFree' \in Nat /\ gdnFree' \in Nat
         /\ \A q \in pending' \cup sequences' :
                q \in pending \cup sequences /\ Base(q)' \in 0 .. Base(q)
    <2>1. /\ UNCHANGED <<waiting, running, req, done>> /\ emitted' = NoneEmitted
          /\ sequences' \subseteq sequences \cup {r}
      BY <1>2, <1>3, <1>8
    <2>2. QED
      BY <1>2, <1>3, <1>7, <1>9, <2>1, AdmissionKeeps
  <1>11. Ahead' = Ahead
    BY <1>2, <1>3, <1>8 DEF Ahead
  <1>12. ChargedBeforeSeen'
    BY <1>8, <1>10, <1>11, AdmissionCharged
  <1>13. WorkerTypeOK'
    BY <1>2, <1>3, <1>7, <1>8, <1>10 DEF WorkerInv, WorkerTypeOK
  <1>14. StageFollows'
    BY <1>2, <1>3 DEF StageFollows, NoneEmitted
  <1>15. QED
    BY <1>10, <1>12, <1>13, <1>14 DEF WorkerInv

LEMMA AdmitToDeviceFailsKeeps ==
    ASSUME WorkerInv, AdmitToDeviceFails, IInv', BatchInv'
    PROVE  WorkerInv'
  <1>1. PICK r : r = Newcomer
    OBVIOUS
  <1>2. /\ ReserveLoop /\ r \in pending /\ ReserveCache(r)
        /\ StepFails /\ alive' = alive
        /\ \/ UNCHANGED <<sequences, seq>>
           \/ sequences' = sequences \cup {r} /\ seq' = [seq EXCEPT ![r] = NoSequence]
    BY <1>1 DEF AdmitToDeviceFails
  <1>3. /\ r \in ToSet(running) /\ r \in Requests /\ done = {}
    BY <1>1, <1>2, NewcomerRuns
  <1>4. /\ UNCHANGED <<waiting, running, req>> /\ phase' = "idle" /\ prefills' = <<>>
        /\ stage' = "idle" /\ at' = 0 /\ emitted' = NoneEmitted
        /\ torn' = torn \cup BatchIds /\ done' = done
    BY <1>2 DEF StepFails, ReturnBatch
  <1>5. /\ snapshot[r] \in Nat /\ seq \in [Requests -> DeviceSequence]
        /\ r \notin sequences /\ sequences \subseteq Requests
    BY <1>2, <1>3, WorkerTypes DEF WorkerInv, WorkerTypeOK, StateFollowsScheduler
  <1>6. /\ seq' \in [Requests -> DeviceSequence]
        /\ sequences' \subseteq sequences \cup {r}
        /\ r \in sequences' => seq'[r].prefilled = 0 /\ seq'[r].emitted = 0
        /\ \A q \in Requests \ {r} : seq'[q] = seq[q]
    <2>1. CASE UNCHANGED <<sequences, seq>>
      BY <1>5, <2>1
    <2>2. CASE sequences' = sequences \cup {r} /\ seq' = [seq EXCEPT ![r] = NoSequence]
      BY <1>3, <1>5, <2>2, SeqUpdate DEF NoSequence
    <2>3. QED
      BY <1>2, <2>1, <2>2
  <1>7. r \in sequences' => seq'[r].emitted = 0 /\ seq'[r].prefilled \in 0 .. snapshot[r]
    BY <1>5, <1>6
  <1>8. /\ StateFollowsScheduler' /\ PoolsMirrorScheduler' /\ OutputAfterPrompt'
        /\ pending' \subseteq Requests /\ reserved' \subseteq Requests
        /\ snapshot' \in [Requests -> Nat]
        /\ held' \in [Requests -> Nat] /\ attentionFree' \in Nat /\ gdnFree' \in Nat
        /\ \A q \in pending' \cup sequences' :
               q \in pending \cup sequences /\ Base(q)' \in 0 .. Base(q)
    BY <1>2, <1>3, <1>4, <1>6, <1>7, AdmissionKeeps
  <1>9. Ahead' = {}
    BY <1>4 DEF Ahead
  <1>10. ChargedBeforeSeen'
    BY <1>4, <1>8, <1>9, AdmissionCharged
  <1>11. NoneEmitted \in [Requests -> Nat]
    BY DEF NoneEmitted
  <1>12. WorkerTypeOK'
    BY <1>2, <1>3, <1>4, <1>5, <1>6, <1>8, <1>11, BatchIdsType DEF WorkerInv, WorkerTypeOK, Stages
  <1>13. StageFollows'
    BY <1>3, <1>4 DEF StageFollows, NoneEmitted
  <1>14. QED
    BY <1>8, <1>10, <1>12, <1>13 DEF WorkerInv

-----------------------------------------------------------------------------
(* The step's results, and the calls between two steps. *)

LEMMA EndExecuteKeeps ==
    ASSUME WorkerInv, EndExecute, IInv', BatchInv'
    PROVE  WorkerInv'
  <1>1. /\ phase = "planned" /\ stage = "prefill"
        /\ ReturnBatch
        /\ sequences' = sequences \ Complete /\ seq' = Forgotten(Complete)
        /\ done' = Complete /\ stage' = "advance" /\ at' = 0
        /\ UNCHANGED <<cacheVars, alive, emitted, torn>>
    BY DEF EndExecute, Executing
  <1>2. phase' = "idle" /\ prefills' = <<>> /\ UNCHANGED <<waiting, running, req>>
    BY <1>1 DEF ReturnBatch
  <1>3. Complete \subseteq sequences /\ sequences \subseteq Requests
    BY DEF Complete, WorkerInv, WorkerTypeOK
  <1>4. /\ seq' \in [Requests -> DeviceSequence]
        /\ \A q \in sequences' : seq'[q] = seq[q]
    BY <1>1, <1>3, ForgottenFacts DEF WorkerInv, WorkerTypeOK
  <1>5. WorkerTypeOK'
    BY <1>1, <1>2, <1>3, <1>4 DEF WorkerInv, WorkerTypeOK, Stages, cacheVars
  <1>6. StageFollows'
    BY <1>1 DEF StageFollows
  <1>7. StateFollowsScheduler'
    BY <1>1, <1>2, <1>3 DEF WorkerInv, StateFollowsScheduler, cacheVars
  <1>8. PoolsMirrorScheduler'
    BY <1>1, <1>2 DEF WorkerInv, PoolsMirrorScheduler, cacheVars, Holdings
  <1>9. Ahead' = {}
    BY <1>2 DEF Ahead
  <1>10. ASSUME NEW q \in pending' \cup sequences'
         PROVE  q \in pending \cup sequences /\ Base(q)' \in 0 .. Base(q)
    <2>1. q \in pending \cup sequences /\ q \in Requests
      BY <1>1, WorkerTypes DEF cacheVars
    <2>2. Base(q)' = Base(q) /\ Base(q) \in Nat
      BY <1>1, <1>4, <2>1, WorkerTypes DEF Base, cacheVars
    <2>3. QED
      BY <2>1, <2>2
  <1>11. ChargedBeforeSeen'
    BY <1>2, <1>9, <1>10, AdmissionCharged
  <1>12. \A q \in Requests : FullSeqLen(q)' = FullSeqLen(q) /\ IsDecodeReady(q)' = IsDecodeReady(q)
    BY <1>2 DEF FullSeqLen, IsDecodeReady
  <1>13. ASSUME NEW q \in Complete PROVE IsDecodeReady(q)
    <2>1. q \in ToSet(running) /\ q \in sequences /\ q \in Requests
      BY <1>3 DEF WorkerInv, StateFollowsScheduler
    <2>2. seq[q].emitted >= req[q].output /\ req[q].output > 0
      BY <2>1 DEF Complete, WorkerInv, OutputAfterPrompt
    <2>3. seq[q].emitted > 0
      BY <2>1, <2>2, WorkerTypes
    <2>4. QED
      BY <2>1, <2>3 DEF WorkerInv, OutputAfterPrompt
  <1>14. OutputAfterPrompt'
    <2>1. \A q \in sequences' : seq'[q].emitted > 0 => IsDecodeReady(q)'
      BY <1>1, <1>3, <1>4, <1>12 DEF WorkerInv, OutputAfterPrompt
    <2>2. \A q \in done' : IsDecodeReady(q)'
      BY <1>1, <1>3, <1>12, <1>13
    <2>3. \A q \in Requests : emitted'[q] > 0 =>
              /\ emitted'[q] <= TokensPerDecodeStep
              /\ req'[q].computed \in req'[q].prompt .. FullSeqLen(q)'
      BY <1>1, <1>2, <1>12 DEF WorkerInv, OutputAfterPrompt
    <2>4. QED
      BY <1>2, <2>1, <2>2, <2>3 DEF WorkerInv, OutputAfterPrompt, TokensPerDecodeStep
  <1>15. QED
    BY <1>5, <1>6, <1>7, <1>8, <1>11, <1>14 DEF WorkerInv

\* A decoded request is within its length, so advance_speculative only adds.
LEMMA AdvanceFacts ==
    ASSUME IInv, NEW r \in Requests, NEW n \in Nat, AdvanceSpeculative(r, n),
           req[r].computed \in req[r].prompt .. FullSeqLen(r)
    PROVE  /\ \A q \in Requests : /\ req'[q].prompt = req[q].prompt
                                  /\ req'[q].output = req[q].output
                                  /\ req'[q].blocks = req[q].blocks
                                  /\ req[q].computed <= req'[q].computed
           /\ \A q \in Requests \ {r} : req'[q] = req[q]
           /\ req'[r].computed = Lesser(req[r].computed + n, FullSeqLen(r))
  <1>1. /\ req \in [Requests -> TrackedRequest] /\ FullSeqLen(r) \in Nat /\ U32Max \in Nat
        /\ req[r].prompt + req[r].output \in Nat
    <2>1. TypeOK /\ req \in [Requests -> TrackedRequest]
      BY DEF IInv, TypeOK
    <2>2. FullSeqLen(r) \in Nat
      BY <2>1, SeqLenType
    <2>3. U32Max \in Nat
      BY ConfigAssumption
    <2>4. QED
      BY <2>1, <2>2, <2>3 DEF TrackedRequest
  <1>2. FullSeqLen(r) <= U32Max
    <2>1. FullSeqLen(r) < U32Max + 1
      BY <1>1, ModType DEF FullSeqLen
    <2>2. QED
      BY <1>1, <2>1
  <1> DEFINE c == Lesser(Lesser(req[r].computed + n, U32Max), FullSeqLen(r))
  <1>3. req' = [req EXCEPT ![r].computed = c]
    BY DEF AdvanceSpeculative
  <1>4. req[r].computed \in Nat /\ req[r].prompt \in Nat
    BY <1>1 DEF TrackedRequest
  <1>5. c \in Nat /\ req[r].computed <= c /\ c = Lesser(req[r].computed + n, FullSeqLen(r))
    BY <1>1, <1>2, <1>4 DEF Lesser
  <1> HIDE DEF c
  <1>6. /\ \A q \in Requests : /\ req'[q].prompt = req[q].prompt
                                /\ req'[q].output = req[q].output
                                /\ req'[q].blocks = req[q].blocks
        /\ \A q \in Requests \ {r} : req'[q] = req[q]
        /\ req'[r].computed = c
    BY <1>1, <1>3 DEF TrackedRequest
  <1>7. \A q \in Requests : req[q].computed <= req'[q].computed
    <2>1. \A q \in Requests : req[q].computed \in Nat
      BY <1>1 DEF TrackedRequest
    <2>2. QED
      BY <1>5, <1>6, <2>1
  <1>8. QED
    BY <1>5, <1>6, <1>7

LEMMA AdvanceDecodeKeeps ==
    ASSUME WorkerInv, NEW r \in Requests, AdvanceDecode(r), IInv', BatchInv'
    PROVE  WorkerInv'
  <1>1. /\ stage = "advance" /\ emitted[r] > 1
        /\ phase = "idle" /\ AdvanceSpeculative(r, emitted[r] - 1) /\ UNCHANGED stepVars
        /\ emitted' = [emitted EXCEPT ![r] = 0]
        /\ UNCHANGED <<cacheVars, deviceVars, stage, at, done, torn>>
    BY DEF AdvanceDecode, Call
  <1>2. UNCHANGED <<waiting, running, phase, prefills>> /\ prefills = <<>>
    BY <1>1 DEF AdvanceSpeculative, stepVars, WorkerInv, BatchInv
  <1>3. emitted[r] \in Nat /\ emitted[r] - 1 \in Nat
    BY <1>1, WorkerTypes
  <1>4. req[r].computed \in req[r].prompt .. FullSeqLen(r)
    BY <1>1, <1>3 DEF WorkerInv, OutputAfterPrompt
  <1>5. /\ \A q \in Requests : /\ req'[q].prompt = req[q].prompt
                                /\ req'[q].output = req[q].output
                                /\ req'[q].blocks = req[q].blocks
                                /\ req[q].computed <= req'[q].computed
        /\ \A q \in Requests \ {r} : req'[q] = req[q]
    BY <1>1, <1>3, <1>4, AdvanceFacts DEF WorkerInv
  <1>6. /\ emitted' \in [Requests -> Nat] /\ emitted'[r] = 0
        /\ \A q \in Requests \ {r} : emitted'[q] = emitted[q]
    BY <1>1 DEF WorkerInv, WorkerTypeOK
  <1>7. WorkerTypeOK'
    BY <1>1, <1>2, <1>6 DEF WorkerInv, WorkerTypeOK, cacheVars, deviceVars
  <1>8. StageFollows'
    BY <1>1 DEF WorkerInv, StageFollows, deviceVars
  <1>9. StateFollowsScheduler'
    BY <1>1, <1>2 DEF WorkerInv, StateFollowsScheduler, cacheVars, deviceVars
  <1>10. PoolsMirrorScheduler'
    <2>1. UNCHANGED <<reserved, held, attentionFree, gdnFree>>
      BY <1>1 DEF cacheVars
    <2>2. \A q \in Requests : held[q] = IF q \in reserved THEN req[q].blocks ELSE 0
      BY DEF WorkerInv, PoolsMirrorScheduler
    <2>3. \A q \in Requests : held'[q] = IF q \in reserved' THEN req'[q].blocks ELSE 0
      BY <1>5, <2>1, <2>2
    <2>4. QED
      BY <2>1, <2>3 DEF WorkerInv, PoolsMirrorScheduler, Holdings
  <1>11. ChargedBeforeSeen'
    <2>1. Ahead' = {}
      BY <1>2 DEF Ahead
    <2>2. ASSUME NEW q \in pending' \cup sequences' PROVE Base(q)' <= req'[q].computed
      <3>1. q \in pending \cup sequences /\ q \in Requests /\ Base(q)' = Base(q)
        BY <1>1, WorkerTypes DEF cacheVars, deviceVars, Base
      <3>2. Base(q) <= req[q].computed
        BY <3>1 DEF WorkerInv, ChargedBeforeSeen
      <3>3. Base(q) \in Nat /\ req[q].computed \in Nat /\ req'[q].computed \in Nat
        BY <3>1, WorkerTypes DEF IInv, TypeOK, TrackedRequest
      <3>4. QED
        BY <1>5, <3>1, <3>2, <3>3
    <2>3. QED
      BY <2>1, <2>2 DEF ChargedBeforeSeen
  <1>12. \A q \in Requests : FullSeqLen(q)' = FullSeqLen(q)
    BY <1>5 DEF FullSeqLen
  <1>13. \A q \in Requests : IsDecodeReady(q) => IsDecodeReady(q)'
    <2>1. \A q \in Requests : /\ req[q].computed \in Nat /\ req[q].prompt \in Nat
                               /\ req'[q].computed \in Nat
      BY WorkerTypes DEF IInv, TypeOK, TrackedRequest
    <2>2. QED
      BY <1>5, <2>1 DEF IsDecodeReady
  <1>14. OutputAfterPrompt'
    <2>1. UNCHANGED <<waiting, running, sequences, seq, done>> /\ sequences \cup done \subseteq Requests
          /\ \A q \in ToSet(waiting) \cup ToSet(running) : q \in Requests
      BY <1>1, <1>2, WorkerTypes DEF deviceVars, WorkerInv, WorkerTypeOK
    <2>2. \A q \in ToSet(waiting') \cup ToSet(running') : req'[q].output > 0
      BY <1>5, <2>1 DEF WorkerInv, OutputAfterPrompt
    <2>3. \A q \in sequences' : seq'[q].emitted > 0 => IsDecodeReady(q)'
      BY <1>13, <2>1 DEF WorkerInv, OutputAfterPrompt
    <2>4. \A q \in done' : IsDecodeReady(q)'
      BY <1>13, <2>1 DEF WorkerInv, OutputAfterPrompt
    <2>5. \A q \in Requests : emitted'[q] > 0 =>
              /\ emitted'[q] <= TokensPerDecodeStep
              /\ req'[q].computed \in req'[q].prompt .. FullSeqLen(q)'
      BY <1>5, <1>6, <1>12 DEF WorkerInv, OutputAfterPrompt
    <2>6. QED
      BY <2>2, <2>3, <2>4, <2>5 DEF OutputAfterPrompt, TokensPerDecodeStep
  <1>15. QED
    BY <1>7, <1>8, <1>9, <1>10, <1>11, <1>14 DEF WorkerInv

\* What finish_request and cancel_request take out of the scheduler.
LEMMA LeaveFacts ==
    ASSUME IInv, NEW r \in Requests, CancelRequest(r)
    PROVE  /\ ToSet(waiting') = ToSet(waiting) \ {r}
           /\ ToSet(running') = ToSet(running) \ {r}
           /\ \A q \in Requests \ {r} : req'[q] = req[q]
  <1>1. /\ waiting \in Seq(Requests) /\ running \in Seq(Requests)
        /\ IsInjective(waiting) /\ IsInjective(running)
        /\ ToSet(waiting) \cap ToSet(running) = {}
        /\ req \in [Requests -> TrackedRequest]
    BY DEF IInv, TypeOK, TrackedOnce
  <1>2. req' = [req EXCEPT ![r] = NoRequest]
    BY DEF CancelRequest, FinishRequest, CancelWaiting
  <1>3. \A q \in Requests \ {r} : req'[q] = req[q]
    BY <1>1, <1>2
  <1>4. CASE FinishRequest(r)
    <2>1. r \in ToSet(running) /\ running' = Without(running, r) /\ waiting' = waiting
      BY <1>4 DEF FinishRequest
    <2>2. ToSet(running') = ToSet(running) \ {r}
      BY <1>1, <2>1, WithoutFacts
    <2>3. QED
      BY <1>1, <1>3, <2>1, <2>2
  <1>5. CASE CancelWaiting(r)
    <2>1. r \in ToSet(waiting) /\ waiting' = Without(waiting, r) /\ running' = running
      BY <1>5 DEF CancelWaiting
    <2>2. ToSet(waiting') = ToSet(waiting) \ {r}
      BY <1>1, <2>1, WithoutFacts
    <2>3. QED
      BY <1>1, <1>3, <2>1, <2>2
  <1>6. QED
    BY <1>4, <1>5 DEF CancelRequest

\* A request leaves everything at once.
LEMMA LeaveKeeps ==
    ASSUME WorkerInv, NEW r \in Requests, phase = "idle", CancelRequest(r), UNCHANGED stepVars,
           ReleaseCache(r), pending' = pending \ {r}, sequences' = sequences \ {r},
           done' = done \ {r}, emitted = NoneEmitted, emitted' = emitted,
           \A q \in Requests \ {r} : snapshot'[q] = snapshot[q] /\ seq'[q] = seq[q]
    PROVE  /\ StateFollowsScheduler' /\ PoolsMirrorScheduler'
           /\ ChargedBeforeSeen' /\ OutputAfterPrompt'
           /\ held' \in [Requests -> Nat] /\ attentionFree' \in Nat /\ gdnFree' \in Nat
           /\ reserved' \subseteq Requests
  <1>1. /\ ToSet(waiting') = ToSet(waiting) \ {r}
        /\ ToSet(running') = ToSet(running) \ {r}
        /\ \A q \in Requests \ {r} : req'[q] = req[q]
    BY LeaveFacts DEF WorkerInv
  <1>2. reserved' = reserved \ {r} /\ reserved \subseteq Requests
    BY DEF ReleaseCache, WorkerInv, WorkerTypeOK
  <1>3. StateFollowsScheduler'
    BY <1>1, <1>2 DEF WorkerInv, StateFollowsScheduler
  <1>4. /\ PoolsMirrorScheduler'
        /\ held' \in [Requests -> Nat] /\ attentionFree' \in Nat /\ gdnFree' \in Nat
    BY <1>1, ReleasePools
  <1>5. prefills' = <<>>
    BY DEF WorkerInv, BatchInv, stepVars
  <1>6. Ahead' = {}
    BY <1>5 DEF Ahead
  <1>7. ASSUME NEW q \in pending' \cup sequences' PROVE Base(q)' <= req'[q].computed
    <2>1. q \in pending \cup sequences /\ q \in Requests \ {r}
      BY WorkerTypes
    <2>2. Base(q)' = Base(q)
      BY <2>1 DEF Base
    <2>3. Base(q) <= req[q].computed
      BY <2>1 DEF WorkerInv, ChargedBeforeSeen
    <2>4. QED
      BY <1>1, <2>1, <2>2, <2>3
  <1>8. ChargedBeforeSeen'
    BY <1>6, <1>7 DEF ChargedBeforeSeen
  <1>9. \A q \in Requests \ {r} : IsDecodeReady(q)' = IsDecodeReady(q)
    BY <1>1 DEF IsDecodeReady
  <1>10. OutputAfterPrompt'
    <2>1. sequences \cup done \subseteq Requests
          /\ \A q \in ToSet(waiting) \cup ToSet(running) : q \in Requests
      BY WorkerTypes DEF WorkerInv, WorkerTypeOK
    <2>2. \A q \in ToSet(waiting') \cup ToSet(running') : req'[q].output > 0
      BY <1>1, <2>1 DEF WorkerInv, OutputAfterPrompt
    <2>3. \A q \in sequences' : seq'[q].emitted > 0 => IsDecodeReady(q)'
      BY <1>9, <2>1 DEF WorkerInv, OutputAfterPrompt
    <2>4. \A q \in done' : IsDecodeReady(q)'
      BY <1>9, <2>1 DEF WorkerInv, OutputAfterPrompt
    <2>5. \A q \in Requests : ~ (emitted'[q] > 0)
      BY DEF NoneEmitted
    <2>6. QED
      BY <2>2, <2>3, <2>4, <2>5 DEF OutputAfterPrompt
  <1>11. QED
    BY <1>2, <1>3, <1>4, <1>8, <1>10

LEMMA FinishCompletedKeeps ==
    ASSUME WorkerInv, NEW r \in Requests, FinishCompleted(r), IInv', BatchInv'
    PROVE  WorkerInv'
  <1>1. /\ stage = "finish" /\ r \in done
        /\ phase = "idle" /\ FinishRequest(r) /\ UNCHANGED stepVars
        /\ ReleaseCache(r) /\ done' = done \ {r} /\ torn' = torn \ {r}
        /\ UNCHANGED <<pending, snapshot, deviceVars, stage, at, emitted>>
    BY DEF FinishCompleted, Call
  <1>2. r \notin pending /\ r \notin sequences /\ emitted = NoneEmitted
    BY <1>1 DEF WorkerInv, StateFollowsScheduler, StageFollows
  <1>3. CancelRequest(r)
    BY <1>1 DEF CancelRequest
  <1>4. /\ pending' = pending \ {r} /\ sequences' = sequences \ {r} /\ emitted' = emitted
        /\ \A q \in Requests \ {r} : snapshot'[q] = snapshot[q] /\ seq'[q] = seq[q]
    BY <1>1, <1>2 DEF deviceVars
  <1>5. /\ StateFollowsScheduler' /\ PoolsMirrorScheduler'
        /\ ChargedBeforeSeen' /\ OutputAfterPrompt'
        /\ held' \in [Requests -> Nat] /\ attentionFree' \in Nat /\ gdnFree' \in Nat
        /\ reserved' \subseteq Requests
    BY <1>1, <1>2, <1>3, <1>4, LeaveKeeps
  <1>6. WorkerTypeOK'
    BY <1>1, <1>5 DEF WorkerInv, WorkerTypeOK, deviceVars, stepVars
  <1>7. StageFollows'
    BY <1>1 DEF WorkerInv, StageFollows, deviceVars, NoneEmitted
  <1>8. QED
    BY <1>5, <1>6, <1>7 DEF WorkerInv

LEMMA CancelTokensKeeps ==
    ASSUME WorkerInv, NEW r \in Requests, CancelTokens(r), IInv', BatchInv'
    PROVE  WorkerInv'
  <1>1. /\ stage = "idle"
        /\ phase = "idle" /\ CancelRequest(r) /\ UNCHANGED stepVars
        /\ pending' = pending \ {r} /\ snapshot' = [snapshot EXCEPT ![r] = 0]
        /\ sequences' = sequences \ ({r} \cap ToSet(running))
        /\ seq' = Forgotten({r} \cap ToSet(running))
        /\ ReleaseCache(r) /\ torn' = torn \ {r}
        /\ UNCHANGED <<alive, stage, at, emitted, done>>
    BY DEF CancelTokens, Call
  <1>2. done = {} /\ emitted = NoneEmitted
    BY <1>1 DEF WorkerInv, StageFollows
  <1>3. sequences' = sequences \ {r} /\ done' = done \ {r}
    BY <1>1, <1>2 DEF WorkerInv, StateFollowsScheduler
  <1>4. snapshot' \in [Requests -> Nat] /\ \A q \in Requests \ {r} : snapshot'[q] = snapshot[q]
    BY <1>1 DEF WorkerInv, WorkerTypeOK
  <1>5. seq' \in [Requests -> DeviceSequence] /\ \A q \in Requests \ {r} : seq'[q] = seq[q]
    <2>1. PICK lost : lost = {r} \cap ToSet(running)
      OBVIOUS
    <2>2. seq \in [Requests -> DeviceSequence] /\ seq' = Forgotten(lost)
      BY <1>1, <2>1 DEF WorkerInv, WorkerTypeOK
    <2>3. /\ seq' \in [Requests -> DeviceSequence]
          /\ \A q \in Requests \ lost : seq'[q] = seq[q]
      BY <2>2, ForgottenFacts
    <2>4. QED
      BY <2>1, <2>3
  <1>6. /\ StateFollowsScheduler' /\ PoolsMirrorScheduler'
        /\ ChargedBeforeSeen' /\ OutputAfterPrompt'
        /\ held' \in [Requests -> Nat] /\ attentionFree' \in Nat /\ gdnFree' \in Nat
        /\ reserved' \subseteq Requests
    BY <1>1, <1>2, <1>3, <1>4, <1>5, LeaveKeeps
  <1>7. WorkerTypeOK'
    BY <1>1, <1>3, <1>4, <1>5, <1>6 DEF WorkerInv, WorkerTypeOK, stepVars
  <1>8. StageFollows'
    BY <1>1, <1>2, <1>3 DEF StageFollows, NoneEmitted
  <1>9. QED
    BY <1>6, <1>7, <1>8 DEF WorkerInv

LEMMA AdmitTokensKeeps ==
    ASSUME WorkerInv, NEW r \in Requests, AdmitTokens(r), IInv', BatchInv'
    PROVE  WorkerInv'
  <1>1. PICK p \in Prompts, m \in Outputs, prefix \in CachedPrefixes :
            Call(Enqueue(r, p, m, prefix)) /\ snapshot' = [snapshot EXCEPT ![r] = prefix]
    BY DEF AdmitTokens
  <1>2. /\ stage = "idle" /\ pending' = pending \cup {r}
        /\ UNCHANGED <<reserved, held, attentionFree, gdnFree, deviceVars, stepDeviceVars>>
    BY DEF AdmitTokens
  <1>3. /\ phase = "idle" /\ UNCHANGED stepVars
        /\ r \notin ToSet(waiting) \cup ToSet(running)
        /\ waiting' = Append(waiting, r) /\ running' = running
        /\ req' = [req EXCEPT ![r] = [prompt |-> p, output |-> m,
                                      computed |-> prefix, blocks |-> 0]]
    BY <1>1 DEF Call, Enqueue
  <1>4. m \in Nat /\ m > 0 /\ prefix \in Nat
    <2>1. U32Max \in Nat
      BY ConfigAssumption
    <2>2. QED
      BY <2>1, RequestAssumption
  <1>5. /\ waiting \in Seq(Requests) /\ req \in [Requests -> TrackedRequest]
        /\ snapshot \in [Requests -> Nat]
    BY DEF WorkerInv, IInv, TypeOK, WorkerTypeOK
  <1>6. ToSet(waiting') = ToSet(waiting) \cup {r}
    BY <1>3, <1>5, AppendFacts
  <1>7. r \notin pending /\ r \notin reserved /\ r \notin sequences /\ r \notin done
    BY <1>3 DEF WorkerInv, StateFollowsScheduler
  <1>8. /\ req'[r].output = m /\ req'[r].computed = prefix
        /\ \A q \in Requests \ {r} : req'[q] = req[q]
    BY <1>3, <1>5
  <1>9. /\ snapshot' \in [Requests -> Nat] /\ snapshot'[r] = prefix
        /\ \A q \in Requests \ {r} : snapshot'[q] = snapshot[q]
    BY <1>1, <1>4, <1>5
  <1>10. UNCHANGED <<sequences, seq, alive, done, emitted, stage, at, torn, phase, prefills>>
         /\ prefills = <<>>
    BY <1>2, <1>3 DEF deviceVars, stepDeviceVars, stepVars, WorkerInv, BatchInv
  <1>11. WorkerTypeOK'
    BY <1>2, <1>9, <1>10 DEF WorkerInv, WorkerTypeOK
  <1>12. StageFollows'
    BY <1>10 DEF WorkerInv, StageFollows, NoneEmitted
  <1>13. StateFollowsScheduler'
    BY <1>2, <1>3, <1>6, <1>7, <1>10 DEF WorkerInv, StateFollowsScheduler
  <1>14. PoolsMirrorScheduler'
    <2>1. \A q \in Requests : held[q] = IF q \in reserved THEN req[q].blocks ELSE 0
      BY DEF WorkerInv, PoolsMirrorScheduler
    <2>2. \A q \in Requests : held'[q] = IF q \in reserved' THEN req'[q].blocks ELSE 0
      BY <1>2, <1>7, <1>8, <2>1
    <2>3. QED
      BY <1>2, <2>2 DEF WorkerInv, PoolsMirrorScheduler, Holdings
  <1>15. ChargedBeforeSeen'
    <2>1. Ahead' = {}
      BY <1>10 DEF Ahead
    <2>2. ASSUME NEW q \in pending' \cup sequences' PROVE Base(q)' <= req'[q].computed
      <3>1. CASE q = r
        <4>1. Base(q)' = prefix
          BY <1>2, <1>9, <3>1 DEF Base
        <4>2. QED
          BY <1>4, <1>8, <3>1, <4>1
      <3>2. CASE q # r
        <4>1. q \in pending \cup sequences /\ q \in Requests \ {r}
          BY <1>2, <1>10, <3>2, WorkerTypes
        <4>2. Base(q)' = Base(q)
          BY <1>2, <1>9, <1>10, <4>1 DEF Base
        <4>3. Base(q) <= req[q].computed
          BY <4>1 DEF WorkerInv, ChargedBeforeSeen
        <4>4. QED
          BY <1>8, <4>1, <4>2, <4>3
      <3>3. QED
        BY <3>1, <3>2
    <2>3. QED
      BY <2>1, <2>2 DEF ChargedBeforeSeen
  <1>16. OutputAfterPrompt'
    <2>1. \A q \in Requests \ {r} : IsDecodeReady(q)' = IsDecodeReady(q)
      BY <1>8 DEF IsDecodeReady
    <2>2. sequences \cup done \subseteq Requests \ {r}
          /\ \A q \in ToSet(waiting) \cup ToSet(running) : q \in Requests \ {r}
      BY <1>3, <1>7, WorkerTypes DEF WorkerInv, WorkerTypeOK
    <2>3. \A q \in ToSet(waiting') \cup ToSet(running') : req'[q].output > 0
      BY <1>3, <1>4, <1>6, <1>8, <2>2 DEF WorkerInv, OutputAfterPrompt
    <2>4. \A q \in sequences' : seq'[q].emitted > 0 => IsDecodeReady(q)'
      BY <1>10, <2>1, <2>2 DEF WorkerInv, OutputAfterPrompt
    <2>5. \A q \in done' : IsDecodeReady(q)'
      BY <1>10, <2>1, <2>2 DEF WorkerInv, OutputAfterPrompt
    <2>6. \A q \in Requests : ~ (emitted'[q] > 0)
      BY <1>2, <1>10 DEF WorkerInv, StageFollows, NoneEmitted
    <2>7. QED
      BY <2>3, <2>4, <2>5, <2>6 DEF OutputAfterPrompt
  <1>17. QED
    BY <1>11, <1>12, <1>13, <1>14, <1>15, <1>16 DEF WorkerInv

LEMMA WorkerStutters ==
    ASSUME WorkerInv, UNCHANGED allVars, IInv', BatchInv'
    PROVE  WorkerInv'
  <1>1. UNCHANGED <<vars, cacheVars, alive, sequences, seq, stage, at, emitted, done, torn>>
    BY DEF allVars, workerVars, deviceVars, stepDeviceVars
  <1>2. Plans
    BY <1>1, QuietPlans DEF WorkerInv, vars
  <1>3. Ahead' = Ahead
    BY <1>1 DEF Ahead, vars
  <1>4. Steady
    BY <1>1, <1>2, <1>3 DEF Steady, vars
  <1>5. WorkerTypeOK' /\ StageFollows'
    BY <1>1 DEF WorkerInv, WorkerTypeOK, StageFollows, vars, cacheVars, NoneEmitted
  <1>6. QED
    BY <1>4, <1>5, SteadyKeeps

LEMMA WorkerNextKeeps ==
    ASSUME WorkerInv, [WorkerNext]_allVars
    PROVE  WorkerInv'
  <1>1. IInv' /\ BatchInv'
    BY WorkerKeepsScheduler
  <1>2. ASSUME AlreadyResident \/ BeginExecute \/ BeginPrefills \/ BeginFinish \/ EndStepDevice
        PROVE  WorkerInv'
    <2>1. UNCHANGED <<vars, cacheVars, deviceVars>>
      BY <1>2 DEF AlreadyResident, BeginExecute, BeginPrefills, BeginFinish, EndStepDevice,
                  Advances, Enters
    <2>2. QED
      BY <1>1, <1>2, <2>1, MovesKeep
  <1>3. QED
    BY <1>1, <1>2, WorkerStutters, BeginStepKeeps, PlanBatchKeeps, AdmitToDeviceKeeps,
       AdmitToDeviceFailsKeeps, ErrorsKeep, DecodeSequenceKeeps, PrefillSequenceKeeps,
       EndExecuteKeeps, AdvanceDecodeKeeps, FinishCompletedKeeps, AdmitTokensKeeps,
       CancelTokensKeeps DEF WorkerNext, StepDevice

LEMMA WorkerInitially == WorkerInit => WorkerInv
  <1> SUFFICES ASSUME WorkerInit PROVE WorkerInv
    OBVIOUS
  <1>1. IInv /\ BatchInv /\ phase = "idle" /\ prefills = <<>> /\ waiting = <<>> /\ running = <<>>
    BY InitInvariant, InitBatch DEF WorkerInit, Init
  <1>2. ToSet(waiting) = {} /\ ToSet(running) = {}
    BY <1>1 DEF ToSet
  <1>3. WorkerTypeOK
    BY <1>1, ConfigAssumption, WorkerAssumption
       DEF WorkerInit, WorkerTypeOK, Stages, DeviceSequence, NoSequence, NoneEmitted
  <1>4. StateFollowsScheduler /\ StageFollows
    BY <1>2 DEF WorkerInit, StateFollowsScheduler, StageFollows
  <1>5. PoolsMirrorScheduler
    <2>1. Holdings(held) = {} /\ reserved = {} /\ attentionFree = TotalBlocks /\ gdnFree = GdnSlots
      BY DEF WorkerInit, Holdings
    <2>2. Cardinality({}) = 0 /\ TotalBlocks \in Nat /\ GdnSlots \in Nat
      BY FS_EmptySet, ConfigAssumption, WorkerAssumption
    <2>3. \A r \in Requests : held[r] = 0
      BY DEF WorkerInit
    <2>4. QED
      BY <2>1, <2>2, <2>3 DEF PoolsMirrorScheduler
  <1>6. Ahead = {}
    BY <1>1 DEF Ahead
  <1>7. ChargedBeforeSeen
    BY <1>6 DEF WorkerInit, ChargedBeforeSeen
  <1>8. OutputAfterPrompt
    BY <1>2 DEF WorkerInit, OutputAfterPrompt, NoneEmitted
  <1>9. QED
    BY <1>1, <1>3, <1>4, <1>5, <1>7, <1>8 DEF WorkerInv

-----------------------------------------------------------------------------
\* The worker's invariant holds in every reachable state, whatever the device does
\* and wherever step_device returns its error.
THEOREM WorkerInvariant == WorkerSpec => []WorkerInv
  <1>1. WorkerInit => WorkerInv
    BY WorkerInitially
  <1>2. WorkerInv /\ [WorkerNext]_allVars => WorkerInv'
    BY WorkerNextKeeps
  <1>3. QED
    BY <1>1, <1>2, PTL DEF WorkerSpec

\* Pending prompts, cache slots and device sequences partition the scheduler's
\* requests as they should: no failure leaves one behind or without its owner.
THEOREM NothingIsStranded == WorkerSpec => []StateFollowsScheduler
  <1>1. WorkerInv => StateFollowsScheduler
    BY DEF WorkerInv
  <1>2. QED
    BY <1>1, WorkerInvariant, PTL

\* The pools the worker allocates from agree with the scheduler's accounts.
THEOREM BooksAgree == WorkerSpec => []PoolsMirrorScheduler
  <1>1. WorkerInv => PoolsMirrorScheduler
    BY DEF WorkerInv
  <1>2. QED
    BY <1>1, WorkerInvariant, PTL

\* The worker implements its scheduler: every step of the worker is a step the
\* scheduler's specification allows or leaves the scheduler alone.
THEOREM WorkerImplementsScheduler == WorkerSpec => ImplementsScheduler
  <1>1. WorkerInit => Init
    BY DEF WorkerInit
  <1>2. WorkerInv /\ [WorkerNext]_allVars => [Next]_vars
    BY WorkerStepIsSchedulerStep
  <1>3. QED
    BY <1>1, <1>2, WorkerInvariant, PTL DEF WorkerSpec, Spec, ImplementsScheduler

-----------------------------------------------------------------------------
(* The two counts of a request, the scheduler's and the device's. *)

LEMMA InsideKept ==
    ASSUME WorkerInv, InsidePrompt,
           \A q \in pending' \cup sequences' :
               /\ q \in pending \cup sequences /\ Base(q)' \in 0 .. Base(q)
               /\ req'[q].prompt = req[q].prompt,
           \A i \in Ahead' :
               \/ i \in Ahead /\ prefills'[i] = prefills[i]
               \/ /\ prefills'[i].tokens \in Nat
                  /\ req[prefills'[i].id].computed + prefills'[i].tokens
                         <= req[prefills'[i].id].prompt
    PROVE  InsidePrompt'
  <1>1. \A q \in pending \cup sequences :
            /\ q \in Requests /\ Base(q) \in Nat /\ req[q].computed \in Nat /\ req[q].prompt \in Nat
            /\ Base(q) <= req[q].prompt /\ Base(q) <= req[q].computed
    BY WorkerTypes DEF WorkerInv, ChargedBeforeSeen, InsidePrompt
  <1>2. \A q \in pending' \cup sequences' : Base(q)' <= req'[q].prompt
    BY <1>1
  <1>3. ASSUME NEW i \in Ahead', NEW q \in pending' \cup sequences', prefills'[i].id = q
        PROVE  Base(q)' + prefills'[i].tokens <= req'[q].prompt
    <2>1. PICK n : n = prefills'[i].tokens
      OBVIOUS
    <2>2. PICK c : c = Base(q)'
      OBVIOUS
    <2>3. c \in 0 .. Base(q) /\ c \in Nat
      BY <1>1, <2>2
    <2>4. CASE i \in Ahead /\ prefills'[i] = prefills[i]
      <3>1. Base(q) + n <= req[q].prompt
        BY <1>3, <2>1, <2>4 DEF InsidePrompt
      <3>2. n \in Nat
        BY <2>1, <2>4, WorkerTypes DEF Ahead
      <3>3. \A a, b, d \in Nat : \A e \in 0 .. a : a + b <= d => e + b <= d
        OBVIOUS
      <3>4. QED
        BY <1>1, <2>1, <2>2, <2>3, <3>1, <3>2, <3>3
    <2>5. CASE n \in Nat /\ req[q].computed + n <= req[q].prompt
      <3>1. \A a, b, d, k \in Nat : \A e \in 0 .. a : a <= k /\ k + b <= d => e + b <= d
        OBVIOUS
      <3>2. QED
        BY <1>1, <2>1, <2>2, <2>3, <2>5, <3>1
    <2>6. QED
      BY <1>3, <2>1, <2>4, <2>5
  <1>4. QED
    BY <1>2, <1>3 DEF InsidePrompt

\* What a step may not change of a request on the device, for its counts to agree
\* after it as they did before.
SameOnDevice(q) ==
    /\ seq'[q] = seq[q]
    /\ req'[q].prompt = req[q].prompt /\ req'[q].output = req[q].output
    /\ req'[q].computed = req[q].computed
    /\ Uncounted(q)' = Uncounted(q) /\ (emitted[q] = 0 => emitted'[q] = 0)
    /\ \A i \in Ahead' : prefills'[i].id = q => i \in Ahead /\ prefills'[i] = prefills[i]
    /\ q \in PrefillsAhead => q \in PrefillsAhead'
    /\ q \in DecodesAhead' <=> q \in DecodesAhead
    /\ q \in ToSet(decodes') => q \in ToSet(decodes)
    /\ seq[q].emitted = req[q].output => stage' \in {"decode", "prefill"} /\ q \in BatchIds'

LEMMA DeviceFrame ==
    ASSUME NEW q, OnDevice(q), SameOnDevice(q)
    PROVE  OnDevice(q)'
  <1>1. Knows(q)' = Knows(q) /\ OutputComputed(q)' = OutputComputed(q)
    BY DEF Knows, OutputComputed, SameOnDevice
  <1>2. OutputKnown(q)'
    BY <1>1 DEF OnDevice, OutputKnown, SameOnDevice
  <1>3. ASSUME NEW i \in Ahead', prefills'[i].id = q
        PROVE  /\ seq'[q].emitted = 0 /\ emitted'[q] = 0
               /\ req'[q].computed = seq'[q].prefilled + prefills'[i].tokens
               /\ prefills'[i].tokens = 0 => Knows(q)'
    <2>1. i \in Ahead /\ prefills'[i] = prefills[i] /\ prefills[i].id = q
      BY <1>3 DEF SameOnDevice
    <2>2. ChunkAhead(q, prefills[i].tokens)
      BY <2>1 DEF OnDevice
    <2>3. QED
      BY <1>1, <2>1, <2>2 DEF ChunkAhead, SameOnDevice
  <1>4. q \in DecodesAhead' => DecodeAhead(q)'
    BY DEF OnDevice, DecodeAhead, SameOnDevice
  <1>5. q \notin PrefillsAhead' \cup DecodesAhead' => Settled(q)'
    BY <1>1 DEF OnDevice, Settled, SameOnDevice
  <1>6. QED
    BY <1>2, <1>3, <1>4, <1>5 DEF OnDevice, ChunkAhead

LEMMA HostFrame ==
    ASSUME NEW q, OnHost(q),
           snapshot'[q] = snapshot[q],
           req'[q].prompt = req[q].prompt, req'[q].computed = req[q].computed,
           q \in ToSet(waiting') => q \in ToSet(waiting),
           q \in ToSet(running') => q \in ToSet(running) /\ stage' = stage,
           \A i \in DOMAIN prefills' : prefills'[i].id = q =>
               i \in DOMAIN prefills /\ prefills'[i] = prefills[i],
           (\E i \in DOMAIN prefills : i >= at /\ prefills[i].id = q) =>
               (\E i \in DOMAIN prefills' : i >= at' /\ prefills'[i].id = q)
    PROVE  OnHost(q)'
  BY DEF OnHost

\* Moves between the loops.
LEMMA MovesCount ==
    ASSUME WorkerInv, CountsInv, UNCHANGED <<vars, cacheVars, deviceVars, done, torn>>,
           Ahead' = Ahead, DecodesAhead' = DecodesAhead,
           stage' \in {"reserve", "decode", "prefill"} => at' >= 1,
           phase \in {"decode", "prefill", "admit"} => at' = 1,
           \A q \in Requests : /\ Uncounted(q)' = Uncounted(q)
                               /\ emitted[q] = 0 => emitted'[q] = 0
                               /\ emitted'[q] > 0 => emitted[q] > 0,
           stage \in {"decode", "prefill"} => stage' \in {"decode", "prefill"},
           \A q \in pending \cap ToSet(running) : Whole(q) =>
               stage' = stage /\ \E i \in DOMAIN prefills : i >= at' /\ prefills[i].id = q
    PROVE  CountsInv'
  <1>1. UNCHANGED <<waiting, running, req, decodes, prefills, phase, pending, snapshot,
                    alive, sequences, seq>>
    BY DEF vars, cacheVars, deviceVars
  <1>2. pending \cup sequences \subseteq Requests
    BY WorkerTypes
  <1>3. PrefillsAhead' = PrefillsAhead /\ BatchIds' = BatchIds
    BY <1>1 DEF PrefillsAhead, BatchIds
  <1>4. InsidePrompt'
    <2>1. \A q \in pending' \cup sequences' : Base(q)' = Base(q)
      BY <1>1 DEF Base
    <2>2. QED
      BY <1>1, <2>1 DEF CountsInv, InsidePrompt
  <1>5. StepInOrder'
    BY <1>1 DEF CountsInv, StepInOrder, Whole
  <1>6. ASSUME NEW q \in pending', Whole(q)' PROVE OnHost(q)'
    <2>1. q \in pending /\ Whole(q) /\ OnHost(q)
      BY <1>1, <1>6 DEF Whole, CountsInv
    <2>2. QED
      BY <1>1, <2>1, HostFrame DEF OnHost
  <1>7. ASSUME NEW q \in sequences', Whole(q)' PROVE OnDevice(q)'
    <2>1. q \in sequences /\ q \in Requests /\ Whole(q) /\ OnDevice(q)
      BY <1>1, <1>2, <1>7 DEF Whole, CountsInv
    <2>2. seq[q].emitted = req[q].output => stage' \in {"decode", "prefill"} /\ q \in BatchIds'
      BY <1>3, <2>1 DEF OnDevice, OutputKnown
    <2>3. SameOnDevice(q)
      BY <1>1, <1>3, <2>1, <2>2 DEF SameOnDevice
    <2>4. QED
      BY <2>1, <2>3, DeviceFrame
  <1>8. QED
    BY <1>4, <1>5, <1>6, <1>7 DEF CountsInv

LEMMA AlreadyResidentCounts ==
    ASSUME WorkerInv, CountsInv, AlreadyResident
    PROVE  CountsInv'
  <1>1. /\ UNCHANGED <<vars, cacheVars, deviceVars, done, torn, stage, emitted>> /\ at' = at + 1
        /\ phase = "planned" /\ stage = "reserve" /\ Newcomer \notin pending
    BY DEF AlreadyResident, Advances, ReserveLoop
  <1>2. at \in Nat /\ at >= 1
    BY <1>1 DEF WorkerInv, WorkerTypeOK, CountsInv, StepInOrder
  <1>3. UNCHANGED <<decodes, prefills>>
    BY <1>1 DEF vars
  <1>4. Ahead' = Ahead /\ DecodesAhead' = DecodesAhead
    BY <1>1, <1>3 DEF Ahead, DecodesAhead
  <1>5. ASSUME NEW q \in pending \cap ToSet(running), Whole(q)
        PROVE  \E i \in DOMAIN prefills : i >= at' /\ prefills[i].id = q
    <2>1. PICK i \in DOMAIN prefills : i >= at /\ prefills[i].id = q
      BY <1>5 DEF CountsInv, OnHost
    <2>2. i # at /\ i \in Nat
      BY <1>1, <2>1, WorkerTypes DEF Newcomer
    <2>3. i >= at + 1
      BY <1>2, <2>1, <2>2
    <2>4. QED
      BY <1>1, <2>1, <2>3
  <1>6. \A q \in Requests : Uncounted(q)' = Uncounted(q)
    BY <1>1 DEF Uncounted
  <1>7. at' >= 1
    BY <1>1, <1>2
  <1>8. QED
    BY <1>1, <1>4, <1>5, <1>6, <1>7, MovesCount

LEMMA BeginExecuteCounts ==
    ASSUME WorkerInv, CountsInv, BeginExecute
    PROVE  CountsInv'
  <1>1. /\ UNCHANGED <<vars, cacheVars, deviceVars, done, torn, emitted>> /\ at' = 1
        /\ phase = "planned" /\ stage = "reserve" /\ stage' = "decode" /\ at \notin DOMAIN prefills
    BY DEF BeginExecute, Enters
  <1>2. at \in Nat /\ at >= 1
    BY <1>1 DEF WorkerInv, WorkerTypeOK, CountsInv, StepInOrder
  <1>3. UNCHANGED <<decodes, prefills>> /\ prefills \in Seq(PrefillItem) /\ decodes \in Seq(Requests)
    BY <1>1, WorkerTypes DEF vars
  <1>4. Ahead' = Ahead
    BY <1>1, <1>3 DEF Ahead
  <1>5. \A k \in DOMAIN decodes : k >= 1
    BY <1>3
  <1>6. DecodesAhead' = DecodesAhead
    BY <1>1, <1>3, <1>5 DEF DecodesAhead
  <1>7. ASSUME NEW q \in pending \cap ToSet(running), Whole(q)
        PROVE  FALSE
    <2>1. PICK i \in DOMAIN prefills : i >= at /\ prefills[i].id = q
      BY <1>7 DEF CountsInv, OnHost
    <2>2. i \in 1 .. Len(prefills) /\ Len(prefills) \in Nat
      BY <1>3, <2>1
    <2>3. at \in 1 .. Len(prefills)
      BY <1>2, <2>1, <2>2
    <2>4. QED
      BY <1>1, <1>3, <2>3
  <1>8. \A q \in Requests : Uncounted(q)' = Uncounted(q)
    BY <1>1 DEF Uncounted
  <1>9. QED
    BY <1>1, <1>4, <1>6, <1>7, <1>8, MovesCount

LEMMA BeginPrefillsCounts ==
    ASSUME WorkerInv, CountsInv, BeginPrefills
    PROVE  CountsInv'
  <1>1. /\ UNCHANGED <<vars, cacheVars, deviceVars, done, torn, emitted>> /\ at' = 1
        /\ phase = "planned" /\ stage = "decode" /\ stage' = "prefill" /\ at \notin DOMAIN decodes
    BY DEF BeginPrefills, Enters, Executing
  <1>2. at \in Nat /\ at >= 1
    BY <1>1 DEF WorkerInv, WorkerTypeOK, CountsInv, StepInOrder
  <1>3. UNCHANGED <<decodes, prefills>> /\ prefills \in Seq(PrefillItem) /\ decodes \in Seq(Requests)
    BY <1>1, WorkerTypes DEF vars
  <1>4. \A i \in DOMAIN prefills : i >= 1
    BY <1>3
  <1>5. Ahead' = Ahead
    BY <1>1, <1>3, <1>4 DEF Ahead
  <1>6. DecodesAhead' = {}
    BY <1>1 DEF DecodesAhead
  <1>7. \A k \in DOMAIN decodes : ~ (k >= at)
    BY <1>1, <1>2, <1>3
  <1>8. DecodesAhead = {}
    BY <1>1, <1>7 DEF DecodesAhead
  <1>9. \A q \in pending \cap ToSet(running) : ~ Whole(q)
    BY <1>1 DEF CountsInv, OnHost
  <1>10. \A q \in Requests : Uncounted(q)' = Uncounted(q)
    BY <1>1 DEF Uncounted
  <1>11. QED
    BY <1>1, <1>5, <1>6, <1>8, <1>9, <1>10, MovesCount

LEMMA SettlingCounts ==
    ASSUME WorkerInv, CountsInv, BeginFinish \/ EndStepDevice
    PROVE  CountsInv'
  <1>1. /\ UNCHANGED <<vars, cacheVars, deviceVars, done, torn, at>>
        /\ stage \in {"advance", "finish"} /\ stage' \in {"finish", "idle"}
        /\ emitted' = emitted \/ (emitted' = NoneEmitted /\ \A r \in Requests : emitted[r] <= 1)
    BY DEF BeginFinish, EndStepDevice
  <1>2. phase = "idle" /\ prefills = <<>> /\ decodes = <<>> /\ UNCHANGED <<decodes, prefills>>
    BY <1>1 DEF WorkerInv, WorkerTypeOK, BatchInv, vars
  <1>3. Ahead' = Ahead /\ DecodesAhead' = DecodesAhead
    BY <1>2 DEF Ahead, DecodesAhead
  <1>4. \A q \in pending \cap ToSet(running) : ~ Whole(q)
    BY <1>1 DEF CountsInv, OnHost
  <1>5. \A q \in Requests : /\ Uncounted(q)' = Uncounted(q)
                            /\ emitted[q] = 0 => emitted'[q] = 0
                            /\ emitted'[q] > 0 => emitted[q] > 0
    <2>1. \A q \in Requests : emitted[q] \in Nat
      BY WorkerTypes
    <2>2. CASE emitted' = emitted
      BY <2>2 DEF Uncounted
    <2>3. CASE emitted' = NoneEmitted /\ \A r \in Requests : emitted[r] <= 1
      <3>1. \A q \in Requests : emitted'[q] = 0 /\ emitted[q] \in {0, 1}
        BY <2>1, <2>3 DEF NoneEmitted
      <3>2. QED
        BY <3>1 DEF Uncounted
    <2>4. QED
      BY <1>1, <2>2, <2>3
  <1>6. QED
    BY <1>1, <1>2, <1>3, <1>4, <1>5, MovesCount

\* An error return: the batch is torn, and whoever is not in it is as it was between
\* two steps.
LEMMA FailureCounts ==
    ASSUME WorkerInv, CountsInv, StepFails, InsidePrompt',
           pending' \subseteq pending, \A q \in pending' : snapshot'[q] = snapshot[q],
           \A q \in sequences' \ BatchIds : q \in sequences /\ seq'[q] = seq[q],
           alive' => alive /\ (pending \cup sequences) \ BatchIds \subseteq pending' \cup sequences'
    PROVE  CountsInv'
  <1>1. /\ phase = "planned" /\ phase' = "idle" /\ prefills' = <<>> /\ decodes' = <<>>
        /\ stage' = "idle" /\ emitted' = NoneEmitted
        /\ torn' = torn \cup BatchIds /\ done' = done
        /\ UNCHANGED <<waiting, running, req>>
    BY DEF StepFails, ReturnBatch
  <1>2. \A q : Whole(q)' <=> Whole(q) /\ q \notin BatchIds
    BY <1>1 DEF Whole
  <1>3. Ahead' = {} /\ PrefillsAhead' = {} /\ DecodesAhead' = {} /\ ToSet(decodes') = {}
    BY <1>1 DEF Ahead, PrefillsAhead, DecodesAhead, ToSet
  <1>4. DecodesAhead \cup PrefillsAhead \cup ToSet(decodes) \subseteq BatchIds
    BY DEF DecodesAhead, PrefillsAhead, BatchIds, Ahead, ToSet
  <1>5. StepInOrder'
    <2>1. alive' => \A q \in ToSet(running') :
                        Whole(q)' => q \in pending' \cup sequences' \cup done'
      BY <1>1, <1>2 DEF CountsInv, StepInOrder
    <2>2. QED
      BY <1>1, <2>1 DEF CountsInv, StepInOrder
  <1>6. ASSUME NEW q \in pending', Whole(q)' PROVE OnHost(q)'
    <2>1. q \in pending /\ Whole(q) /\ q \notin BatchIds /\ OnHost(q) /\ snapshot'[q] = snapshot[q]
      BY <1>2, <1>6 DEF CountsInv
    <2>2. q \notin ToSet(running)
      BY <2>1 DEF OnHost, BatchIds
    <2>3. QED
      BY <1>1, <2>1, <2>2 DEF OnHost
  <1>7. ASSUME NEW q \in sequences', Whole(q)' PROVE OnDevice(q)'
    <2>1. /\ q \in sequences /\ q \in Requests /\ Whole(q) /\ q \notin BatchIds /\ OnDevice(q)
          /\ seq'[q] = seq[q]
      BY <1>2, <1>7, WorkerTypes DEF CountsInv
    <2>2. emitted[q] = 0 /\ emitted'[q] = 0
      <3>1. ~ (emitted[q] > 0)
        BY <1>1, <1>4, <2>1 DEF CountsInv, StepInOrder
      <3>2. QED
        BY <1>1, <2>1, <3>1, WorkerTypes DEF NoneEmitted
    <2>3. seq[q].emitted # req[q].output
      BY <2>1 DEF OnDevice, OutputKnown
    <2>4. Uncounted(q)' = Uncounted(q)
      BY <2>2 DEF Uncounted
    <2>5. SameOnDevice(q)
      BY <1>1, <1>3, <1>4, <2>1, <2>2, <2>3, <2>4 DEF SameOnDevice
    <2>6. QED
      BY <2>1, <2>5, DeviceFrame
  <1>8. QED
    BY <1>5, <1>6, <1>7 DEF CountsInv

LEMMA ErrorsCount ==
    ASSUME WorkerInv, CountsInv,
           ReserveCacheFails \/ RuntimeStopped \/ UnknownDecode \/ DecodeFails
           \/ PrefillFails \/ RuntimeStops
    PROVE  CountsInv'
  <1>1. ASSUME StepFails, UNCHANGED cacheVars, NEW lost, sequences' = sequences \ lost,
               seq' = Forgotten(lost), alive' => alive /\ lost \subseteq BatchIds
        PROVE  CountsInv'
    <2>1. \A q \in sequences' : q \in sequences /\ seq'[q] = seq[q]
      BY <1>1, ForgottenFacts DEF WorkerInv, WorkerTypeOK
    <2>2. UNCHANGED <<pending, snapshot, req>> /\ prefills' = <<>>
      BY <1>1 DEF cacheVars, StepFails, ReturnBatch
    <2>3. Ahead' = {}
      BY <2>2 DEF Ahead
    <2>4. \A q \in pending' \cup sequences' : q \in pending \cup sequences /\ Base(q)' = Base(q)
      BY <2>1, <2>2 DEF Base
    <2>5. InsidePrompt'
      BY <2>2, <2>3, <2>4 DEF CountsInv, InsidePrompt
    <2>6. QED
      BY <1>1, <2>1, <2>2, <2>5, FailureCounts
  <1>2. CASE ReserveCacheFails
    <2>1. StepFails /\ UNCHANGED cacheVars /\ UNCHANGED deviceVars
      BY <1>2 DEF ReserveCacheFails
    <2>2. sequences' = sequences \ {} /\ seq' = Forgotten({}) /\ alive' = alive
      BY <2>1, NothingForgotten DEF deviceVars
    <2>3. QED
      BY <1>1, <2>1, <2>2
  <1>3. ASSUME NEW lost, DeviceFails(lost), lost \subseteq BatchIds PROVE CountsInv'
    BY <1>1, <1>3 DEF DeviceFails
  <1>4. CASE RuntimeStops
    <2>1. /\ StepFails /\ UNCHANGED cacheVars /\ ~ alive'
          /\ sequences' = sequences \ Requests /\ seq' = Forgotten(Requests)
      BY <1>4 DEF RuntimeStops, WorkerInv, WorkerTypeOK
    <2>2. QED
      BY <1>1, <2>1
  <1>5. CASE UnknownDecode
    <2>1. PICK i \in DOMAIN decodes : DeviceFails({decodes[j] : j \in 1 .. (i - 1)})
      BY <1>5 DEF UnknownDecode
    <2>2. i \in 1 .. Len(decodes) /\ DOMAIN decodes = 1 .. Len(decodes) /\ Len(decodes) \in Nat
      BY <2>1, WorkerTypes
    <2>3. \A j \in 1 .. (i - 1) : j \in DOMAIN decodes
      BY <2>2
    <2>4. {decodes[j] : j \in 1 .. (i - 1)} \subseteq BatchIds
      BY <2>3 DEF BatchIds, ToSet
    <2>5. QED
      BY <1>3, <2>1, <2>4
  <1>6. CASE PrefillFails
    BY <1>3, <1>6 DEF PrefillFails, Prefilling, Newcomer, BatchIds
  <1>7. CASE RuntimeStopped \/ DecodeFails
    BY <1>3, <1>7 DEF RuntimeStopped, DecodeFails, BatchIds
  <1>8. QED
    BY <1>2, <1>4, <1>5, <1>6, <1>7

\* A planning step leaves everyone alone but the requests R it plans.
LEMMA PlanningCounts ==
    ASSUME WorkerInv, CountsInv, PlanBatch, IInv', NEW R,
           ToSet(waiting') \subseteq ToSet(waiting),
           \A q \in ToSet(running') : q \in ToSet(running) \/ q \in R,
           \A q \in Requests \ R : req'[q] = req[q],
           \A i \in DOMAIN prefills : i \in DOMAIN prefills' /\ prefills'[i] = prefills[i],
           \A i \in DOMAIN prefills' : i \in DOMAIN prefills \/ prefills'[i].id \in R,
           ToSet(decodes) \subseteq ToSet(decodes'), ToSet(decodes') \subseteq ToSet(decodes) \cup R,
           \A q \in R \cap pending : Whole(q) => OnHost(q)',
           \A q \in R \cap sequences : Whole(q) => OnDevice(q)'
    PROVE  CountsInv'
  <1>1. /\ PlanStep /\ UNCHANGED <<pending, snapshot, reserved, alive, sequences, seq, stage, at,
                                    emitted, done, torn>>
    BY DEF PlanBatch, workerVars, cacheVars, deviceVars, stepDeviceVars
  <1>2. Plans
    BY <1>1, PlanFacts DEF WorkerInv, Step
  <1>3. /\ stage = "reserve" /\ phase \in {"decode", "prefill", "admit"} /\ phase' # "idle"
        /\ emitted = NoneEmitted /\ done = {}
    BY <1>1, PlanPhases DEF WorkerInv, WorkerTypeOK, Stages, StageFollows
  <1>4. \A q \in Requests : emitted[q] = 0
    BY <1>3 DEF NoneEmitted
  <1>5. /\ Ahead = DOMAIN prefills /\ Ahead' = DOMAIN prefills'
        /\ DecodesAhead = ToSet(decodes) /\ DecodesAhead' = ToSet(decodes')
    BY <1>1, <1>3 DEF Ahead, DecodesAhead, ToSet
  <1>6. \A q \in Requests : req'[q].prompt = req[q].prompt /\ req'[q].output = req[q].output
    BY <1>2 DEF Plans
  <1>7. pending \cup sequences \subseteq Requests
    BY WorkerTypes
  <1>8. InsidePrompt'
    <2>1. \A q \in pending' \cup sequences' :
              /\ q \in pending \cup sequences /\ Base(q)' \in 0 .. Base(q)
              /\ req'[q].prompt = req[q].prompt
      <3>1. \A q \in Requests : Base(q)' = Base(q) /\ Base(q) \in Nat
        BY <1>1, WorkerTypes DEF Base
      <3>2. QED
        BY <1>1, <1>6, <1>7, <3>1
    <2>2. ASSUME NEW i \in Ahead', ~ (i \in Ahead /\ prefills'[i] = prefills[i])
          PROVE  /\ prefills'[i].tokens \in Nat
                 /\ req[prefills'[i].id].computed + prefills'[i].tokens
                        <= req[prefills'[i].id].prompt
      <3>1. /\ req[prefills'[i].id].computed + prefills'[i].tokens
                   = req'[prefills'[i].id].computed
            /\ req'[prefills'[i].id].computed <= req[prefills'[i].id].prompt
        BY <1>2, <1>5, <2>2 DEF Plans
      <3>2. prefills'[i].tokens \in Nat
        BY <1>5, ItemType DEF IInv, TypeOK
      <3>3. QED
        BY <3>1, <3>2
    <2>3. QED
      BY <2>1, <2>2, InsideKept DEF CountsInv
  <1>9. StepInOrder'
    <2>1. ToSet(waiting') \cup ToSet(running') = ToSet(waiting) \cup ToSet(running)
      BY <1>2 DEF Plans
    <2>2. \A q \in ToSet(waiting') \cup ToSet(running') :
              req'[q].prompt <= U32Max /\ req'[q].output <= U32Max
      BY <1>6, <2>1, WorkerTypes DEF CountsInv, StepInOrder
    <2>3. ASSUME alive', NEW q \in ToSet(running'), Whole(q)'
          PROVE  q \in pending' \cup sequences' \cup done'
      <3>1. CASE q \in ToSet(running)
        BY <1>1, <2>3, <3>1 DEF CountsInv, StepInOrder, Whole
      <3>2. CASE q \in ToSet(waiting)
        BY <1>1, <3>2 DEF WorkerInv, StateFollowsScheduler, IInv, TrackedOnce
      <3>3. QED
        BY <2>1, <3>1, <3>2
    <2>4. \A q \in Requests : ~ (emitted'[q] > 0)
      BY <1>1, <1>4
    <2>5. at = 1 /\ at' = 1
      BY <1>1, <1>3 DEF CountsInv, StepInOrder
    <2>6. QED
      BY <2>2, <2>3, <2>4, <2>5 DEF StepInOrder
  <1>10. ASSUME NEW q \in pending', Whole(q)' PROVE OnHost(q)'
    <2>1. q \in pending /\ q \in Requests /\ Whole(q)
      BY <1>1, <1>7, <1>10 DEF Whole
    <2>2. CASE q \notin R
      BY <1>1, <2>1, <2>2, HostFrame DEF CountsInv
    <2>3. QED
      BY <2>1, <2>2
  <1>11. ASSUME NEW q \in sequences', Whole(q)' PROVE OnDevice(q)'
    <2>1. q \in sequences /\ q \in Requests /\ Whole(q)
      BY <1>1, <1>7, <1>11 DEF Whole
    <2>2. CASE q \notin R
      <3>1. OnDevice(q) /\ req'[q] = req[q]
        BY <2>1, <2>2 DEF CountsInv
      <3>2. seq[q].emitted # req[q].output
        BY <1>3, <3>1 DEF OnDevice, OutputKnown
      <3>3. q \in PrefillsAhead => q \in PrefillsAhead'
        BY <1>5 DEF PrefillsAhead
      <3>4. \A i \in Ahead' : prefills'[i].id = q => i \in Ahead /\ prefills'[i] = prefills[i]
        BY <1>5, <2>2
      <3>5. Uncounted(q)' = Uncounted(q)
        BY <1>1 DEF Uncounted
      <3>6. SameOnDevice(q)
        BY <1>1, <1>5, <2>2, <3>1, <3>2, <3>3, <3>4, <3>5 DEF SameOnDevice
      <3>7. QED
        BY <3>1, <3>6, DeviceFrame
    <2>3. QED
      BY <2>1, <2>2
  <1>12. QED
    BY <1>8, <1>9, <1>10, <1>11 DEF CountsInv

LEMMA DecodeOneCounts ==
    ASSUME WorkerInv, CountsInv, PlanBatch, IInv', NEW i \in 1 .. Len(running), DecodeOne(i),
           NEW r, r = running[i]
    PROVE  CountsInv'
  <1>1. /\ phase = "decode" /\ i \in pos .. Len(running) /\ Decodable(r)
        /\ decodes' = Append(decodes, r) /\ req' = [req EXCEPT ![r].computed = @ + 1]
        /\ UNCHANGED <<waiting, running, prefills>>
    BY DEF DecodeOne, NextDecode
  <1>2. /\ r \in Requests /\ r \in ToSet(running) /\ running \in Seq(Requests)
        /\ req \in [Requests -> TrackedRequest] /\ decodes \in Seq(Requests) /\ pos \in Nat
        /\ IsInjective(running)
    <2>1. running \in Seq(Requests) /\ pos \in Nat /\ IsInjective(running) /\ Len(running) \in Nat
      BY DEF WorkerInv, IInv, TypeOK, TrackedOnce
    <2>2. QED
      BY <2>1, WorkerTypes DEF ToSet
  <1>3. /\ req'[r].computed = req[r].computed + 1
        /\ \A q \in Requests : req'[q].prompt = req[q].prompt /\ req'[q].output = req[q].output
        /\ \A q \in Requests \ {r} : req'[q] = req[q]
    <2>1. req'[r].computed = req[r].computed + 1
      BY <1>1, <1>2 DEF TrackedRequest
    <2>2. QED
      BY <1>1, <1>2, <2>1, GrantFacts
  <1>4. prefills = <<>> /\ ToSet(decodes) \subseteq {running[j] : j \in 1 .. (pos - 1)}
    BY <1>1 DEF WorkerInv, BatchInv
  <1>5. r \notin ToSet(decodes)
    <2>1. \A j \in 1 .. (pos - 1) : j \in DOMAIN running /\ i \in DOMAIN running /\ j # i
      BY <1>1, <1>2
    <2>2. QED
      BY <1>2, <1>4, <2>1 DEF IsInjective
  <1>6. ToSet(decodes') = ToSet(decodes) \cup {r}
    BY <1>1, <1>2, AppendFacts
  <1>7. /\ stage = "reserve" /\ stage' = "reserve" /\ emitted = NoneEmitted
        /\ UNCHANGED <<sequences, seq, emitted>>
    BY <1>1, PlanPhases
       DEF PlanBatch, WorkerInv, WorkerTypeOK, Stages, StageFollows, workerVars, stepDeviceVars,
           deviceVars
  <1>8. /\ Ahead = {} /\ Ahead' = {} /\ PrefillsAhead = {} /\ PrefillsAhead' = {}
        /\ DecodesAhead = ToSet(decodes) /\ DecodesAhead' = ToSet(decodes')
    BY <1>1, <1>4, <1>7 DEF Ahead, PrefillsAhead, DecodesAhead, ToSet
  <1>9. ASSUME r \in sequences, Whole(r)
        PROVE  OnDevice(r)'
    <2>1. OnDevice(r) /\ r \notin PrefillsAhead \cup DecodesAhead
      BY <1>5, <1>8, <1>9 DEF CountsInv
    <2>2. /\ seq[r].emitted \in Nat /\ seq[r].prefilled \in Nat /\ req[r].output \in Nat
          /\ req[r].computed \in Nat /\ req[r].prompt \in Nat /\ emitted[r] = 0
      BY <1>2, <1>7, WorkerTypes DEF NoneEmitted
    <2>3. seq[r].emitted < req[r].output
      BY <1>7, <2>1, <2>2 DEF OnDevice, OutputKnown
    <2>4. /\ req[r].computed = seq[r].prefilled + OutputComputed(r)
          /\ seq[r].emitted = 0 => seq[r].prefilled < req[r].prompt
      <3>1. Settled(r) /\ Uncounted(r) = 0
        BY <2>1, <2>2 DEF OnDevice, Uncounted
      <3>2. OutputComputed(r) \in Nat
        BY <2>2 DEF OutputComputed
      <3>3. QED
        BY <2>2, <2>3, <3>1, <3>2 DEF Settled
    <2>5. req[r].computed >= req[r].prompt
      BY <1>1 DEF Decodable, IsDecodeReady
    <2>6. seq[r].emitted > 0
      BY <2>2, <2>4, <2>5 DEF OutputComputed
    <2>7. req[r].computed + 1 = seq[r].prefilled + seq[r].emitted
      BY <2>2, <2>4, <2>6 DEF OutputComputed
    <2>8. DecodeAhead(r)'
      BY <1>2, <1>3, <1>7, <2>2, <2>3, <2>7 DEF DecodeAhead
    <2>9. OutputKnown(r)'
      <3>1. Knows(r)' = Knows(r)
        BY <1>7 DEF Knows
      <3>2. req'[r].output = req[r].output /\ req'[r].prompt = req[r].prompt
        BY <1>2, <1>3
      <3>3. QED
        BY <1>7, <2>1, <2>2, <2>3, <2>6, <3>1, <3>2 DEF OnDevice, OutputKnown
    <2>10. QED
      BY <1>6, <1>8, <2>8, <2>9 DEF OnDevice
  <1>10. ~ (r \in pending /\ Whole(r))
    BY <1>2, <1>4 DEF CountsInv, OnHost
  <1>11. PICK R : R = {r}
    OBVIOUS
  <1>12. /\ \A q \in R \cap pending : Whole(q) => OnHost(q)'
         /\ \A q \in R \cap sequences : Whole(q) => OnDevice(q)'
    BY <1>9, <1>10, <1>11
  <1>13. QED
    BY <1>1, <1>3, <1>6, <1>11, <1>12, PlanningCounts

LEMMA QuietPlanCounts ==
    ASSUME WorkerInv, CountsInv, PlanBatch, IInv', EndDecodes \/ EndPrefills \/ EndAdmissions
    PROVE  CountsInv'
  <1>1. UNCHANGED <<waiting, running, req, decodes, prefills>>
    BY DEF EndDecodes, EndPrefills, EndAdmissions
  <1>2. PICK R : R = {}
    OBVIOUS
  <1>3. QED
    BY <1>1, <1>2, PlanningCounts

\* A request is planned once: the item added to the batch is its first.
LEMMA NewItem ==
    ASSUME prefills \in Seq(PrefillItem), NEW item \in PrefillItem,
           prefills' = Append(prefills, item), BatchInv', phase' # "idle"
    PROVE  /\ \A i \in DOMAIN prefills : /\ i \in DOMAIN prefills' /\ prefills'[i] = prefills[i]
                                         /\ prefills[i].id # item.id
           /\ \A i \in DOMAIN prefills' : i \in DOMAIN prefills \/ prefills'[i] = item
           /\ \E i \in DOMAIN prefills' : i \notin DOMAIN prefills /\ i >= 1 /\ prefills'[i] = item
  <1>1. PICK k : k = Len(prefills) + 1
    OBVIOUS
  <1>2. /\ \A i \in DOMAIN prefills : i \in DOMAIN prefills' /\ prefills'[i] = prefills[i] /\ i # k
        /\ \A i \in DOMAIN prefills' : i \in DOMAIN prefills \/ prefills'[i] = item
        /\ k \in DOMAIN prefills' /\ k \notin DOMAIN prefills /\ k >= 1 /\ prefills'[k] = item
    BY <1>1
  <1>3. \A i, j \in DOMAIN prefills' : prefills'[i].id = prefills'[j].id => i = j
    <2>1. IsInjective(PrefillIds')
      BY DEF BatchInv, StepSpendsItsBudget
    <2>2. DOMAIN PrefillIds' = DOMAIN prefills'
      BY DEF PrefillIds
    <2>3. \A i \in DOMAIN prefills' : PrefillIds'[i] = prefills'[i].id
      BY DEF PrefillIds
    <2>4. QED
      BY <2>1, <2>2, <2>3 DEF IsInjective
  <1>4. QED
    BY <1>2, <1>3

LEMMA SomeChunk ==
    ASSUME TypeOK, NEW r \in Requests, req[r].computed < req[r].prompt, req[r].prompt <= U32Max,
           NEW tokens \in Nat, tokens > 0
    PROVE  Chunk(r, tokens) > 0
  <1>1. req[r].computed \in Nat /\ req[r].prompt \in Nat
    BY DEF TypeOK, TrackedRequest
  <1>2. Remaining(r) \in Nat /\ Remaining(r) > 0
    BY <1>1 DEF Remaining
  <1>3. Slice \in Nat /\ Slice > 0
    BY <1>1, ConfigAssumption DEF Slice
  <1>4. QED
    BY <1>2, <1>3 DEF Chunk, Lesser

LEMMA PrefillOneCounts ==
    ASSUME WorkerInv, CountsInv, PlanBatch, IInv', BatchInv',
           NEW o \in 0 .. (Len(running) - 1), PrefillOne(o),
           NEW r, r = Rotated(o), NEW chunk, chunk = Chunk(r, Spendable)
    PROVE  CountsInv'
  <1>1. /\ phase = "prefill" /\ phase' = "prefill" /\ Spendable > 0 /\ ~ IsDecodeReady(r)
        /\ req' = [req EXCEPT ![r].computed = @ + chunk]
        /\ prefills' = Append(prefills, [id |-> r, tokens |-> chunk])
        /\ UNCHANGED <<waiting, running, decodes>>
    BY DEF PrefillOne, NextPrefill
  <1>2. /\ running \in Seq(Requests) /\ cursor \in Nat /\ TypeOK
        /\ req \in [Requests -> TrackedRequest] /\ prefills \in Seq(PrefillItem)
        /\ reserve \in Nat /\ budget \in Nat
    <2>1. TypeOK
      BY DEF WorkerInv, IInv
    <2>2. QED
      BY <2>1, ConfigAssumption, CursorAssumption DEF TypeOK
  <1>3. r \in ToSet(running) /\ r \in Requests
    BY <1>2, RotatedRuns, ElementType
  <1>4. /\ req[r].computed \in Nat /\ req[r].prompt \in Nat /\ req[r].computed < req[r].prompt
        /\ req[r].prompt <= U32Max
    BY <1>1, <1>3, WorkerTypes DEF IsDecodeReady, CountsInv, StepInOrder
  <1>5. Spendable \in Nat
    BY <1>1, <1>2 DEF Spendable
  <1>6. chunk \in Nat /\ chunk > 0
    <2>1. req[r].computed <= req[r].prompt
      BY <1>4
    <2>2. Chunk(r, Spendable) \in Nat
      BY <1>2, <1>3, <1>5, <2>1, ChunkType
    <2>3. Chunk(r, Spendable) > 0
      BY <1>1, <1>2, <1>3, <1>4, <1>5, SomeChunk
    <2>4. QED
      BY <2>2, <2>3
  <1>7. PICK item \in PrefillItem : item = [id |-> r, tokens |-> chunk]
    BY <1>3, <1>6 DEF PrefillItem
  <1>8. item.id = r /\ item.tokens = chunk
    BY <1>7
  <1>9. /\ \A i \in DOMAIN prefills : /\ i \in DOMAIN prefills' /\ prefills'[i] = prefills[i]
                                      /\ prefills[i].id # r
        /\ \A i \in DOMAIN prefills' : i \in DOMAIN prefills \/ prefills'[i] = item
        /\ \E i \in DOMAIN prefills' : i \notin DOMAIN prefills /\ i >= 1 /\ prefills'[i] = item
    BY <1>1, <1>2, <1>7, <1>8, NewItem
  <1>10. /\ req'[r].computed = req[r].computed + chunk
         /\ \A q \in Requests : req'[q].prompt = req[q].prompt /\ req'[q].output = req[q].output
         /\ \A q \in Requests \ {r} : req'[q] = req[q]
    <2>1. req'[r].computed = req[r].computed + chunk
      BY <1>1, <1>2, <1>3 DEF TrackedRequest
    <2>2. QED
      BY <1>1, <1>2, <1>3, <1>6, <2>1, GrantFacts
  <1>11. r \notin ToSet(decodes)
    BY <1>1, <1>3, <1>4 DEF WorkerInv, BatchInv
  <1>12. /\ stage = "reserve" /\ stage' = "reserve" /\ emitted = NoneEmitted
         /\ UNCHANGED <<sequences, seq, emitted>>
    BY <1>1, PlanPhases
       DEF PlanBatch, WorkerInv, WorkerTypeOK, Stages, StageFollows, workerVars, stepDeviceVars,
           deviceVars
  <1>13. /\ Ahead = DOMAIN prefills /\ Ahead' = DOMAIN prefills'
         /\ DecodesAhead = ToSet(decodes) /\ DecodesAhead' = ToSet(decodes)
    BY <1>1, <1>12 DEF Ahead, DecodesAhead, ToSet
  <1>14. r \notin PrefillsAhead /\ r \in PrefillsAhead'
    BY <1>8, <1>9, <1>13 DEF PrefillsAhead
  <1>15. ASSUME r \in sequences, Whole(r)
         PROVE  OnDevice(r)'
    <2>1. OnDevice(r) /\ r \notin PrefillsAhead \cup DecodesAhead
      BY <1>11, <1>13, <1>14, <1>15 DEF CountsInv
    <2>2. /\ seq[r].emitted \in Nat /\ seq[r].prefilled \in Nat /\ req[r].output \in Nat
          /\ emitted[r] = 0
      BY <1>3, <1>12, WorkerTypes DEF NoneEmitted
    <2>3. seq[r].emitted < req[r].output
      BY <1>12, <2>1, <2>2 DEF OnDevice, OutputKnown
    <2>4. req[r].computed = seq[r].prefilled + OutputComputed(r)
      <3>1. Settled(r) /\ Uncounted(r) = 0
        BY <2>1, <2>2 DEF OnDevice, Uncounted
      <3>2. QED
        BY <1>4, <2>3, <3>1 DEF Settled
    <2>5. seq[r].emitted = 0
      <3>1. seq[r].emitted > 0 => seq[r].prefilled = req[r].prompt
        BY <2>1 DEF OnDevice, OutputKnown
      <3>2. QED
        BY <1>4, <2>2, <2>4, <3>1 DEF OutputComputed
    <2>6. req[r].computed = seq[r].prefilled
      BY <2>2, <2>4, <2>5 DEF OutputComputed
    <2>7. \A i \in Ahead' : prefills'[i].id = r => prefills'[i].tokens = chunk
      BY <1>8, <1>9, <1>13
    <2>8. /\ seq'[r].emitted = 0 /\ emitted'[r] = 0
          /\ req'[r].computed = seq'[r].prefilled + chunk
      BY <1>10, <1>12, <2>2, <2>5, <2>6
    <2>9. \A i \in Ahead' : prefills'[i].id = r =>
              /\ seq'[r].emitted = 0 /\ emitted'[r] = 0
              /\ req'[r].computed = seq'[r].prefilled + prefills'[i].tokens
              /\ prefills'[i].tokens = 0 => Knows(r)'
      BY <1>6, <2>7, <2>8
    <2>10. OutputKnown(r)'
      BY <1>1, <1>3, <1>10, <1>11, <1>12, <2>2, <2>3, <2>5 DEF OutputKnown
    <2>11. QED
      BY <1>11, <1>13, <1>14, <2>9, <2>10 DEF OnDevice, ChunkAhead
  <1>16. ~ (r \in pending /\ Whole(r))
    BY <1>3, <1>9 DEF CountsInv, OnHost
  <1>17. PICK R : R = {r}
    OBVIOUS
  <1>18. /\ \A q \in R \cap pending : Whole(q) => OnHost(q)'
         /\ \A q \in R \cap sequences : Whole(q) => OnDevice(q)'
    BY <1>15, <1>16, <1>17
  <1>19. \A i \in DOMAIN prefills' : i \in DOMAIN prefills \/ prefills'[i].id \in R
    BY <1>8, <1>9, <1>17
  <1>20. QED
    BY <1>1, <1>9, <1>10, <1>17, <1>18, <1>19, PlanningCounts

LEMMA AdmitOneCounts ==
    ASSUME WorkerInv, CountsInv, PlanBatch, IInv', BatchInv', AdmitOne,
           NEW r, r = Head(waiting),
           NEW needed, needed = AttentionBlocksNeeded(FullSeqLen(r)),
           NEW chunk, chunk = Chunk(r, budget)
    PROVE  CountsInv'
  <1>1. /\ phase = "admit" /\ phase' # "idle" /\ budget > 0 /\ waiting # <<>>
        /\ waiting' = Tail(waiting)
        /\ running' = Append(running, r)
        /\ req' = [req EXCEPT ![r] = [prompt |-> req[r].prompt, output |-> req[r].output,
                                      computed |-> req[r].computed + chunk,
                                      blocks |-> needed]]
        /\ prefills' = Append(prefills, [id |-> r, tokens |-> chunk])
        /\ decodes' = decodes
    BY DEF AdmitOne, AdmitFrom, AdmitGuard, AdmissionCanProceed
  <1>2. /\ waiting \in Seq(Requests) /\ running \in Seq(Requests)
        /\ prefills \in Seq(PrefillItem) /\ TypeOK
        /\ req \in [Requests -> TrackedRequest] /\ budget \in Nat
        /\ ToSet(waiting) \cap ToSet(running) = {} /\ IsInjective(waiting)
    <2>1. TypeOK /\ ToSet(waiting) \cap ToSet(running) = {} /\ IsInjective(waiting)
      BY DEF WorkerInv, IInv, TrackedOnce
    <2>2. QED
      BY <2>1, ConfigAssumption DEF TypeOK
  <1>3. /\ r \in Requests /\ r \in ToSet(waiting) /\ r \notin ToSet(running)
        /\ ToSet(waiting) = ToSet(waiting') \cup {r} /\ r \notin ToSet(waiting')
    BY <1>1, <1>2, TailFacts
  <1>4. /\ req[r].computed \in Nat /\ req[r].prompt \in Nat /\ req[r].computed <= req[r].prompt
        /\ req[r].prompt <= U32Max
    BY <1>3, WorkerTypes DEF WorkerInv, IInv, PrefixWithinPrompt, CountsInv, StepInOrder
  <1>5. needed \in Nat
    BY <1>2, <1>3, SeqLenType
  <1>6. chunk \in Nat /\ (chunk = 0 => req[r].computed = req[r].prompt)
    <2>1. Chunk(r, budget) \in Nat
      BY <1>2, <1>3, <1>4, ChunkType
    <2>2. req[r].computed < req[r].prompt => Chunk(r, budget) > 0
      BY <1>1, <1>2, <1>3, <1>4, SomeChunk
    <2>3. QED
      BY <1>4, <2>1, <2>2
  <1>7. ToSet(running') = ToSet(running) \cup {r}
    BY <1>1, <1>2, <1>3, AppendFacts
  <1>8. PICK item \in PrefillItem : item = [id |-> r, tokens |-> chunk]
    BY <1>3, <1>6 DEF PrefillItem
  <1>9. item.id = r /\ item.tokens = chunk
    BY <1>8
  <1>10. /\ \A i \in DOMAIN prefills : /\ i \in DOMAIN prefills' /\ prefills'[i] = prefills[i]
                                       /\ prefills[i].id # r
         /\ \A i \in DOMAIN prefills' : i \in DOMAIN prefills \/ prefills'[i] = item
         /\ \E i \in DOMAIN prefills' : i \notin DOMAIN prefills /\ i >= 1 /\ prefills'[i] = item
    BY <1>1, <1>2, <1>8, <1>9, NewItem
  <1>11. /\ req'[r].computed = req[r].computed + chunk
         /\ req'[r].prompt = req[r].prompt
         /\ \A q \in Requests \ {r} : req'[q] = req[q]
    <2>1. req'[r].computed = req[r].computed + chunk
      BY <1>1, <1>2, <1>3
    <2>2. QED
      BY <1>1, <1>2, <1>3, <1>5, <1>6, <2>1, ReserveFacts
  <1>12. r \in pending /\ r \notin sequences
    BY <1>3 DEF WorkerInv, StateFollowsScheduler
  <1>13. stage' = "reserve" /\ at' = 1 /\ UNCHANGED snapshot
    BY <1>1, PlanPhases
       DEF PlanBatch, WorkerInv, WorkerTypeOK, Stages, StageFollows, workerVars, stepDeviceVars,
           cacheVars, CountsInv, StepInOrder
  <1>14. ASSUME Whole(r) PROVE OnHost(r)'
    <2>1. req[r].computed = snapshot[r]
      BY <1>3, <1>12, <1>14 DEF CountsInv, OnHost
    <2>2. \A i \in DOMAIN prefills' : prefills'[i].id = r => prefills'[i].tokens = chunk
      BY <1>9, <1>10
    <2>3. \E i \in DOMAIN prefills' : i >= at' /\ prefills'[i].id = r
      BY <1>9, <1>10, <1>13
    <2>4. /\ req'[r].computed = snapshot'[r] + chunk
          /\ chunk = 0 => snapshot'[r] = req'[r].prompt
      BY <1>6, <1>11, <1>13, <2>1
    <2>5. QED
      BY <1>3, <1>13, <2>2, <2>3, <2>4 DEF OnHost
  <1>15. PICK R : R = {r}
    OBVIOUS
  <1>16. /\ \A q \in R \cap pending : Whole(q) => OnHost(q)'
         /\ \A q \in R \cap sequences : Whole(q) => OnDevice(q)'
    BY <1>12, <1>14, <1>15
  <1>17. \A i \in DOMAIN prefills' : i \in DOMAIN prefills \/ prefills'[i].id \in R
    BY <1>9, <1>10, <1>15
  <1>18. QED
    BY <1>1, <1>3, <1>7, <1>10, <1>11, <1>15, <1>16, <1>17, PlanningCounts

LEMMA PlanBatchCounts ==
    ASSUME WorkerInv, CountsInv, PlanBatch, IInv', BatchInv'
    PROVE  CountsInv'
  BY DecodeOneCounts, PrefillOneCounts, AdmitOneCounts, QuietPlanCounts DEF PlanBatch, PlanStep

LEMMA BeginStepCounts ==
    ASSUME WorkerInv, CountsInv, BeginStepDevice
    PROVE  CountsInv'
  <1>1. /\ stage = "idle" /\ stage' = "reserve" /\ at' = 1 /\ phase = "idle" /\ phase' = "decode"
        /\ UNCHANGED <<waiting, running, req, pending, snapshot, alive, sequences, seq, emitted,
                       done, torn>>
        /\ decodes' = <<>> /\ prefills' = <<>>
    BY DEF BeginStepDevice, BeginStep, cacheVars, deviceVars
  <1>2. decodes = <<>> /\ prefills = <<>>
    BY <1>1 DEF WorkerInv, BatchInv
  <1>3. /\ Ahead = {} /\ Ahead' = {} /\ DecodesAhead = {} /\ DecodesAhead' = {}
        /\ ToSet(decodes') = {} /\ PrefillsAhead = {} /\ PrefillsAhead' = {}
    BY <1>1, <1>2 DEF Ahead, DecodesAhead, PrefillsAhead, ToSet
  <1>4. InsidePrompt'
    <2>1. \A q \in pending' \cup sequences' : Base(q)' = Base(q)
      BY <1>1 DEF Base
    <2>2. QED
      BY <1>1, <1>3, <2>1 DEF CountsInv, InsidePrompt
  <1>5. \A q : Whole(q)' <=> Whole(q)
    BY <1>1 DEF Whole
  <1>6. StepInOrder'
    BY <1>1, <1>5 DEF CountsInv, StepInOrder
  <1>7. ASSUME NEW q \in pending', Whole(q)' PROVE OnHost(q)'
    <2>1. OnHost(q) /\ q \in pending
      BY <1>1, <1>5, <1>7 DEF CountsInv
    <2>2. QED
      BY <1>1, <2>1 DEF OnHost
  <1>8. ASSUME NEW q \in sequences', Whole(q)' PROVE OnDevice(q)'
    <2>1. OnDevice(q) /\ q \in sequences
      BY <1>1, <1>5, <1>8 DEF CountsInv
    <2>2. seq[q].emitted # req[q].output
      BY <1>1, <2>1 DEF OnDevice, OutputKnown
    <2>3. Uncounted(q)' = Uncounted(q)
      BY <1>1 DEF Uncounted
    <2>4. SameOnDevice(q)
      BY <1>1, <1>3, <2>2, <2>3 DEF SameOnDevice
    <2>5. QED
      BY <2>1, <2>4, DeviceFrame
  <1>9. QED
    BY <1>4, <1>6, <1>7, <1>8 DEF CountsInv

LEMMA NextUpdate ==
    ASSUME seq \in [Requests -> DeviceSequence], NEW r \in Requests,
           NEW p \in Nat, NEW e \in Nat, NEW b \in BOOLEAN,
           seq' = [seq EXCEPT ![r] = [prefilled |-> p, emitted |-> e, next |-> b]]
    PROVE  Knows(r)' = b
  <1>1. seq'[r] = [prefilled |-> p, emitted |-> e, next |-> b]
    OBVIOUS
  <1>2. QED
    BY <1>1 DEF Knows

\* Nobody has two items in a batch.
LEMMA OneItem ==
    ASSUME BatchInv, phase # "idle"
    PROVE  /\ \A i, j \in DOMAIN prefills : prefills[i].id = prefills[j].id => i = j
           /\ \A i \in DOMAIN prefills : prefills[i].id \notin ToSet(decodes)
           /\ IsInjective(decodes)
  <1>1. /\ IsInjective(PrefillIds) /\ ToSet(decodes) \cap ToSet(PrefillIds) = {}
        /\ IsInjective(decodes)
    BY DEF BatchInv, StepSpendsItsBudget
  <1>2. DOMAIN PrefillIds = DOMAIN prefills /\ \A i \in DOMAIN prefills : PrefillIds[i] = prefills[i].id
    BY DEF PrefillIds
  <1>3. QED
    BY <1>1, <1>2 DEF IsInjective, ToSet

LEMMA AdmitToDeviceCounts ==
    ASSUME WorkerInv, CountsInv, AdmitToDevice
    PROVE  CountsInv'
  <1>1. PICK r : r = Newcomer
    OBVIOUS
  <1>2. /\ ReserveLoop /\ r \in pending /\ pending' = pending \ {r}
        /\ snapshot' = [snapshot EXCEPT ![r] = 0]
        /\ sequences' = sequences \cup {r}
        /\ seq' = [seq EXCEPT ![r] = [prefilled |-> snapshot[r], emitted |-> 0,
                                      next |-> snapshot[r] = req[r].prompt]]
        /\ at' = at + 1 /\ UNCHANGED <<vars, stage, done, torn, alive, emitted>>
    BY <1>1 DEF AdmitToDevice, Advances, ReserveCache
  <1>3. /\ r \in ToSet(running) /\ r \in Requests
        /\ stage = "reserve" /\ phase = "planned"
        /\ emitted = NoneEmitted /\ done = {} /\ Ahead = DOMAIN prefills
    BY <1>1, <1>2, NewcomerRuns
  <1>4. /\ snapshot \in [Requests -> Nat] /\ snapshot[r] \in Nat /\ at \in Nat /\ at >= 1
        /\ seq \in [Requests -> DeviceSequence]
    BY <1>3 DEF WorkerInv, WorkerTypeOK, CountsInv, StepInOrder
  <1>5. PICK b \in BOOLEAN : b = (snapshot[r] = req[r].prompt)
    OBVIOUS
  <1>6. seq' = [seq EXCEPT ![r] = [prefilled |-> snapshot[r], emitted |-> 0, next |-> b]]
    BY <1>2, <1>5
  <1>7. /\ seq'[r].prefilled = snapshot[r] /\ seq'[r].emitted = 0 /\ Knows(r)' = b
        /\ \A q \in Requests \ {r} : seq'[q] = seq[q]
    BY <1>3, <1>4, <1>6, SeqUpdate, NextUpdate
  <1>8. /\ UNCHANGED <<waiting, running, req, phase, prefills, decodes>>
        /\ \A q \in Requests \ {r} : snapshot'[q] = snapshot[q]
    BY <1>2, <1>4 DEF vars
  <1>9. Ahead' = Ahead /\ DecodesAhead' = DecodesAhead /\ DecodesAhead = ToSet(decodes)
    BY <1>2, <1>3, <1>8 DEF Ahead, DecodesAhead, ToSet
  <1>10. pending \cup sequences \subseteq Requests
    BY WorkerTypes
  <1>11. InsidePrompt'
    <2>1. ASSUME NEW q \in pending' \cup sequences'
          PROVE  q \in pending \cup sequences /\ q \in Requests /\ Base(q)' = Base(q)
      <3>1. q \in pending \cup sequences /\ q \in Requests
        BY <1>2, <1>10
      <3>2. CASE q = r
        <4>1. Base(q)' = seq'[r].prefilled /\ Base(q) = snapshot[r]
          BY <1>2, <3>2 DEF Base
        <4>2. QED
          BY <1>7, <3>1, <4>1
      <3>3. CASE q # r
        BY <1>2, <1>7, <1>8, <3>1, <3>3 DEF Base
      <3>4. QED
        BY <3>1, <3>2, <3>3
    <2>2. \A q \in pending' \cup sequences' : q \in pending \cup sequences /\ Base(q)' \in 0 .. Base(q)
      BY <2>1, WorkerTypes
    <2>3. QED
      BY <1>8, <1>9, <2>2, InsideKept DEF CountsInv
  <1>12. StepInOrder'
    <2>1. alive' => \A q \in ToSet(running') :
                        Whole(q)' => q \in pending' \cup sequences' \cup done'
      BY <1>2, <1>8 DEF CountsInv, StepInOrder, Whole
    <2>2. at' >= 1
      BY <1>2, <1>4
    <2>3. \A q \in Requests : ~ (emitted'[q] > 0)
      BY <1>2, <1>3 DEF NoneEmitted
    <2>4. QED
      BY <1>3, <1>8, <2>1, <2>2, <2>3 DEF CountsInv, StepInOrder
  <1>13. ASSUME NEW q \in pending', Whole(q)' PROVE OnHost(q)'
    <2>1. q \in pending /\ q # r /\ q \in Requests /\ Whole(q) /\ OnHost(q)
      BY <1>2, <1>10, <1>13 DEF CountsInv, Whole
    <2>2. ASSUME NEW i \in DOMAIN prefills, i >= at, prefills[i].id = q
          PROVE  i >= at'
      <3>1. i # at /\ i \in Nat
        BY <1>1, <2>1, <2>2, WorkerTypes DEF Newcomer
      <3>2. QED
        BY <1>2, <1>4, <2>2, <3>1
    <2>3. QED
      BY <1>2, <1>8, <2>1, <2>2, HostFrame
  <1>14. r \notin ToSet(decodes)
    BY <1>1, <1>2, <1>3, OneItem DEF ReserveLoop, Newcomer, WorkerInv
  <1>15. ASSUME Whole(r) PROVE OnDevice(r)'
    <2>1. \A i \in DOMAIN prefills : prefills[i].id = r =>
              /\ req[r].computed = snapshot[r] + prefills[i].tokens
              /\ prefills[i].tokens = 0 => b
      BY <1>2, <1>5, <1>15 DEF CountsInv, OnHost
    <2>2. emitted'[r] = 0 /\ seq'[r].emitted = 0
      BY <1>2, <1>3, <1>7 DEF NoneEmitted
    <2>3. \A i \in Ahead' : prefills'[i].id = r =>
              /\ req'[r].computed = seq'[r].prefilled + prefills'[i].tokens
              /\ prefills'[i].tokens = 0 => Knows(r)'
      BY <1>3, <1>7, <1>8, <1>9, <2>1
    <2>4. OutputKnown(r)'
      <3>1. req[r].output \in Nat /\ req[r].output > 0
        BY <1>3, WorkerTypes DEF WorkerInv, OutputAfterPrompt
      <3>2. QED
        BY <1>8, <1>14, <2>2, <3>1 DEF OutputKnown
    <2>5. r \in PrefillsAhead'
      BY <1>1, <1>2, <1>3, <1>8, <1>9 DEF PrefillsAhead, ReserveLoop, Newcomer
    <2>6. QED
      BY <1>8, <1>9, <1>14, <2>2, <2>3, <2>4, <2>5 DEF OnDevice, ChunkAhead
  <1>16. ASSUME NEW q \in sequences', Whole(q)' PROVE OnDevice(q)'
    <2>1. Whole(q)
      BY <1>2, <1>16 DEF Whole
    <2>2. CASE q # r
      <3>1. q \in sequences /\ q \in Requests /\ OnDevice(q)
        BY <1>2, <1>10, <1>16, <2>1, <2>2 DEF CountsInv
      <3>2. seq[q].emitted # req[q].output
        BY <1>3, <3>1 DEF OnDevice, OutputKnown
      <3>3. Uncounted(q)' = Uncounted(q) /\ PrefillsAhead' = PrefillsAhead
        BY <1>2, <1>8, <1>9 DEF Uncounted, PrefillsAhead
      <3>4. SameOnDevice(q)
        BY <1>2, <1>7, <1>8, <1>9, <2>2, <3>1, <3>2, <3>3 DEF SameOnDevice
      <3>5. QED
        BY <3>1, <3>4, DeviceFrame
    <2>3. QED
      BY <1>15, <2>1, <2>2
  <1>17. QED
    BY <1>11, <1>12, <1>13, <1>16 DEF CountsInv

LEMMA AdmitToDeviceFailsCounts ==
    ASSUME WorkerInv, CountsInv, AdmitToDeviceFails
    PROVE  CountsInv'
  <1>1. PICK r : r = Newcomer
    OBVIOUS
  <1>2. /\ ReserveLoop /\ r \in pending /\ pending' = pending \ {r}
        /\ snapshot' = [snapshot EXCEPT ![r] = 0]
        /\ StepFails /\ alive' = alive
        /\ \/ UNCHANGED <<sequences, seq>>
           \/ sequences' = sequences \cup {r} /\ seq' = [seq EXCEPT ![r] = NoSequence]
    BY <1>1 DEF AdmitToDeviceFails, ReserveCache
  <1>3. r \in Requests /\ r \in BatchIds
    BY <1>1, <1>2, NewcomerRuns DEF ReserveLoop, Newcomer, BatchIds
  <1>4. /\ snapshot \in [Requests -> Nat] /\ seq \in [Requests -> DeviceSequence]
        /\ r \notin sequences /\ pending \cup sequences \subseteq Requests
    BY <1>2 DEF WorkerInv, WorkerTypeOK, StateFollowsScheduler
  <1>5. /\ sequences \subseteq sequences' /\ sequences' \subseteq sequences \cup {r}
        /\ r \in sequences' => seq'[r].prefilled = 0
        /\ \A q \in Requests \ {r} : seq'[q] = seq[q] /\ snapshot'[q] = snapshot[q]
    <2>1. CASE UNCHANGED <<sequences, seq>>
      BY <1>2, <1>4, <2>1
    <2>2. CASE sequences' = sequences \cup {r} /\ seq' = [seq EXCEPT ![r] = NoSequence]
      BY <1>2, <1>3, <1>4, <2>2, SeqUpdate DEF NoSequence
    <2>3. QED
      BY <1>2, <2>1, <2>2
  <1>6. UNCHANGED req /\ prefills' = <<>>
    BY <1>2 DEF StepFails, ReturnBatch
  <1>7. InsidePrompt'
    <2>1. Ahead' = {}
      BY <1>6 DEF Ahead
    <2>2. ASSUME NEW q \in pending' \cup sequences'
          PROVE  q \in pending \cup sequences /\ Base(q)' \in 0 .. Base(q)
      <3>1. q \in pending \cup sequences /\ q \in Requests /\ Base(q) \in Nat
        BY <1>2, <1>4, <1>5, WorkerTypes
      <3>2. CASE q = r
        <4>1. Base(q)' = 0
          BY <1>2, <1>5, <3>2 DEF Base
        <4>2. QED
          BY <3>1, <4>1
      <3>3. CASE q # r
        <4>1. Base(q)' = Base(q)
          BY <1>2, <1>5, <3>1, <3>3 DEF Base
        <4>2. QED
          BY <3>1, <4>1
      <3>4. QED
        BY <3>2, <3>3
    <2>3. QED
      BY <1>6, <2>1, <2>2, InsideKept DEF CountsInv
  <1>8. /\ pending' \subseteq pending /\ \A q \in pending' : snapshot'[q] = snapshot[q]
        /\ \A q \in sequences' \ BatchIds : q \in sequences /\ seq'[q] = seq[q]
        /\ (pending \cup sequences) \ BatchIds \subseteq pending' \cup sequences'
    BY <1>2, <1>3, <1>4, <1>5
  <1>9. QED
    BY <1>2, <1>7, <1>8, FailureCounts

\* One request's part of a pass leaves the others alone.
LEMMA PassCounts ==
    ASSUME WorkerInv, CountsInv, UNCHANGED <<vars, cacheVars, alive, sequences, stage, done, torn>>,
           phase = "planned", stage \in {"decode", "prefill"}, at' = at + 1, InsidePrompt',
           NEW r \in sequences,
           \A q \in Requests \ {r} : seq'[q] = seq[q] /\ emitted'[q] = emitted[q],
           emitted'[r] > 0 => r \in ToSet(decodes),
           Ahead' \subseteq Ahead, \A q \in PrefillsAhead : q \in PrefillsAhead' \/ q = r,
           \A q \in Requests \ {r} : q \in DecodesAhead' <=> q \in DecodesAhead,
           Whole(r) => OnDevice(r)'
    PROVE  CountsInv'
  <1>1. UNCHANGED <<waiting, running, req, decodes, prefills, phase, pending, snapshot>>
    BY DEF vars, cacheVars
  <1>2. pending \cup sequences \subseteq Requests /\ BatchIds' = BatchIds
    BY <1>1, WorkerTypes DEF BatchIds
  <1>3. at \in Nat /\ at >= 1
    BY DEF WorkerInv, WorkerTypeOK, CountsInv, StepInOrder
  <1>4. \A q : Whole(q)' <=> Whole(q)
    BY DEF Whole
  <1>5. StepInOrder'
    <2>1. \A q \in Requests : phase' = "planned" /\ emitted'[q] > 0 => q \in ToSet(decodes')
      BY <1>1 DEF CountsInv, StepInOrder
    <2>2. at' >= 1
      BY <1>3
    <2>3. alive' => \A q \in ToSet(running') :
                        Whole(q)' => q \in pending' \cup sequences' \cup done'
      BY <1>1, <1>4 DEF CountsInv, StepInOrder
    <2>4. QED
      BY <1>1, <2>1, <2>2, <2>3 DEF CountsInv, StepInOrder
  <1>6. ASSUME NEW q \in pending', Whole(q)' PROVE OnHost(q)'
    <2>1. q \in pending /\ OnHost(q)
      BY <1>1, <1>4, <1>6 DEF CountsInv
    <2>2. q \notin ToSet(running)
      BY <2>1 DEF OnHost
    <2>3. QED
      BY <1>1, <2>1, <2>2 DEF OnHost
  <1>7. ASSUME NEW q \in sequences', Whole(q)' PROVE OnDevice(q)'
    <2>1. q \in sequences /\ q \in Requests /\ Whole(q) /\ OnDevice(q)
      BY <1>2, <1>4, <1>7 DEF CountsInv
    <2>2. CASE q # r
      <3>1. seq'[q] = seq[q] /\ emitted'[q] = emitted[q] /\ (q \in DecodesAhead' <=> q \in DecodesAhead)
        BY <2>1, <2>2
      <3>2. Uncounted(q)' = Uncounted(q)
        BY <3>1 DEF Uncounted
      <3>3. seq[q].emitted = req[q].output => stage' \in {"decode", "prefill"} /\ q \in BatchIds'
        BY <1>2, <2>1 DEF OnDevice, OutputKnown
      <3>4. q \in PrefillsAhead => q \in PrefillsAhead'
        BY <2>2
      <3>5. \A i \in Ahead' : i \in Ahead /\ prefills'[i] = prefills[i]
        BY <1>1
      <3>6. SameOnDevice(q)
        BY <1>1, <3>1, <3>2, <3>3, <3>4, <3>5 DEF SameOnDevice
      <3>7. QED
        BY <2>1, <3>6, DeviceFrame
    <2>3. QED
      BY <2>1, <2>2
  <1>8. QED
    BY <1>5, <1>6, <1>7 DEF CountsInv

LEMMA WindowFits ==
    ASSUME WorkerInv, NEW r \in Requests, seq[r].emitted < req[r].output
    PROVE  Window(r) \in Nat /\ seq[r].emitted + Window(r) <= req[r].output
  <1>1. req[r].output \in Nat /\ seq[r].emitted \in Nat /\ DraftTokens \in Nat
    BY WorkerTypes, ConfigAssumption
  <1>2. QED
    BY <1>1 DEF Window, Lesser

LEMMA DecodeSequenceCounts ==
    ASSUME WorkerInv, CountsInv, DecodeSequence
    PROVE  CountsInv'
  <1>1. PICK r : r = decodes[at]
    OBVIOUS
  <1>2. PICK n \in 0 .. Window(r), eos \in BOOLEAN :
            /\ IF eos THEN n < Window(r) ELSE n > 0
            /\ seq' = [seq EXCEPT ![r] =
                          [prefilled |-> seq[r].prefilled, next |-> TRUE,
                           emitted |-> IF eos THEN req[r].output
                                              ELSE seq[r].emitted + n]]
            /\ emitted' = [emitted EXCEPT ![r] = n]
    BY <1>1 DEF DecodeSequence
  <1>3. /\ phase = "planned" /\ stage = "decode" /\ at \in DOMAIN decodes /\ Collected
        /\ at' = at + 1 /\ UNCHANGED <<vars, cacheVars, alive, sequences, stage, done, torn>>
    BY DEF DecodeSequence, Executing, Advances
  <1>4. r \in Requests /\ r \in ToSet(decodes) /\ r \in sequences
    BY <1>1, <1>3, WorkerTypes DEF ToSet, Collected
  <1>5. /\ UNCHANGED <<req, decodes, prefills, pending, snapshot>>
        /\ \A i \in DOMAIN prefills : prefills[i].id # r
        /\ IsInjective(decodes)
    BY <1>3, <1>4, OneItem DEF vars, cacheVars, WorkerInv
  <1>6. n \in Nat /\ seq[r].emitted \in Nat /\ seq[r].prefilled \in Nat /\ req[r].output \in Nat
        /\ req[r].computed \in Nat /\ Window(r) \in Nat
    <2>1. Window(r) \in Nat
      BY <1>4, WindowType
    <2>2. QED
      BY <1>4, <2>1, WorkerTypes
  <1>7. PICK e \in Nat : e = IF eos THEN req[r].output ELSE seq[r].emitted + n
    BY <1>6
  <1>8. seq' = [seq EXCEPT ![r] = [prefilled |-> seq[r].prefilled, emitted |-> e, next |-> TRUE]]
    BY <1>2, <1>7
  <1>9. /\ seq'[r].prefilled = seq[r].prefilled /\ seq'[r].emitted = e /\ Knows(r)'
        /\ \A q \in Requests \ {r} : seq'[q] = seq[q]
    <2>1. seq \in [Requests -> DeviceSequence]
      BY DEF WorkerInv, WorkerTypeOK
    <2>2. Knows(r)'
      BY <1>4, <1>6, <1>8, <2>1, NextUpdate
    <2>3. QED
      BY <1>4, <1>6, <1>8, <2>1, <2>2, SeqUpdate
  <1>10. emitted'[r] = n /\ \A q \in Requests \ {r} : emitted'[q] = emitted[q]
    BY <1>2, <1>4, <1>6 DEF WorkerInv, WorkerTypeOK
  <1>11. Ahead' = Ahead /\ PrefillsAhead' = PrefillsAhead
    BY <1>3, <1>5 DEF Ahead, PrefillsAhead
  <1>12. /\ r \in DecodesAhead /\ r \notin DecodesAhead'
         /\ \A q \in Requests \ {r} : q \in DecodesAhead' <=> q \in DecodesAhead
    <2>1. at \in Nat /\ \A k \in DOMAIN decodes : k \in Nat
      <3>1. decodes \in Seq(Requests)
        BY WorkerTypes
      <3>2. QED
        BY <3>1 DEF WorkerInv, WorkerTypeOK
    <2>2. \A k \in DOMAIN decodes : k >= at <=> k = at \/ k >= at + 1
      BY <2>1
    <2>3. ~ (at >= at + 1) /\ at >= at
      BY <2>1
    <2>4. \A k \in DOMAIN decodes : decodes[k] = r => k = at
      BY <1>1, <1>3, <1>5 DEF IsInjective
    <2>5. DecodesAhead = {decodes[j] : j \in {k \in DOMAIN decodes : k >= at}}
      BY <1>3 DEF DecodesAhead
    <2>6. DecodesAhead' = {decodes[j] : j \in {k \in DOMAIN decodes : k >= at + 1}}
      BY <1>3, <1>5 DEF DecodesAhead
    <2>7. QED
      BY <1>1, <1>3, <2>2, <2>3, <2>4, <2>5, <2>6
  <1>13. InsidePrompt'
    <2>1. \A q \in Requests : Base(q)' = Base(q)
      BY <1>5, <1>9 DEF Base
    <2>2. pending \cup sequences \subseteq Requests
      BY WorkerTypes
    <2>3. QED
      BY <1>3, <1>5, <1>11, <2>1, <2>2 DEF CountsInv, InsidePrompt
  <1>14. ASSUME Whole(r) PROVE OnDevice(r)'
    <2>1. /\ seq[r].emitted < req[r].output /\ emitted[r] = 0
          /\ req[r].computed = seq[r].prefilled + seq[r].emitted
          /\ seq[r].emitted > 0 /\ seq[r].prefilled = req[r].prompt
      BY <1>4, <1>12, <1>14 DEF CountsInv, OnDevice, DecodeAhead, OutputKnown
    <2>2. seq[r].emitted + Window(r) <= req[r].output
      BY <1>4, <2>1, WindowFits
    <2>3. n <= Window(r)
      BY <1>6
    <2>4. e > 0 /\ e <= req[r].output
      BY <1>6, <1>7, <2>1, <2>2, <2>3
    <2>5. e < req[r].output => n > 0 /\ e = seq[r].emitted + n
      BY <1>2, <1>6, <1>7
    <2>6. r \in BatchIds'
      BY <1>4, <1>5 DEF BatchIds
    <2>7. OutputKnown(r)'
      BY <1>3, <1>5, <1>9, <2>1, <2>4, <2>6 DEF OutputKnown
    <2>8. Settled(r)'
      <3>1. Uncounted(r)' = IF n > 0 THEN n - 1 ELSE 0
        BY <1>10 DEF Uncounted
      <3>2. OutputComputed(r)' = IF e > 0 THEN e - 1 ELSE 0
        BY <1>9 DEF OutputComputed
      <3>3. e < req[r].output => req[r].computed + Uncounted(r)' = seq[r].prefilled + OutputComputed(r)'
        BY <1>6, <2>1, <2>4, <2>5, <3>1, <3>2
      <3>4. QED
        BY <1>5, <1>9, <2>4, <3>3 DEF Settled
    <2>9. \A i \in Ahead' : prefills'[i].id # r
      BY <1>5, <1>11 DEF Ahead
    <2>10. QED
      BY <1>12, <2>7, <2>8, <2>9 DEF OnDevice
  <1>15. QED
    BY <1>3, <1>4, <1>9, <1>10, <1>11, <1>12, <1>13, <1>14, PassCounts

LEMMA PrefillSequenceCounts ==
    ASSUME WorkerInv, CountsInv, PrefillSequence
    PROVE  CountsInv'
  <1>1. PICK r, k : r = prefills[at].id /\ k = prefills[at].tokens
    OBVIOUS
  <1>2. /\ phase = "planned" /\ stage = "prefill" /\ at \in DOMAIN prefills
        /\ r \in sequences /\ at' = at + 1 /\ UNCHANGED emitted
        /\ UNCHANGED <<vars, cacheVars, alive, sequences, stage, done, torn>>
    BY <1>1 DEF PrefillSequence, Prefilling, Executing, Advances
  <1>3. /\ r \in Requests /\ k \in Nat /\ at \in Nat
        /\ seq \in [Requests -> DeviceSequence] /\ prefills \in Seq(PrefillItem)
        /\ seq[r].prefilled \in Nat /\ seq[r].emitted \in Nat
        /\ req[r].output \in Nat /\ req[r].prompt \in Nat /\ req[r].computed \in Nat
    BY <1>1, <1>2, WorkerTypes DEF WorkerInv, WorkerTypeOK
  <1>4. seq[r].next \in BOOLEAN
    BY <1>3 DEF DeviceSequence
  <1>5. PICK end \in Nat : end = seq[r].prefilled + k
    BY <1>3
  <1>6. PICK e \in Nat, b \in BOOLEAN :
            /\ seq' = [seq EXCEPT ![r] = [prefilled |-> end, emitted |-> e, next |-> b]]
            /\ \/ end # req[r].prompt /\ e = seq[r].emitted /\ (Knows(r) => b)
               \/ end = req[r].prompt /\ e \in {req[r].output, seq[r].emitted + 1} /\ b
    <2>1. CASE end # req[r].prompt
      <3>1. PICK named \in BOOLEAN :
                seq' = [seq EXCEPT ![r] =
                                [prefilled |-> end, emitted |-> seq[r].emitted,
                                 next |-> seq[r].next \/ (named /\ k > 0)]]
        BY <1>1, <1>5, <2>1 DEF PrefillSequence
      <3>2. PICK b \in BOOLEAN : b = (seq[r].next \/ (named /\ k > 0))
        OBVIOUS
      <3>3. Knows(r) => b
        BY <1>4, <3>2, Zenon DEF Knows
      <3>4. seq' = [seq EXCEPT ![r] = [prefilled |-> end, emitted |-> seq[r].emitted, next |-> b]]
        BY <3>1, <3>2, Zenon
      <3>5. QED
        BY <1>3, <2>1, <3>3, <3>4
    <2>2. CASE end = req[r].prompt
      <3>1. PICK eos \in BOOLEAN :
                seq' = [seq EXCEPT ![r] =
                                [prefilled |-> end, next |-> TRUE,
                                 emitted |-> IF eos THEN req[r].output
                                                    ELSE seq[r].emitted + 1]]
        BY <1>1, <1>5, <2>2 DEF PrefillSequence
      <3>2. PICK e \in Nat : e = IF eos THEN req[r].output ELSE seq[r].emitted + 1
        BY <1>3
      <3>3. seq' = [seq EXCEPT ![r] = [prefilled |-> end, emitted |-> e, next |-> TRUE]]
        BY <3>1, <3>2
      <3>4. QED
        BY <2>2, <3>2, <3>3
    <2>3. QED
      BY <2>1, <2>2
  <1>7. /\ seq'[r].prefilled = end /\ seq'[r].emitted = e /\ Knows(r)' = b
        /\ \A q \in Requests \ {r} : seq'[q] = seq[q]
    BY <1>3, <1>6, SeqUpdate, NextUpdate
  <1>8. /\ UNCHANGED <<req, decodes, prefills, pending, snapshot>>
        /\ \A i, j \in DOMAIN prefills : prefills[i].id = prefills[j].id => i = j
        /\ r \notin ToSet(decodes) /\ r \in BatchIds
    BY <1>1, <1>2, OneItem DEF vars, cacheVars, WorkerInv, BatchIds
  <1>9. /\ \A i \in Ahead' : i \in Ahead /\ prefills[i].id # r
        /\ \A i \in Ahead : i \in Ahead' \/ i = at
        /\ at \in Ahead
    <2>1. \A i \in DOMAIN prefills : i \in Nat
      BY <1>3
    <2>2. \A i \in DOMAIN prefills : i >= at <=> i = at \/ i >= at + 1
      BY <1>3, <2>1
    <2>3. ~ (at >= at + 1) /\ at >= at
      BY <1>3
    <2>4. Ahead = {i \in DOMAIN prefills : i >= at} /\ Ahead' = {i \in DOMAIN prefills : i >= at + 1}
      BY <1>2, <1>8 DEF Ahead
    <2>5. \A i \in DOMAIN prefills : prefills[i].id = r => i = at
      BY <1>1, <1>2, <1>8
    <2>6. QED
      BY <1>2, <2>2, <2>3, <2>4, <2>5
  <1>10. \A q \in PrefillsAhead : q \in PrefillsAhead' \/ q = r
    BY <1>1, <1>8, <1>9 DEF PrefillsAhead
  <1>11. DecodesAhead = {} /\ DecodesAhead' = {}
    BY <1>2 DEF DecodesAhead
  <1>12. r \notin pending /\ Base(r) = seq[r].prefilled /\ Base(r)' = end
    <2>1. r \notin pending
      BY <1>2 DEF WorkerInv, StateFollowsScheduler
    <2>2. QED
      BY <1>7, <1>8, <2>1 DEF Base
  <1>13. end <= req[r].prompt
    BY <1>1, <1>2, <1>5, <1>9, <1>12 DEF CountsInv, InsidePrompt
  <1>14. InsidePrompt'
    <2>1. \A q \in Requests \ {r} : Base(q)' = Base(q)
      BY <1>7, <1>8 DEF Base
    <2>2. pending \cup sequences \subseteq Requests /\ pending' \cup sequences' = pending \cup sequences
      BY <1>2, <1>8, WorkerTypes
    <2>3. \A q \in pending' \cup sequences' : Base(q)' <= req'[q].prompt
      BY <1>8, <1>12, <1>13, <2>1, <2>2 DEF CountsInv, InsidePrompt
    <2>4. ASSUME NEW i \in Ahead', NEW q \in pending' \cup sequences', prefills'[i].id = q
          PROVE  Base(q)' + prefills'[i].tokens <= req'[q].prompt
      <3>1. i \in Ahead /\ q \in pending \cup sequences /\ q \in Requests \ {r} /\ prefills[i].id = q
        BY <1>8, <1>9, <2>2, <2>4
      <3>2. Base(q) + prefills[i].tokens <= req[q].prompt
        BY <3>1 DEF CountsInv, InsidePrompt
      <3>3. QED
        BY <1>8, <2>1, <3>1, <3>2
    <2>5. QED
      BY <2>3, <2>4 DEF InsidePrompt
  <1>15. ASSUME Whole(r) PROVE OnDevice(r)'
    <2>1. /\ seq[r].emitted = 0 /\ emitted[r] = 0 /\ req[r].computed = end
      BY <1>1, <1>2, <1>5, <1>9, <1>15 DEF CountsInv, OnDevice, ChunkAhead
    <2>2. req[r].output > 0
      BY <1>2 DEF WorkerInv, StateFollowsScheduler, OutputAfterPrompt
    <2>3. \/ end < req[r].prompt /\ e = 0
          \/ end = req[r].prompt /\ e > 0 /\ e <= req[r].output /\ (e < req[r].output => e = 1) /\ b
      BY <1>3, <1>6, <1>13, <2>1, <2>2
    <2>4. OutputKnown(r)'
      <3>1. r \in BatchIds' /\ r \notin ToSet(decodes')
        BY <1>8 DEF BatchIds
      <3>2. /\ e <= req[r].output
            /\ e > 0 => end = req[r].prompt /\ Knows(r)'
        BY <1>3, <1>7, <2>2, <2>3
      <3>3. QED
        BY <1>2, <1>7, <1>8, <3>1, <3>2 DEF OutputKnown
    <2>5. Settled(r)'
      <3>1. Uncounted(r)' = 0
        BY <1>2, <2>1 DEF Uncounted
      <3>2. OutputComputed(r)' = IF e > 0 THEN e - 1 ELSE 0
        BY <1>7 DEF OutputComputed
      <3>3. e < req[r].output => OutputComputed(r)' = 0
        BY <2>3, <3>2
      <3>4. e = 0 => end < req[r].prompt
        BY <2>3
      <3>5. QED
        BY <1>3, <1>7, <1>8, <2>1, <3>1, <3>3, <3>4 DEF Settled
    <2>6. \A i \in Ahead' : prefills'[i].id # r
      BY <1>8, <1>9
    <2>7. QED
      BY <1>11, <2>4, <2>5, <2>6 DEF OnDevice
  <1>16. emitted'[r] > 0 => r \in ToSet(decodes)
    BY <1>2, <1>3 DEF CountsInv, StepInOrder
  <1>17. QED
    BY <1>2, <1>3, <1>7, <1>9, <1>10, <1>11, <1>14, <1>15, <1>16, PassCounts

LEMMA EndExecuteCounts ==
    ASSUME WorkerInv, CountsInv, EndExecute
    PROVE  CountsInv'
  <1>1. /\ phase = "planned" /\ stage = "prefill" /\ at \notin DOMAIN prefills
        /\ ReturnBatch
        /\ sequences' = sequences \ Complete /\ seq' = Forgotten(Complete)
        /\ done' = Complete /\ stage' = "advance"
        /\ UNCHANGED <<cacheVars, alive, emitted, torn>>
    BY DEF EndExecute, Executing
  <1>2. /\ phase' = "idle" /\ prefills' = <<>> /\ decodes' = <<>>
        /\ UNCHANGED <<waiting, running, req, pending, snapshot>>
    BY <1>1 DEF ReturnBatch, cacheVars
  <1>3. \A q \in sequences' : q \in sequences /\ q \in Requests /\ seq'[q] = seq[q]
    BY <1>1, ForgottenFacts DEF WorkerInv, WorkerTypeOK
  <1>4. Ahead' = {} /\ PrefillsAhead' = {} /\ DecodesAhead' = {} /\ ToSet(decodes') = {}
    BY <1>2 DEF Ahead, PrefillsAhead, DecodesAhead, ToSet
  <1>5. Ahead = {} /\ DecodesAhead = {} /\ PrefillsAhead = {}
    <2>1. at \in Nat /\ at >= 1 /\ prefills \in Seq(PrefillItem)
      BY <1>1, WorkerTypes DEF WorkerInv, WorkerTypeOK, CountsInv, StepInOrder
    <2>2. \A i \in DOMAIN prefills : ~ (i >= at)
      BY <1>1, <2>1
    <2>3. QED
      BY <1>1, <2>2 DEF Ahead, DecodesAhead, PrefillsAhead
  <1>6. \A q : Whole(q)' <=> Whole(q)
    BY <1>1 DEF Whole
  <1>7. InsidePrompt'
    <2>1. \A q \in pending' \cup sequences' : q \in pending \cup sequences /\ Base(q)' = Base(q)
      BY <1>1, <1>2, <1>3 DEF Base
    <2>2. QED
      BY <1>2, <1>4, <2>1 DEF CountsInv, InsidePrompt
  <1>8. StepInOrder'
    <2>1. done = {}
      BY <1>1 DEF WorkerInv, StageFollows
    <2>2. alive' => \A q \in ToSet(running') :
                        Whole(q)' => q \in pending' \cup sequences' \cup done'
      BY <1>1, <1>2, <1>6, <2>1 DEF CountsInv, StepInOrder
    <2>3. QED
      BY <1>1, <1>2, <2>2 DEF CountsInv, StepInOrder
  <1>9. ASSUME NEW q \in pending', Whole(q)' PROVE OnHost(q)'
    <2>1. OnHost(q) /\ q \notin ToSet(running)
      BY <1>1, <1>2, <1>6, <1>9 DEF CountsInv, OnHost
    <2>2. QED
      BY <1>2, <2>1 DEF OnHost
  <1>10. ASSUME NEW q \in sequences', Whole(q)' PROVE OnDevice(q)'
    <2>1. q \in sequences /\ q \in Requests /\ OnDevice(q) /\ seq'[q] = seq[q]
      BY <1>3, <1>6, <1>10 DEF CountsInv
    <2>2. seq[q].emitted # req[q].output
      <3>1. ~ (seq[q].emitted >= req[q].output)
        BY <1>1, <1>10, <2>1 DEF Complete
      <3>2. QED
        BY <2>1, <3>1, WorkerTypes
    <2>3. Uncounted(q)' = Uncounted(q)
      BY <1>1 DEF Uncounted
    <2>4. SameOnDevice(q)
      BY <1>1, <1>2, <1>4, <1>5, <2>1, <2>2, <2>3 DEF SameOnDevice
    <2>5. QED
      BY <2>1, <2>4, DeviceFrame
  <1>11. QED
    BY <1>7, <1>8, <1>9, <1>10 DEF CountsInv

\* A call between two steps leaves everyone but r alone.
LEMMA BetweenStepsCounts ==
    ASSUME WorkerInv, CountsInv, phase = "idle", UNCHANGED <<stepVars, stage>>,
           InsidePrompt', StepInOrder', NEW r,
           \A q \in pending' \ {r} : /\ q \in pending /\ snapshot'[q] = snapshot[q]
                                     /\ Whole(q)' => Whole(q),
           \A q \in sequences' \ {r} : /\ q \in sequences /\ seq'[q] = seq[q]
                                       /\ emitted'[q] = emitted[q] /\ (Whole(q)' => Whole(q)),
           \A q \in Requests \ {r} : /\ req'[q] = req[q]
                                     /\ q \in ToSet(waiting') => q \in ToSet(waiting)
                                     /\ q \in ToSet(running') => q \in ToSet(running),
           r \in pending' /\ Whole(r)' => OnHost(r)',
           r \in sequences' /\ Whole(r)' => OnDevice(r)'
    PROVE  CountsInv'
  <1>1. /\ stage \notin {"reserve", "decode", "prefill"} /\ stage' = stage
        /\ decodes = <<>> /\ prefills = <<>> /\ decodes' = <<>> /\ prefills' = <<>>
    BY DEF stepVars, WorkerInv, BatchInv, WorkerTypeOK
  <1>2. pending \cup sequences \subseteq Requests
    BY WorkerTypes
  <1>3. /\ Ahead = {} /\ Ahead' = {} /\ DecodesAhead = {} /\ DecodesAhead' = {}
        /\ PrefillsAhead = {} /\ PrefillsAhead' = {} /\ ToSet(decodes') = {}
    BY <1>1 DEF Ahead, DecodesAhead, PrefillsAhead, ToSet
  <1>4. ASSUME NEW q \in pending', Whole(q)' PROVE OnHost(q)'
    <2>1. CASE q # r
      <3>1. q \in pending /\ q \in Requests /\ OnHost(q) /\ snapshot'[q] = snapshot[q] /\ req'[q] = req[q]
        BY <1>2, <1>4, <2>1 DEF CountsInv
      <3>2. q \notin ToSet(running)
        BY <1>1, <3>1 DEF OnHost
      <3>3. QED
        BY <1>1, <2>1, <3>1, <3>2 DEF OnHost
    <2>2. QED
      BY <1>4, <2>1
  <1>5. ASSUME NEW q \in sequences', Whole(q)' PROVE OnDevice(q)'
    <2>1. CASE q # r
      <3>1. /\ q \in sequences /\ q \in Requests /\ OnDevice(q) /\ seq'[q] = seq[q]
            /\ req'[q] = req[q] /\ emitted'[q] = emitted[q]
        BY <1>2, <1>5, <2>1 DEF CountsInv
      <3>2. seq[q].emitted # req[q].output
        BY <1>1, <3>1 DEF OnDevice, OutputKnown
      <3>3. Uncounted(q)' = Uncounted(q)
        BY <3>1 DEF Uncounted
      <3>4. SameOnDevice(q)
        BY <1>1, <1>3, <3>1, <3>2, <3>3 DEF SameOnDevice
      <3>5. QED
        BY <3>1, <3>4, DeviceFrame
    <2>2. QED
      BY <1>5, <2>1
  <1>6. QED
    BY <1>4, <1>5 DEF CountsInv

LEMMA LeaveCounts ==
    ASSUME WorkerInv, CountsInv, NEW r \in Requests, phase = "idle", CancelRequest(r),
           UNCHANGED <<stepVars, stage, at, alive, emitted>>,
           pending' = pending \ {r}, sequences' = sequences \ {r},
           done' = done \ {r}, torn' = torn \ {r},
           \A q \in Requests \ {r} : snapshot'[q] = snapshot[q] /\ seq'[q] = seq[q]
    PROVE  CountsInv'
  <1>1. /\ ToSet(waiting') = ToSet(waiting) \ {r} /\ ToSet(running') = ToSet(running) \ {r}
        /\ \A q \in Requests \ {r} : req'[q] = req[q]
    BY LeaveFacts DEF WorkerInv
  <1>2. /\ stage \notin {"reserve", "decode", "prefill"} /\ stage' = stage
        /\ phase' = "idle" /\ prefills' = <<>>
    BY DEF stepVars, WorkerInv, BatchInv, WorkerTypeOK
  <1>3. /\ pending \cup sequences \subseteq Requests
        /\ ToSet(waiting) \cup ToSet(running) \subseteq Requests
    BY WorkerTypes
  <1>4. \A q : q # r => (Whole(q)' <=> Whole(q))
    BY DEF Whole
  <1>5. InsidePrompt'
    <2>1. Ahead' = {}
      BY <1>2 DEF Ahead
    <2>2. \A q \in pending' \cup sequences' :
              q \in pending \cup sequences /\ q \in Requests \ {r} /\ Base(q)' = Base(q)
      BY <1>3 DEF Base
    <2>3. QED
      BY <1>1, <2>1, <2>2 DEF CountsInv, InsidePrompt
  <1>6. StepInOrder'
    <2>1. \A q \in ToSet(waiting') \cup ToSet(running') :
              req'[q].prompt <= U32Max /\ req'[q].output <= U32Max
      BY <1>1, <1>3 DEF CountsInv, StepInOrder
    <2>2. alive' => \A q \in ToSet(running') :
                        Whole(q)' => q \in pending' \cup sequences' \cup done'
      BY <1>1, <1>4 DEF CountsInv, StepInOrder
    <2>3. QED
      BY <1>2, <2>1, <2>2 DEF StepInOrder
  <1>7. QED
    BY <1>1, <1>3, <1>4, <1>5, <1>6, BetweenStepsCounts

LEMMA FinishCompletedCounts ==
    ASSUME WorkerInv, CountsInv, NEW r \in Requests, FinishCompleted(r)
    PROVE  CountsInv'
  <1>1. /\ r \in done /\ phase = "idle" /\ FinishRequest(r) /\ UNCHANGED stepVars
        /\ done' = done \ {r} /\ torn' = torn \ {r}
        /\ UNCHANGED <<pending, snapshot, alive, sequences, seq, stage, at, emitted>>
    BY DEF FinishCompleted, Call, deviceVars
  <1>2. r \notin pending /\ r \notin sequences
    BY <1>1 DEF WorkerInv, StateFollowsScheduler, StageFollows
  <1>3. CancelRequest(r)
    BY <1>1 DEF CancelRequest
  <1>4. QED
    BY <1>1, <1>2, <1>3, LeaveCounts

LEMMA CancelTokensCounts ==
    ASSUME WorkerInv, CountsInv, NEW r \in Requests, CancelTokens(r)
    PROVE  CountsInv'
  <1>1. /\ stage = "idle" /\ phase = "idle" /\ CancelRequest(r) /\ UNCHANGED stepVars
        /\ pending' = pending \ {r} /\ snapshot' = [snapshot EXCEPT ![r] = 0]
        /\ sequences' = sequences \ ({r} \cap ToSet(running))
        /\ seq' = Forgotten({r} \cap ToSet(running))
        /\ torn' = torn \ {r} /\ UNCHANGED <<alive, stage, at, emitted, done>>
    BY DEF CancelTokens, Call
  <1>2. sequences' = sequences \ {r} /\ done' = done \ {r}
    BY <1>1 DEF WorkerInv, StateFollowsScheduler, StageFollows
  <1>3. \A q \in Requests \ {r} : snapshot'[q] = snapshot[q]
    BY <1>1 DEF WorkerInv, WorkerTypeOK
  <1>4. \A q \in Requests \ {r} : seq'[q] = seq[q]
    BY <1>1 DEF Forgotten
  <1>5. QED
    BY <1>1, <1>2, <1>3, <1>4, LeaveCounts

LEMMA AdmitTokensCounts ==
    ASSUME WorkerInv, CountsInv, NEW r \in Requests, AdmitTokens(r)
    PROVE  CountsInv'
  <1>1. PICK p \in Prompts, m \in Outputs, prefix \in CachedPrefixes :
            Call(Enqueue(r, p, m, prefix)) /\ snapshot' = [snapshot EXCEPT ![r] = prefix]
    BY DEF AdmitTokens
  <1>2. /\ stage = "idle" /\ stage' = "idle" /\ pending' = pending \cup {r}
        /\ UNCHANGED <<alive, sequences, seq, at, emitted, done, torn>>
    BY DEF AdmitTokens, deviceVars, stepDeviceVars
  <1>3. /\ phase = "idle" /\ phase' = "idle" /\ UNCHANGED stepVars
        /\ r \notin ToSet(waiting) \cup ToSet(running)
        /\ waiting' = Append(waiting, r) /\ running' = running
        /\ req' = [req EXCEPT ![r] = [prompt |-> p, output |-> m,
                                      computed |-> prefix, blocks |-> 0]]
        /\ ~ (prefix > p)
    <2>1. /\ phase = "idle" /\ UNCHANGED stepVars /\ Enqueue(r, p, m, prefix)
      BY <1>1 DEF Call
    <2>2. Refusal(p, m, prefix) = "none"
      BY <2>1 DEF Enqueue
    <2>3. ~ (prefix > p)
      BY <2>2 DEF Refusal
    <2>4. QED
      BY <2>1, <2>3 DEF Enqueue, stepVars
  <1>4. /\ m \in Nat /\ p \in Nat /\ prefix \in Nat /\ prefix <= p
        /\ p <= U32Max /\ m <= U32Max
    <2>1. U32Max \in Nat
      BY ConfigAssumption
    <2>2. QED
      BY <1>3, <2>1, RequestAssumption
  <1>5. /\ waiting \in Seq(Requests) /\ req \in [Requests -> TrackedRequest]
        /\ snapshot \in [Requests -> Nat]
        /\ pending \cup sequences \subseteq Requests
        /\ ToSet(waiting) \cup ToSet(running) \subseteq Requests
    BY WorkerTypes DEF WorkerInv, IInv, TypeOK, WorkerTypeOK
  <1>6. ToSet(waiting') = ToSet(waiting) \cup {r}
    BY <1>3, <1>5, AppendFacts
  <1>7. r \notin pending /\ r \notin sequences
    BY <1>3 DEF WorkerInv, StateFollowsScheduler
  <1>8. /\ req'[r].prompt = p /\ req'[r].output = m /\ req'[r].computed = prefix
        /\ \A q \in Requests \ {r} : req'[q] = req[q]
    BY <1>3, <1>5
  <1>9. snapshot'[r] = prefix /\ \A q \in Requests \ {r} : snapshot'[q] = snapshot[q]
    BY <1>1, <1>4, <1>5
  <1>10. prefills = <<>> /\ prefills' = <<>> /\ \A q : Whole(q)' <=> Whole(q)
    BY <1>2, <1>3 DEF stepVars, WorkerInv, BatchInv, Whole
  <1>11. InsidePrompt'
    <2>1. Ahead' = {}
      BY <1>10 DEF Ahead
    <2>2. ASSUME NEW q \in pending' \cup sequences' PROVE Base(q)' <= req'[q].prompt
      <3>1. CASE q = r
        <4>1. Base(q)' = prefix
          BY <1>2, <1>9, <3>1 DEF Base
        <4>2. QED
          BY <1>4, <1>8, <3>1, <4>1
      <3>2. CASE q # r
        <4>1. q \in pending \cup sequences /\ q \in Requests \ {r}
          BY <1>2, <1>5, <3>2
        <4>2. Base(q)' = Base(q)
          BY <1>2, <1>9, <4>1 DEF Base
        <4>3. QED
          BY <1>8, <4>1, <4>2 DEF CountsInv, InsidePrompt
      <3>3. QED
        BY <3>1, <3>2
    <2>3. QED
      BY <2>1, <2>2 DEF InsidePrompt
  <1>12. StepInOrder'
    <2>1. \A q \in ToSet(waiting') \cup ToSet(running') :
              req'[q].prompt <= U32Max /\ req'[q].output <= U32Max
      BY <1>3, <1>4, <1>5, <1>6, <1>8 DEF CountsInv, StepInOrder
    <2>2. alive' => \A q \in ToSet(running') :
                        Whole(q)' => q \in pending' \cup sequences' \cup done'
      BY <1>2, <1>3, <1>10 DEF CountsInv, StepInOrder
    <2>3. QED
      BY <1>2, <1>3, <2>1, <2>2 DEF StepInOrder
  <1>13. OnHost(r)'
    BY <1>3, <1>8, <1>9, <1>10 DEF OnHost
  <1>14. /\ \A q \in pending' \ {r} : q \in pending /\ snapshot'[q] = snapshot[q]
         /\ \A q \in sequences' : q \in sequences /\ seq'[q] = seq[q] /\ emitted'[q] = emitted[q]
         /\ r \notin sequences'
    BY <1>2, <1>5, <1>7, <1>9
  <1>15. \A q \in Requests \ {r} : q \in ToSet(waiting') => q \in ToSet(waiting)
    BY <1>6
  <1>16. QED
    BY <1>2, <1>3, <1>8, <1>10, <1>11, <1>12, <1>13, <1>14, <1>15, BetweenStepsCounts

\* The lengths of a request that decodes do not wrap: what it is charged is beyond its
\* prompt and within its length.
LEMMA LengthExact ==
    ASSUME WorkerInv, NEW r \in Requests, req[r].prompt <= U32Max, req[r].output <= U32Max,
           req[r].computed \in req[r].prompt .. FullSeqLen(r)
    PROVE  FullSeqLen(r) = req[r].prompt + req[r].output
  <1>1. /\ req[r].prompt \in Nat /\ req[r].output \in Nat /\ req[r].computed \in Nat
        /\ FullSeqLen(r) \in Nat
    BY WorkerTypes
  <1>2. U32Max \in Nat
    BY ConfigAssumption
  <1>3. req[r].prompt <= FullSeqLen(r)
    BY <1>1
  <1>4. \A p, m, u \in Nat : p <= u /\ m <= u /\ p <= (p + m) % (u + 1) => (p + m) % (u + 1) = p + m
    <2>1. SUFFICES ASSUME NEW p \in Nat, NEW m \in Nat, NEW u \in Nat, p <= u, m <= u,
                          p <= (p + m) % (u + 1)
                   PROVE  (p + m) % (u + 1) = p + m
      OBVIOUS
    <2>2. CASE p + m <= u
      BY <2>2
    <2>3. CASE p + m > u
      <3>1. PICK d \in Nat : d = p + m - (u + 1)
        BY <2>3
      <3>2. d < u + 1 /\ d < p
        BY <2>1, <3>1
      <3>3. (p + m) % (u + 1) = d
        BY <3>1, <3>2
      <3>4. QED
        BY <2>1, <3>2, <3>3
    <2>4. QED
      BY <2>2, <2>3
  <1>5. QED
    BY <1>1, <1>2, <1>3, <1>4 DEF FullSeqLen

LEMMA AdvanceDecodeCounts ==
    ASSUME WorkerInv, CountsInv, NEW r \in Requests, AdvanceDecode(r)
    PROVE  CountsInv'
  <1>1. /\ stage = "advance" /\ emitted[r] > 1
        /\ phase = "idle" /\ AdvanceSpeculative(r, emitted[r] - 1) /\ UNCHANGED stepVars
        /\ emitted' = [emitted EXCEPT ![r] = 0]
        /\ UNCHANGED <<pending, snapshot, alive, sequences, seq, stage, at, done, torn>>
    BY DEF AdvanceDecode, Call, cacheVars, deviceVars
  <1>2. /\ UNCHANGED <<waiting, running>> /\ phase' = "idle"
        /\ r \in ToSet(running) /\ prefills' = <<>> /\ decodes' = <<>>
    BY <1>1 DEF AdvanceSpeculative, stepVars, WorkerInv, BatchInv
  <1>3. PICK n \in Nat : n = emitted[r] - 1
    BY <1>1, WorkerTypes
  <1>4. req[r].computed \in req[r].prompt .. FullSeqLen(r)
    <2>1. emitted[r] > 0
      BY <1>1, WorkerTypes
    <2>2. QED
      BY <2>1 DEF WorkerInv, OutputAfterPrompt
  <1>5. /\ \A q \in Requests : req'[q].prompt = req[q].prompt /\ req'[q].output = req[q].output
        /\ \A q \in Requests \ {r} : req'[q] = req[q]
        /\ req'[r].computed = Lesser(req[r].computed + n, FullSeqLen(r))
    <2>1. AdvanceSpeculative(r, n) /\ IInv
      BY <1>1, <1>3 DEF WorkerInv
    <2>2. QED
      BY <1>3, <1>4, <2>1, AdvanceFacts
  <1>6. emitted'[r] = 0 /\ \A q \in Requests \ {r} : emitted'[q] = emitted[q]
    BY <1>1 DEF WorkerInv, WorkerTypeOK
  <1>7. /\ pending \cup sequences \subseteq Requests
        /\ ToSet(waiting) \cup ToSet(running) \subseteq Requests
    BY WorkerTypes
  <1>8. \A q : Whole(q)' <=> Whole(q)
    BY <1>1 DEF Whole
  <1>9. InsidePrompt'
    <2>1. Ahead' = {}
      BY <1>2 DEF Ahead
    <2>2. \A q \in pending' \cup sequences' :
              q \in pending \cup sequences /\ q \in Requests /\ Base(q)' = Base(q)
      BY <1>1, <1>7 DEF Base
    <2>3. QED
      BY <1>5, <2>1, <2>2 DEF CountsInv, InsidePrompt
  <1>10. StepInOrder'
    <2>1. \A q \in ToSet(waiting') \cup ToSet(running') :
              req'[q].prompt <= U32Max /\ req'[q].output <= U32Max
      BY <1>2, <1>5, <1>7 DEF CountsInv, StepInOrder
    <2>2. alive' => \A q \in ToSet(running') :
                        Whole(q)' => q \in pending' \cup sequences' \cup done'
      BY <1>1, <1>2, <1>8 DEF CountsInv, StepInOrder
    <2>3. QED
      BY <1>1, <1>2, <2>1, <2>2 DEF StepInOrder
  <1>11. ~ (r \in pending /\ Whole(r))
    BY <1>1, <1>2 DEF CountsInv, OnHost
  <1>12. ASSUME r \in sequences, Whole(r) PROVE OnDevice(r)'
    <2>1. OnDevice(r)
      BY <1>12 DEF CountsInv
    <2>2. /\ seq[r].emitted \in Nat /\ seq[r].prefilled \in Nat /\ req[r].output \in Nat
          /\ req[r].prompt \in Nat /\ req[r].computed \in Nat
      BY WorkerTypes
    <2>3. seq[r].emitted < req[r].output
      BY <1>1, <2>1, <2>2 DEF OnDevice, OutputKnown
    <2>4. decodes = <<>> /\ prefills = <<>>
      BY <1>1 DEF WorkerInv, BatchInv
    <2>5. r \notin PrefillsAhead \cup DecodesAhead
      BY <2>4 DEF PrefillsAhead, DecodesAhead, Ahead
    <2>6. Uncounted(r) = n /\ Uncounted(r)' = 0 /\ OutputComputed(r)' = OutputComputed(r)
      <3>1. emitted[r] \in Nat
        BY WorkerTypes
      <3>2. QED
        BY <1>1, <1>3, <1>6, <3>1 DEF Uncounted, OutputComputed
    <2>7. OutputComputed(r) \in Nat /\ OutputComputed(r) <= req[r].output
      BY <2>2, <2>3 DEF OutputComputed
    <2>8. /\ req[r].computed + n = seq[r].prefilled + OutputComputed(r)
          /\ seq[r].emitted = 0 => seq[r].prefilled < req[r].prompt
      BY <2>1, <2>3, <2>5, <2>6 DEF OnDevice, Settled
    <2>9. FullSeqLen(r) = req[r].prompt + req[r].output
      BY <1>2, <1>4, LengthExact DEF CountsInv, StepInOrder
    <2>10. seq[r].prefilled <= req[r].prompt
      <3>1. r \notin pending
        BY <1>12 DEF WorkerInv, StateFollowsScheduler
      <3>2. QED
        BY <1>12, <3>1 DEF CountsInv, InsidePrompt, Base
    <2>11. req'[r].computed = req[r].computed + n
      BY <1>3, <1>5, <2>2, <2>7, <2>8, <2>9, <2>10 DEF Lesser
    <2>12. Settled(r)'
      BY <1>1, <1>3, <1>5, <2>2, <2>6, <2>7, <2>8, <2>11 DEF Settled
    <2>13. OutputKnown(r)'
      <3>1. Knows(r)' = Knows(r)
        BY <1>1 DEF Knows
      <3>2. ToSet(decodes') = {}
        BY <1>2 DEF ToSet
      <3>3. req'[r].prompt = req[r].prompt /\ req'[r].output = req[r].output
        BY <1>5
      <3>4. QED
        BY <1>1, <2>1, <2>2, <2>3, <3>1, <3>2, <3>3 DEF OnDevice, OutputKnown
    <2>14. Ahead' = {} /\ DecodesAhead' = {}
      BY <1>2 DEF Ahead, DecodesAhead
    <2>15. QED
      BY <2>12, <2>13, <2>14 DEF OnDevice
  <1>13. /\ \A q \in pending' \ {r} : q \in pending /\ snapshot'[q] = snapshot[q]
         /\ \A q \in sequences' \ {r} : q \in sequences /\ seq'[q] = seq[q] /\ emitted'[q] = emitted[q]
    BY <1>1, <1>6, <1>7
  <1>14. /\ r \in pending' /\ Whole(r)' => OnHost(r)'
         /\ r \in sequences' /\ Whole(r)' => OnDevice(r)'
    BY <1>1, <1>8, <1>11, <1>12
  <1>15. QED
    BY <1>1, <1>2, <1>5, <1>8, <1>9, <1>10, <1>13, <1>14, BetweenStepsCounts

LEMMA StuttersCount ==
    ASSUME WorkerInv, CountsInv, UNCHANGED allVars
    PROVE  CountsInv'
  <1>1. UNCHANGED <<vars, cacheVars, alive, sequences, seq, stage, at, emitted, done, torn>>
    BY DEF allVars, workerVars, deviceVars, stepDeviceVars
  <1>2. UNCHANGED <<waiting, running, req, decodes, prefills, phase, pending, snapshot>>
    BY <1>1 DEF vars, cacheVars
  <1>3. Ahead' = Ahead /\ DecodesAhead' = DecodesAhead
    BY <1>1, <1>2 DEF Ahead, DecodesAhead
  <1>4. \A q \in Requests : Uncounted(q)' = Uncounted(q)
    BY <1>1 DEF Uncounted
  <1>5. /\ stage' \in {"reserve", "decode", "prefill"} => at' >= 1
        /\ phase \in {"decode", "prefill", "admit"} => at' = 1
        /\ \A q \in pending \cap ToSet(running) : Whole(q) =>
               stage' = stage /\ \E i \in DOMAIN prefills : i >= at' /\ prefills[i].id = q
    BY <1>1 DEF CountsInv, StepInOrder, OnHost
  <1>6. QED
    BY <1>1, <1>3, <1>4, <1>5, MovesCount DEF deviceVars

LEMMA WorkerNextCounts ==
    ASSUME WorkerInv, CountsInv, [WorkerNext]_allVars
    PROVE  CountsInv'
  <1>1. IInv' /\ BatchInv'
    BY WorkerKeepsScheduler
  <1>2. QED
    BY <1>1, StuttersCount, BeginStepCounts, PlanBatchCounts, AlreadyResidentCounts,
       AdmitToDeviceCounts, AdmitToDeviceFailsCounts, ErrorsCount, BeginExecuteCounts,
       DecodeSequenceCounts, BeginPrefillsCounts, PrefillSequenceCounts, EndExecuteCounts,
       AdvanceDecodeCounts, SettlingCounts, FinishCompletedCounts, AdmitTokensCounts,
       CancelTokensCounts DEF WorkerNext, StepDevice

LEMMA InitialCounts == WorkerInit => CountsInv
  <1> SUFFICES ASSUME WorkerInit PROVE CountsInv
    OBVIOUS
  <1>1. waiting = <<>> /\ running = <<>> /\ pending = {} /\ sequences = {} /\ stage = "idle"
        /\ phase = "idle"
    BY DEF WorkerInit, Init
  <1>2. ToSet(waiting) = {} /\ ToSet(running) = {}
    BY <1>1 DEF ToSet
  <1>3. QED
    BY <1>1, <1>2 DEF CountsInv, InsidePrompt, StepInOrder

\* The two counts of every request that no failed step has planned are where the point
\* of step_device says they are.
THEOREM CountsInvariant == WorkerSpec => []CountsInv
  <1>1. WorkerInit => CountsInv
    BY InitialCounts
  <1>2. WorkerInv /\ CountsInv /\ [WorkerNext]_allVars => CountsInv'
    BY WorkerNextCounts
  <1>3. QED
    BY <1>1, <1>2, WorkerInvariant, PTL DEF WorkerSpec

-----------------------------------------------------------------------------
(* What the requests are given. *)

LEMMA GivenTypes ==
    ASSUME WorkerInv, GivenInv
    PROVE  /\ generated \in [Requests -> Nat] /\ given \in [Requests -> Nat]
           /\ \A r \in Requests : generated[r] \in Nat /\ given[r] \in Nat
           /\ sequences \subseteq reserved \ done /\ reserved \subseteq Requests
           /\ done \subseteq reserved
  BY DEF GivenInv, WorkerInv, WorkerTypeOK, StateFollowsScheduler, StageFollows

\* A step that gives nothing: it may lose what the step produced, from the requests of
\* its batch, and it may take newcomers to the device.
GivesNothing ==
    /\ given' = given
    /\ generated' \in {generated, NoneEmitted}
    /\ stage' \notin {"decode", "prefill"} => generated' = NoneEmitted
    /\ stage' = "decode" => generated' = emitted'
    /\ \A r \in Requests : req'[r].output = req[r].output
    /\ reserved \subseteq reserved' /\ done \subseteq done'
    /\ \A r \in reserved' \ reserved : r \in Requests /\ req[r].output > 0
    /\ \A r \in sequences' :
           \/ r \in sequences /\ seq'[r].emitted = seq[r].emitted
           \/ r \notin reserved /\ r \in Requests /\ seq'[r].emitted = 0
    /\ torn \subseteq torn'
    /\ \/ generated' = generated /\ sequences \subseteq sequences' /\ BatchIds' = BatchIds
       \/ generated' = NoneEmitted /\ BatchIds \subseteq torn'
       \/ generated' = NoneEmitted /\ generated = NoneEmitted

LEMMA NothingGiven == ASSUME WorkerInv, GivenInv, GivesNothing PROVE GivenInv'
  <1>1. NoneEmitted \in [Requests -> Nat] /\ \A r \in Requests : NoneEmitted[r] = 0
    BY DEF NoneEmitted
  <1>2. generated' \in [Requests -> Nat] /\ given' \in [Requests -> Nat]
    BY <1>1, GivenTypes DEF GivesNothing
  <1>3. \A r \in Requests : /\ generated'[r] \in {generated[r], 0} /\ given'[r] = given[r]
                             /\ generated[r] \in Nat /\ given[r] \in Nat /\ req[r].output \in Nat
    BY <1>1, GivenTypes, WorkerTypes DEF GivesNothing
  <1>4. ASSUME NEW r \in Requests
        PROVE  /\ Result(r)' <= req'[r].output
               /\ r \notin reserved' => Result(r)' = 0
               /\ r \in reserved' \ done' => given'[r] < req'[r].output
               /\ generated'[r] > 0 => r \in sequences' \cap BatchIds'
    <2>1. /\ given[r] + generated[r] <= req[r].output
          /\ r \notin reserved => given[r] + generated[r] = 0
          /\ r \in reserved \ done => given[r] < req[r].output
          /\ generated[r] > 0 => r \in sequences \cap BatchIds
      BY <1>4 DEF GivenInv, Result
    <2>2. Result(r)' = given[r] + generated'[r] /\ req'[r].output = req[r].output
      BY <1>3 DEF Result, GivesNothing
    <2>3. Result(r)' <= req'[r].output /\ (r \notin reserved' => Result(r)' = 0)
      BY <1>3, <2>1, <2>2 DEF GivesNothing
    <2>4. r \in reserved' \ done' => given'[r] < req'[r].output
      BY <1>3, <2>1, <2>2 DEF GivesNothing
    <2>5. generated'[r] > 0 => r \in sequences' \cap BatchIds'
      BY <1>1, <2>1 DEF GivesNothing
    <2>6. QED
      BY <2>3, <2>4, <2>5
  <1>5. ASSUME NEW r \in sequences'
        PROVE  /\ Result(r)' <= seq'[r].emitted
               /\ Whole(r)' /\ seq'[r].emitted < req'[r].output => Result(r)' = seq'[r].emitted
    <2>1. r \in Requests /\ Result(r)' = given[r] + generated'[r] /\ req'[r].output = req[r].output
      BY <1>3, <1>5, GivenTypes DEF Result, GivesNothing
    <2>2. CASE r \notin reserved
      <3>1. seq'[r].emitted = 0 /\ given[r] + generated[r] = 0
        BY <1>5, <2>1, <2>2, GivenTypes DEF GivesNothing, GivenInv, Result
      <3>2. QED
        BY <1>3, <2>1, <3>1
    <2>3. CASE r \in reserved
      <3>1. /\ r \in sequences /\ seq'[r].emitted = seq[r].emitted
            /\ given[r] + generated[r] <= seq[r].emitted
            /\ Whole(r) /\ seq[r].emitted < req[r].output =>
                   given[r] + generated[r] = seq[r].emitted
        BY <1>5, <2>3 DEF GivesNothing, GivenInv, Result
      <3>2. seq[r].emitted \in Nat
        BY <2>1, WorkerTypes
      <3>3. Whole(r)' => Whole(r)
        BY DEF Whole, GivesNothing
      <3>4. Whole(r)' => generated'[r] = generated[r]
        <4>1. CASE BatchIds \subseteq torn'
          <5>1. Whole(r)' => ~ (generated[r] > 0)
            BY <2>1, <4>1 DEF Whole, GivenInv
          <5>2. QED
            BY <1>3, <2>1, <5>1
        <4>2. QED
          BY <4>1 DEF GivesNothing
      <3>5. QED
        BY <1>3, <2>1, <3>1, <3>2, <3>3, <3>4
    <2>4. QED
      BY <2>2, <2>3
  <1>6. /\ stage' \notin {"decode", "prefill"} => generated' = NoneEmitted'
        /\ stage' = "decode" => generated' = emitted'
    BY DEF GivesNothing, NoneEmitted
  <1>7. QED
    BY <1>2, <1>4, <1>5, <1>6 DEF GivenInv

LEMMA FailureGives ==
    ASSUME WorkerInv, GivenInv, StepFails, reserved' = reserved, sequences' \subseteq sequences,
           \A r \in sequences' : seq'[r] = seq[r]
    PROVE  GivenInv'
  <1>1. /\ UNCHANGED <<req, done, given>> /\ stage' = "idle" /\ generated' = NoneEmitted
        /\ torn' = torn \cup BatchIds
    BY DEF StepFails, ReturnBatch
  <1>2. GivesNothing
    BY <1>1 DEF GivesNothing
  <1>3. QED
    BY <1>2, NothingGiven

LEMMA ErrorsGive ==
    ASSUME WorkerInv, GivenInv,
           ReserveCacheFails \/ RuntimeStopped \/ UnknownDecode \/ DecodeFails
           \/ PrefillFails \/ RuntimeStops
    PROVE  GivenInv'
  <1>1. CASE ReserveCacheFails
    BY <1>1, FailureGives DEF ReserveCacheFails, cacheVars, deviceVars
  <1>2. ASSUME NEW lost, DeviceFails(lost) PROVE GivenInv'
    <2>1. /\ seq \in [Requests -> DeviceSequence] /\ sequences \subseteq Requests
          /\ seq' = Forgotten(lost) /\ sequences' = sequences \ lost
          /\ StepFails /\ reserved' = reserved
      BY <1>2 DEF DeviceFails, WorkerInv, WorkerTypeOK, cacheVars
    <2>2. \A r \in Requests \ lost : seq'[r] = seq[r]
      BY <2>1, ForgottenFacts
    <2>3. QED
      BY <2>1, <2>2, FailureGives
  <1>3. CASE RuntimeStops
    BY <1>3, FailureGives DEF RuntimeStops, cacheVars
  <1>4. QED
    BY <1>1, <1>2, <1>3 DEF RuntimeStopped, UnknownDecode, DecodeFails, PrefillFails

LEMMA PlanningGives ==
    ASSUME WorkerInv, GivenInv, PlanBatch \/ BeginStepDevice
    PROVE  GivenInv'
  <1>1. Step
    BY DEF PlanBatch, BeginStepDevice, Step
  <1>2. \A r \in Requests : req'[r].output = req[r].output
    BY <1>1, PlanFacts DEF WorkerInv, Plans
  <1>3. /\ stage \in {"idle", "reserve"} /\ stage' = "reserve"
        /\ UNCHANGED <<generated, given, reserved, done, sequences, seq, torn>>
    BY PlanPhases DEF PlanBatch, BeginStepDevice, WorkerInv, WorkerTypeOK, Stages, workerVars,
       cacheVars, deviceVars, stepDeviceVars, outputVars
  <1>4. generated = NoneEmitted
    BY <1>3 DEF GivenInv
  <1>5. GivesNothing
    BY <1>2, <1>3, <1>4 DEF GivesNothing
  <1>6. QED
    BY <1>5, NothingGiven

\* Moves between the loops of step_device, and advance_speculative.
LEMMA MovesGive ==
    ASSUME WorkerInv, GivenInv,
           \/ AlreadyResident \/ BeginExecute \/ BeginPrefills \/ BeginFinish \/ EndStepDevice
           \/ UNCHANGED allVars
    PROVE  GivenInv'
  <1>1. UNCHANGED <<req, decodes, prefills, given, generated, reserved, done, sequences, seq, torn>>
    BY DEF AlreadyResident, BeginExecute, BeginPrefills, BeginFinish, EndStepDevice, Advances,
           Enters, allVars, workerVars, vars, cacheVars, deviceVars, stepDeviceVars, outputVars
  <1>2. BatchIds' = BatchIds
    BY <1>1 DEF BatchIds
  <1>3. /\ stage' \notin {"decode", "prefill"} => generated' = NoneEmitted
        /\ stage' = "decode" => generated' = emitted'
    BY <1>1 DEF AlreadyResident, BeginExecute, BeginPrefills, BeginFinish, EndStepDevice,
           Advances, Enters, allVars, workerVars, stepDeviceVars, ReserveLoop, Executing,
           GivenInv, WorkerInv, StageFollows
  <1>4. GivesNothing
    BY <1>1, <1>2, <1>3 DEF GivesNothing
  <1>5. QED
    BY <1>4, NothingGiven

LEMMA AdvanceGives ==
    ASSUME WorkerInv, GivenInv, NEW r \in Requests, AdvanceDecode(r)
    PROVE  GivenInv'
  <1>1. /\ emitted[r] > 1 /\ stage' = stage /\ stage = "advance"
        /\ AdvanceSpeculative(r, emitted[r] - 1) /\ UNCHANGED stepVars
        /\ UNCHANGED <<given, generated, reserved, done, sequences, seq, torn>>
    BY DEF AdvanceDecode, Call, cacheVars, deviceVars, outputVars
  <1>2. emitted[r] \in Nat /\ emitted[r] - 1 \in Nat
    BY <1>1, WorkerTypes
  <1>3. req[r].computed \in req[r].prompt .. FullSeqLen(r)
    BY <1>1, <1>2 DEF WorkerInv, OutputAfterPrompt
  <1>4. \A q \in Requests : req'[q].output = req[q].output
    BY <1>1, <1>2, <1>3, AdvanceFacts DEF WorkerInv
  <1>5. generated = NoneEmitted
    BY <1>1 DEF GivenInv
  <1>6. GivesNothing
    BY <1>1, <1>4, <1>5 DEF GivesNothing
  <1>7. QED
    BY <1>6, NothingGiven

\* A newcomer's device state, or its refusal: nothing was given before.
LEMMA NewcomerGives ==
    ASSUME WorkerInv, GivenInv, AdmitToDevice \/ AdmitToDeviceFails
    PROVE  GivenInv'
  <1>1. PICK r : r = Newcomer
    OBVIOUS
  <1>2. ReserveLoop /\ r \in pending /\ reserved' = reserved \cup {r}
    BY <1>1 DEF AdmitToDevice, AdmitToDeviceFails, ReserveCache
  <1>3. /\ r \in ToSet(running) /\ r \in Requests /\ r \notin reserved /\ req[r].output > 0
        /\ stage = "reserve" /\ r \notin sequences
    BY <1>1, <1>2, NewcomerRuns DEF WorkerInv, StateFollowsScheduler, OutputAfterPrompt
  <1>4. /\ UNCHANGED <<req, given, done>> /\ torn \subseteq torn'
        /\ stage' \in {"reserve", "idle"}
        /\ generated' = NoneEmitted /\ generated = NoneEmitted
    BY <1>3 DEF AdmitToDevice, AdmitToDeviceFails, Advances, StepFails, ReturnBatch, vars, GivenInv
  <1>5. seq \in [Requests -> DeviceSequence] /\ sequences \subseteq Requests
    BY DEF WorkerInv, WorkerTypeOK
  <1>6. \A q \in sequences' : \/ q \in sequences /\ seq'[q].emitted = seq[q].emitted
                              \/ q = r /\ seq'[q].emitted = 0
    BY <1>1, <1>3, <1>5 DEF AdmitToDevice, AdmitToDeviceFails, NoSequence
  <1>7. GivesNothing
    BY <1>2, <1>3, <1>4, <1>6 DEF GivesNothing
  <1>8. QED
    BY <1>7, NothingGiven

\* A step of the device that produces n tokens of one request.
LEMMA PassGives ==
    ASSUME WorkerInv, GivenInv, UNCHANGED <<vars, cacheVars, sequences, done, torn, given, stage>>,
           stage \in {"decode", "prefill"},
           NEW r \in sequences \cap BatchIds, NEW n \in Nat,
           generated' = [generated EXCEPT ![r] = n],
           stage = "decode" => emitted' = [emitted EXCEPT ![r] = n],
           \A q \in Requests \ {r} : seq'[q] = seq[q],
           given[r] + n <= req[r].output, given[r] + n <= seq'[r].emitted,
           Whole(r) /\ seq'[r].emitted < req[r].output => given[r] + n = seq'[r].emitted
    PROVE  GivenInv'
  <1>1. UNCHANGED <<req, decodes, prefills, reserved>> /\ BatchIds' = BatchIds
    BY DEF vars, cacheVars, BatchIds
  <1>2. /\ r \in Requests /\ r \in reserved /\ generated' \in [Requests -> Nat]
        /\ given' = given /\ given \in [Requests -> Nat] /\ generated'[r] = n
        /\ \A q \in Requests \ {r} : generated'[q] = generated[q]
        /\ sequences \subseteq Requests
    BY GivenTypes
  <1>3. ASSUME NEW q \in Requests
        PROVE  /\ Result(q)' <= req'[q].output
               /\ q \notin reserved' => Result(q)' = 0
               /\ q \in reserved' \ done' => given'[q] < req'[q].output
               /\ generated'[q] > 0 => q \in sequences' \cap BatchIds'
    BY <1>1, <1>2, <1>3 DEF GivenInv, Result
  <1>4. ASSUME NEW q \in sequences'
        PROVE  /\ Result(q)' <= seq'[q].emitted
               /\ Whole(q)' /\ seq'[q].emitted < req'[q].output => Result(q)' = seq'[q].emitted
    BY <1>1, <1>2, <1>4 DEF GivenInv, Result, Whole
  <1>5. /\ stage' \notin {"decode", "prefill"} => generated' = NoneEmitted'
        /\ stage' = "decode" => generated' = emitted'
    BY DEF GivenInv
  <1>6. QED
    BY <1>2, <1>3, <1>4, <1>5 DEF GivenInv

\* A window never gives more than is left of the output, not even after a failed pass
\* that the device had counted.
LEMMA DecodeSequenceGives ==
    ASSUME WorkerInv, CountsInv, GivenInv, DecodeSequence
    PROVE  GivenInv'
  <1>1. PICK r : r = decodes[at]
    OBVIOUS
  <1>2. PICK n \in 0 .. Window(r), eos \in BOOLEAN :
            /\ seq' = [seq EXCEPT ![r] =
                          [prefilled |-> seq[r].prefilled, next |-> TRUE,
                           emitted |-> IF eos THEN req[r].output
                                              ELSE seq[r].emitted + n]]
            /\ emitted' = [emitted EXCEPT ![r] = n]
            /\ generated' = [generated EXCEPT ![r] = n]
    BY <1>1 DEF DecodeSequence
  <1>3. /\ phase = "planned" /\ stage = "decode" /\ at \in DOMAIN decodes /\ Collected
        /\ UNCHANGED <<vars, cacheVars, sequences, done, torn, given, stage>>
    BY DEF DecodeSequence, Executing, Advances
  <1>4. r \in Requests /\ r \in ToSet(decodes) /\ r \in sequences
    BY <1>1, <1>3, WorkerTypes DEF ToSet, Collected
  <1>5. r \in sequences \cap BatchIds /\ r \in DecodesAhead
    BY <1>1, <1>3, <1>4, WorkerTypes DEF BatchIds, DecodesAhead, WorkerInv, WorkerTypeOK
  <1>6. /\ seq[r].emitted \in Nat /\ req[r].output \in Nat /\ given[r] \in Nat
        /\ generated[r] \in Nat /\ Window(r) \in Nat /\ n \in Nat /\ n <= Window(r)
        /\ seq \in [Requests -> DeviceSequence]
        /\ seq[r].emitted < req[r].output => seq[r].emitted + Window(r) <= req[r].output
    <2>1. /\ seq[r].emitted \in Nat /\ req[r].output \in Nat /\ given[r] \in Nat
          /\ generated[r] \in Nat /\ Window(r) \in Nat
          /\ seq[r].emitted < req[r].output => seq[r].emitted + Window(r) <= req[r].output
      BY <1>4, WorkerTypes, WindowType, WindowFits, GivenTypes
    <2>2. n \in Nat /\ n <= Window(r)
      BY <1>2, <2>1
    <2>3. seq \in [Requests -> DeviceSequence]
      BY DEF WorkerInv, WorkerTypeOK
    <2>4. QED
      BY <2>1, <2>2, <2>3
  <1>7. /\ given[r] < req[r].output /\ given[r] + generated[r] <= seq[r].emitted
    BY <1>4, GivenTypes DEF GivenInv, Result
  <1>8. given[r] + n <= req[r].output
    <2>1. CASE seq[r].emitted < req[r].output
      BY <1>6, <1>7, <2>1
    <2>2. CASE ~ (seq[r].emitted < req[r].output)
      <3>1. Window(r) = 1
        BY <1>6, <2>2, ConfigAssumption DEF Window, Lesser
      <3>2. QED
        BY <1>6, <1>7, <3>1
    <2>3. QED
      BY <2>1, <2>2
  <1>9. /\ seq'[r].emitted = IF eos THEN req[r].output ELSE seq[r].emitted + n
        /\ \A q \in Requests \ {r} : seq'[q] = seq[q]
    BY <1>2, <1>4, <1>6
  <1>10. given[r] + n <= seq'[r].emitted
    BY <1>6, <1>7, <1>8, <1>9
  <1>11. ASSUME Whole(r), seq'[r].emitted < req[r].output
         PROVE  given[r] + n = seq'[r].emitted
    <2>1. seq[r].emitted < req[r].output /\ emitted[r] = 0 /\ ~ eos
      BY <1>4, <1>5, <1>6, <1>9, <1>11 DEF CountsInv, OnDevice, DecodeAhead
    <2>2. generated[r] = 0
      BY <1>3, <2>1 DEF GivenInv
    <2>3. given[r] = seq[r].emitted
      BY <1>4, <1>6, <1>11, <2>1, <2>2 DEF GivenInv, Result
    <2>4. QED
      BY <1>9, <2>1, <2>3
  <1>12. QED
    BY <1>2, <1>3, <1>5, <1>6, <1>8, <1>9, <1>10, <1>11, PassGives

\* The end of the prompt gives the first token.
LEMMA PrefillSequenceGives ==
    ASSUME WorkerInv, CountsInv, GivenInv, PrefillSequence
    PROVE  GivenInv'
  <1>1. PICK r : r = prefills[at].id
    OBVIOUS
  <1>2. /\ phase = "planned" /\ stage = "prefill" /\ at \in DOMAIN prefills
        /\ r \in sequences /\ UNCHANGED emitted
        /\ UNCHANGED <<vars, cacheVars, sequences, done, torn, given, stage>>
    BY <1>1 DEF PrefillSequence, Prefilling, Executing, Advances
  <1>3. r \in Requests /\ r \in sequences \cap BatchIds /\ at \in Ahead
    BY <1>1, <1>2, WorkerTypes DEF BatchIds, Ahead, WorkerInv, WorkerTypeOK
  <1>4. /\ seq[r].emitted \in Nat /\ req[r].output \in Nat /\ given[r] \in Nat
        /\ generated[r] \in Nat /\ seq \in [Requests -> DeviceSequence]
        /\ generated \in [Requests -> Nat]
    BY <1>3, WorkerTypes, GivenTypes DEF WorkerInv, WorkerTypeOK
  <1>5. /\ given[r] < req[r].output
        /\ given[r] + generated[r] <= seq[r].emitted
        /\ given[r] + generated[r] <= req[r].output
        /\ Whole(r) /\ seq[r].emitted < req[r].output => given[r] + generated[r] = seq[r].emitted
    BY <1>2, <1>3, GivenTypes DEF GivenInv, Result
  <1>6. Whole(r) => seq[r].emitted = 0
    BY <1>1, <1>2, <1>3 DEF CountsInv, OnDevice, ChunkAhead
  <1>7. generated = [generated EXCEPT ![r] = generated[r]]
    BY <1>3, <1>4
  <1>8. PICK e \in Nat, n \in Nat :
            /\ generated' = [generated EXCEPT ![r] = n]
            /\ seq'[r].emitted = e /\ \A q \in Requests \ {r} : seq'[q] = seq[q]
            /\ \/ e = seq[r].emitted /\ n = generated[r]
               \/ e = req[r].output /\ n = generated[r]
               \/ e = seq[r].emitted + 1 /\ n = 1
    <2>1. \/ /\ \E named \in BOOLEAN :
                   seq' = [seq EXCEPT ![r] =
                             [prefilled |-> seq[r].prefilled + prefills[at].tokens,
                              emitted |-> seq[r].emitted,
                              next |-> seq[r].next \/ (named /\ prefills[at].tokens > 0)]]
             /\ generated' = generated
          \/ \E eos \in BOOLEAN :
                /\ seq' = [seq EXCEPT ![r] =
                             [prefilled |-> seq[r].prefilled + prefills[at].tokens, next |-> TRUE,
                              emitted |-> IF eos THEN req[r].output
                                                 ELSE seq[r].emitted + 1]]
                /\ generated' = IF eos THEN generated
                                       ELSE [generated EXCEPT ![r] = 1]
      BY <1>1 DEF PrefillSequence
    <2>2. \/ /\ \A q \in Requests \ {r} : seq'[q] = seq[q]
             /\ seq'[r].emitted = seq[r].emitted /\ generated' = generated
          \/ /\ \A q \in Requests \ {r} : seq'[q] = seq[q]
             /\ seq'[r].emitted = req[r].output /\ generated' = generated
          \/ /\ \A q \in Requests \ {r} : seq'[q] = seq[q]
             /\ seq'[r].emitted = seq[r].emitted + 1
             /\ generated' = [generated EXCEPT ![r] = 1]
      BY <1>3, <1>4, <2>1
    <2>3. QED
      BY <1>4, <1>7, <2>2
  <1>9. /\ given[r] + n <= req[r].output /\ given[r] + n <= seq'[r].emitted
        /\ Whole(r) /\ seq'[r].emitted < req[r].output => given[r] + n = seq'[r].emitted
    BY <1>4, <1>5, <1>6, <1>8
  <1>10. QED
    BY <1>2, <1>3, <1>8, <1>9, PassGives

LEMMA EndExecuteGives ==
    ASSUME WorkerInv, GivenInv, EndExecute
    PROVE  GivenInv'
  <1>1. /\ stage = "prefill" /\ stage' = "advance" /\ UNCHANGED <<req, reserved, torn>>
        /\ sequences' = sequences \ Complete /\ seq' = Forgotten(Complete) /\ done' = Complete
        /\ given' = [r \in Requests |-> given[r] + generated[r]]
        /\ generated' = NoneEmitted
    BY DEF EndExecute, Executing, ReturnBatch, cacheVars
  <1>2. /\ \A r \in Requests : generated[r] \in Nat /\ given[r] \in Nat
        /\ sequences \subseteq Requests /\ Complete \subseteq sequences
        /\ \A r \in Requests : req[r].output \in Nat /\ seq[r].emitted \in Nat
    BY GivenTypes, WorkerTypes DEF Complete
  <1>3. \A r \in sequences' : seq'[r] = seq[r]
    BY <1>1, <1>2, ForgottenFacts DEF WorkerInv, WorkerTypeOK
  <1>4. \A r \in Requests : generated'[r] = 0 /\ given'[r] = given[r] + generated[r]
                             /\ Result(r)' = Result(r)
    BY <1>1, <1>2 DEF NoneEmitted, Result
  <1>5. ASSUME NEW r \in reserved' \ done', r \in Requests PROVE given'[r] < req'[r].output
    <2>1. done = {}
      BY <1>1 DEF WorkerInv, StageFollows
    <2>2. CASE r \in sequences
      <3>1. given[r] + generated[r] <= seq[r].emitted /\ seq[r].emitted < req[r].output
        BY <1>1, <1>2, <1>5, <2>2 DEF GivenInv, Result, Complete
      <3>2. QED
        BY <1>1, <1>2, <1>4, <1>5, <3>1
    <2>3. CASE r \notin sequences
      <3>1. generated[r] = 0 /\ given[r] < req[r].output
        BY <1>1, <1>2, <1>5, <2>1, <2>3 DEF GivenInv
      <3>2. QED
        BY <1>1, <1>2, <1>4, <1>5, <3>1
    <2>4. QED
      BY <2>2, <2>3
  <1>6. generated' \in [Requests -> Nat] /\ given' \in [Requests -> Nat]
    BY <1>1, <1>2 DEF NoneEmitted
  <1>7. ASSUME NEW r \in sequences'
        PROVE  /\ Result(r)' <= seq'[r].emitted
               /\ Whole(r)' /\ seq'[r].emitted < req'[r].output => Result(r)' = seq'[r].emitted
    BY <1>1, <1>2, <1>3, <1>4, <1>7 DEF GivenInv, Whole
  <1>8. NoneEmitted' = NoneEmitted
    BY DEF NoneEmitted
  <1>9. QED
    BY <1>1, <1>4, <1>5, <1>6, <1>7, <1>8 DEF GivenInv

\* One request comes or goes between two steps: it has been given nothing.
LEMMA OnlyOneChanges ==
    ASSUME WorkerInv, GivenInv, NEW r \in Requests,
           stage \in {"idle", "finish"}, stage' = stage, generated' = generated,
           given' \in [Requests -> Nat], given'[r] = 0, r \notin reserved', r \notin sequences',
           req'[r].output \in Nat,
           \A q \in Requests \ {r} : /\ given'[q] = given[q] /\ req'[q] = req[q]
                                     /\ seq'[q] = seq[q]
                                     /\ (q \in torn' <=> q \in torn)
                                     /\ (q \in reserved' <=> q \in reserved)
                                     /\ (q \in sequences' <=> q \in sequences)
                                     /\ (q \in done' <=> q \in done),
           sequences' \subseteq Requests
    PROVE  GivenInv'
  <1>1. /\ generated = NoneEmitted /\ NoneEmitted' = NoneEmitted
        /\ \A q \in Requests : generated'[q] = 0 /\ generated[q] = 0
    BY DEF GivenInv, NoneEmitted
  <1>2. \A q \in Requests \ {r} : Result(q)' = Result(q)
    BY <1>1 DEF Result
  <1>3. Result(r)' = 0
    BY <1>1 DEF Result
  <1>4. ASSUME NEW q \in Requests
        PROVE  /\ Result(q)' <= req'[q].output
               /\ q \notin reserved' => Result(q)' = 0
               /\ q \in reserved' \ done' => given'[q] < req'[q].output
               /\ generated'[q] > 0 => q \in sequences' \cap BatchIds'
    BY <1>1, <1>2, <1>3, <1>4 DEF GivenInv
  <1>5. ASSUME NEW q \in sequences'
        PROVE  /\ Result(q)' <= seq'[q].emitted
               /\ Whole(q)' /\ seq'[q].emitted < req'[q].output => Result(q)' = seq'[q].emitted
    BY <1>2, <1>5 DEF GivenInv, Whole
  <1>6. generated' \in [Requests -> Nat]
    BY GivenTypes
  <1>7. QED
    BY <1>1, <1>4, <1>5, <1>6 DEF GivenInv

LEMMA LeavingGives ==
    ASSUME WorkerInv, GivenInv, NEW r \in Requests, FinishCompleted(r) \/ CancelTokens(r)
    PROVE  GivenInv'
  <1>1. /\ stage \in {"idle", "finish"} /\ stage' = stage /\ generated' = generated
        /\ CancelRequest(r) /\ reserved' = reserved \ {r} /\ torn' = torn \ {r}
        /\ given' = [given EXCEPT ![r] = 0]
    BY DEF FinishCompleted, CancelTokens, Call, CancelRequest, ReleaseCache
  <1>2. given' \in [Requests -> Nat] /\ given'[r] = 0 /\ \A q \in Requests \ {r} : given'[q] = given[q]
    BY <1>1, GivenTypes
  <1>3. /\ \A q \in Requests \ {r} : req'[q] = req[q]
        /\ req'[r].output \in Nat
    <2>1. req' = [req EXCEPT ![r] = NoRequest] /\ req \in [Requests -> TrackedRequest]
      BY <1>1, WorkerTypes DEF CancelRequest, FinishRequest, CancelWaiting
    <2>2. QED
      BY <2>1 DEF NoRequest
  <1>4. /\ r \notin sequences' /\ sequences' \subseteq sequences
        /\ \A q \in Requests \ {r} : /\ seq'[q] = seq[q]
                                     /\ (q \in sequences' <=> q \in sequences)
                                     /\ (q \in done' <=> q \in done)
    <2>1. CASE FinishCompleted(r)
      BY <2>1 DEF FinishCompleted, deviceVars, WorkerInv, StageFollows
    <2>2. CASE CancelTokens(r)
      <3>1. PICK lost : lost = {r} \cap ToSet(running)
        OBVIOUS
      <3>2. sequences' = sequences \ lost /\ seq' = Forgotten(lost) /\ done' = done
        BY <2>2, <3>1 DEF CancelTokens
      <3>3. \A q \in Requests \ lost : seq'[q] = seq[q]
        BY <3>2, ForgottenFacts DEF WorkerInv, WorkerTypeOK
      <3>4. r \in sequences => r \in ToSet(running)
        BY DEF WorkerInv, StateFollowsScheduler
      <3>5. QED
        BY <3>1, <3>2, <3>3, <3>4
    <2>3. QED
      BY <2>1, <2>2
  <1>5. sequences' \subseteq Requests
    BY <1>4, WorkerTypes
  <1>6. \A q \in Requests \ {r} : (q \in torn' <=> q \in torn) /\ (q \in reserved' <=> q \in reserved)
    BY <1>1
  <1>7. r \notin reserved'
    BY <1>1
  <1>8. QED
    BY <1>1, <1>2, <1>3, <1>4, <1>5, <1>6, <1>7, OnlyOneChanges

LEMMA AdmitTokensGives ==
    ASSUME WorkerInv, GivenInv, NEW r \in Requests, AdmitTokens(r)
    PROVE  GivenInv'
  <1>1. PICK p \in Prompts, m \in Outputs, prefix \in CachedPrefixes :
            Call(Enqueue(r, p, m, prefix))
    BY DEF AdmitTokens
  <1>2. /\ stage = "idle"
        /\ UNCHANGED <<stage, reserved, sequences, seq, done, torn, given, generated>>
    BY DEF AdmitTokens, deviceVars, stepDeviceVars, outputVars
  <1>3. /\ r \notin ToSet(waiting) \cup ToSet(running)
        /\ req' = [req EXCEPT ![r] = [prompt |-> p, output |-> m,
                                      computed |-> prefix, blocks |-> 0]]
    BY <1>1 DEF Call, Enqueue
  <1>4. r \notin reserved /\ r \notin sequences
    BY <1>3 DEF WorkerInv, StateFollowsScheduler
  <1>5. m \in Nat
    <2>1. U32Max \in Nat
      BY ConfigAssumption
    <2>2. QED
      BY <2>1, RequestAssumption
  <1>6. req'[r].output \in Nat /\ \A q \in Requests \ {r} : req'[q] = req[q]
    BY <1>3, <1>5, WorkerTypes
  <1>7. /\ given \in [Requests -> Nat] /\ given[r] = 0
    <2>1. given[r] \in Nat /\ generated[r] \in Nat /\ given[r] + generated[r] = 0
      BY <1>4, GivenTypes DEF GivenInv, Result
    <2>2. QED
      BY <2>1, GivenTypes
  <1>8. sequences \subseteq Requests
    BY WorkerTypes
  <1>9. QED
    BY <1>2, <1>4, <1>6, <1>7, <1>8, OnlyOneChanges

LEMMA WorkerNextGives ==
    ASSUME WorkerInv, CountsInv, GivenInv, [WorkerNext]_allVars
    PROVE  GivenInv'
  BY PlanningGives, MovesGive, NewcomerGives, ErrorsGive, DecodeSequenceGives,
     PrefillSequenceGives, EndExecuteGives, AdvanceGives, LeavingGives, AdmitTokensGives
     DEF WorkerNext, StepDevice

LEMMA NothingGivenYet == WorkerInit => GivenInv
  <1> SUFFICES ASSUME WorkerInit PROVE GivenInv
    OBVIOUS
  <1>1. /\ stage = "idle" /\ generated = NoneEmitted /\ given = NoneEmitted
        /\ sequences = {} /\ reserved = {} /\ req = [r \in Requests |-> NoRequest]
    BY DEF WorkerInit, Init
  <1>2. \A r \in Requests : Result(r) = 0 /\ generated[r] = 0 /\ req[r].output = 0
    BY <1>1 DEF Result, NoneEmitted, NoRequest
  <1>3. QED
    BY <1>1, <1>2 DEF GivenInv, NoneEmitted

\* What every request has been given agrees with the device's count of it, whatever
\* fails: as much if no failed step planned it, and never more than it asked for.
THEOREM GivenInvariant == WorkerSpec => []GivenInv
  <1>1. WorkerInit => GivenInv
    BY NothingGivenYet
  <1>2. WorkerInv /\ CountsInv /\ GivenInv /\ [WorkerNext]_allVars => GivenInv'
    BY WorkerNextGives
  <1>3. QED
    BY <1>1, <1>2, WorkerInvariant, CountsInvariant, PTL DEF WorkerSpec

LEMMA CountsFollow == ASSUME WorkerInv, CountsInv, GivenInv PROVE CountsAgree
  <1>1. \A r \in sequences : r \in Requests /\ Base(r) = seq[r].prefilled
    BY WorkerTypes DEF WorkerInv, StateFollowsScheduler, Base
  <1>2. /\ \A r \in sequences : seq[r].prefilled <= req[r].prompt
        /\ \A i \in Ahead, r \in sequences :
               prefills[i].id = r => seq[r].prefilled + prefills[i].tokens <= req[r].prompt
    BY <1>1 DEF CountsInv, InsidePrompt
  <1>3. ASSUME stage = "idle", phase = "idle", NEW r \in sequences \ torn
        PROVE  /\ req[r].computed = seq[r].prefilled
                                    + (IF seq[r].emitted > 0 THEN seq[r].emitted - 1 ELSE 0)
               /\ seq[r].emitted > 0 => seq[r].prefilled = req[r].prompt
               /\ seq[r].emitted = given[r] /\ seq[r].emitted < req[r].output
    <2>1. OnDevice(r) /\ OutputKnown(r) /\ r \in Requests /\ Whole(r)
      BY <1>1, <1>3 DEF CountsInv, Whole, OnDevice
    <2>2. /\ seq[r].emitted \in Nat /\ seq[r].prefilled \in Nat /\ req[r].output \in Nat
          /\ req[r].computed \in Nat /\ emitted[r] \in Nat /\ given[r] \in Nat
      BY <2>1, WorkerTypes, GivenTypes
    <2>3. seq[r].emitted > 0 => seq[r].prefilled = req[r].prompt
      BY <2>1 DEF OutputKnown
    <2>4. seq[r].emitted < req[r].output
      BY <1>3, <2>1, <2>2 DEF OutputKnown
    <2>5. decodes = <<>> /\ prefills = <<>>
      BY <1>3 DEF WorkerInv, BatchInv
    <2>6. r \notin PrefillsAhead \cup DecodesAhead
      BY <2>5 DEF PrefillsAhead, DecodesAhead, Ahead
    <2>7. Uncounted(r) = 0
      BY <1>3, <2>1 DEF WorkerInv, StageFollows, NoneEmitted, Uncounted
    <2>8. req[r].computed + 0 = seq[r].prefilled + OutputComputed(r)
      BY <2>1, <2>4, <2>6, <2>7 DEF OnDevice, Settled
    <2>9. seq[r].emitted = given[r] + 0
      BY <1>3, <2>1, <2>4 DEF GivenInv, Result, NoneEmitted
    <2>10. QED
      BY <2>2, <2>3, <2>4, <2>8, <2>9 DEF OutputComputed
  <1>4. \A r \in Requests : given[r] + generated[r] <= req[r].output
    BY DEF GivenInv, Result
  <1>5. QED
    BY <1>2, <1>3, <1>4 DEF CountsAgree

\* Nobody is given more output than it asked for in the results of all its steps, with
\* any failure on the way; no slice of a prompt reaches beyond it; and between two
\* steps the scheduler's count, the device's and what was given agree of every request
\* no failed step planned, for every configuration, prefix and acceptance of drafts.
THEOREM TheCountsAgree == WorkerSpec => []CountsAgree
  <1>1. WorkerInv /\ CountsInv /\ GivenInv => CountsAgree
    BY CountsFollow
  <1>2. QED
    BY <1>1, WorkerInvariant, CountsInvariant, GivenInvariant, PTL

-----------------------------------------------------------------------------
\* A whole, running request is on the device once the reserve loop is behind.
LEMMA PlacedOnDevice ==
  ASSUME WorkerInv, CountsInv, alive, NEW r \in ToSet(running), Whole(r),
         stage \in {"decode", "prefill"}
  PROVE  r \in sequences /\ OnDevice(r)
  <1>1. r \in pending \cup sequences \cup done
    BY DEF CountsInv, StepInOrder
  <1>2. done = {}
    BY DEF WorkerInv, StageFollows
  <1>3. r \notin pending
    BY DEF CountsInv, OnHost
  <1>4. QED
    BY <1>1, <1>2, <1>3 DEF CountsInv

LEMMA ErrorsFollow == ASSUME WorkerInv, CountsInv PROVE NoErrorWithoutFault
  <1> SUFFICES ASSUME alive, BatchIds \cap torn = {}
               PROVE  /\ Executing("decode") => Collected /\ Primed
                      /\ Executing("decode") =>
                            \A r \in ToSet(decodes) : seq[r].prefilled = req[r].prompt
                      /\ Prefilling => Newcomer \in sequences /\ ~ NoFirstToken(prefills[at])
    BY DEF NoErrorWithoutFault
  <1>1. ASSUME Executing("decode"), NEW r \in ToSet(decodes)
        PROVE  r \in sequences /\ seq[r].next /\ seq[r].prefilled = req[r].prompt
    <2>1. r \in ToSet(running) /\ r \in BatchIds /\ stage = "decode"
      BY <1>1 DEF WorkerInv, BatchInv, BatchIds, Executing
    <2>2. Whole(r)
      BY <2>1 DEF Whole
    <2>3. r \in sequences /\ OnDevice(r)
      BY <2>1, <2>2, PlacedOnDevice
    <2>4. seq[r].prefilled = req[r].prompt /\ Knows(r)
      BY <1>1, <2>3 DEF OnDevice, OutputKnown
    <2>5. QED
      BY <2>3, <2>4, Zenon DEF Knows
  <1>2. ASSUME Prefilling
        PROVE  Newcomer \in sequences /\ ~ NoFirstToken(prefills[at])
    <2>0. Newcomer \in ToSet(PrefillIds)
      BY <1>2 DEF Prefilling, Newcomer, ToSet, PrefillIds
    <2>1. Newcomer \in ToSet(running) /\ Newcomer \in BatchIds /\ stage = "prefill"
      BY <1>2, <2>0 DEF WorkerInv, BatchInv, Prefilling, Executing, BatchIds, Newcomer
    <2>2. Whole(Newcomer)
      BY <2>1 DEF Whole
    <2>3. Newcomer \in sequences /\ OnDevice(Newcomer)
      BY <2>1, <2>2, PlacedOnDevice
    <2>4. at \in Ahead
      BY <1>2 DEF Ahead, Prefilling, WorkerInv, WorkerTypeOK
    <2>5. prefills[at].tokens = 0 => Knows(Newcomer)
      BY <2>3, <2>4 DEF OnDevice, ChunkAhead, Newcomer
    <2>6. ~ NoFirstToken(prefills[at])
      BY <2>5, Zenon DEF NoFirstToken, Knows, Newcomer
    <2>7. QED
      BY <2>3, <2>6
  <1>3. QED
    BY <1>1, <1>2 DEF Collected, Primed

\* No error return of step_device is reached without a failed device call: as long as
\* the device thread lives and no failed step planned a request of the batch, the batch
\* is resident and knows its tokens, for every configuration and acceptance of drafts.
THEOREM ErrorsNeedAFault == WorkerSpec => []NoErrorWithoutFault
  <1>1. WorkerInv /\ CountsInv => NoErrorWithoutFault
    BY ErrorsFollow
  <1>2. QED
    BY <1>1, WorkerInvariant, CountsInvariant, PTL

=============================================================================
