---------------------------- MODULE ServerProofs ----------------------------
(***************************************************************************)
(* What the server promises its clients, for any number of requests,       *)
(* workers, tokens and failing steps.                                      *)
(***************************************************************************)
EXTENDS Server, FiniteSetTheorems, SequenceTheorems, TLAPS

-----------------------------------------------------------------------------
(* Types *)

LEMMA CancelStepType ==
    ASSUME NEW thread \in CancelState, ~CancelDone(CancelStep(thread))
    PROVE  CancelStep(thread) \in CancelState
  <1>1. thread.at \in Nat /\ thread.at >= 1
    BY DEF CancelState, Workers
  <1>2. CASE thread.found
    BY <1>1, <1>2, ServerAssumption DEF CancelState, CancelDone, CancelStep
  <1>3. CASE ~thread.found /\ CancelFinds(thread)
    BY <1>3 DEF CancelState, CancelStep
  <1>4. CASE ~thread.found /\ ~CancelFinds(thread)
    <2>1. CancelStep(thread).at = thread.at + 1
      BY <1>4 DEF CancelState, CancelStep
    <2>2. thread.at + 1 \in Workers
      BY <1>1, <2>1, ServerAssumption DEF CancelDone, Workers
    <2>3. QED
      BY <1>4, <2>2 DEF CancelState, CancelStep
  <1>5. QED
    BY <1>2, <1>3, <1>4

LEMMA HandlerType ==
    ASSUME ServerTypeOK, NEW r \in Requests, Handler(r)
    PROVE  ServerTypeOK'
  <1> USE DEF ServerTypeOK, At, Idle, HandlerState, CancelState, Workers
  <1>0. 1 \in Workers
    BY ServerAssumption
  <1>1. CASE Register(r)
    BY <1>1 DEF Register
  <1>2. CASE Announce(r)
    BY <1>2, <1>0 DEF Announce
  <1>3. CASE ReadBudget(r)
    BY <1>3 DEF ReadBudget, TakesLock
  <1>4. CASE TakeRoutingLock(r)
    BY <1>4, <1>0 DEF TakeRoutingLock
  <1>5. CASE PlacementFails(r)
    BY <1>5 DEF PlacementFails, TakesLock
  <1>6. CASE RemoveRefused(r)
    BY <1>6 DEF RemoveRefused
  <1>7. CASE Admit(r)
    BY <1>7 DEF Admit, TakesLock, WaitsFor
  <1>8. CASE Placed(r)
    BY <1>8 DEF Placed
  <1>9. ASSUME NEW w \in Workers, ScoreWorker(r, w) PROVE ServerTypeOK'
    <2>1. handler[r].at \in Workers
      BY <1>9 DEF ScoreWorker
    <2>2. handler[r].at < WorkerCount => handler[r].at + 1 \in Workers
      BY <2>1, ServerAssumption
    <2>3. handler' \in [Requests -> HandlerState]
      BY <1>9, <2>2 DEF ScoreWorker
    <2>4. overtaken' \in [Requests -> Nat]
      BY <1>9 DEF ScoreWorker, TakesLock
    <2>5. QED
      BY <1>9, <2>3, <2>4 DEF ScoreWorker
  <1>10. ASSUME NEW stops \in BOOLEAN, ReadToken(r, stops) PROVE ServerTypeOK'
    BY <1>10, <1>0 DEF ReadToken, Cancelling
  <1>11. CASE ReadDone(r)
    BY <1>11 DEF ReadDone
  <1>12. CASE ReadError(r)
    BY <1>12, <1>0 DEF ReadError, Cancelling
  <1>13. CASE HangUp(r)
    BY <1>13, <1>0 DEF HangUp, Cancelling
  <1>14. CASE GuardCancels(r)
    <2>1. handler[r] \in CancelState
      BY <1>14 DEF GuardCancels
    <2>2. ~CancelDone(CancelStep(handler[r])) => CancelStep(handler[r]) \in CancelState
      BY <2>1, CancelStepType
    <2>3. handler' \in [Requests -> HandlerState]
      <3> HIDE DEF HandlerState, CancelState
      <3>1. CancelState \subseteq HandlerState /\ At("gone") \in HandlerState
        BY DEF HandlerState
      <3>2. QED
        BY <1>14, <2>2, <3>1 DEF GuardCancels
    <2>4. channel' \in [Requests -> Seq(Event)]
      BY <1>14, << >> \in Seq(Event) DEF GuardCancels
    <2>5. /\ DOMAIN live' \subseteq Requests
          /\ live' \in [DOMAIN live' -> [on : Workers, prefilled : BOOLEAN]]
      BY <1>14 DEF GuardCancels, Without
    <2>6. QED
      BY <1>14, <2>3, <2>4, <2>5 DEF GuardCancels
  <1>15. QED
    BY <1>1, <1>2, <1>3, <1>4, <1>5, <1>6, <1>7, <1>8, <1>9, <1>10, <1>11, <1>12,
       <1>13, <1>14 DEF Handler

LEMMA CancelsNextType ==
    ASSUME ServerTypeOK, NEW w \in Workers, NEW drop \in SUBSET Requests, CancelsNext(w, drop)
    PROVE  driver' \in [Workers -> DriverState]
  <1>1. CASE drop = {}
    <2>1. At("check") \in DriverState
      BY DEF DriverState, At
    <2>2. QED
      BY <1>1, <2>1 DEF ServerTypeOK, CancelsNext
  <1>2. CASE drop # {}
    <2>1. PICK r \in drop : driver' = [driver EXCEPT ![w] =
                 [pc |-> "cancel", of |-> Cancelling(r), drop |-> drop \ {r}]]
      BY <1>2 DEF CancelsNext
    <2>2. Cancelling(r) \in CancelState
      BY ServerAssumption DEF Cancelling, CancelState, Workers
    <2>3. [pc |-> "cancel", of |-> Cancelling(r), drop |-> drop \ {r}] \in DriverState
      BY <2>2 DEF DriverState
    <2>4. QED
      BY <2>1, <2>3 DEF ServerTypeOK
  <1>3. QED
    BY <1>1, <1>2

\* What a driver that has folded a step holds.
LEMMA FoldedType ==
    ASSUME ServerTypeOK, NEW w \in Workers, driver[w].pc \in {"folded", "aside"}
    PROVE  driver[w] \in [pc : {"folded", "aside"}, generated : SUBSET Requests,
                 completed : SUBSET Requests, stopped : SUBSET Requests, sleeps : BOOLEAN]
  BY DEF ServerTypeOK, DriverState

LEMMA DriverType ==
    ASSUME ServerTypeOK, NEW w \in Workers, Driver(w)
    PROVE  ServerTypeOK'
  <1>1. CASE FindClients(w)
    BY <1>1 DEF FindClients, ServerTypeOK, DriverState, At
  <1>2. CASE BeginStep(w)
    BY <1>2 DEF BeginStep, ServerTypeOK, DriverState, At
  <1>3. CASE StepFails(w)
    BY <1>3 DEF StepFails, ServerTypeOK, DriverState, At
  <1>4. ASSUME NEW outcome, StepSucceeds(w, outcome)
        PROVE  ServerTypeOK'
    <2>1. /\ DOMAIN live' \subseteq Requests
          /\ live' \in [DOMAIN live' -> [on : Workers, prefilled : BOOLEAN]]
      BY <1>4 DEF StepSucceeds, ServerTypeOK
    <2>2. made' \in [Requests -> Nat]
      BY <1>4 DEF StepSucceeds, ServerTypeOK
    <2>3. driver' \in [Workers -> DriverState]
      BY <1>4 DEF StepSucceeds, ServerTypeOK, DriverState, On
    <2>4. QED
      BY <1>4, <2>1, <2>2, <2>3 DEF StepSucceeds, ServerTypeOK
  <1>5. CASE StandAside(w)
    <2>1. [driver[w] EXCEPT !.pc = "aside", !.sleeps = driver[w].sleeps \/ waiters > 0]
              \in DriverState
      BY <1>5, FoldedType DEF StandAside, DriverState
    <2>2. QED
      BY <1>5, <2>1 DEF StandAside, ServerTypeOK
  <1>6. CASE Deliver(w)
    <2> DEFINE step == driver[w]
               lost == {r \in step.generated \cap clients : ~ReceiverOpen(r)}
               ended == Ended(step, lost)
    <2>1. driver' \in [Workers -> DriverState]
      BY <1>6, CancelsNextType DEF Deliver, ServerTypeOK
    <2>2. ASSUME NEW r \in Requests
          PROVE  channel'[r] \in Seq(Event)
      <3>1. Token(made[r]) \in Event /\ DoneEvent("eos") \in Event /\ DoneEvent("length") \in Event
        BY DEF Token, DoneEvent, Event, ServerTypeOK
      <3>2. Sent(step, r) \in Seq(Event) /\ Finished(step, r, ended) \in Seq(Event)
        BY <3>1 DEF Sent, Finished
      <3>3. Events(step, r, ended) \in Seq(Event)
        BY <3>2 DEF Events
      <3>4. channel[r] \in Seq(Event)
        BY DEF ServerTypeOK
      <3>5. channel[r] \o Events(step, r, ended) \in Seq(Event)
        BY <3>3, <3>4
      <3>6. channel'[r] = IF r \in clients /\ ReceiverOpen(r)
                          THEN channel[r] \o Events(step, r, ended) ELSE channel[r]
        BY <1>6 DEF Deliver
      <3>7. QED
        BY <3>4, <3>5, <3>6
    <2>3. channel' \in [Requests -> Seq(Event)]
      <3>1. channel' = [r \in Requests |-> channel'[r]]
        BY <1>6 DEF Deliver
      <3>2. QED
        BY <2>2, <3>1
    <2>4. QED
      BY <1>6, <2>1, <2>3 DEF Deliver, ServerTypeOK
  <1>7. CASE DrainClients(w)
    <2>1. driver' \in [Workers -> DriverState]
      BY <1>7, CancelsNextType DEF DrainClients, ServerTypeOK
    <2>2. channel' \in [Requests -> Seq(Event)]
      BY <1>7 DEF DrainClients, ServerTypeOK, ErrorEvent, Event
    <2>3. QED
      BY <1>7, <2>1, <2>2 DEF DrainClients, ServerTypeOK
  <1>8. CASE DriverCancels(w)
    <2>1. driver[w] \in [pc : {"cancel"}, of : CancelState, drop : SUBSET Requests]
      BY <1>8 DEF DriverCancels, ServerTypeOK, DriverState
    <2>2. driver' \in [Workers -> DriverState]
      <3>1. CASE CancelDone(CancelStep(driver[w].of))
        BY <1>8, <2>1, <3>1, CancelsNextType DEF DriverCancels
      <3>2. CASE ~CancelDone(CancelStep(driver[w].of))
        <4>1. CancelStep(driver[w].of) \in CancelState
          BY <2>1, <3>2, CancelStepType
        <4>2. [driver[w] EXCEPT !.of = CancelStep(driver[w].of)] \in DriverState
          BY <2>1, <4>1 DEF DriverState
        <4>3. QED
          BY <1>8, <3>2, <4>2 DEF DriverCancels, ServerTypeOK
      <3>3. QED
        BY <3>1, <3>2
    <2>3. /\ DOMAIN live' \subseteq Requests
          /\ live' \in [DOMAIN live' -> [on : Workers, prefilled : BOOLEAN]]
      BY <1>8 DEF DriverCancels, Without, ServerTypeOK
    <2>4. QED
      BY <1>8, <2>2, <2>3 DEF DriverCancels, ServerTypeOK
  <1>9. QED
    BY <1>1, <1>2, <1>3, <1>4, <1>5, <1>6, <1>7, <1>8 DEF Driver

-----------------------------------------------------------------------------
(* What a step of a handler, and of a driver, leaves alone *)

KeepsOthers(r) ==
    /\ driver' = driver /\ made' = made /\ faults' = faults
    /\ \A q \in Requests \ {r} :
           /\ handler'[q] = handler[q]
           /\ channel'[q] = channel[q]
           /\ got'[q] = got[q]
           /\ q \in clients' <=> q \in clients
           /\ q \in DOMAIN live' <=> q \in DOMAIN live
           /\ q \in DOMAIN live => live'[q] = live[q]

LEMMA HandlerFrame ==
    ASSUME ServerTypeOK, GuardKnows, NEW r \in Requests, Handler(r)
    PROVE  KeepsOthers(r)
  <1> USE DEF ServerTypeOK, KeepsOthers
  <1>1. CASE Register(r)
    BY <1>1 DEF Register
  <1>2. CASE Announce(r)
    BY <1>2 DEF Announce
  <1>3. CASE ReadBudget(r)
    BY <1>3 DEF ReadBudget
  <1>4. CASE TakeRoutingLock(r)
    BY <1>4 DEF TakeRoutingLock
  <1>5. CASE PlacementFails(r)
    BY <1>5 DEF PlacementFails
  <1>6. CASE RemoveRefused(r)
    BY <1>6 DEF RemoveRefused
  <1>7. CASE Admit(r)
    BY <1>7 DEF Admit
  <1>8. CASE Placed(r)
    BY <1>8 DEF Placed
  <1>9. ASSUME NEW w \in Workers, ScoreWorker(r, w) PROVE KeepsOthers(r)
    BY <1>9 DEF ScoreWorker
  <1>10. ASSUME NEW stops \in BOOLEAN, ReadToken(r, stops) PROVE KeepsOthers(r)
    BY <1>10 DEF ReadToken
  <1>11. CASE ReadDone(r)
    BY <1>11 DEF ReadDone
  <1>12. CASE ReadError(r)
    BY <1>12 DEF ReadError
  <1>13. CASE HangUp(r)
    BY <1>13 DEF HangUp
  <1>14. CASE GuardCancels(r)
    BY <1>14 DEF GuardCancels, CancelTakes, Without, GuardKnows
  <1>15. QED
    BY <1>1, <1>2, <1>3, <1>4, <1>5, <1>6, <1>7, <1>8, <1>9, <1>10, <1>11, <1>12,
       <1>13, <1>14 DEF Handler

\* A request that is live after the step of a driver was so before, on the same
\* worker.
KeepsRequests(w) ==
    /\ handler' = handler /\ got' = got
    /\ waiters' = waiters /\ routing' = routing
    /\ clients' \subseteq clients
    /\ \A v \in Workers \ {w} : driver'[v] = driver[v]
    /\ DOMAIN live' \subseteq DOMAIN live
    /\ \A r \in DOMAIN live' : live'[r].on = live[r].on

LEMMA DriverFrame ==
    ASSUME ServerTypeOK, NEW w \in Workers, Driver(w)
    PROVE  KeepsRequests(w)
  <1> USE DEF ServerTypeOK, KeepsRequests
  <1>1. CASE FindClients(w)
    BY <1>1 DEF FindClients
  <1>2. CASE BeginStep(w)
    BY <1>2 DEF BeginStep
  <1>3. CASE StepFails(w)
    BY <1>3 DEF StepFails
  <1>4. ASSUME NEW outcome, StepSucceeds(w, outcome) PROVE KeepsRequests(w)
    BY <1>4 DEF StepSucceeds
  <1>5. CASE StandAside(w)
    BY <1>5 DEF StandAside
  <1>6. CASE Deliver(w)
    BY <1>6 DEF Deliver, CancelsNext
  <1>7. CASE DrainClients(w)
    BY <1>7 DEF DrainClients, CancelsNext
  <1>8. CASE DriverCancels(w)
    BY <1>8 DEF DriverCancels, CancelsNext, Without
  <1>9. QED
    BY <1>1, <1>2, <1>3, <1>4, <1>5, <1>6, <1>7, <1>8 DEF Driver

\* What a handler may do to its own request.
LEMMA HandlerOwn ==
    ASSUME ServerTypeOK, GuardKnows, NEW r \in Requests, Handler(r)
    PROVE  /\ handler'[r].pc # "idle"
           /\ Submitted(r) => Submitted(r)'
           /\ r \in DOMAIN live' =>
                  \/ r \in DOMAIN live /\ live'[r] = live[r]
                  \/ ~Submitted(r) /\ Submitted(r)' /\ handler'[r].pc = "placed"
           /\ r \in clients' => r \in clients \/ handler[r].pc = "idle"
           /\ channel'[r] \in {channel[r], Tail(channel[r]), << >>}
           /\ channel'[r] = Tail(channel[r]) => channel[r] # << >> \/ channel'[r] = channel[r]
  <1> USE DEF ServerTypeOK, Submitted, At
  <1>1. CASE Register(r)
    BY <1>1 DEF Register
  <1>2. CASE Announce(r)
    BY <1>2 DEF Announce
  <1>3. CASE ReadBudget(r)
    BY <1>3 DEF ReadBudget
  <1>4. CASE TakeRoutingLock(r)
    BY <1>4 DEF TakeRoutingLock
  <1>5. CASE PlacementFails(r)
    BY <1>5 DEF PlacementFails
  <1>6. CASE RemoveRefused(r)
    BY <1>6 DEF RemoveRefused
  <1>7. CASE Admit(r)
    BY <1>7 DEF Admit
  <1>8. CASE Placed(r)
    BY <1>8 DEF Placed
  <1>9. CASE \E w \in Workers : ScoreWorker(r, w)
    BY <1>9 DEF ScoreWorker
  <1>10. CASE \E stops \in BOOLEAN : ReadToken(r, stops)
    BY <1>10 DEF ReadToken, Cancelling
  <1>11. CASE ReadDone(r)
    BY <1>11 DEF ReadDone
  <1>12. CASE ReadError(r)
    BY <1>12 DEF ReadError, Cancelling
  <1>13. CASE HangUp(r)
    BY <1>13 DEF HangUp, Cancelling
  <1>14. CASE GuardCancels(r)
    <2>1. handler[r] \in CancelState
      BY <1>14 DEF GuardCancels, HandlerState
    <2>2. CancelStep(handler[r]).pc = "cancel"
      BY <2>1 DEF CancelStep, CancelState
    <2>3. handler'[r].pc \in {"cancel", "gone"}
      BY <1>14, <2>2 DEF GuardCancels
    <2>4. channel'[r] \in {channel[r], << >>}
      BY <1>14 DEF GuardCancels
    <2>5. r \in DOMAIN live' => r \in DOMAIN live /\ live'[r] = live[r]
      BY <1>14 DEF GuardCancels, Without
    <2>6. clients' = clients /\ handler[r].pc = "cancel"
      BY <1>14 DEF GuardCancels
    <2>7. QED
      BY <2>3, <2>4, <2>5, <2>6
  <1>15. QED
    BY <1>1, <1>2, <1>3, <1>4, <1>5, <1>6, <1>7, <1>8, <1>9, <1>10, <1>11, <1>12,
       <1>13, <1>14 DEF Handler

-----------------------------------------------------------------------------
(* The guard and the requests it takes off their workers *)

\* One lock of the guard's search.
LEMMA GuardStep ==
    ASSUME ServerTypeOK, GuardKnows, NoZombie, NEW r \in Requests, GuardCancels(r)
    PROVE  /\ handler'[r].pc = "cancel" =>
                  /\ handler'[r].r = r
                  /\ handler'[r].found /\ r \in DOMAIN live' => live'[r].on = handler'[r].at
           /\ r \in DOMAIN live' => handler'[r].pc = "cancel" /\ handler'[r].at <= live'[r].on
  <1> DEFINE next == CancelStep(handler[r])
  <1>1. handler[r] \in CancelState /\ handler[r].r = r /\ handler[r].pc = "cancel"
    BY DEF GuardCancels, ServerTypeOK, HandlerState, GuardKnows
  <1>2. live' = [q \in DOMAIN live \ CancelTakes(handler[r]) |-> live[q]]
    BY DEF GuardCancels, Without
  <1>3. handler'[r] = IF CancelDone(next) THEN At("gone") ELSE next
    BY DEF GuardCancels, ServerTypeOK
  <1>4. r \in DOMAIN live => live[r].on \in Workers /\ handler[r].at <= live[r].on
    BY <1>1 DEF ServerTypeOK, NoZombie
  <1>5. handler[r].at \in Nat /\ WorkerCount \in Nat
    BY <1>1, ServerAssumption DEF CancelState, Workers
  <1>6. CASE handler[r].found
    <2>1. r \notin DOMAIN live'
      BY <1>1, <1>2, <1>6 DEF CancelTakes, CancelFinds, GuardKnows
    <2>2. next.at = WorkerCount + 1
      BY <1>1, <1>6 DEF CancelStep, CancelState
    <2>3. handler'[r] = At("gone")
      BY <1>3, <1>5, <2>2 DEF CancelDone
    <2>4. QED
      BY <2>1, <2>3 DEF At
  <1>7. CASE ~handler[r].found /\ CancelFinds(handler[r])
    <2>1. next.at = handler[r].at /\ next.r = r /\ next.pc = "cancel"
      BY <1>1, <1>7 DEF CancelStep, CancelState
    <2>2. live' = live /\ live[r].on = handler[r].at /\ r \in DOMAIN live
      BY <1>1, <1>2, <1>7 DEF CancelTakes, CancelFinds, ServerTypeOK
    <2>3. handler'[r] = next
      BY <1>3, <1>4, <1>5, <2>1, <2>2 DEF CancelDone, Workers
    <2>4. QED
      BY <1>4, <1>5, <2>1, <2>2, <2>3 DEF Workers
  <1>8. CASE ~handler[r].found /\ ~CancelFinds(handler[r])
    <2>1. next.at = handler[r].at + 1 /\ next.r = r /\ next.pc = "cancel" /\ next.found = FALSE
      BY <1>1, <1>8 DEF CancelStep, CancelState
    <2>2. live' = live
      BY <1>1, <1>2, <1>8 DEF CancelTakes, ServerTypeOK
    <2>3. r \in DOMAIN live => handler[r].at + 1 <= live[r].on
      BY <1>1, <1>4, <1>5, <1>8 DEF CancelFinds, Workers
    <2>4. r \in DOMAIN live => handler'[r] = next
      BY <1>3, <1>4, <1>5, <2>1, <2>3 DEF CancelDone, Workers
    <2>5. QED
      BY <1>3, <2>1, <2>2, <2>3, <2>4 DEF At
  <1>9. QED
    BY <1>6, <1>7, <1>8

LEMMA HandlerGuard ==
    ASSUME StreamInv, NEW r \in Requests, Handler(r)
    PROVE  GuardKnows' /\ NoZombie'
  <1>0. ServerTypeOK /\ GuardKnows /\ NoZombie /\ DoneIsFinal
    BY DEF StreamInv
  <1>1. KeepsOthers(r)
    BY <1>0, HandlerFrame
  <1>2. DOMAIN live' \subseteq Requests
    BY <1>0, HandlerType DEF ServerTypeOK
  <1>3. SUFFICES /\ handler'[r].pc = "cancel" =>
                        /\ handler'[r].r = r
                        /\ handler'[r].found /\ r \in DOMAIN live' => live'[r].on = handler'[r].at
                 /\ r \in DOMAIN live' =>
                        \/ handler'[r].pc \in {"placed", "reading"}
                        \/ handler'[r].pc = "cancel" /\ handler'[r].at <= live'[r].on
    BY <1>0, <1>1, <1>2 DEF KeepsOthers, GuardKnows, NoZombie
  <1>4. r \in DOMAIN live => live[r].on \in Workers /\ 1 <= live[r].on
    BY <1>0 DEF ServerTypeOK, Workers
  <1> USE DEF ServerTypeOK, NoZombie, At
  <1>5. CASE Register(r)
    BY <1>0, <1>5 DEF Register
  <1>6. CASE Announce(r)
    BY <1>0, <1>6 DEF Announce
  <1>7. CASE ReadBudget(r)
    BY <1>0, <1>7 DEF ReadBudget
  <1>8. CASE TakeRoutingLock(r)
    BY <1>0, <1>8 DEF TakeRoutingLock
  <1>9. CASE PlacementFails(r)
    BY <1>0, <1>9 DEF PlacementFails
  <1>10. CASE RemoveRefused(r)
    BY <1>0, <1>10 DEF RemoveRefused
  <1>11. CASE Admit(r)
    BY <1>0, <1>11 DEF Admit
  <1>12. CASE Placed(r)
    BY <1>0, <1>12 DEF Placed
  <1>13. CASE \E w \in Workers : ScoreWorker(r, w)
    <2>1. handler'[r].pc \in {"score", "admit"}
      BY <1>0, <1>13 DEF ScoreWorker
    <2>2. live' = live /\ handler[r].pc = "score"
      BY <1>13 DEF ScoreWorker
    <2>3. QED
      BY <1>0, <2>1, <2>2
  <1>14. CASE \E stops \in BOOLEAN : ReadToken(r, stops)
    BY <1>0, <1>4, <1>14 DEF ReadToken, Cancelling
  <1>15. CASE ReadDone(r)
    <2>1. 1 \in DOMAIN channel[r] /\ channel[r][1].kind = "done"
      BY <1>0, <1>15 DEF ReadDone
    <2>2. QED
      BY <1>0, <1>15, <2>1 DEF ReadDone, DoneIsFinal
  <1>16. CASE ReadError(r)
    BY <1>0, <1>4, <1>16 DEF ReadError, Cancelling
  <1>17. CASE HangUp(r)
    BY <1>0, <1>4, <1>17 DEF HangUp, Cancelling
  <1>18. CASE GuardCancels(r)
    BY <1>0, <1>18, GuardStep
  <1> HIDE DEF ServerTypeOK, NoZombie, At
  <1>19. QED
    BY <1>5, <1>6, <1>7, <1>8, <1>9, <1>10, <1>11, <1>12, <1>13, <1>14, <1>15, <1>16,
       <1>17, <1>18 DEF Handler

LEMMA DriverGuard ==
    ASSUME StreamInv, NEW w \in Workers, Driver(w)
    PROVE  GuardKnows' /\ NoZombie'
  <1>1. ServerTypeOK /\ GuardKnows /\ NoZombie
    BY DEF StreamInv
  <1>2. KeepsRequests(w)
    BY <1>1, DriverFrame
  <1>3. QED
    BY <1>1, <1>2 DEF KeepsRequests, GuardKnows, NoZombie

-----------------------------------------------------------------------------
(* What the drivers hold, and what Done means *)

\* A step takes hold of what is on its worker, and of nothing another driver holds.
LEMMA StepTakesHold ==
    ASSUME StreamInv, NEW w \in Workers, NEW outcome, StepSucceeds(w, outcome)
    PROVE  /\ driver'[w].generated \cup driver'[w].completed \subseteq On(w)
           /\ driver'[w].completed \cap DOMAIN live' = {}
           /\ driver'[w].pc = "folded"
           /\ \A r \in Requests : made'[r] = made[r] + IF r \in driver'[w].generated THEN 1 ELSE 0
           /\ \A r \in On(w) : Submitted(r) /\ \A v \in Workers : r \notin Hand(v)
           /\ On(w) \subseteq Requests
  <1>0. ServerTypeOK /\ NoZombie /\ HandsExact
    BY DEF StreamInv
  <1>1. driver[w].pc = "step"
    BY DEF StepSucceeds
  <1>2. /\ driver'[w].generated \cup driver'[w].completed \subseteq On(w)
        /\ driver'[w].pc = "folded"
        /\ driver'[w].completed \cap DOMAIN live' = {}
    BY <1>0 DEF StepSucceeds, ServerTypeOK
  <1>3. \A r \in Requests : made'[r] = made[r] + IF r \in driver'[w].generated THEN 1 ELSE 0
    BY <1>0 DEF StepSucceeds, ServerTypeOK
  <1>4. On(w) \subseteq Requests
    BY <1>0 DEF On, ServerTypeOK
  <1>5. ASSUME NEW r \in On(w)
        PROVE  Submitted(r) /\ \A v \in Workers : r \notin Hand(v)
    <2>1. r \in DOMAIN live /\ live[r].on = w
      BY DEF On
    <2>2. Submitted(r)
      BY <1>0, <2>1 DEF NoZombie, Submitted
    <2>3. w \in Workers /\ r \notin Hand(w)
      BY <1>1 DEF Hand
    <2>4. QED
      BY <1>0, <2>1, <2>2, <2>3 DEF HandsExact
  <1>6. QED
    BY <1>2, <1>3, <1>4, <1>5

\* The hands of a driver that does not end a step.
LEMMA HandKept ==
    ASSUME ServerTypeOK, NEW w \in Workers,
           \/ FindClients(w) \/ BeginStep(w) \/ StepFails(w) \/ StandAside(w)
           \/ Deliver(w) \/ DrainClients(w) \/ DriverCancels(w)
    PROVE  /\ made' = made
           /\ \/ Hand(w)' = {}
              \/ /\ Hand(w)' = Hand(w)
                 /\ driver'[w].completed = driver[w].completed
                 /\ driver'[w].generated = driver[w].generated
                 /\ driver'[w].pc = "aside" /\ driver[w].pc = "folded"
  <1>1. CASE FindClients(w)
    BY <1>1 DEF FindClients, Hand, ServerTypeOK, At
  <1>2. CASE BeginStep(w)
    BY <1>2 DEF BeginStep, Hand, ServerTypeOK, At
  <1>3. CASE StepFails(w)
    BY <1>3 DEF StepFails, Hand, ServerTypeOK, At
  <1>4. CASE StandAside(w)
    <2>1. driver[w].pc = "folded"
      BY <1>4 DEF StandAside
    <2>2. driver'[w] = [driver[w] EXCEPT !.pc = "aside", !.sleeps = driver[w].sleeps \/ waiters > 0]
      BY <1>4 DEF StandAside, ServerTypeOK
    <2>3. /\ driver'[w].pc = "aside"
          /\ driver'[w].generated = driver[w].generated
          /\ driver'[w].completed = driver[w].completed
      BY <2>1, <2>2, FoldedType
    <2>4. QED
      BY <1>4, <2>1, <2>3 DEF Hand, StandAside
  <1>5. ASSUME NEW drop, CancelsNext(w, drop) PROVE Hand(w)' = {}
    BY <1>5 DEF CancelsNext, Hand, At, ServerTypeOK
  <1>6. CASE Deliver(w)
    BY <1>5, <1>6 DEF Deliver
  <1>7. CASE DrainClients(w)
    BY <1>5, <1>7 DEF DrainClients
  <1>8. CASE DriverCancels(w)
    <2>1. driver[w] \in [pc : {"cancel"}, of : CancelState, drop : SUBSET Requests]
      BY <1>8 DEF DriverCancels, ServerTypeOK, DriverState
    <2>2. CASE CancelDone(CancelStep(driver[w].of))
      BY <1>5, <1>8, <2>2 DEF DriverCancels
    <2>3. CASE ~CancelDone(CancelStep(driver[w].of))
      <3>1. driver'[w] = [driver[w] EXCEPT !.of = CancelStep(driver[w].of)]
        BY <1>8, <2>3 DEF DriverCancels, ServerTypeOK
      <3>2. driver'[w].pc = "cancel"
        BY <2>1, <3>1
      <3>3. QED
        BY <1>8, <3>2 DEF Hand, DriverCancels
    <2>4. QED
      BY <1>8, <2>2, <2>3 DEF DriverCancels
  <1>9. QED
    BY <1>1, <1>2, <1>3, <1>4, <1>6, <1>7, <1>8

LEMMA HandlerHands ==
    ASSUME StreamInv, NEW r \in Requests, Handler(r)
    PROVE  HandsExact'
  <1>0. ServerTypeOK /\ GuardKnows /\ HandsExact
    BY DEF StreamInv
  <1>1. KeepsOthers(r)
    BY <1>0, HandlerFrame
  <1>2. \A w \in Workers : Hand(w)' = Hand(w) /\ Hand(w) \subseteq Requests
    BY <1>0, <1>1, FoldedType DEF Hand, KeepsOthers
  <1>3. SUFFICES ASSUME NEW w \in Workers, NEW q \in Hand(w)
                 PROVE  /\ Submitted(q)'
                        /\ q \in DOMAIN live' => live'[q].on = w /\ q \notin driver[w].completed
    BY <1>0, <1>1, <1>2 DEF HandsExact, KeepsOthers
  <1>4. /\ Submitted(q)
        /\ q \in DOMAIN live => live[q].on = w /\ q \notin driver[w].completed
    BY <1>0 DEF HandsExact
  <1>5. CASE q = r
    BY <1>0, <1>4, <1>5, HandlerOwn
  <1>6. CASE q # r
    BY <1>1, <1>2, <1>4, <1>6 DEF KeepsOthers, Submitted
  <1>7. QED
    BY <1>5, <1>6

LEMMA DriverHands ==
    ASSUME StreamInv, NEW w \in Workers, Driver(w)
    PROVE  HandsExact'
  <1>0. ServerTypeOK /\ HandsExact
    BY DEF StreamInv
  <1>1. KeepsRequests(w)
    BY <1>0, DriverFrame
  <1>2. \A v \in Workers \ {w} : Hand(v)' = Hand(v) /\ driver'[v] = driver[v]
    BY <1>1 DEF Hand, KeepsRequests
  <1>3. \A r : Submitted(r)' <=> Submitted(r)
    BY <1>1 DEF KeepsRequests, Submitted
  <1>4. ASSUME NEW outcome, StepSucceeds(w, outcome) PROVE HandsExact'
    <2>1. Hand(w)' \subseteq On(w) /\ Hand(w)' = driver'[w].generated \cup driver'[w].completed
      BY <1>4, StepTakesHold DEF Hand
    <2>2. SUFFICES ASSUME NEW v \in Workers, NEW r \in Hand(v)'
                   PROVE  /\ Submitted(r)'
                          /\ r \in DOMAIN live' => live'[r].on = v /\ r \notin driver'[v].completed
                          /\ \A u \in Workers : r \in Hand(u)' => u = v
      BY DEF HandsExact
    <2>3. CASE v = w
      <3>1. r \in On(w) /\ Submitted(r) /\ \A u \in Workers : r \notin Hand(u)
        BY <1>4, <2>1, <2>3, StepTakesHold
      <3>2. r \in DOMAIN live' => live'[r].on = w /\ r \notin driver'[w].completed
        BY <1>1, <1>4, <3>1, StepTakesHold DEF On, KeepsRequests
      <3>3. QED
        BY <1>2, <1>3, <2>3, <3>1, <3>2
    <2>4. CASE v # w
      <3>1. r \in Hand(v)
        BY <1>2, <2>4
      <3>2. r \notin Hand(w)'
        BY <1>4, <2>1, <3>1, StepTakesHold
      <3>3. QED
        BY <1>0, <1>1, <1>2, <1>3, <2>4, <3>1, <3>2 DEF HandsExact, KeepsRequests
    <2>5. QED
      BY <2>3, <2>4
  <1>5. CASE \/ FindClients(w) \/ BeginStep(w) \/ StepFails(w) \/ StandAside(w)
             \/ Deliver(w) \/ DrainClients(w) \/ DriverCancels(w)
    <2>1. Hand(w)' = {} \/ (Hand(w)' = Hand(w) /\ driver'[w].completed = driver[w].completed)
      BY <1>0, <1>5, HandKept
    <2>2. \A v \in Workers : Hand(v)' \subseteq Hand(v)
      BY <1>2, <2>1
    <2>3. \A v \in Workers : Hand(v)' # {} => driver'[v].completed = driver[v].completed
      BY <1>2, <2>1
    <2>4. QED
      BY <1>0, <1>1, <1>3, <2>2, <2>3 DEF HandsExact, KeepsRequests
  <1>6. QED
    BY <1>4, <1>5 DEF Driver

-----------------------------------------------------------------------------
(* What the drivers say to the clients *)

\* One element, or none.
One(b) == IF b THEN 1 ELSE 0

\* The fan-out as a client with an open receiver sees it: what it had, then its
\* token, then its end.
SaysOf(w, r) ==
    LET n == Len(channel[r])
        token == r \in driver[w].generated
        end == r \in driver[w].completed
    IN  /\ Len(channel'[r]) = n + One(token) + One(end)
        /\ \A i \in 1 .. n : channel'[r][i] = channel[r][i]
        /\ token => channel'[r][n + 1] = Token(made[r])
        /\ end => channel'[r][n + One(token) + 1].kind = "done"
        /\ r \in clients' <=> ~end

LEMMA ConcatThree ==
    ASSUME NEW S, NEW s \in Seq(S), NEW a \in Seq(S), NEW b \in Seq(S)
    PROVE  /\ Len(s \o (a \o b)) = Len(s) + Len(a) + Len(b)
           /\ \A i \in 1 .. Len(s) : (s \o (a \o b))[i] = s[i]
           /\ \A i \in 1 .. Len(a) : (s \o (a \o b))[Len(s) + i] = a[i]
           /\ \A i \in 1 .. Len(b) : (s \o (a \o b))[Len(s) + Len(a) + i] = b[i]
  <1> DEFINE t == a \o b
  <1>0. Len(s) \in Nat /\ Len(a) \in Nat /\ Len(b) \in Nat
    OBVIOUS
  <1>1. /\ t \in Seq(S) /\ Len(t) = Len(a) + Len(b)
        /\ \A i \in 1 .. Len(a) + Len(b) : t[i] = IF i <= Len(a) THEN a[i] ELSE b[i - Len(a)]
    BY ConcatProperties
  <1>10. t \in Seq(S)
    BY <1>1
  <1> HIDE DEF t
  <1>2. /\ Len(s \o t) = Len(s) + Len(t)
        /\ \A i \in 1 .. Len(s) + Len(t) : (s \o t)[i] =
               IF i <= Len(s) THEN s[i] ELSE t[i - Len(s)]
    BY <1>10, ConcatProperties
  <1>3. \A i \in 1 .. Len(s) : (s \o t)[i] = s[i]
    BY <1>0, <1>1, <1>2
  <1>4. ASSUME NEW i \in 1 .. Len(a) PROVE (s \o t)[Len(s) + i] = a[i]
    <2>1. Len(s) + i \in 1 .. Len(s) + Len(t) /\ ~(Len(s) + i <= Len(s)) /\ Len(s) + i - Len(s) = i
      BY <1>0, <1>1
    <2>2. QED
      BY <1>0, <1>1, <1>2, <2>1
  <1>5. ASSUME NEW i \in 1 .. Len(b) PROVE (s \o t)[Len(s) + Len(a) + i] = b[i]
    <2>1. /\ Len(s) + Len(a) + i \in 1 .. Len(s) + Len(t)
          /\ ~(Len(s) + Len(a) + i <= Len(s))
          /\ Len(s) + Len(a) + i - Len(s) = Len(a) + i
      BY <1>0, <1>1
    <2>2. Len(a) + i \in 1 .. Len(a) + Len(b) /\ ~(Len(a) + i <= Len(a)) /\ Len(a) + i - Len(a) = i
      BY <1>0
    <2>3. (s \o t)[Len(s) + Len(a) + i] = t[Len(a) + i]
      BY <1>2, <2>1
    <2>4. t[Len(a) + i] = b[i]
      BY <1>1, <2>2
    <2>5. QED
      BY <2>3, <2>4
  <1>6. Len(s \o t) = Len(s) + Len(a) + Len(b)
    BY <1>0, <1>1, <1>2
  <1>7. QED
    BY <1>3, <1>4, <1>5, <1>6 DEF t

LEMMA DeliverSays ==
    ASSUME ServerTypeOK, NEW w \in Workers, Deliver(w), NEW r \in Requests
    PROVE  IF r \in clients /\ ReceiverOpen(r) THEN SaysOf(w, r)
           ELSE channel'[r] = channel[r]
  <1> DEFINE step == driver[w]
             lost == {q \in step.generated \cap clients : ~ReceiverOpen(q)}
             ended == Ended(step, lost)
             sent == Sent(step, r)
             finished == Finished(step, r, ended)
  <1>1. channel'[r] = IF r \in clients /\ ReceiverOpen(r)
                      THEN channel[r] \o (sent \o finished) ELSE channel[r]
    BY DEF Deliver, Events
  <1>2. SUFFICES ASSUME r \in clients, ReceiverOpen(r)
                 PROVE  SaysOf(w, r)
    BY <1>1
  <1>3. r \in ended <=> r \in step.completed
    BY <1>2 DEF Ended
  <1>4. r \in clients' <=> r \notin step.completed
    BY <1>2, <1>3 DEF Deliver
  <1>5. channel[r] \in Seq(Event)
    BY DEF ServerTypeOK
  <1>6. /\ Token(made[r]) \in Event
        /\ \A reason \in {"eos", "length"} : DoneEvent(reason) \in Event
        /\ \A reason \in {"eos", "length"} : DoneEvent(reason).kind = "done"
    BY DEF ServerTypeOK, Token, DoneEvent, Event
  <1>7. /\ sent \in Seq(Event) /\ Len(sent) = One(r \in step.generated)
        /\ r \in step.generated => sent[1] = Token(made[r])
    BY <1>6 DEF Sent, One
  <1>8. /\ finished \in Seq(Event) /\ Len(finished) = One(r \in step.completed)
        /\ r \in step.completed => finished[1].kind = "done"
    <2>1. PICK reason \in {"eos", "length"} :
              finished = IF r \in step.completed THEN <<DoneEvent(reason)>> ELSE << >>
      BY <1>3 DEF Finished
    <2> HIDE DEF finished
    <2>2. CASE r \in step.completed
      <3>1. finished = <<DoneEvent(reason)>> /\ DoneEvent(reason) \in Event
        BY <1>6, <2>1, <2>2
      <3>2. QED
        BY <1>6, <2>2, <3>1 DEF One
    <2>3. CASE r \notin step.completed
      BY <2>1, <2>3 DEF One
    <2>4. QED
      BY <2>2, <2>3
  <1> HIDE DEF sent, finished, ended, lost
  <1>9. channel'[r] = channel[r] \o (sent \o finished)
    BY <1>1, <1>2
  <1>10. /\ Len(channel'[r]) = Len(channel[r]) + Len(sent) + Len(finished)
         /\ \A i \in 1 .. Len(channel[r]) : channel'[r][i] = channel[r][i]
         /\ \A i \in 1 .. Len(sent) : channel'[r][Len(channel[r]) + i] = sent[i]
         /\ \A i \in 1 .. Len(finished) :
                channel'[r][Len(channel[r]) + Len(sent) + i] = finished[i]
    <2>1. sent \in Seq(Event) /\ finished \in Seq(Event)
      BY <1>7, <1>8
    <2> DEFINE c == channel[r]
    <2>2. c \in Seq(Event)
      BY <1>5
    <2> HIDE DEF c
    <2>3. /\ Len(c \o (sent \o finished)) = Len(c) + Len(sent) + Len(finished)
          /\ \A i \in 1 .. Len(c) : (c \o (sent \o finished))[i] = c[i]
          /\ \A i \in 1 .. Len(sent) : (c \o (sent \o finished))[Len(c) + i] = sent[i]
          /\ \A i \in 1 .. Len(finished) :
                 (c \o (sent \o finished))[Len(c) + Len(sent) + i] = finished[i]
      BY <2>1, <2>2, ConcatThree
    <2>4. channel'[r] = c \o (sent \o finished)
      BY <1>9 DEF c
    <2> DEFINE d == channel'[r]
    <2>5. d = c \o (sent \o finished)
      BY <2>4
    <2> HIDE DEF d
    <2>6. /\ Len(d) = Len(c) + Len(sent) + Len(finished)
          /\ \A i \in 1 .. Len(c) : d[i] = c[i]
          /\ \A i \in 1 .. Len(sent) : d[Len(c) + i] = sent[i]
          /\ \A i \in 1 .. Len(finished) : d[Len(c) + Len(sent) + i] = finished[i]
      BY <2>3, <2>5, Zenon
    <2>7. QED
      BY <2>6 DEF c, d
  <1>11. r \in step.generated => channel'[r][Len(channel[r]) + 1] = Token(made[r])
    BY <1>7, <1>10 DEF One
  <1>12. r \in step.completed =>
             channel'[r][Len(channel[r]) + Len(sent) + 1].kind = "done"
    BY <1>8, <1>10 DEF One
  <1>13. QED
    <2>1. Len(sent) = One(r \in step.generated) /\ Len(finished) = One(r \in step.completed)
      BY <1>7, <1>8
    <2>2. QED
      BY <1>4, <1>10, <1>11, <1>12, <2>1 DEF SaysOf

LEMMA DrainSays ==
    ASSUME ServerTypeOK, NEW w \in Workers, DrainClients(w), NEW r \in Requests
    PROVE  /\ clients' = {}
           /\ IF r \in clients /\ ReceiverOpen(r)
              THEN /\ Len(channel'[r]) = Len(channel[r]) + 1
                   /\ \A i \in 1 .. Len(channel[r]) : channel'[r][i] = channel[r][i]
                   /\ channel'[r][Len(channel[r]) + 1].kind = "error"
              ELSE channel'[r] = channel[r]
  <1>1. channel[r] \in Seq(Event)
    BY DEF ServerTypeOK
  <1>2. channel'[r] = IF r \in clients /\ ReceiverOpen(r)
                      THEN Append(channel[r], ErrorEvent(w)) ELSE channel[r]
    BY DEF DrainClients, ToldOfFailure
  <1>3. clients' = {}
    BY DEF DrainClients
  <1>4. QED
    BY <1>1, <1>2, <1>3 DEF ErrorEvent

\* The other steps of a driver say nothing.
LEMMA OtherwiseSilent ==
    ASSUME NEW w \in Workers,
           \/ FindClients(w) \/ BeginStep(w) \/ StepFails(w) \/ StandAside(w)
           \/ DriverCancels(w) \/ \E outcome : StepSucceeds(w, outcome)
    PROVE  channel' = channel /\ clients' = clients
  BY DEF FindClients, BeginStep, StepFails, StandAside, DriverCancels, StepSucceeds

-----------------------------------------------------------------------------
(* What a handler reads *)

Kept(r) ==
    /\ channel'[r] = channel[r]
    /\ got'[r] = got[r]
    /\ r \in clients' <=> r \in clients

TakesHead(r, kind) ==
    /\ channel[r] # << >>
    /\ Head(channel[r]).kind = kind
    /\ channel'[r] = Tail(channel[r])
    /\ r \in clients' <=> r \in clients

\* A handler that goes on has registered, read a token or an error, or touched
\* nothing of its stream.
LEMMA HandlerReads ==
    ASSUME ServerTypeOK, NEW r \in Requests, Handler(r), ReceiverOpen(r)'
    PROVE  /\ ReceiverOpen(r)
           /\ \/ Register(r)
              \/ /\ Kept(r)
                 /\ handler'[r].pc # "cancel" => handler[r].pc \notin {"idle", "cancel", "refused"}
              \/ TakesHead(r, "token") /\ got'[r] = got[r] + 1 /\ handler[r].pc = "reading"
              \/ TakesHead(r, "error") /\ got'[r] = got[r] /\ handler'[r].pc = "cancel"
  <1> USE DEF ServerTypeOK, ReceiverOpen, Kept, TakesHead, At
  <1>1. CASE Register(r)
    BY <1>1 DEF Register
  <1>2. CASE Announce(r)
    BY <1>2 DEF Announce
  <1>3. CASE ReadBudget(r)
    BY <1>3 DEF ReadBudget
  <1>4. CASE TakeRoutingLock(r)
    BY <1>4 DEF TakeRoutingLock
  <1>5. CASE PlacementFails(r)
    BY <1>5 DEF PlacementFails
  <1>6. CASE RemoveRefused(r)
    BY <1>6 DEF RemoveRefused
  <1>7. CASE Admit(r)
    BY <1>7 DEF Admit
  <1>8. CASE Placed(r)
    BY <1>8 DEF Placed
  <1>9. CASE \E w \in Workers : ScoreWorker(r, w)
    BY <1>9 DEF ScoreWorker
  <1>10. CASE \E stops \in BOOLEAN : ReadToken(r, stops)
    BY <1>10 DEF ReadToken
  <1>11. CASE ReadDone(r)
    BY <1>11 DEF ReadDone
  <1>12. CASE ReadError(r)
    BY <1>12 DEF ReadError, Cancelling
  <1>13. CASE HangUp(r)
    BY <1>13 DEF HangUp, Cancelling
  <1>14. CASE GuardCancels(r)
    <2>1. handler[r] \in CancelState
      BY <1>14 DEF GuardCancels, HandlerState
    <2>2. CancelStep(handler[r]).pc = "cancel"
      BY <2>1 DEF CancelStep, CancelState
    <2>3. handler'[r].pc = "cancel" /\ channel' = channel
      BY <1>14, <2>2 DEF GuardCancels
    <2>4. clients' = clients /\ got' = got /\ handler[r].pc = "cancel"
      BY <1>14 DEF GuardCancels
    <2>5. QED
      BY <2>3, <2>4
  <1>15. QED
    BY <1>1, <1>2, <1>3, <1>4, <1>5, <1>6, <1>7, <1>8, <1>9, <1>10, <1>11, <1>12,
       <1>13, <1>14 DEF Handler

\* A handler only takes events away.
LEMMA ChannelShrinks ==
    ASSUME ServerTypeOK, GuardKnows, NEW r \in Requests, Handler(r),
           NEW i \in DOMAIN channel'[r]
    PROVE  \E j \in DOMAIN channel[r] : channel'[r][i] = channel[r][j]
  <1>1. channel[r] \in Seq(Event)
    BY DEF ServerTypeOK
  <1>2. /\ channel'[r] \in {channel[r], Tail(channel[r]), << >>}
        /\ channel'[r] = Tail(channel[r]) => channel[r] # << >> \/ channel'[r] = channel[r]
    BY HandlerOwn
  <1>3. CASE channel'[r] = channel[r]
    BY <1>3
  <1>4. CASE channel'[r] = << >>
    BY <1>4
  <1>5. CASE channel'[r] = Tail(channel[r]) /\ channel[r] # << >>
    <2>1. /\ Len(Tail(channel[r])) = Len(channel[r]) - 1
          /\ \A k \in 1 .. Len(Tail(channel[r])) : Tail(channel[r])[k] = channel[r][k + 1]
      BY <1>1, <1>5
    <2>2. i + 1 \in DOMAIN channel[r] /\ channel'[r][i] = channel[r][i + 1]
      BY <1>1, <1>5, <2>1
    <2>3. QED
      BY <2>2
  <1>6. QED
    BY <1>2, <1>3, <1>4, <1>5

-----------------------------------------------------------------------------
(* Done is final, and a client in the map has only tokens before it *)

LEMMA HandlerFresh ==
    ASSUME StreamInv, NEW r \in Requests, Handler(r)
    PROVE  DoneIsFinal' /\ ClientsFresh'
  <1>0. ServerTypeOK /\ GuardKnows /\ DoneIsFinal /\ ClientsFresh
    BY DEF StreamInv
  <1>1. KeepsOthers(r)
    BY <1>0, HandlerFrame
  <1>2. \A q \in Requests \ {r} : Submitted(q)' <=> Submitted(q)
    BY <1>1 DEF KeepsOthers, Submitted
  <1>3. ASSUME NEW i \in DOMAIN channel'[r], channel'[r][i].kind = "done"
        PROVE  Submitted(r)' /\ r \notin DOMAIN live'
    <2>1. Submitted(r) /\ r \notin DOMAIN live
      BY <1>0, <1>3, ChannelShrinks DEF DoneIsFinal
    <2>2. QED
      BY <1>0, <2>1, HandlerOwn
  <1>4. ASSUME NEW i \in DOMAIN channel'[r], r \in clients'
        PROVE  channel'[r][i].kind = "token"
    <2>1. PICK j \in DOMAIN channel[r] : channel'[r][i] = channel[r][j]
      BY <1>0, ChannelShrinks
    <2>2. r \in clients \/ handler[r].pc = "idle"
      BY <1>0, <1>4, HandlerOwn
    <2>3. QED
      BY <1>0, <2>1, <2>2 DEF ClientsFresh
  <1>5. handler'[r].pc # "idle"
    BY <1>0, HandlerOwn
  <1>6. DoneIsFinal'
    BY <1>0, <1>1, <1>2, <1>3 DEF DoneIsFinal, KeepsOthers
  <1>7. ClientsFresh'
    BY <1>0, <1>1, <1>4, <1>5 DEF ClientsFresh, KeepsOthers
  <1>8. QED
    BY <1>6, <1>7

\* What the step of a driver adds to a client's channel.
LEMMA ChannelGrows ==
    ASSUME ServerTypeOK, NEW w \in Workers, Driver(w), NEW r \in Requests,
           NEW i \in DOMAIN channel'[r]
    PROVE  \/ i \in DOMAIN channel[r] /\ channel'[r][i] = channel[r][i]
           \/ /\ r \in clients
              /\ \/ channel'[r][i].kind = "token"
                 \/ channel'[r][i].kind = "error" /\ r \notin clients'
                 \/ /\ channel'[r][i].kind = "done" /\ r \notin clients'
                    /\ r \in driver[w].completed /\ r \in Hand(w)
  <1>0. channel[r] \in Seq(Event) /\ channel'[r] \in Seq(Event)
    BY DriverType DEF ServerTypeOK
  <1>1. CASE Deliver(w)
    <2>1. CASE r \in clients /\ ReceiverOpen(r)
      <3>1. SaysOf(w, r)
        BY <1>1, <2>1, DeliverSays
      <3>2. CASE i <= Len(channel[r])
        BY <1>0, <3>1, <3>2 DEF SaysOf
      <3>3. CASE i > Len(channel[r])
        <4>1. \/ r \in driver[w].generated /\ i = Len(channel[r]) + 1
              \/ r \in driver[w].completed /\ i = Len(channel[r]) + One(r \in driver[w].generated) + 1
          <5>1. i \in Nat /\ i <= Len(channel'[r]) /\ Len(channel[r]) \in Nat
            BY <1>0
          <5>2. Len(channel'[r]) =
                    Len(channel[r]) + One(r \in driver[w].generated) + One(r \in driver[w].completed)
            BY <3>1 DEF SaysOf
          <5> DEFINE g == One(r \in driver[w].generated)
                     c == One(r \in driver[w].completed)
          <5>3. (g = 1 /\ r \in driver[w].generated) \/ g = 0
            BY DEF One
          <5>4. (c = 1 /\ r \in driver[w].completed) \/ c = 0
            BY DEF One
          <5> HIDE DEF g, c
          <5>5. Len(channel'[r]) = Len(channel[r]) + g + c
            BY <5>2 DEF g, c
          <5>6. \/ r \in driver[w].generated /\ i = Len(channel[r]) + 1
                \/ r \in driver[w].completed /\ i = Len(channel[r]) + g + 1
            BY <3>3, <5>1, <5>3, <5>4, <5>5
          <5>7. QED
            BY <5>6 DEF g
        <4>2. driver[w].pc = "aside"
          BY <1>1 DEF Deliver
        <4>3. r \in driver[w].completed => r \in Hand(w)
          BY <4>2 DEF Hand
        <4>4. QED
          BY <2>1, <3>1, <4>1, <4>3 DEF SaysOf, Token
      <3>4. QED
        BY <1>0, <3>2, <3>3
    <2>2. CASE ~(r \in clients /\ ReceiverOpen(r))
      BY <1>1, <2>2, DeliverSays
    <2>3. QED
      BY <2>1, <2>2
  <1>2. CASE DrainClients(w)
    BY <1>0, <1>2, DrainSays
  <1>3. CASE ~Deliver(w) /\ ~DrainClients(w)
    <2>1. channel' = channel
      BY <1>3, OtherwiseSilent DEF Driver
    <2>2. QED
      BY <2>1
  <1>4. QED
    BY <1>1, <1>2, <1>3

LEMMA DriverFresh ==
    ASSUME StreamInv, NEW w \in Workers, Driver(w)
    PROVE  DoneIsFinal' /\ ClientsFresh'
  <1>0. ServerTypeOK /\ NoZombie /\ HandsExact /\ DoneIsFinal /\ ClientsFresh
    BY DEF StreamInv
  <1>1. KeepsRequests(w)
    BY <1>0, DriverFrame
  <1>2. \A r : Submitted(r)' <=> Submitted(r)
    BY <1>1 DEF KeepsRequests, Submitted
  <1>3. ASSUME NEW r \in Requests, NEW i \in DOMAIN channel'[r], channel'[r][i].kind = "done"
        PROVE  Submitted(r)' /\ r \notin DOMAIN live'
    <2>1. \/ i \in DOMAIN channel[r] /\ channel[r][i].kind = "done"
          \/ r \in driver[w].completed /\ r \in Hand(w)
      BY <1>0, <1>3, ChannelGrows
    <2>2. Submitted(r) /\ r \notin DOMAIN live
      BY <1>0, <2>1 DEF DoneIsFinal, HandsExact
    <2>3. QED
      BY <1>1, <1>2, <2>2 DEF KeepsRequests
  <1>4. ASSUME NEW r \in Requests, r \in clients', NEW i \in DOMAIN channel'[r]
        PROVE  channel'[r][i].kind = "token"
    <2>1. r \in clients
      BY <1>1, <1>4 DEF KeepsRequests
    <2>2. QED
      BY <1>0, <1>4, <2>1, ChannelGrows DEF ClientsFresh
  <1>5. ASSUME NEW r \in Requests, handler'[r].pc = "idle"
        PROVE  r \notin clients' /\ channel'[r] = << >> /\ made'[r] = 0 /\ got'[r] = 0
    <2>1. handler[r].pc = "idle" /\ r \notin clients /\ channel[r] = << >> /\ made[r] = 0 /\ got[r] = 0
      BY <1>0, <1>1, <1>5 DEF KeepsRequests, ClientsFresh
    <2>2. r \notin DOMAIN live
      BY <1>0, <2>1 DEF NoZombie
    <2>3. channel'[r] = << >>
      <3>1. channel'[r] \in Seq(Event)
        BY <1>0, DriverType DEF ServerTypeOK
      <3>2. \A i \in DOMAIN channel'[r] : FALSE
        BY <1>0, <2>1, ChannelGrows
      <3>3. DOMAIN channel'[r] = 1 .. Len(channel'[r]) /\ Len(channel'[r]) \in Nat
        BY <3>1
      <3>4. Len(channel'[r]) = 0
        BY <3>2, <3>3
      <3>5. QED
        BY <3>1, <3>4, EmptySeq
    <2>4. made'[r] = made[r]
      <3>1. ASSUME NEW outcome, StepSucceeds(w, outcome) PROVE made'[r] = made[r]
        <4>1. r \notin driver'[w].generated
          BY <2>2, <3>1, StepTakesHold DEF On
        <4>2. made'[r] = made[r] + 0
          BY <3>1, <4>1, StepTakesHold
        <4>3. QED
          BY <1>0, <4>2 DEF ServerTypeOK
      <3>2. QED
        BY <1>0, <3>1, HandKept DEF Driver
    <2>5. QED
      BY <1>1, <2>1, <2>3, <2>4 DEF KeepsRequests
  <1>6. QED
    BY <1>3, <1>4, <1>5 DEF DoneIsFinal, ClientsFresh

-----------------------------------------------------------------------------
(* No reader is left without a status *)

LEMMA TailFacts ==
    ASSUME NEW S, NEW s \in Seq(S), s # << >>
    PROVE  /\ Len(s) \in Nat \ {0}
           /\ Tail(s) \in Seq(S)
           /\ Len(Tail(s)) = Len(s) - 1
           /\ \A i \in DOMAIN Tail(s) :
                  i \in Nat /\ i + 1 \in DOMAIN s /\ Tail(s)[i] = s[i + 1]
           /\ Len(s) = 1 => Tail(s) = << >>
           /\ Len(s) # 1 => Tail(s) # << >>
           /\ Tail(s) # << >> => Last(Tail(s)) = Last(s)
  <1>1. Len(s) \in Nat \ {0} /\ DOMAIN s = 1 .. Len(s)
    BY EmptySeq
  <1> DEFINE t == Tail(s)
  <1>2. /\ t \in Seq(S) /\ Len(t) = Len(s) - 1
        /\ \A i \in 1 .. Len(t) : t[i] = s[i + 1]
    BY HeadTailProperties
  <1> HIDE DEF t
  <1>3. DOMAIN t = 1 .. Len(t) /\ (t = << >> <=> Len(t) = 0)
    BY <1>2, EmptySeq
  <1>4. \A i \in DOMAIN t : i \in Nat /\ i + 1 \in DOMAIN s /\ t[i] = s[i + 1]
    BY <1>1, <1>2, <1>3
  <1>5. t # << >> => Last(t) = Last(s)
    BY <1>1, <1>2, <1>3, <1>4 DEF Last
  <1>6. (Len(s) = 1 => t = << >>) /\ (Len(s) # 1 => t # << >>)
    BY <1>1, <1>2, <1>3
  <1>7. QED
    BY <1>1, <1>2, <1>4, <1>5, <1>6 DEF t

LEMMA HandlerNotSilent ==
    ASSUME StreamInv, NEW r \in Requests, Handler(r)
    PROVE  NeverClosedSilently'
  <1>0. ServerTypeOK /\ GuardKnows /\ NeverClosedSilently
    BY DEF StreamInv
  <1>1. KeepsOthers(r)
    BY <1>0, HandlerFrame
  <1> DEFINE Serving == {"announce", "budget", "routing", "score", "admit", "placed", "reading"}
  <1>2. SUFFICES ASSUME handler'[r].pc \in Serving
                 PROVE  r \in clients' \/ (channel'[r] # << >> /\ IsTerminal(Last(channel'[r])))
    BY <1>0, <1>1 DEF NeverClosedSilently, KeepsOthers
  <1>3. ReceiverOpen(r)'
    BY <1>2 DEF ReceiverOpen
  <1>4. CASE Register(r)
    BY <1>4 DEF Register
  <1>5. CASE /\ Kept(r)
             /\ handler'[r].pc # "cancel" => handler[r].pc \notin {"idle", "cancel", "refused"}
    <2>1. handler[r].pc \notin {"idle", "cancel", "refused", "gone"}
      BY <1>0, <1>2, <1>3, <1>5, HandlerReads DEF ReceiverOpen
    <2>2. handler[r].pc \in Serving
      BY <1>0, <2>1 DEF ServerTypeOK, HandlerState, CancelState
    <2>3. QED
      BY <1>0, <1>5, <2>2 DEF NeverClosedSilently, Kept
  <1>6. CASE TakesHead(r, "token") /\ got'[r] = got[r] + 1 /\ handler[r].pc = "reading"
    <2>1. CASE r \in clients
      BY <1>6, <2>1 DEF TakesHead
    <2>2. CASE channel[r] # << >> /\ IsTerminal(Last(channel[r]))
      <3>1. channel[r] \in Seq(Event) /\ channel[r][1].kind = "token"
        BY <1>0, <1>6 DEF ServerTypeOK, TakesHead
      <3>2. Len(channel[r]) # 1
        BY <2>2, <3>1 DEF IsTerminal, Last
      <3>3. /\ Tail(channel[r]) # << >>
            /\ Last(Tail(channel[r])) = Last(channel[r])
        BY <2>2, <3>1, <3>2, TailFacts
      <3>4. QED
        BY <1>6, <2>2, <3>3 DEF TakesHead
    <2>3. QED
      BY <1>0, <1>6, <2>1, <2>2 DEF NeverClosedSilently
  <1>7. QED
    BY <1>0, <1>2, <1>3, <1>4, <1>5, <1>6, HandlerReads

LEMMA DriverNotSilent ==
    ASSUME StreamInv, NEW w \in Workers, Driver(w)
    PROVE  NeverClosedSilently'
  <1>0. ServerTypeOK /\ NeverClosedSilently
    BY DEF StreamInv
  <1>1. KeepsRequests(w)
    BY <1>0, DriverFrame
  <1> DEFINE Serving == {"announce", "budget", "routing", "score", "admit", "placed", "reading"}
  <1>2. SUFFICES ASSUME NEW r \in Requests, handler[r].pc \in Serving
                 PROVE  r \in clients' \/ (channel'[r] # << >> /\ IsTerminal(Last(channel'[r])))
    BY <1>1 DEF NeverClosedSilently, KeepsRequests
  <1>3. ReceiverOpen(r)
    BY <1>2 DEF ReceiverOpen
  <1>4. r \in clients \/ (channel[r] # << >> /\ IsTerminal(Last(channel[r])))
    BY <1>0, <1>2 DEF NeverClosedSilently
  <1>5. channel[r] \in Seq(Event) /\ channel'[r] \in Seq(Event)
    BY <1>0, DriverType DEF ServerTypeOK
  <1>6. CASE Deliver(w)
    <2>1. CASE r \in clients /\ r \in driver[w].completed
      <3>1. SaysOf(w, r)
        BY <1>0, <1>3, <1>6, <2>1, DeliverSays
      <3> DEFINE m == Len(channel[r]) + One(r \in driver[w].generated)
      <3>2. m \in Nat
        <4>1. One(r \in driver[w].generated) \in {0, 1}
          BY DEF One
        <4>2. QED
          BY <1>5, <4>1
      <3>3. Len(channel'[r]) = m + 1 /\ channel'[r][m + 1].kind = "done"
        BY <2>1, <3>1 DEF SaysOf, One
      <3> HIDE DEF m
      <3>4. channel'[r] # << >> /\ Last(channel'[r]).kind = "done"
        BY <1>5, <3>2, <3>3 DEF Last
      <3>5. QED
        BY <3>4 DEF IsTerminal
    <2>2. CASE r \in clients /\ r \notin driver[w].completed
      BY <1>0, <1>3, <1>6, <2>2, DeliverSays DEF SaysOf
    <2>3. CASE r \notin clients
      BY <1>0, <1>4, <1>6, <2>3, DeliverSays
    <2>4. QED
      BY <2>1, <2>2, <2>3
  <1>7. CASE DrainClients(w)
    <2>1. CASE r \in clients
      <3>1. Len(channel'[r]) = Len(channel[r]) + 1 /\ channel'[r][Len(channel[r]) + 1].kind = "error"
        BY <1>0, <1>3, <1>7, <2>1, DrainSays
      <3>2. QED
        BY <1>5, <3>1 DEF Last, IsTerminal
    <2>2. CASE r \notin clients
      BY <1>0, <1>4, <1>7, <2>2, DrainSays
    <2>3. QED
      BY <2>1, <2>2
  <1>8. CASE ~Deliver(w) /\ ~DrainClients(w)
    <2>1. channel' = channel /\ clients' = clients
      BY <1>8, OtherwiseSilent DEF Driver
    <2>2. QED
      BY <1>4, <2>1
  <1>9. QED
    BY <1>6, <1>7, <1>8

-----------------------------------------------------------------------------
(* The stream is what the device made *)

LEMMA HandlerFaithful ==
    ASSUME StreamInv, NEW r \in Requests, Handler(r)
    PROVE  StreamFaithful'
  <1>0. ServerTypeOK /\ GuardKnows /\ StreamFaithful /\ ClientsFresh /\ HandsExact
    BY DEF StreamInv
  <1>1. KeepsOthers(r)
    BY <1>0, HandlerFrame
  <1>2. \A q : InHand(q)' <=> InHand(q)
    BY <1>1 DEF KeepsOthers, InHand
  <1>3. ASSUME NEW q \in Requests \ {r}, ReceiverOpen(q)'
        PROVE  Faithful(q)'
    <2>1. Faithful(q)
      BY <1>0, <1>1, <1>3 DEF KeepsOthers, StreamFaithful, ReceiverOpen
    <2>2. QED
      BY <1>1, <1>2, <2>1 DEF KeepsOthers, Faithful
  <1>4. ASSUME ReceiverOpen(r)'
        PROVE  Faithful(r)'
    <2>0. Faithful(r) /\ ReceiverOpen(r)
      BY <1>0, <1>4, HandlerReads DEF StreamFaithful
    <2>1. made' = made /\ made[r] \in Nat /\ got[r] \in Nat
      BY <1>0, <1>1 DEF KeepsOthers, ServerTypeOK
    <2>2. channel[r] \in Seq(Event)
      BY <1>0 DEF ServerTypeOK
    <2>3. CASE Register(r)
      <3>1. channel[r] = << >> /\ made[r] = 0 /\ got[r] = 0 /\ ~Submitted(r)
        BY <1>0, <2>3 DEF Register, ClientsFresh, Submitted
      <3>2. ~InHand(r)
        BY <1>0, <3>1 DEF InHand, HandsExact, Hand
      <3>3. channel'[r] = << >> /\ got'[r] = 0
        BY <2>3, <3>1 DEF Register
      <3>4. QED
        BY <1>2, <2>1, <3>1, <3>2, <3>3 DEF Faithful
    <2>4. CASE Kept(r)
      BY <1>2, <2>0, <2>1, <2>4 DEF Faithful, Kept
    <2>5. CASE TakesHead(r, "token") /\ got'[r] = got[r] + 1
      <3>1. /\ channel'[r] \in Seq(Event) /\ Len(channel'[r]) = Len(channel[r]) - 1
            /\ Len(channel[r]) \in Nat \ {0}
            /\ \A i \in DOMAIN channel'[r] :
                   i \in Nat /\ i + 1 \in DOMAIN channel[r] /\ channel'[r][i] = channel[r][i + 1]
        BY <2>2, <2>5, TailFacts DEF TakesHead
      <3>2. ASSUME NEW i \in DOMAIN channel'[r]
            PROVE  IF IsTerminal(channel'[r][i]) THEN i = Len(channel'[r])
                   ELSE channel'[r][i].n = got'[r] + i
        <4>1. IF IsTerminal(channel[r][i + 1]) THEN i + 1 = Len(channel[r])
              ELSE channel[r][i + 1].n = got[r] + (i + 1)
          BY <2>0, <3>1 DEF Faithful
        <4>2. channel'[r][i] = channel[r][i + 1] /\ i \in Nat
          BY <3>1
        <4>3. i + 1 = Len(channel[r]) => i = Len(channel'[r])
          BY <3>1, <4>2
        <4>4. got[r] + (i + 1) = got'[r] + i
          BY <2>1, <2>5, <4>2
        <4>5. CASE IsTerminal(channel[r][i + 1])
          BY <4>1, <4>2, <4>3, <4>5
        <4>6. CASE ~IsTerminal(channel[r][i + 1])
          BY <4>1, <4>2, <4>4, <4>6
        <4>7. QED
          BY <4>5, <4>6
      <3>3. r \in clients' => got'[r] + Len(channel'[r]) + (IF InHand(r)' THEN 1 ELSE 0) = made'[r]
        BY <1>2, <2>0, <2>1, <2>5, <3>1 DEF Faithful, TakesHead
      <3>4. channel'[r] # << >> /\ Last(channel'[r]).kind = "done" =>
                got'[r] + Len(channel'[r]) - 1 = made'[r]
        <4>1. SUFFICES ASSUME channel'[r] # << >>, Last(channel'[r]).kind = "done"
                       PROVE  got'[r] + Len(channel'[r]) - 1 = made'[r]
          OBVIOUS
        <4>2. Last(channel'[r]) = Last(channel[r])
          BY <2>2, <2>5, <4>1, TailFacts DEF TakesHead
        <4>3. got[r] + Len(channel[r]) - 1 = made[r]
          BY <2>0, <2>5, <4>1, <4>2 DEF Faithful, TakesHead
        <4>4. /\ Len(channel'[r]) = Len(channel[r]) - 1 /\ Len(channel[r]) \in Nat
              /\ got'[r] = got[r] + 1 /\ got[r] \in Nat /\ made'[r] = made[r]
          BY <2>1, <2>5, <3>1
        <4>5. QED
          BY <4>3, <4>4
      <3>5. QED
        BY <3>2, <3>3, <3>4 DEF Faithful
    <2>6. CASE TakesHead(r, "error")
      <3>1. channel[r] # << >> /\ channel[r][1].kind = "error" /\ 1 \in DOMAIN channel[r]
        BY <2>2, <2>6 DEF TakesHead
      <3>2. Len(channel[r]) = 1 /\ r \notin clients
        BY <1>0, <2>0, <3>1 DEF Faithful, IsTerminal, ClientsFresh
      <3>3. channel'[r] = << >> /\ r \notin clients'
        BY <2>2, <2>6, <3>2, TailFacts DEF TakesHead
      <3>4. QED
        BY <3>3 DEF Faithful
    <2>7. QED
      BY <1>0, <1>4, <2>3, <2>4, <2>5, <2>6, HandlerReads
  <1>5. QED
    BY <1>3, <1>4 DEF StreamFaithful

\* A driver's steps other than its device step and its fan-out.
LEMMA InHandKept ==
    ASSUME ServerTypeOK, NEW w \in Workers, NEW r \in Requests,
           \/ FindClients(w) \/ BeginStep(w) \/ StepFails(w) \/ StandAside(w)
           \/ DriverCancels(w)
    PROVE  InHand(r)' <=> InHand(r)
  <1>0. Driver(w)
    BY DEF Driver
  <1>1. \A v \in Workers \ {w} : driver'[v] = driver[v]
    BY <1>0, DriverFrame DEF KeepsRequests
  <1>2. CASE driver[w].pc = "folded"
    <2>1. StandAside(w)
      BY <1>2 DEF FindClients, BeginStep, StepFails, DriverCancels
    <2>2. driver'[w] = [driver[w] EXCEPT !.pc = "aside", !.sleeps = driver[w].sleeps \/ waiters > 0]
      BY <2>1 DEF StandAside, ServerTypeOK
    <2>3. driver'[w].pc = "aside" /\ driver'[w].generated = driver[w].generated
      BY <1>2, <2>2, FoldedType
    <2>4. QED
      BY <1>1, <1>2, <2>3 DEF InHand
  <1>3. CASE driver[w].pc # "folded"
    <2>1. driver[w].pc # "aside"
      BY <1>3 DEF FindClients, BeginStep, StepFails, DriverCancels, StandAside
    <2>2. Hand(w)' = {} /\ driver'[w].pc \notin {"folded", "aside"}
      <3>1. CASE DriverCancels(w)
        <4>1. driver[w] \in [pc : {"cancel"}, of : CancelState, drop : SUBSET Requests]
          BY <3>1 DEF DriverCancels, ServerTypeOK, DriverState
        <4>2. driver'[w].pc \in {"check", "cancel"}
          <5>1. CASE CancelDone(CancelStep(driver[w].of))
            BY <3>1, <5>1 DEF DriverCancels, CancelsNext, At, ServerTypeOK
          <5>2. CASE ~CancelDone(CancelStep(driver[w].of))
            <6>1. driver'[w] = [driver[w] EXCEPT !.of = CancelStep(driver[w].of)]
              BY <3>1, <5>2 DEF DriverCancels, ServerTypeOK
            <6>2. QED
              BY <4>1, <6>1
          <5>3. QED
            BY <5>1, <5>2
        <4>3. QED
          BY <4>2 DEF Hand
      <3>2. CASE FindClients(w) \/ BeginStep(w) \/ StepFails(w)
        BY <3>2 DEF FindClients, BeginStep, StepFails, At, ServerTypeOK, Hand
      <3>3. QED
        BY <1>3, <3>1, <3>2 DEF StandAside
    <2>3. QED
      BY <1>1, <1>3, <2>1, <2>2 DEF InHand
  <1>4. QED
    BY <1>2, <1>3

\* Folding a step counts its tokens and puts them in the driver's hand.
LEMMA StepFaithful ==
    ASSUME StreamInv, NEW w \in Workers, Driver(w), NEW outcome, StepSucceeds(w, outcome),
           NEW r \in Requests, Faithful(r)
    PROVE  Faithful(r)'
  <1>0. ServerTypeOK /\ DoneIsFinal
    BY DEF StreamInv
  <1>1. channel' = channel /\ clients' = clients /\ got' = got
    BY DEF StepSucceeds
  <1>2. made[r] \in Nat /\ got[r] \in Nat /\ channel[r] \in Seq(Event) /\ Len(channel[r]) \in Nat
    BY <1>0 DEF ServerTypeOK
  <1>3. \A v \in Workers \ {w} : driver'[v] = driver[v]
    BY <1>0, DriverFrame DEF KeepsRequests
  <1>4. driver[w].pc = "step"
    BY DEF StepSucceeds
  <1>5. CASE r \in driver'[w].generated
    <2>1. r \in On(w) /\ made'[r] = made[r] + 1 /\ driver'[w].pc = "folded"
      BY <1>5, StepTakesHold
    <2>2. ~InHand(r)
      BY <2>1, StepTakesHold DEF InHand, Hand
    <2>3. InHand(r)'
      BY <1>5, <2>1 DEF InHand
    <2>4. ~(channel[r] # << >> /\ Last(channel[r]).kind = "done")
      <3>1. r \in DOMAIN live
        BY <2>1 DEF On
      <3>2. channel[r] # << >> => Len(channel[r]) \in DOMAIN channel[r]
        BY <1>2
      <3>3. QED
        BY <1>0, <3>1, <3>2 DEF DoneIsFinal, Last
    <2>5. r \in clients => got[r] + Len(channel[r]) + 1 = made[r] + 1
      BY <1>2, <2>2 DEF Faithful
    <2>6. QED
      BY <1>1, <2>1, <2>3, <2>4, <2>5 DEF Faithful
  <1>6. CASE r \notin driver'[w].generated
    <2>1. made'[r] = made[r]
      <3>1. made'[r] = made[r] + 0
        BY <1>6, StepTakesHold
      <3>2. QED
        BY <1>2, <3>1
    <2>2. InHand(r)' <=> InHand(r)
      BY <1>3, <1>4, <1>6 DEF InHand
    <2>3. QED
      BY <1>1, <2>1, <2>2 DEF Faithful
  <1>7. QED
    BY <1>5, <1>6

\* The fan-out puts the token the driver holds after all the others, and the end
\* after it.
LEMMA DeliverFaithful ==
    ASSUME StreamInv, NEW w \in Workers, Driver(w), Deliver(w), NEW r \in Requests,
           ReceiverOpen(r), Faithful(r)
    PROVE  Faithful(r)'
  <1>0. ServerTypeOK /\ HandsExact /\ ClientsFresh
    BY DEF StreamInv
  <1>1. /\ got' = got /\ made' = made
        /\ \A v \in Workers \ {w} : driver'[v] = driver[v]
        /\ clients' \subseteq clients
    BY <1>0, DriverFrame DEF KeepsRequests, Deliver
  <1>2. made[r] \in Nat /\ got[r] \in Nat /\ channel[r] \in Seq(Event) /\ channel'[r] \in Seq(Event)
    BY <1>0, DriverType DEF ServerTypeOK
  <1>3. driver[w].pc = "aside"
    BY DEF Deliver
  <1>4. CASE r \notin clients
    <2>1. channel'[r] = channel[r] /\ r \notin clients'
      BY <1>0, <1>1, <1>4, DeliverSays
    <2>2. QED
      BY <1>1, <2>1 DEF Faithful
  <1>5. CASE r \in clients
    <2> DEFINE n == Len(channel[r])
               g == One(r \in driver[w].generated)
               c == One(r \in driver[w].completed)
    <2>1. SaysOf(w, r)
      BY <1>0, <1>5, DeliverSays
    <2>2. n \in Nat /\ (g = 1 \/ g = 0) /\ (c = 1 \/ c = 0)
      BY <1>2 DEF One
    <2>3. (g = 1 <=> r \in driver[w].generated) /\ (c = 1 <=> r \in driver[w].completed)
      BY DEF One
    <2>4. /\ Len(channel'[r]) = n + g + c
          /\ \A i \in 1 .. n : channel'[r][i] = channel[r][i]
          /\ g = 1 => channel'[r][n + 1] = Token(made[r])
          /\ c = 1 => channel'[r][n + g + 1].kind = "done"
          /\ r \in clients' <=> c = 0
      BY <2>1, <2>2, <2>3 DEF SaysOf
    <2>5. \A i \in 1 .. n : channel[r][i].kind = "token" /\ channel[r][i].n = got[r] + i
      BY <1>0, <1>2, <1>5 DEF ClientsFresh, Faithful, IsTerminal
    <2>6. Hand(w)' = {} /\ driver'[w].pc \notin {"folded", "aside"}
      BY <1>0 DEF Deliver, CancelsNext, At, Hand, ServerTypeOK
    <2>7. g = 1 => InHand(r) /\ ~InHand(r)'
      <3>1. SUFFICES ASSUME r \in driver[w].generated
                     PROVE  InHand(r) /\ ~InHand(r)'
        BY <2>3
      <3>2. InHand(r) /\ r \in Hand(w)
        BY <1>3, <3>1 DEF InHand, Hand
      <3>3. \A v \in Workers : r \in Hand(v) => v = w
        BY <1>0, <3>2 DEF HandsExact
      <3>4. QED
        BY <1>1, <2>6, <3>2, <3>3 DEF InHand, Hand
    <2>8. g = 0 /\ c = 1 => ~InHand(r)
      <3>1. SUFFICES ASSUME r \in driver[w].completed, r \notin driver[w].generated
                     PROVE  ~InHand(r)
        BY <2>2, <2>3
      <3>2. r \in Hand(w)
        BY <1>3, <3>1 DEF Hand
      <3>3. \A v \in Workers : r \in Hand(v) => v = w
        BY <1>0, <3>2 DEF HandsExact
      <3>4. QED
        BY <3>1, <3>3 DEF InHand, Hand
    <2>9. g = 0 => (InHand(r)' <=> InHand(r))
      BY <1>1, <2>3, <2>6 DEF InHand
    <2>10. got[r] + n + One(InHand(r)) = made[r]
      BY <1>5 DEF Faithful, One
    <2>11. g = 1 => made[r] = got[r] + n + 1
      BY <2>7, <2>10 DEF One
    <2>12. c = 1 => made[r] = got[r] + n + g
      BY <1>2, <2>2, <2>7, <2>8, <2>10 DEF One
    <2> HIDE DEF n, g, c
    <2>13. ASSUME NEW i \in DOMAIN channel'[r]
           PROVE  IF IsTerminal(channel'[r][i]) THEN i = Len(channel'[r])
                  ELSE channel'[r][i].n = got'[r] + i
      <3>1. i \in Nat /\ 1 <= i /\ i <= n + g + c
        BY <1>2, <2>4
      <3>2. CASE i <= n
        <4>1. channel'[r][i].kind = "token" /\ channel'[r][i].n = got[r] + i
          BY <2>2, <2>4, <2>5, <3>1, <3>2
        <4>2. QED
          BY <1>1, <4>1 DEF IsTerminal
      <3>3. CASE g = 1 /\ i = n + 1
        <4>1. channel'[r][i].kind = "token" /\ channel'[r][i].n = made[r]
          BY <2>4, <3>3 DEF Token
        <4>2. made[r] = got[r] + i
          BY <1>2, <2>2, <2>11, <3>3
        <4>3. QED
          BY <1>1, <4>1, <4>2 DEF IsTerminal
      <3>4. CASE c = 1 /\ i = n + g + 1
        <4>1. IsTerminal(channel'[r][i])
          BY <2>4, <3>4 DEF IsTerminal
        <4>2. i = Len(channel'[r])
          BY <2>4, <3>4
        <4>3. QED
          BY <4>1, <4>2
      <3>5. i <= n \/ (g = 1 /\ i = n + 1) \/ (c = 1 /\ i = n + g + 1)
        BY <2>2, <3>1
      <3>6. QED
        BY <3>2, <3>3, <3>4, <3>5
    <2>14. r \in clients' => got'[r] + Len(channel'[r]) + (IF InHand(r)' THEN 1 ELSE 0) = made'[r]
      <3>1. SUFFICES ASSUME c = 0
                     PROVE  got[r] + (n + g) + One(InHand(r)') = made[r]
        BY <1>1, <2>2, <2>4 DEF One
      <3>2. CASE g = 1
        <4>1. One(InHand(r)') = 0
          BY <2>7, <3>2 DEF One
        <4>2. QED
          BY <1>2, <2>2, <2>11, <3>2, <4>1
      <3>3. CASE g = 0
        <4>1. One(InHand(r)') = One(InHand(r))
          BY <2>9, <3>3 DEF One
        <4>2. n + g = n
          BY <2>2, <3>3
        <4>3. QED
          BY <2>10, <4>1, <4>2
      <3>4. QED
        BY <2>2, <3>2, <3>3
    <2>15. channel'[r] # << >> /\ Last(channel'[r]).kind = "done" =>
               got'[r] + Len(channel'[r]) - 1 = made'[r]
      <3>1. SUFFICES ASSUME channel'[r] # << >>, channel'[r][n + g + c].kind = "done"
                     PROVE  got[r] + (n + g + c) - 1 = made[r]
        BY <1>1, <2>4 DEF Last
      <3>2. c = 1
        <4>1. SUFFICES ASSUME c = 0 PROVE FALSE
          BY <2>2
        <4>2. n + g + c \in 1 .. n \/ (g = 1 /\ n + g + c = n + 1)
          BY <1>2, <2>2, <2>4, <3>1, <4>1, EmptySeq
        <4>3. CASE n + g + c \in 1 .. n
          BY <2>4, <2>5, <3>1, <4>3
        <4>4. CASE g = 1 /\ n + g + c = n + 1
          BY <2>4, <3>1, <4>4 DEF Token
        <4>5. QED
          BY <4>2, <4>3, <4>4
      <3>3. QED
        BY <1>2, <2>2, <2>12, <3>2
    <2>16. QED
      BY <2>13, <2>14, <2>15 DEF Faithful
  <1>6. QED
    BY <1>4, <1>5

\* An error is the last thing a client hears.
LEMMA DrainFaithful ==
    ASSUME StreamInv, NEW w \in Workers, Driver(w), DrainClients(w), NEW r \in Requests,
           ReceiverOpen(r), Faithful(r)
    PROVE  Faithful(r)'
  <1>0. ServerTypeOK /\ ClientsFresh
    BY DEF StreamInv
  <1>1. got' = got /\ made' = made /\ clients' = {}
    BY DEF DrainClients
  <1>2. channel[r] \in Seq(Event) /\ channel'[r] \in Seq(Event) /\ Len(channel[r]) \in Nat
    BY <1>0, DriverType DEF ServerTypeOK
  <1>3. CASE r \notin clients
    <2>1. channel'[r] = channel[r]
      BY <1>0, <1>3, DrainSays
    <2>2. QED
      BY <1>1, <2>1 DEF Faithful
  <1>4. CASE r \in clients
    <2>1. /\ Len(channel'[r]) = Len(channel[r]) + 1
          /\ \A i \in 1 .. Len(channel[r]) : channel'[r][i] = channel[r][i]
          /\ channel'[r][Len(channel[r]) + 1].kind = "error"
      BY <1>0, <1>4, DrainSays
    <2>2. \A i \in 1 .. Len(channel[r]) : channel[r][i].kind = "token" /\ channel[r][i].n = got[r] + i
      BY <1>0, <1>2, <1>4 DEF ClientsFresh, Faithful, IsTerminal
    <2>3. ASSUME NEW i \in DOMAIN channel'[r]
          PROVE  IF IsTerminal(channel'[r][i]) THEN i = Len(channel'[r])
                 ELSE channel'[r][i].n = got'[r] + i
      <3>1. i \in 1 .. Len(channel[r]) \/ i = Len(channel[r]) + 1
        BY <1>2, <2>1
      <3>2. CASE i \in 1 .. Len(channel[r])
        BY <1>1, <2>1, <2>2, <3>2 DEF IsTerminal
      <3>3. CASE i = Len(channel[r]) + 1
        BY <2>1, <3>3 DEF IsTerminal
      <3>4. QED
        BY <3>1, <3>2, <3>3
    <2>4. Last(channel'[r]).kind # "done"
      BY <2>1 DEF Last
    <2>5. QED
      BY <1>1, <2>3, <2>4 DEF Faithful
  <1>5. QED
    BY <1>3, <1>4

LEMMA DriverFaithful ==
    ASSUME StreamInv, NEW w \in Workers, Driver(w)
    PROVE  StreamFaithful'
  <1>0. ServerTypeOK /\ StreamFaithful
    BY DEF StreamInv
  <1>1. KeepsRequests(w)
    BY <1>0, DriverFrame
  <1>2. SUFFICES ASSUME NEW r \in Requests, ReceiverOpen(r)
                 PROVE  Faithful(r)'
    BY <1>1 DEF StreamFaithful, ReceiverOpen, KeepsRequests
  <1>3. Faithful(r)
    BY <1>0, <1>2 DEF StreamFaithful
  <1>4. CASE Deliver(w)
    BY <1>2, <1>3, <1>4, DeliverFaithful
  <1>5. CASE DrainClients(w)
    BY <1>2, <1>3, <1>5, DrainFaithful
  <1>6. CASE \E outcome : StepSucceeds(w, outcome)
    BY <1>3, <1>6, StepFaithful
  <1>7. CASE \/ FindClients(w) \/ BeginStep(w) \/ StepFails(w) \/ StandAside(w)
             \/ DriverCancels(w)
    <2>1. channel' = channel /\ clients' = clients /\ got' = got /\ made' = made
      BY <1>7 DEF FindClients, BeginStep, StepFails, StandAside, DriverCancels
    <2>2. InHand(r)' <=> InHand(r)
      BY <1>0, <1>7, InHandKept
    <2>3. QED
      BY <1>3, <2>1, <2>2 DEF Faithful
  <1>8. QED
    BY <1>4, <1>5, <1>6, <1>7 DEF Driver

-----------------------------------------------------------------------------
(* Every reachable state *)

LEMMA InitStreamInv == ServerInit => StreamInv
  <1> SUFFICES ASSUME ServerInit PROVE StreamInv
    OBVIOUS
  <1> USE DEF ServerInit, Idle, At
  <1>1. ServerTypeOK
    <2>1. channel \in [Requests -> Seq(Event)]
      BY << >> \in Seq(Event)
    <2>2. handler \in [Requests -> HandlerState] /\ driver \in [Workers -> DriverState]
      BY DEF HandlerState, DriverState
    <2>3. QED
      BY <2>1, <2>2 DEF ServerTypeOK
  <1>2. GuardKnows /\ NoZombie /\ NeverClosedSilently
    BY DEF GuardKnows, NoZombie, NeverClosedSilently
  <1>3. \A w \in Workers : Hand(w) = {}
    BY DEF Hand
  <1>4. HandsExact
    BY <1>3 DEF HandsExact
  <1>5. DoneIsFinal /\ ClientsFresh
    BY DEF DoneIsFinal, ClientsFresh
  <1>6. StreamFaithful
    BY DEF StreamFaithful, Faithful
  <1>7. QED
    BY <1>1, <1>2, <1>4, <1>5, <1>6 DEF StreamInv

LEMMA NextStreamInv == StreamInv /\ [ServerNext]_serverVars => StreamInv'
  <1> SUFFICES ASSUME StreamInv, [ServerNext]_serverVars PROVE StreamInv'
    OBVIOUS
  <1>0. ServerTypeOK
    BY DEF StreamInv
  <1>1. ASSUME NEW r \in Requests, Handler(r) PROVE StreamInv'
    BY <1>0, <1>1, HandlerType, HandlerGuard, HandlerHands, HandlerFresh, HandlerNotSilent,
       HandlerFaithful DEF StreamInv
  <1>2. ASSUME NEW w \in Workers, Driver(w) PROVE StreamInv'
    BY <1>0, <1>2, DriverType, DriverGuard, DriverHands, DriverFresh, DriverNotSilent,
       DriverFaithful DEF StreamInv
  <1>3. CASE UNCHANGED serverVars
    <2> USE <1>3 DEF serverVars
    <2>1. ServerTypeOK' /\ GuardKnows' /\ NoZombie' /\ NeverClosedSilently'
      BY DEF StreamInv, ServerTypeOK, GuardKnows, NoZombie, NeverClosedSilently
    <2>2. \A w : Hand(w)' = Hand(w)
      BY DEF Hand
    <2>3. \A r : (Submitted(r)' <=> Submitted(r)) /\ (InHand(r)' <=> InHand(r))
      BY DEF Submitted, InHand
    <2>4. HandsExact' /\ DoneIsFinal' /\ ClientsFresh'
      BY <2>2, <2>3 DEF StreamInv, HandsExact, DoneIsFinal, ClientsFresh
    <2>5. StreamFaithful'
      BY <2>3 DEF StreamInv, StreamFaithful, Faithful, ReceiverOpen
    <2>6. QED
      BY <2>1, <2>4, <2>5 DEF StreamInv
  <1>4. QED
    BY <1>1, <1>2, <1>3 DEF ServerNext

\* StreamInv holds in every reachable state of the server.
THEOREM StreamInvariant == ServerSpec => []StreamInv
  <1>1. QED
    BY InitStreamInv, NextStreamInv, PTL DEF ServerSpec

\* Whatever the handlers and the drivers do in whatever order, the tokens a reader
\* has, those in its channel and the one its driver holds are what the device made,
\* once each and in order, nothing follows a terminal event, and Done follows all of
\* them (worker_loop's fan-out, Generation::start).
THEOREM StreamsAreFaithful == ServerSpec => []StreamFaithful
  <1>1. StreamInv => StreamFaithful
    BY DEF StreamInv
  <1>2. QED
    BY <1>1, StreamInvariant, PTL

\* A reader always has its sender in the map or a terminal event in its channel
\* (raw_next's "closed the request without a completion status" is unreachable).
THEOREM NoReaderLeftSilent == ServerSpec => []NeverClosedSilently
  <1>1. StreamInv => NeverClosedSilently
    BY DEF StreamInv
  <1>2. QED
    BY <1>1, StreamInvariant, PTL

\* Whatever is on a worker has a guard that is armed or whose search has not passed
\* the worker (RequestGuard against the drain of a failed step).
THEOREM NoRequestIsLeaked == ServerSpec => []NoZombie
  <1>1. StreamInv => NoZombie
    BY DEF StreamInv
  <1>2. QED
    BY <1>1, StreamInvariant, PTL

-----------------------------------------------------------------------------
(* Nobody waits for a lock behind one step after another *)

\* What a handler does to the waiters and to its own count of steps.
Announces(r) == r \notin Submitting /\ Submitting' = Submitting \cup {r} /\ waiters' = waiters + 1
Withdraws(r) == r \in Submitting /\ Submitting' = Submitting \ {r} /\ waiters' = waiters - 1

LEMMA HandlerWaits ==
    ASSUME ServerTypeOK, OvertakenInv, NEW r \in Requests, Handler(r)
    PROVE  /\ overtaken'[r] = 0
           /\ \A q \in Requests \ {r} : overtaken'[q] = overtaken[q]
           /\ \/ Announces(r) \/ Withdraws(r)
              \/ Submitting' = Submitting /\ waiters' = waiters
  <1>0. ASSUME handler[r].pc \notin {"budget", "score", "admit"} PROVE overtaken[r] = 0
    BY <1>0 DEF OvertakenInv, WaitsFor
  <1> USE DEF ServerTypeOK, Submitting, At, Announces, Withdraws
  <1>1. CASE Register(r)
    BY <1>0, <1>1 DEF Register
  <1>2. CASE Announce(r)
    BY <1>0, <1>2 DEF Announce
  <1>3. CASE ReadBudget(r)
    BY <1>3 DEF ReadBudget, TakesLock
  <1>4. CASE TakeRoutingLock(r)
    BY <1>0, <1>4 DEF TakeRoutingLock
  <1>5. CASE PlacementFails(r)
    BY <1>5 DEF PlacementFails, TakesLock
  <1>6. CASE RemoveRefused(r)
    BY <1>0, <1>6 DEF RemoveRefused
  <1>7. CASE Admit(r)
    BY <1>7 DEF Admit, TakesLock
  <1>8. CASE Placed(r)
    BY <1>0, <1>8 DEF Placed
  <1>9. CASE \E w \in Workers : ScoreWorker(r, w)
    BY <1>9 DEF ScoreWorker, TakesLock
  <1>10. CASE \E stops \in BOOLEAN : ReadToken(r, stops)
    BY <1>0, <1>10 DEF ReadToken, Cancelling
  <1>11. CASE ReadDone(r)
    BY <1>0, <1>11 DEF ReadDone
  <1>12. CASE ReadError(r)
    BY <1>0, <1>12 DEF ReadError, Cancelling
  <1>13. CASE HangUp(r)
    BY <1>0, <1>13 DEF HangUp, Cancelling
  <1>14. CASE GuardCancels(r)
    <2>1. handler[r] \in CancelState
      BY <1>14 DEF GuardCancels, HandlerState
    <2>2. CancelStep(handler[r]).pc = "cancel"
      BY <2>1 DEF CancelStep, CancelState
    <2>3. handler'[r].pc \in {"cancel", "gone"} /\ \A q \in Requests \ {r} : handler'[q] = handler[q]
      BY <1>14, <2>2 DEF GuardCancels
    <2>4. handler[r].pc = "cancel" /\ waiters' = waiters /\ overtaken' = overtaken
      BY <1>14 DEF GuardCancels
    <2>5. QED
      BY <1>0, <2>3, <2>4
  <1>15. QED
    BY <1>1, <1>2, <1>3, <1>4, <1>5, <1>6, <1>7, <1>8, <1>9, <1>10, <1>11, <1>12,
       <1>13, <1>14 DEF Handler

LEMMA HandlerOvertaken ==
    ASSUME ServerTypeOK, GuardKnows, OvertakenInv, NEW r \in Requests, Handler(r)
    PROVE  OvertakenInv'
  <1>1. KeepsOthers(r)
    BY HandlerFrame
  <1>2. WaitersCounted'
    <2>1. IsFiniteSet(Submitting) /\ waiters = Cardinality(Submitting) /\ waiters \in Nat
      BY FS_CardinalityType DEF OvertakenInv, WaitersCounted
    <2>2. CASE Announces(r)
      BY <2>1, <2>2, FS_AddElement DEF Announces, WaitersCounted
    <2>3. CASE Withdraws(r)
      BY <2>1, <2>3, FS_RemoveElement DEF Withdraws, WaitersCounted
    <2>4. CASE Submitting' = Submitting /\ waiters' = waiters
      BY <2>1, <2>4 DEF WaitersCounted
    <2>5. QED
      BY <2>2, <2>3, <2>4, HandlerWaits
  <1>3. \A w \in Workers : Overtaking(w)' = Overtaking(w) /\ Overtaking(w) \in Nat
    <2>1. \A w \in Workers : Ahead(w)' <=> Ahead(w)
      BY <1>1 DEF KeepsOthers, Ahead
    <2>2. QED
      BY <1>1, <2>1 DEF KeepsOthers, Overtaking, ServerTypeOK
  <1>4. \A q \in Requests \ {r} : /\ overtaken'[q] = overtaken[q]
                                  /\ \A w : WaitsFor(q, w)' <=> WaitsFor(q, w)
    BY <1>1, HandlerWaits DEF KeepsOthers, WaitsFor
  <1>5. overtaken'[r] = 0
    BY HandlerWaits
  <1>6. QED
    BY <1>2, <1>3, <1>4, <1>5 DEF OvertakenInv

LEMMA DriverOvertaken ==
    ASSUME ServerTypeOK, OvertakenInv, NEW w \in Workers, Driver(w)
    PROVE  OvertakenInv'
  <1>1. KeepsRequests(w)
    BY DriverFrame
  <1>2. WaitersCounted'
    BY <1>1 DEF KeepsRequests, OvertakenInv, WaitersCounted, Submitting
  <1>3. \A r, v : WaitsFor(r, v)' <=> WaitsFor(r, v)
    BY <1>1 DEF KeepsRequests, WaitsFor
  <1>4. faults \in Nat /\ overtaken \in [Requests -> Nat]
    BY DEF ServerTypeOK
  <1>40. \A v \in Workers \ {w} : Ahead(v)' <=> Ahead(v)
    BY <1>1 DEF KeepsRequests, Ahead
  <1>5. CASE BeginStep(w)
    <2>1. /\ driver[w].pc = "lock" /\ driver'[w].pc = "step" /\ faults' = faults
          /\ \A r \in Requests : overtaken'[r] = overtaken[r] + IF WaitsFor(r, w) THEN 1 ELSE 0
      BY <1>5 DEF BeginStep, ServerTypeOK, At
    <2>2. Overtaking(w) = faults /\ Overtaking(w)' = 1 + faults
      BY <2>1 DEF Overtaking, Ahead
    <2>3. \A v \in Workers \ {w} : Overtaking(v)' = Overtaking(v)
      BY <1>40, <2>1 DEF Overtaking
    <2>4. ASSUME NEW r \in Requests, WaitsFor(r, w)
          PROVE  overtaken'[r] <= Overtaking(w)'
      <3>1. overtaken[r] <= faults /\ overtaken[r] \in Nat
        BY <1>4, <2>2, <2>4 DEF OvertakenInv
      <3>2. overtaken'[r] = overtaken[r] + 1
        BY <2>1, <2>4
      <3>3. QED
        BY <1>4, <2>2, <3>1, <3>2
    <2>5. ASSUME NEW r \in Requests, ~WaitsFor(r, w)
          PROVE  overtaken'[r] = overtaken[r]
      BY <1>4, <2>1, <2>5
    <2>6. \A r, v : WaitsFor(r, w) /\ WaitsFor(r, v) => v = w
      BY DEF WaitsFor
    <2>7. ASSUME NEW r \in Requests
          PROVE  /\ (\A v \in Workers : ~WaitsFor(r, v)) => overtaken'[r] = 0
                 /\ \A v \in Workers : WaitsFor(r, v) => overtaken'[r] <= Overtaking(v)'
      <3>1. CASE WaitsFor(r, w)
        BY <2>4, <2>6, <3>1
      <3>2. CASE ~WaitsFor(r, w)
        BY <2>3, <2>5, <3>2 DEF OvertakenInv
      <3>3. QED
        BY <3>1, <3>2
    <2>8. QED
      BY <1>2, <1>3, <2>7 DEF OvertakenInv
  <1>6. CASE ~BeginStep(w)
    <2>1. overtaken' = overtaken /\ faults' \in {faults, faults + 1}
      <3>1. CASE \E outcome : StepSucceeds(w, outcome)
        BY <3>1 DEF StepSucceeds
      <3>2. CASE StepFails(w)
        BY <3>2 DEF StepFails
      <3>3. CASE FindClients(w) \/ StandAside(w) \/ Deliver(w) \/ DrainClients(w) \/ DriverCancels(w)
        BY <3>3 DEF FindClients, StandAside, Deliver, DrainClients, DriverCancels
      <3>4. QED
        BY <1>6, <3>1, <3>2, <3>3 DEF Driver
    <2>20. faults' \in Nat /\ faults <= faults'
      BY <1>4, <2>1
    <2>21. \A v : Overtaking(v) \in {faults, 1 + faults} /\ Overtaking(v)' \in {faults', 1 + faults'}
      BY DEF Overtaking
    <2>2. \A v \in Workers \ {w} : Overtaking(v) <= Overtaking(v)'
      <3> SUFFICES ASSUME NEW v \in Workers \ {w} PROVE Overtaking(v) <= Overtaking(v)'
        OBVIOUS
      <3>1. CASE Ahead(v)
        <4>1. Overtaking(v) = 1 + faults /\ Overtaking(v)' = 1 + faults'
          BY <1>40, <3>1 DEF Overtaking
        <4>2. 1 + faults <= 1 + faults'
          <5>1. \A a, b \in Nat : a <= b => 1 + a <= 1 + b
            OBVIOUS
          <5>2. QED
            BY <1>4, <2>20, <5>1
        <4>3. QED
          BY <4>1, <4>2, Zenon
      <3>2. CASE ~Ahead(v)
        <4>1. Overtaking(v) = faults /\ Overtaking(v)' = faults'
          BY <1>40, <3>2 DEF Overtaking
        <4>2. QED
          BY <2>20, <4>1
      <3>3. QED
        BY <3>1, <3>2
    <2>3. ASSUME NEW r \in Requests, WaitsFor(r, w)
          PROVE  overtaken[r] <= Overtaking(w)'
      <3>0. overtaken[r] <= Overtaking(w) /\ overtaken[r] \in Nat
        BY <1>4, <2>3 DEF OvertakenInv
      <3>1. faults <= Overtaking(w)'
        BY <1>4, <2>20, <2>21
      <3>2. CASE driver[w].pc \notin {"step", "folded", "aside"}
        <4>1. Overtaking(w) = faults
          BY <3>2 DEF Overtaking, Ahead
        <4>2. QED
          BY <1>4, <2>20, <2>21, <3>0, <3>1, <4>1
      <3>3. CASE driver[w].pc = "step"
        <4>1. overtaken[r] <= 1 + faults
          BY <3>0, <3>3 DEF Overtaking, Ahead
        <4>2. CASE StepFails(w)
          <5>1. faults' = faults + 1
            BY <4>2 DEF StepFails
          <5>2. faults' <= Overtaking(w)'
            BY <2>20, <2>21
          <5>3. QED
            BY <1>4, <2>20, <2>21, <3>0, <4>1, <5>1, <5>2
        <4>3. CASE \E outcome : StepSucceeds(w, outcome)
          <5>1. driver'[w].pc = "folded" /\ faults' = faults
            BY <4>3 DEF StepSucceeds, ServerTypeOK
          <5>2. QED
            BY <4>1, <5>1 DEF Overtaking, Ahead
        <4>4. ~(FindClients(w) \/ StandAside(w) \/ Deliver(w) \/ DrainClients(w) \/ DriverCancels(w))
          BY <3>3 DEF FindClients, StandAside, Deliver, DrainClients, DriverCancels
        <4>5. QED
          BY <1>6, <4>2, <4>3, <4>4 DEF Driver
      <3>4. CASE driver[w].pc = "folded"
        <4>1. StandAside(w)
          <5>1. ~(FindClients(w) \/ StepFails(w) \/ Deliver(w) \/ DrainClients(w) \/ DriverCancels(w))
            BY <3>4 DEF FindClients, StepFails, Deliver, DrainClients, DriverCancels
          <5>2. \A outcome : ~StepSucceeds(w, outcome)
            BY <3>4 DEF StepSucceeds
          <5>3. QED
            BY <1>6, <5>1, <5>2 DEF Driver
        <4>2. overtaken[r] <= 1 + faults
          BY <3>0, <3>4 DEF Overtaking, Ahead
        <4>3. waiters > 0
          <5>1. r \in Submitting
            BY <2>3 DEF WaitsFor, Submitting
          <5>2. IsFiniteSet(Submitting) /\ waiters = Cardinality(Submitting)
            BY DEF OvertakenInv, WaitersCounted
          <5>3. Cardinality(Submitting) \in Nat /\ Cardinality(Submitting) # 0
            BY <5>1, <5>2, FS_CardinalityType, FS_EmptySet
          <5>4. QED
            BY <5>2, <5>3
        <4>4. driver'[w] = [driver[w] EXCEPT !.pc = "aside",
                                             !.sleeps = driver[w].sleeps \/ waiters > 0]
          BY <4>1 DEF StandAside, ServerTypeOK
        <4>5. driver'[w].pc = "aside" /\ driver'[w].sleeps
          BY <3>4, <4>3, <4>4, FoldedType
        <4>6. faults' = faults
          BY <4>1 DEF StandAside
        <4>7. QED
          BY <4>2, <4>5, <4>6 DEF Overtaking, Ahead
      <3>5. CASE driver[w].pc = "aside"
        <4>1. Deliver(w)
          <5>1. ~(FindClients(w) \/ StepFails(w) \/ StandAside(w) \/ DrainClients(w) \/ DriverCancels(w))
            BY <3>5 DEF FindClients, StepFails, StandAside, DrainClients, DriverCancels
          <5>2. \A outcome : ~StepSucceeds(w, outcome)
            BY <3>5 DEF StepSucceeds
          <5>3. QED
            BY <1>6, <5>1, <5>2 DEF Driver
        <4>2. ~driver[w].sleeps
          BY <2>3, <4>1 DEF Deliver, SleepOver
        <4>3. Overtaking(w) = faults
          BY <3>5, <4>2 DEF Overtaking, Ahead
        <4>4. QED
          BY <1>4, <2>20, <2>21, <3>0, <3>1, <4>3
      <3>6. QED
        BY <3>2, <3>3, <3>4, <3>5
    <2>4. ASSUME NEW r \in Requests, NEW v \in Workers \ {w}, WaitsFor(r, v)
          PROVE  overtaken[r] <= Overtaking(v)'
      <3>1. overtaken[r] <= Overtaking(v) /\ overtaken[r] \in Nat
        BY <1>4, <2>4 DEF OvertakenInv
      <3>2. Overtaking(v) \in Nat /\ Overtaking(v)' \in Nat /\ Overtaking(v) <= Overtaking(v)'
        BY <1>4, <2>20, <2>21, <2>2
      <3>3. QED
        BY <3>1, <3>2
    <2>5. QED
      BY <1>2, <1>3, <2>1, <2>3, <2>4 DEF OvertakenInv
  <1>7. QED
    BY <1>5, <1>6

LEMMA InitOvertaken == ServerInit => OvertakenInv
  <1> SUFFICES ASSUME ServerInit PROVE OvertakenInv
    OBVIOUS
  <1>1. Submitting = {}
    BY DEF ServerInit, Submitting, Idle, At
  <1>2. WaitersCounted
    BY <1>1, FS_EmptySet DEF ServerInit, WaitersCounted
  <1>3. \A r \in Requests : overtaken[r] = 0 /\ \A w : ~WaitsFor(r, w)
    BY DEF ServerInit, WaitsFor, Idle, At
  <1>4. QED
    BY <1>2, <1>3 DEF OvertakenInv

LEMMA NextOvertaken == StreamInv /\ OvertakenInv /\ [ServerNext]_serverVars => OvertakenInv'
  <1> SUFFICES ASSUME StreamInv, OvertakenInv, [ServerNext]_serverVars PROVE OvertakenInv'
    OBVIOUS
  <1>1. ServerTypeOK /\ GuardKnows
    BY DEF StreamInv
  <1>2. CASE UNCHANGED serverVars
    BY <1>2 DEF serverVars, OvertakenInv, WaitersCounted, Submitting, WaitsFor, Overtaking, Ahead
  <1>3. QED
    BY <1>1, <1>2, HandlerOvertaken, DriverOvertaken DEF ServerNext

\* A handler that waits for a worker's lock sees one step begin before it is let in,
\* and one more for each failed step: submit_waiters makes worker_loop stand aside,
\* for any number of handlers and workers.
THEOREM NobodyIsStarved == ServerSpec => []OvertakenOnce
  <1>1. ServerTypeOK /\ OvertakenInv => OvertakenOnce
    <2>1. SUFFICES ASSUME ServerTypeOK, OvertakenInv, NEW r \in Requests
                   PROVE  overtaken[r] <= 1 + faults
      BY DEF OvertakenOnce
    <2>2. faults \in Nat /\ overtaken[r] \in Nat
      BY <2>1 DEF ServerTypeOK
    <2>3. CASE \A w \in Workers : ~WaitsFor(r, w)
      BY <2>1, <2>2, <2>3 DEF OvertakenInv
    <2>4. CASE \E w \in Workers : WaitsFor(r, w)
      BY <2>1, <2>2, <2>4 DEF OvertakenInv, Overtaking
    <2>5. QED
      BY <2>3, <2>4
  <1>2. StreamInv => ServerTypeOK
    BY DEF StreamInv
  <1>3. QED
    BY <1>1, <1>2, StreamInvariant, InitOvertaken, NextOvertaken, PTL DEF ServerSpec

=============================================================================
