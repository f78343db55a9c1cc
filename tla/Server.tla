------------------------------- MODULE Server -------------------------------
(***************************************************************************)
(* The client map and the threads around it,                               *)
(* crates/xabe-server/src/http/mod.rs and generate.rs: HTTP handlers that  *)
(* register a client, submit its request and read its events until the     *)
(* response ends or the connection is dropped, and one driver thread per   *)
(* worker that steps its device and hands the output to the clients.       *)
(*                                                                         *)
(* The engine is reduced to what its interface promises: a placed request  *)
(* is live on one worker, a step of that worker gives each of its requests *)
(* a piece of prefill, a token or its end, and cancel takes it off.        *)
(* Engine.tla and Worker.tla model the inside.  A worker's lock is held    *)
(* for a whole device step and only by its driver; every other holder      *)
(* reads or writes and lets go, which is one action enabled while the      *)
(* lock is free.                                                           *)
(***************************************************************************)
EXTENDS Integers, FiniteSets, SequencesExt

CONSTANTS
    Requests,      \* ids next_id hands out
    WorkerCount,   \* workers 1 .. WorkerCount, in the order they are locked
    MaxTokens,     \* the output limit of a request
    MaxFaults      \* bound: device steps that fail

ASSUME ServerAssumption ==
    /\ {WorkerCount, MaxTokens} \subseteq Nat \ {0}
    /\ MaxFaults \in Nat

Workers == 1 .. WorkerCount

VARIABLES
    clients,       \* the keys of the client map
    channel,       \* events sent to a client and not yet received
    handler,       \* the thread serving a request
    waiters,       \* submit_waiters
    routing,       \* the request whose handler holds the placement mutex
    driver,        \* the thread stepping a worker
    live,          \* requests on a worker: where, and tokens made
    made,          \* history: tokens the device made for a request
    got,           \* history: tokens its reader received
    overtaken,     \* history: steps begun on a worker while a handler
                   \* waits for that worker's lock
    faults         \* steps failed so far

serverVars == <<clients, channel, handler, waiters, routing, driver, live, made,
                got, overtaken, faults>>

Token(k) == [kind |-> "token", n |-> k]
DoneEvent(reason) == [kind |-> "done", reason |-> reason]
ErrorEvent(w) == [kind |-> "error", worker |-> w]
IsTerminal(e) == e.kind # "token"

Nobody == "nobody"
At(pc) == [pc |-> pc]
Idle == At("idle")

ServerInit ==
    /\ clients = {}
    /\ channel = [r \in Requests |-> << >>]
    /\ handler = [r \in Requests |-> Idle]
    /\ waiters = 0
    /\ routing = Nobody
    /\ driver = [w \in Workers |-> At("check")]
    /\ live = [r \in {} |-> 0]
    /\ made = [r \in Requests |-> 0]
    /\ got = [r \in Requests |-> 0]
    /\ overtaken = [r \in Requests |-> 0]
    /\ faults = 0

\* The lock of a worker is held by its driver during a device step.
LockFree(w) == driver[w].pc # "step"

\* A handler inside place_tokens that waits for the lock of a worker.
WaitsFor(r, w) == handler[r].pc \in {"budget", "score", "admit"} /\ handler[r].at = w

\* The receiver is dropped with the Generation, after its guard.
ReceiverOpen(r) == handler[r].pc # "gone"

-----------------------------------------------------------------------------
(* Generation::start                                                       *)

\* The sender is in the map before the engine knows the request.
Register(r) ==
    /\ handler[r].pc = "idle"
    /\ clients' = clients \cup {r}
    /\ handler' = [handler EXCEPT ![r] = At("announce")]
    /\ UNCHANGED <<channel, waiters, routing, driver, live, made, got, overtaken, faults>>

\* submit_waiters is raised before the first lock is asked for, the one of the
\* first worker, whose budget place_tokens reads.
Announce(r) ==
    /\ handler[r].pc = "announce"
    /\ waiters' = waiters + 1
    /\ handler' = [handler EXCEPT ![r] = [pc |-> "budget", at |-> 1]]
    /\ UNCHANGED <<clients, channel, routing, driver, live, made, got, overtaken, faults>>

\* Handlers take the lock they wait for once its driver does not hold it.
TakesLock(r, w) ==
    /\ WaitsFor(r, w)
    /\ LockFree(w)
    /\ overtaken' = [overtaken EXCEPT ![r] = 0]

ReadBudget(r) ==
    /\ handler[r].pc = "budget"
    /\ TakesLock(r, 1)
    /\ handler' = [handler EXCEPT ![r] = At("routing")]
    /\ UNCHANGED <<clients, channel, waiters, routing, driver, live, made, got, faults>>

TakeRoutingLock(r) ==
    /\ handler[r].pc = "routing"
    /\ routing = Nobody
    /\ routing' = r
    /\ handler' = [handler EXCEPT ![r] = [pc |-> "score", at |-> 1]]
    /\ UNCHANGED <<clients, channel, waiters, driver, live, made, got, overtaken, faults>>

\* score_workers visits every worker; route then chooses one.
ScoreWorker(r, w) ==
    /\ handler[r].pc = "score"
    /\ TakesLock(r, handler[r].at)
    /\ handler' = [handler EXCEPT ![r] =
           IF handler[r].at < WorkerCount THEN [pc |-> "score", at |-> handler[r].at + 1]
           ELSE [pc |-> "admit", at |-> w]]
    /\ UNCHANGED <<clients, channel, waiters, routing, driver, live, made, got, faults>>

\* No worker can take the request, or the chosen one does not after all.  The
\* waiter count goes down, then the client is removed; the receiver is dropped
\* with the failed start.
PlacementFails(r) ==
    /\ \/ handler[r].pc = "score" /\ handler[r].at = WorkerCount
       \/ handler[r].pc = "admit"
    /\ TakesLock(r, handler[r].at)
    /\ routing' = Nobody
    /\ waiters' = waiters - 1
    /\ handler' = [handler EXCEPT ![r] = At("refused")]
    /\ UNCHANGED <<clients, channel, driver, live, made, got, faults>>

RemoveRefused(r) ==
    /\ handler[r].pc = "refused"
    /\ clients' = clients \ {r}
    /\ handler' = [handler EXCEPT ![r] = At("gone")]
    /\ UNCHANGED <<channel, waiters, routing, driver, live, made, got, overtaken, faults>>

\* From here the request may be stepped, whatever else its handler still does.
Admit(r) ==
    /\ handler[r].pc = "admit"
    /\ TakesLock(r, handler[r].at)
    /\ live' = [q \in DOMAIN live \cup {r} |->
                   IF q = r THEN [on |-> handler[r].at, prefilled |-> FALSE] ELSE live[q]]
    /\ handler' = [handler EXCEPT ![r] = At("placed")]
    /\ UNCHANGED <<clients, channel, waiters, routing, driver, made, got, faults>>

\* The end of place_tokens, and the Generation with its armed guard.
Placed(r) ==
    /\ handler[r].pc = "placed"
    /\ routing' = Nobody
    /\ waiters' = waiters - 1
    /\ handler' = [handler EXCEPT ![r] = At("reading")]
    /\ UNCHANGED <<clients, channel, driver, live, made, got, overtaken, faults>>

-----------------------------------------------------------------------------
(* The Generation: raw_next's events, the request guard, a lost connection.*)

\* Engine::cancel looks for the request worker by worker and then removes it,
\* taking a lock each time.  `thread' is the position of whoever calls it.
Cancelling(r) == [pc |-> "cancel", r |-> r, at |-> 1, found |-> FALSE]

CancelDone(thread) == thread.at > WorkerCount

CancelSeeks(thread) == LockFree(thread.at)

CancelFinds(thread) ==
    thread.r \in DOMAIN live /\ live[thread.r].on = thread.at

\* What one lock of the search does to the thread and to the live requests.
CancelStep(thread) ==
    IF thread.found \/ ~CancelFinds(thread)
    THEN [thread EXCEPT !.at = IF thread.found THEN WorkerCount + 1 ELSE thread.at + 1]
    ELSE [thread EXCEPT !.found = TRUE]

CancelTakes(thread) ==
    IF thread.found /\ CancelFinds(thread) THEN {thread.r} ELSE {}

Without(rs) == [q \in DOMAIN live \ rs |-> live[q]]

\* A token was received; the response goes on, or a stop sequence ends it and
\* the guard cancels the request at once.
ReadToken(r, stops) ==
    /\ handler[r].pc = "reading"
    /\ channel[r] # << >>
    /\ Head(channel[r]).kind = "token"
    /\ channel' = [channel EXCEPT ![r] = Tail(@)]
    /\ got' = [got EXCEPT ![r] = @ + 1]
    /\ handler' = [handler EXCEPT ![r] = IF stops THEN Cancelling(r) ELSE @]
    /\ UNCHANGED <<clients, waiters, routing, driver, live, made, overtaken, faults>>

\* Done disarms the guard.
ReadDone(r) ==
    /\ handler[r].pc = "reading"
    /\ channel[r] # << >>
    /\ Head(channel[r]).kind = "done"
    /\ channel' = [channel EXCEPT ![r] = Tail(@)]
    /\ handler' = [handler EXCEPT ![r] = At("gone")]
    /\ UNCHANGED <<clients, waiters, routing, driver, live, made, got, overtaken, faults>>

\* Mutation: an error disarms the guard, as Done does.
ReadErrorDisarms(r) ==
    /\ handler[r].pc = "reading"
    /\ channel[r] # << >>
    /\ Head(channel[r]).kind = "error"
    /\ channel' = [channel EXCEPT ![r] = Tail(@)]
    /\ handler' = [handler EXCEPT ![r] = At("gone")]
    /\ UNCHANGED <<clients, waiters, routing, driver, live, made, got, overtaken, faults>>

\* An error ends the response with the guard armed: dropping it cancels.
ReadError(r) ==
    /\ handler[r].pc = "reading"
    /\ channel[r] # << >>
    /\ Head(channel[r]).kind = "error"
    /\ channel' = [channel EXCEPT ![r] = Tail(@)]
    /\ handler' = [handler EXCEPT ![r] = Cancelling(r)]
    /\ UNCHANGED <<clients, waiters, routing, driver, live, made, got, overtaken, faults>>

\* The connection is closed: the Generation is dropped, the guard first.
HangUp(r) ==
    /\ handler[r].pc = "reading"
    /\ handler' = [handler EXCEPT ![r] = Cancelling(r)]
    /\ UNCHANGED <<clients, channel, waiters, routing, driver, live, made, got, overtaken, faults>>

\* The receiver goes with the Generation, once the guard is through.
GuardCancels(r) ==
    LET next == CancelStep(handler[r])
    IN  /\ handler[r].pc = "cancel"
        /\ CancelSeeks(handler[r])
        /\ live' = Without(CancelTakes(handler[r]))
        /\ IF CancelDone(next)
           THEN /\ handler' = [handler EXCEPT ![r] = At("gone")]
                /\ channel' = [channel EXCEPT ![r] = << >>]
           ELSE /\ handler' = [handler EXCEPT ![r] = next]
                /\ UNCHANGED channel
        /\ UNCHANGED <<clients, waiters, routing, driver, made, got, overtaken, faults>>

-----------------------------------------------------------------------------
(* worker_loop                                                             *)

\* The loop sleeps while the map is empty.
FindClients(w) ==
    /\ driver[w].pc = "check"
    /\ clients # {}
    /\ driver' = [driver EXCEPT ![w] = At("lock")]
    /\ UNCHANGED <<clients, channel, handler, waiters, routing, live, made, got, overtaken, faults>>

\* step_worker takes the worker's lock.
BeginStep(w) ==
    /\ driver[w].pc = "lock"
    /\ driver' = [driver EXCEPT ![w] = At("step")]
    /\ overtaken' = [r \in Requests |-> overtaken[r] + IF WaitsFor(r, w) THEN 1 ELSE 0]
    /\ UNCHANGED <<clients, channel, handler, waiters, routing, live, made, got, faults>>

On(w) == {r \in DOMAIN live : live[r].on = w}

\* What a step may do for a request.
Outcomes(r) ==
    {"token", "eos"} \cup IF live[r].prefilled THEN {} ELSE {"prefill"}

\* The step gives `outcome' to every request on the worker and the lock goes.
StepSucceeds(w, outcome) ==
    LET tokens == {r \in On(w) : outcome[r] = "token"}
        stopped == {r \in On(w) : outcome[r] = "eos"}
        full == {r \in tokens : made[r] + 1 = MaxTokens}
    IN  /\ driver[w].pc = "step"
        /\ live' = [r \in DOMAIN live \ (stopped \cup full) |->
                       IF r \in On(w) THEN [live[r] EXCEPT !.prefilled = TRUE] ELSE live[r]]
        /\ made' = [r \in Requests |-> made[r] + IF r \in tokens THEN 1 ELSE 0]
        /\ driver' = [driver EXCEPT ![w] =
               [pc |-> "folded", generated |-> tokens, completed |-> stopped \cup full,
                stopped |-> stopped, sleeps |-> On(w) = {}]]
        /\ UNCHANGED <<clients, channel, handler, waiters, routing, got, overtaken, faults>>

\* The device fails, or folding its step into the cache does, with the step's
\* output lost.
StepFails(w) ==
    /\ driver[w].pc = "step"
    /\ faults < MaxFaults
    /\ faults' = faults + 1
    /\ driver' = [driver EXCEPT ![w] = At("failed")]
    /\ UNCHANGED <<clients, channel, handler, waiters, routing, live, made, got, overtaken>>

\* Mutation: only an empty step stands aside.
StandAsideWhenEmpty(w) ==
    /\ driver[w].pc = "folded"
    /\ driver' = [driver EXCEPT ![w] = [driver[w] EXCEPT !.pc = "aside"]]
    /\ UNCHANGED <<clients, channel, handler, waiters, routing, live, made, got, overtaken, faults>>

\* The loop stands aside for a millisecond when the step was empty or a handler
\* waits to submit.
StandAside(w) ==
    /\ driver[w].pc = "folded"
    /\ driver' = [driver EXCEPT ![w] =
           [driver[w] EXCEPT !.pc = "aside", !.sleeps = driver[w].sleeps \/ waiters > 0]]
    /\ UNCHANGED <<clients, channel, handler, waiters, routing, live, made, got, overtaken, faults>>

\* A millisecond is enough for a handler that waits for the free lock to get it.
SleepOver(w) == driver[w].sleeps => \A r \in Requests : ~WaitsFor(r, w)

\* The next of the cancellations that follow either, or the top of the loop.
CancelsNext(w, drop) ==
    IF drop = {} THEN driver' = [driver EXCEPT ![w] = At("check")]
    ELSE \E r \in drop : driver' = [driver EXCEPT ![w] =
             [pc |-> "cancel", of |-> Cancelling(r), drop |-> drop \ {r}]]

\* Tokens go out before ends.
Sent(step, r) == IF r \in step.generated THEN <<Token(made[r])>> ELSE << >>
Finished(step, r, ended) ==
    IF r \in ended
    THEN <<DoneEvent(IF r \in step.stopped THEN "eos" ELSE "length")>> ELSE << >>

\* Mutation: the ends are handed out first.
EventsEndsFirst(step, r, ended) == Finished(step, r, ended) \o Sent(step, r)

Events(step, r, ended) == Sent(step, r) \o Finished(step, r, ended)

\* Mutation: only requests that got a token are looked at for their end.
EndedWithToken(step, lost) == (step.completed \cap step.generated \cap clients) \ lost

Ended(step, lost) == (step.completed \cap clients) \ lost

\* Under the map's lock.  A client whose receiver is gone is removed and
\* cancelled afterwards.
Deliver(w) ==
    LET step == driver[w]
        lost == {r \in step.generated \cap clients : ~ReceiverOpen(r)}
        ended == Ended(step, lost)
    IN  /\ step.pc = "aside"
        /\ SleepOver(w)
        /\ channel' = [r \in Requests |->
               IF r \in clients /\ ReceiverOpen(r)
               THEN channel[r] \o Events(step, r, ended) ELSE channel[r]]
        /\ clients' = clients \ (lost \cup ended)
        /\ CancelsNext(w, lost)
        /\ UNCHANGED <<handler, waiters, routing, live, made, got, overtaken, faults>>

\* Mutation: only the worker's own clients are told, all are removed.
ToldOfFailureOwn(w) == clients \cap On(w)

\* Every client in the map is told and cancelled, whatever worker it is on.
ToldOfFailure(w) == clients

DrainClients(w) ==
    /\ driver[w].pc = "failed"
    /\ channel' = [r \in Requests |->
           IF r \in ToldOfFailure(w) /\ ReceiverOpen(r)
           THEN Append(channel[r], ErrorEvent(w)) ELSE channel[r]]
    /\ clients' = {}
    /\ CancelsNext(w, clients)
    /\ UNCHANGED <<handler, waiters, routing, live, made, got, overtaken, faults>>

\* One lock of the cancellation under way.
DriverCancels(w) ==
    /\ driver[w].pc = "cancel"
    /\ CancelSeeks(driver[w].of)
    /\ live' = Without(CancelTakes(driver[w].of))
    /\ LET next == CancelStep(driver[w].of)
       IN  IF CancelDone(next) THEN CancelsNext(w, driver[w].drop)
           ELSE driver' = [driver EXCEPT ![w] = [driver[w] EXCEPT !.of = next]]
    /\ UNCHANGED <<clients, channel, handler, waiters, routing, made, got, overtaken, faults>>

-----------------------------------------------------------------------------

Handler(r) ==
    \/ Register(r) \/ Announce(r) \/ ReadBudget(r) \/ TakeRoutingLock(r)
    \/ PlacementFails(r) \/ RemoveRefused(r) \/ Admit(r) \/ Placed(r)
    \/ \E w \in Workers : ScoreWorker(r, w)
    \/ \E stops \in BOOLEAN : ReadToken(r, stops)
    \/ ReadDone(r) \/ ReadError(r) \/ HangUp(r) \/ GuardCancels(r)

\* One turn of the loop, cut at the locks it takes and lets go.
Driver(w) ==
    \/ FindClients(w) \/ BeginStep(w) \/ StepFails(w)
    \/ \E outcome \in [On(w) -> {"prefill", "token", "eos"}] :
           (\A r \in On(w) : outcome[r] \in Outcomes(r)) /\ StepSucceeds(w, outcome)
    \/ StandAside(w) \/ Deliver(w) \/ DrainClients(w) \/ DriverCancels(w)

ServerNext ==
    \/ \E r \in Requests : Handler(r)
    \/ \E w \in Workers : Driver(w)

ServerSpec == ServerInit /\ [][ServerNext]_serverVars

\* What a handler does once it has begun, but not that its client hangs up.
HandlerProceeds(r) ==
    \/ Announce(r) \/ TakeRoutingLock(r) \/ RemoveRefused(r) \/ Placed(r)
    \/ ReadToken(r, FALSE) \/ ReadDone(r) \/ ReadError(r)

\* Who waits for a worker's lock gets it if it comes free again and again:
\* parking_lot hands a mutex over fairly every now and then.
TakesItsLock(r) ==
    ReadBudget(r) \/ (\E w \in Workers : ScoreWorker(r, w)) \/ Admit(r) \/ GuardCancels(r)

ServerFairness ==
    /\ \A r \in Requests : WF_serverVars(HandlerProceeds(r)) /\ SF_serverVars(TakesItsLock(r))
    /\ \A w \in Workers : /\ WF_serverVars(Driver(w))
                          /\ SF_serverVars(DriverCancels(w))

FairServerSpec == ServerSpec /\ ServerFairness

-----------------------------------------------------------------------------
(* Properties.                                                             *)

\* Tokens of a step its driver has not handed out yet.
InHand(r) ==
    \E w \in Workers : driver[w].pc \in {"folded", "aside"} /\ r \in driver[w].generated

\* What the reader has, what is in its channel and what its driver holds are
\* together what was generated for the request.
Faithful(r) ==
    LET events == channel[r]
    IN  /\ \A i \in DOMAIN events :
               IF IsTerminal(events[i]) THEN i = Len(events)
               ELSE events[i].n = got[r] + i
        /\ r \in clients =>
               got[r] + Len(events) + (IF InHand(r) THEN 1 ELSE 0) = made[r]
        /\ events # << >> /\ Last(events).kind = "done" =>
               got[r] + Len(events) - 1 = made[r]

\* No token is lost, repeated or out of order, nothing follows a terminal event,
\* and Done comes after everything the device made.  (worker_loop's fan-out
\* against Generation::start registering the client before place_tokens.)
StreamFaithful == \A r \in Requests : ReceiverOpen(r) => Faithful(r)

\* A reader is never left without a status: its sender is in the map, or a
\* terminal event waits in its channel ("the scheduler closed the request
\* without a completion status" in raw_next is unreachable).
NeverClosedSilently ==
    \A r \in Requests :
        handler[r].pc \in {"announce", "budget", "routing", "score", "admit",
                           "placed", "reading"} =>
            r \in clients \/ (channel[r] # << >> /\ IsTerminal(Last(channel[r])))

\* Whoever is on a worker has somebody who will take it off: its handler has
\* the guard armed, or the guard's search has not passed its worker yet.  It
\* holds for a client drained by an error while its placement was under way,
\* whom the driver's own cancel did not find.
NoZombie ==
    \A r \in DOMAIN live :
        \/ handler[r].pc \in {"placed", "reading"}
        \/ handler[r].pc = "cancel" /\ handler[r].at <= live[r].on

\* A handler that waits for a worker's lock sees at most one step begin before
\* it is let in, and one more for each failed step, which does not stand aside
\* (submit_waiters in worker_loop).
OvertakenOnce == \A r \in Requests : overtaken[r] <= 1 + faults

\* The comment in worker_loop's error branch: the sessions of the other workers
\* are untouched.
OtherWorkersUntouched ==
    \A r \in DOMAIN live : \A i \in DOMAIN channel[r] :
        channel[r][i].kind = "error" => channel[r][i].worker = live[r].on

\* Every response comes to an end, whatever fails and whoever hangs up.
ResponseEnds ==
    \A r \in Requests : handler[r].pc = "announce" ~> handler[r].pc = "gone"

-----------------------------------------------------------------------------
(* The inductive invariant behind the four.                                *)

Event ==
    [kind : {"token"}, n : Nat]
        \cup [kind : {"done"}, reason : {"eos", "length"}]
        \cup [kind : {"error"}, worker : Workers]

CancelState == [pc : {"cancel"}, r : Requests, at : Workers, found : BOOLEAN]

HandlerState ==
    [pc : {"idle", "announce", "routing", "refused", "placed", "reading", "gone"}]
        \cup [pc : {"budget", "score", "admit"}, at : Workers]
        \cup CancelState

DriverState ==
    [pc : {"check", "lock", "step", "failed"}]
        \cup [pc : {"folded", "aside"}, generated : SUBSET Requests,
              completed : SUBSET Requests, stopped : SUBSET Requests, sleeps : BOOLEAN]
        \cup [pc : {"cancel"}, of : CancelState, drop : SUBSET Requests]

\* Every variable has its type.
ServerTypeOK ==
    /\ clients \subseteq Requests
    /\ channel \in [Requests -> Seq(Event)]
    /\ handler \in [Requests -> HandlerState]
    /\ driver \in [Workers -> DriverState]
    /\ DOMAIN live \subseteq Requests
    /\ live \in [DOMAIN live -> [on : Workers, prefilled : BOOLEAN]]
    /\ made \in [Requests -> Nat]
    /\ got \in [Requests -> Nat]
    /\ overtaken \in [Requests -> Nat]
    /\ faults \in Nat

\* The guard searches for its own request, and for one it found on the worker
\* where it found it.
GuardKnows ==
    \A r \in Requests : handler[r].pc = "cancel" =>
        /\ handler[r].r = r
        /\ handler[r].found /\ r \in DOMAIN live => live[r].on = handler[r].at

\* What a driver has in its hands between its step and the fan-out.
Hand(w) ==
    IF driver[w].pc \in {"folded", "aside"}
    THEN driver[w].generated \cup driver[w].completed ELSE {}

\* The handler is past the admission of its request.
Submitted(r) == handler[r].pc \in {"placed", "reading", "cancel", "gone"}

\* A request is in the hands of the one worker it is, or was, on, and what that
\* worker's step completed is on no worker any more.
HandsExact ==
    \A w \in Workers : \A r \in Hand(w) :
        /\ Submitted(r)
        /\ r \in DOMAIN live => live[r].on = w /\ r \notin driver[w].completed
        /\ \A v \in Workers : r \in Hand(v) => v = w

\* Done is only said of a request that is on no worker and will not be again.
DoneIsFinal ==
    \A r \in Requests : \A i \in DOMAIN channel[r] :
        channel[r][i].kind = "done" => Submitted(r) /\ r \notin DOMAIN live

\* Nothing is known of a request before its handler registers it, and nothing but
\* tokens was sent to a client that is still in the map.
ClientsFresh ==
    \A r \in Requests :
        /\ handler[r].pc = "idle" =>
               r \notin clients /\ channel[r] = << >> /\ made[r] = 0 /\ got[r] = 0
        /\ r \in clients => \A i \in DOMAIN channel[r] : channel[r][i].kind = "token"

StreamInv ==
    /\ ServerTypeOK
    /\ GuardKnows
    /\ NoZombie
    /\ HandsExact
    /\ DoneIsFinal
    /\ ClientsFresh
    /\ NeverClosedSilently
    /\ StreamFaithful

\* Handlers between the two changes of submit_waiters.
Submitting ==
    {r \in Requests : handler[r].pc \in {"budget", "routing", "score", "admit", "placed"}}

WaitersCounted == IsFiniteSet(Submitting) /\ waiters = Cardinality(Submitting)

\* A driver that has begun a step and has not let the waiters in since.
Ahead(w) ==
    \/ driver[w].pc \in {"step", "folded"}
    \/ driver[w].pc = "aside" /\ driver[w].sleeps

\* The steps that may have overtaken a handler that waits for the worker's lock.
Overtaking(w) == IF Ahead(w) THEN 1 + faults ELSE faults

OvertakenInv ==
    /\ WaitersCounted
    /\ \A r \in Requests :
           /\ (\A w \in Workers : ~WaitsFor(r, w)) => overtaken[r] = 0
           /\ \A w \in Workers : WaitsFor(r, w) => overtaken[r] <= Overtaking(w)

=============================================================================
