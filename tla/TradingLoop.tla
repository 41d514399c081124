---------------------------- MODULE TradingLoop -----------------------------
(***************************************************************************)
(* The bot's main loop (src/src/app.rs) with the components it drives: the *)
(* signal gates, the intent queue, the execution engine's submission with  *)
(* its retries, the order tracker, the exposures, the contract locks and   *)
(* the kill switch, against the venue.                                     *)
(*                                                                         *)
(* One task runs the loop, and each handler runs to completion before the  *)
(* next begins.  submit_intent waits inside its handler: for the venue's   *)
(* answer, for the retry backoff and for room on the event bus.  The       *)
(* variable `submission` is that handler's position; while it is not       *)
(* "idle" no other handler runs, but the venue, the user feed, the clock   *)
(* and an operator go on.  The other two waits, for the client's health    *)
(* before a signal is evaluated and for a resolution's data after its      *)
(* contracts have cooled down, come where no modelled state is half        *)
(* written and are part of their handler's one step.                       *)
(***************************************************************************)
EXTENDS FillStateProcessor, Venue, LockService

CONSTANTS
  MaxConcurrentOrders,     \* execution.max_concurrent_orders
  MaxRetryAttempts,        \* execution.max_retry_attempts
  MaxConcurrentPositions,  \* risk.max_concurrent_positions
  MaxPositionPerMarket,    \* risk.max_position_per_market, as notional
  IntentCapacity,          \* INTENT_CAPACITY
  BusCapacity,             \* EVENT_BUS_CAPACITY
  Sizes,                   \* sizes a signal may be given
  LimitPrice,              \* the price of every intent
  Markets,                 \* the sets of contracts of one market
  Stimuli                  \* which outside stimuli occur: "KillSwitch" and
                           \* "Resolution" events on the bus, an "Operator" who
                           \* activates the kill switch, a "Shutdown" signal

ASSUME LimitsAssumption ==
  /\ MaxConcurrentOrders \in Nat /\ MaxRetryAttempts \in Nat
  /\ MaxConcurrentPositions \in Nat /\ MaxPositionPerMarket \in Nat
  /\ IntentCapacity \in Nat /\ BusCapacity \in Nat /\ MaxFaults \in Nat
  /\ Sizes \subseteq Nat \ {0} /\ LimitPrice \in Nat \ {0}
  /\ FillPrices \subseteq Nat
  /\ Markets \subseteq SUBSET Contract
  /\ Stimuli \subseteq {"KillSwitch", "Resolution", "Operator", "Shutdown"}

VARIABLES
  intents,     \* intent channel: accepted signals waiting for the engine
  bus,         \* event bus: venue and risk events waiting for the loop
  submission,  \* where submit_intent is
  killed,      \* KillSwitch::is_active
  stage,       \* "on", "stopping" once the token is cancelled, "off"
  failed       \* history: orders whose submission ended in a client error

loopVars == <<intents, bus, submission, killed, stage, failed>>
vars == <<fillStateVars, venueVars, lockVars, loopVars>>

Intent == [contract : Contract, size : Nat]

Event == VenueMessage \cup [type : {"KillSwitch"}]
                      \cup [type : {"Resolution"}, market : SUBSET Contract]

Submission ==
  {s \in [phase : {"idle", "trying", "acking"}, order : OrderId \cup {NoOrder},
          attempts : 0..(MaxRetryAttempts + 1)] :
     s.phase = "idle" <=> s.order = NoOrder}

NotSubmitting == [phase |-> "idle", order |-> NoOrder, attempts |-> 0]

TypeOK ==
  /\ TrackerTypeOK /\ ExposureTypeOK /\ VenueTypeOK /\ LockTypeOK
  /\ intents \in Seq(Intent) /\ Len(intents) <= IntentCapacity
  /\ bus \in Seq(Event) /\ Len(bus) <= BusCapacity
  /\ submission \in Submission
  /\ killed \in BOOLEAN
  /\ stage \in {"on", "stopping", "off"}
  /\ failed \subseteq OrderId

Init ==
  /\ TrackerInit /\ ExposureInit /\ VenueInit /\ LockInit
  /\ intents = << >> /\ bus = << >>
  /\ submission = NotSubmitting
  /\ killed = FALSE /\ stage = "on" /\ failed = {}

\* The loop is at its select! and can take one of its branches.
Idle == stage # "off" /\ submission.phase = "idle"

-----------------------------------------------------------------------------
(* Signals.                                                                *)

\* Mutant of SignalAccepted: the lock gate is missing.
SignalAcceptedDespiteLock(c, n) ==
  /\ ~killed
  /\ c \notin expired
  /\ ActivePositionCount < MaxConcurrentPositions
  /\ ContractNotional(c) + n <= MaxPositionPerMarket

\* Mutant of SignalAccepted: the kill switch gate is missing.
SignalAcceptedWhenKilled(c, n) ==
  /\ c \notin expired
  /\ IsTradeable(c)
  /\ ActivePositionCount < MaxConcurrentPositions
  /\ ContractNotional(c) + n <= MaxPositionPerMarket

\* The gates and the sizing let contract c through with size n.  Everything
\* they read from the market and the feeds is left to chance.
SignalAccepted(c, n) ==
  /\ ~killed
  /\ c \notin expired
  /\ IsTradeable(c)
  /\ ActivePositionCount < MaxConcurrentPositions
  /\ ContractNotional(c) + n <= MaxPositionPerMarket

\* CexTick, for one of the contracts it is evaluated on: the intent is
\* queued and the contract locked, or with a full queue neither.  A tick
\* evaluates several contracts; as separate steps they may have other
\* handlers between them, which adds behaviours and takes none away.  A bound
\* on the model: no more intents than there are order ids left for them.
DispatchSignal(c, n) ==
  /\ Idle
  /\ SignalAccepted(c, n)
  /\ Len(intents) < Cardinality(OrderId \ DOMAIN orders)
  /\ IF Len(intents) < IntentCapacity
     THEN /\ intents' = Append(intents, [contract |-> c, size |-> n])
          /\ Lock(c)
     ELSE UNCHANGED <<intents, lockVars>>
  /\ UNCHANGED <<fillStateVars, venueVars, bus, submission, killed, stage, failed>>

-----------------------------------------------------------------------------
(* The intent branch: exposure first, then submit_intent.                  *)

\* Checks 1 and 2 of submit_intent.
MustReject(c) == HasPendingOrder(c) \/ ActiveCount >= MaxConcurrentOrders

\* submit_intent refuses: as a duplicate, at the order limit, or because the
\* signal is stale, which depends on the time it waited.  The pending
\* exposure is taken back and the contract sent into cooldown.
RejectIntent ==
  /\ Idle /\ intents # << >>
  /\ LET i == Head(intents) IN
       /\ exposures' = RemovePending(
                         AddPending(exposures, i.contract, i.size * LimitPrice),
                         i.contract, i.size * LimitPrice)
       /\ Cooldown({i.contract})
  /\ intents' = Tail(intents)
  /\ UNCHANGED <<trackerVars, venueVars, bus, submission, killed, stage, failed>>

\* The order is registered, then the first request leaves.
BeginSubmit(o) ==
  /\ Idle /\ intents # << >>
  /\ o \notin DOMAIN orders
  /\ LET i == Head(intents) IN
       /\ ~MustReject(i.contract)
       /\ exposures' = AddPending(exposures, i.contract, i.size * LimitPrice)
       /\ Register(o, [contract |-> i.contract, price |-> LimitPrice,
                       size |-> i.size, filled |-> 0, state |-> "Pending"])
       /\ Request(o, i.contract, LimitPrice, i.size)
  /\ submission' = [phase |-> "trying", order |-> o, attempts |-> 1]
  /\ intents' = Tail(intents)
  /\ UNCHANGED <<lockVars, bus, killed, stage, failed>>

\* The venue's answer arrives: it took the order, and perhaps filled it.
AttemptSucceeds ==
  LET o == submission.order IN
  /\ submission.phase = "trying"
  /\ \E s \in Answers(o) : UpdateState(o, s)
  /\ submission' = [submission EXCEPT !.phase = "acking"]
  /\ UNCHANGED <<exposures, venueVars, lockVars, intents, bus, killed, stage, failed>>

\* event_tx.send(OrderAck).await: waits for room on the bus this loop drains.
SendAck ==
  /\ submission.phase = "acking"
  /\ Len(bus) < BusCapacity
  /\ bus' = Append(bus, AckEvent(submission.order))
  /\ submission' = NotSubmitting
  /\ UNCHANGED <<fillStateVars, venueVars, lockVars, intents, killed, stage, failed>>

\* Mutant of RetryAttempt: every failed attempt marks the order uncertain.
RetryMarkingUncertain ==
  /\ submission.phase = "trying" /\ CallsFail
  /\ submission.attempts < MaxRetryAttempts + 1
  /\ submission' = [submission EXCEPT !.attempts = @ + 1]
  /\ MarkUncertain(submission.order)
  /\ UNCHANGED <<exposures, venueVars, lockVars, intents, bus, killed, stage, failed>>

\* A rate limit or network error with attempts left: the same request again.
RetryAttempt ==
  /\ submission.phase = "trying" /\ CallsFail
  /\ submission.attempts < MaxRetryAttempts + 1
  /\ submission' = [submission EXCEPT !.attempts = @ + 1]
  /\ UNCHANGED <<fillStateVars, venueVars, lockVars, intents, bus, killed, stage, failed>>

\* Any other error, or the last attempt failing: the order is uncertain, its
\* exposure is taken back and the contract is sent into cooldown.
GiveUp ==
  LET o == submission.order IN
  /\ submission.phase = "trying" /\ CallsFail
  /\ MarkUncertain(o)
  /\ exposures' = RemovePending(exposures, orders[o].contract,
                                orders[o].size * orders[o].price)
  /\ Cooldown({orders[o].contract})
  /\ failed' = failed \cup {o}
  /\ submission' = NotSubmitting
  /\ UNCHANGED <<venueVars, intents, bus, killed, stage>>

-----------------------------------------------------------------------------
(* The event branch.                                                       *)

\* Mutant of Takes: events are handled while a submission is under way.
TakesWhileSubmitting(t) ==
  /\ stage # "off"
  /\ bus # << >>
  /\ Head(bus).type = t
  /\ bus' = Tail(bus)

\* The loop takes the next event, which is of type t.
Takes(t) ==
  /\ Idle
  /\ bus # << >>
  /\ Head(bus).type = t
  /\ bus' = Tail(bus)

HandleOrderAck ==
  /\ Takes("OrderAck")
  /\ ProcessAck(Head(bus).order)
  /\ UNCHANGED <<venueVars, lockVars, intents, submission, killed, stage, failed>>

HandleFill ==
  /\ Takes("Fill")
  /\ LET f == Head(bus)
     IN ProcessFill(f.order, f.contract, f.size, f.price, f.remaining)
  /\ UNCHANGED <<venueVars, lockVars, intents, submission, killed, stage, failed>>

HandleOrderStateChange ==
  /\ Takes("OrderStateChange")
  /\ ProcessStateChange(Head(bus).order, Head(bus).state)
  /\ UNCHANGED <<venueVars, lockVars, intents, submission, killed, stage, failed>>

HandleKillSwitch ==
  /\ Takes("KillSwitch")
  /\ killed' = TRUE
  /\ UNCHANGED <<fillStateVars, venueVars, lockVars, intents, submission, stage, failed>>

\* A resolution sends the market's unexpired contracts into cooldown.  What
\* it does to the ledger and to the equity is not modelled here.
HandleResolution ==
  /\ Takes("Resolution")
  /\ Cooldown(Head(bus).market \ expired)
  /\ UNCHANGED <<fillStateVars, venueVars, intents, submission, killed, stage, failed>>

-----------------------------------------------------------------------------
(* The shutdown branch: what is left on the bus is drained, unprocessed.   *)

\* Mutant of ShutDown: it waits for the orders to finish.
ShutDownAfterOrders ==
  /\ Idle
  /\ stage = "stopping"
  /\ ActiveCount = 0
  /\ stage' = "off"
  /\ bus' = << >>
  /\ UNCHANGED <<fillStateVars, venueVars, lockVars, intents, submission, killed,
                 failed>>

ShutDown ==
  /\ Idle
  /\ stage = "stopping"
  /\ stage' = "off"
  /\ bus' = << >>
  /\ UNCHANGED <<fillStateVars, venueVars, lockVars, intents, submission, killed,
                 failed>>

-----------------------------------------------------------------------------
(* What goes on beside the loop.                                           *)

\* The user feed puts the venue's next message on the bus, waiting for room.
FeedDelivers ==
  /\ stage # "off"
  /\ wire # << >>
  /\ Len(bus) < BusCapacity
  /\ bus' = Append(bus, Head(wire))
  /\ wire' = Tail(wire)
  /\ UNCHANGED <<fillStateVars, venue, faults, lockVars, intents, submission,
                 killed, stage, failed>>

\* A risk event or a resolution is posted; one of each at a time.
PostEvent(e) ==
  /\ e.type \in Stimuli
  /\ stage # "off"
  /\ Len(bus) < BusCapacity
  /\ \A i \in DOMAIN bus : bus[i].type # e.type
  /\ bus' = Append(bus, e)
  /\ UNCHANGED <<fillStateVars, venueVars, lockVars, intents, submission,
                 killed, stage, failed>>

\* KillSwitch::activate by an operator or by the drawdown tracker.
ActivateKillSwitch ==
  /\ "Operator" \in Stimuli
  /\ ~killed
  /\ killed' = TRUE
  /\ UNCHANGED <<fillStateVars, venueVars, lockVars, intents, bus, submission, stage,
                 failed>>

\* SIGINT or SIGTERM cancels the token every task listens to.
RequestShutdown ==
  /\ "Shutdown" \in Stimuli
  /\ stage = "on"
  /\ stage' = "stopping"
  /\ UNCHANGED <<fillStateVars, venueVars, lockVars, intents, bus, submission,
                 killed, failed>>

VenueStep ==
  /\ VenueActs \/ WireLoses \/ WireRepeats
  /\ UNCHANGED <<fillStateVars, lockVars, loopVars>>

ClockStep == TimePasses /\ UNCHANGED <<fillStateVars, venueVars, loopVars>>

EventStep == \/ HandleOrderAck \/ HandleFill \/ HandleOrderStateChange
             \/ HandleKillSwitch \/ HandleResolution

SubmitStep == AttemptSucceeds \/ SendAck \/ RetryAttempt \/ GiveUp

IntentStep == RejectIntent \/ \E o \in OrderId : BeginSubmit(o)

Next ==
  \/ \E c \in Contract, n \in Sizes : DispatchSignal(c, n)
  \/ IntentStep \/ SubmitStep \/ EventStep
  \/ FeedDelivers
  \/ ~killed /\ PostEvent([type |-> "KillSwitch"])
  \/ \E m \in Markets : PostEvent([type |-> "Resolution", market |-> m])
  \/ ActivateKillSwitch \/ RequestShutdown \/ ShutDown
  \/ VenueStep \/ ClockStep

Spec == Init /\ [][Next]_vars

-----------------------------------------------------------------------------
(* tokio::select! polls its ready branches in random order, so that one    *)
(* ready again and again is taken; a call to the venue returns; and until  *)
(* the token is cancelled the user feed's task is scheduled.  Nothing is   *)
(* assumed of signals, of the venue's own acts, of the operator or of the  *)
(* clock.                                                                  *)
FairSpec == Spec /\ SF_vars(IntentStep) /\ SF_vars(EventStep) /\ SF_vars(ShutDown)
                 /\ WF_vars(SubmitStep) /\ WF_vars(stage = "on" /\ FeedDelivers)
-----------------------------------------------------------------------------
(* Invariants.                                                             *)

OrdersOn(c) == {o \in DOMAIN orders : orders[o].contract = c}

\* From the moment a signal is dispatched until its market expires, its
\* contract stays locked, unless the submission failed (contract_lock.rs:
\* "Prevents duplicate entries into the same contract window").  Queue,
\* engine and lock are written by different handlers.
LockedWhileCommitted ==
  /\ \A i \in DOMAIN intents :
       intents[i].contract \in expired \/ lock[intents[i].contract] = "Locked"
  /\ \A o \in DOMAIN orders \ failed :
       orders[o].contract \in expired \/ lock[orders[o].contract] = "Locked"

\* A contract is entered at most once: of two commitments to it (queued
\* intents, submitted orders) at most one has not ended in a client error.
SingleEntry ==
  /\ \A i, j \in DOMAIN intents :
       intents[i].contract = intents[j].contract => i = j
  /\ \A i \in DOMAIN intents, o \in DOMAIN orders \ failed :
       intents[i].contract # orders[o].contract
  /\ \A o, q \in DOMAIN orders \ failed :
       orders[o].contract = orders[q].contract => o = q

\* What the venue may still make the bot pay for order o, plus what it paid.
OpenCost(o) ==
  LET v == venue[o]
  IN v.cost + (IF v.status \in {"Requested", "Open"}
               THEN (v.size - v.filled) * v.price ELSE 0)

\* The gates never see less exposure than the bot really has on a contract
\* whose only order was submitted without a client error, whatever events
\* are still on their way (fill_state.rs: "so signal gates can see
\* pending/open exposure").
SoleOrderCovered ==
  \A c \in Contract : \A o \in OrdersOn(c) \ failed :
     OrdersOn(c) = {o} => ContractNotional(c) >= OpenCost(o)

\* The filled exposure of a contract never exceeds what the venue filled on
\* it, as long as the user stream repeats no message: fills are accumulated
\* by process_fill, and several orders may have used one contract.
NoPhantomPosition ==
  \A c \in DOMAIN exposures :
     exposures[c].filled <= SumFunction([o \in OrdersOn(c) |-> venue[o].cost])

\* An order the bot holds for finished really is, in the way it believes.
\* In particular a failed submission is never taken for a rejection
\* (submit.rs: "do NOT mark as rejected because we don't know if the venue
\* received it").
TerminalBeliefSound ==
  \A o \in DOMAIN orders :
     orders[o].state \in Terminal => venue[o].status = orders[o].state

\* While the engine waits for the venue, the order it submits is Pending and
\* is the one the index names, so that no other can be started.
InFlightIndexed ==
  submission.phase = "trying" =>
     /\ submission.order \in DOMAIN orders
     /\ LET r == orders[submission.order]
        IN /\ r.state = "Pending"
           /\ r.contract \in DOMAIN pendingContracts
           /\ pendingContracts[r.contract] = submission.order

-----------------------------------------------------------------------------
(* Action and liveness properties.                                         *)

\* Uncertainty about an order ends only with a message of the venue about
\* that very order: no retry, cooldown, new order on the same contract or
\* other order's message settles it.
SettledOnWord ==
  \A o \in DOMAIN orders :
     orders[o].state = "Uncertain" /\ orders'[o].state # "Uncertain"
       => /\ bus # << >>
          /\ bus' = Tail(bus)
          /\ Head(bus).type \in {"OrderAck", "Fill", "OrderStateChange"}
          /\ Head(bus).order = o

\* Every step obeys SettledOnWord (submit.rs: an order whose submission failed
\* is uncertain "because we don't know if the venue received it").
UncertaintyNeedsWord == [][SettledOnWord]_vars

\* Once the kill switch is active the bot comes to rest: the intents already
\* queued are worked off, or dropped by a shutdown, and no new ones come.
\* This needs every signal gate and every branch of the engine to cooperate.
KillSwitchSettles ==
  killed ~> [](submission.phase = "idle" /\ (intents = << >> \/ stage = "off"))

-----------------------------------------------------------------------------
(* What the documentation says and the code does not do.                   *)

\* submit.rs: "Never blindly resubmits after uncertain order state."
NoBlindResubmission ==
  [][\A o \in DOMAIN orders' \ DOMAIN orders : \A u \in DOMAIN orders :
       orders[u].state = "Uncertain" => orders[u].contract # orders'[o].contract]_vars

\* runbooks.md, section 9: "All new trading stops immediately."
NoSubmissionOnceKilled ==
  [][killed => DOMAIN orders' = DOMAIN orders]_vars

\* runbooks.md, section 7: "Send SIGINT (Ctrl-C) for graceful shutdown.  Wait
\* for `shutdown complete` log message."
ShutdownCompletes == stage = "stopping" ~> stage = "off"

\* submit.rs: active_count is the "Count of orders in active (non-terminal)
\* states": an order the venue finished, and about which nothing is left to
\* be said, takes up no slot.
FinishedOrdersFreeSlots ==
  \A o \in DOMAIN venue :
     /\ venue[o].status \in Terminal
     /\ submission.order # o
     /\ \A i \in DOMAIN wire : wire[i].order # o
     /\ \A i \in DOMAIN bus : bus[i].type \in {"KillSwitch", "Resolution"}
                                \/ bus[i].order # o
     => orders[o].state \notin Active
=============================================================================
