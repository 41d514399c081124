------------------------- MODULE TradingLoop_proofs -------------------------
(***************************************************************************)
(* Proofs about the main loop, for any contracts, orders, limits and       *)
(* queue capacities, and any number of messages lost or repeated.          *)
(***************************************************************************)
EXTENDS TradingLoop, FillStateProcessor_proofs, Sums

-----------------------------------------------------------------------------
(* Locks: their types.                                                     *)

LEMMA LockType ==
  ASSUME LockTypeOK, \/ \E c \in Contract : Lock(c)
                     \/ \E S \in SUBSET Contract : Cooldown(S)
                     \/ TimePasses
  PROVE  LockTypeOK'
<1>1. ASSUME NEW c \in Contract, Lock(c) PROVE LockTypeOK'
  BY <1>1 DEF LockTypeOK, Lock, LockState
<1>2. ASSUME NEW S \in SUBSET Contract, Cooldown(S) PROVE LockTypeOK'
  BY <1>2 DEF LockTypeOK, Cooldown, LockState
<1>3. CASE TimePasses
  BY <1>3 DEF LockTypeOK, TimePasses, LockState
<1> QED
  BY <1>1, <1>2, <1>3

-----------------------------------------------------------------------------
(* The main loop: types.                                                   *)

LEMMA EventTypes ==
  ASSUME NEW e \in Event
  PROVE  /\ e.type = "OrderAck" => e.order \in OrderId
         /\ e.type = "Fill" => /\ e.order \in OrderId /\ e.contract \in Contract
                              /\ e.size \in Nat /\ e.price \in Nat /\ e.remaining \in Nat
         /\ e.type = "OrderStateChange" => /\ e.order \in OrderId
                                          /\ e.state \in {"Canceled", "Rejected"}
         /\ e.type = "Resolution" => e.market \in SUBSET Contract
  BY DEF Event, VenueMessage

\* The event the loop takes, and the bus without it.
LEMMA TakesType ==
  ASSUME TypeOK, NEW t, Takes(t)
  PROVE  /\ Head(bus) \in Event /\ Head(bus).type = t
         /\ bus' \in Seq(Event) /\ Len(bus') <= BusCapacity
<1>1. bus \in Seq(Event) /\ bus # << >> /\ Len(bus) <= BusCapacity
  BY DEF TypeOK, Takes
<1>2. Len(Tail(bus)) = Len(bus) - 1 /\ Len(bus) \in Nat
  BY <1>1
<1> QED
  BY <1>1, <1>2, LimitsAssumption DEF Takes

\* The bus with one event more, when there was room.
LEMMA PostType ==
  ASSUME TypeOK, NEW e \in Event, Len(bus) < BusCapacity, bus' = Append(bus, e)
  PROVE  bus' \in Seq(Event) /\ Len(bus') <= BusCapacity
<1>1. bus \in Seq(Event)
  BY DEF TypeOK
<1> QED
  BY <1>1, LimitsAssumption

\* The intent the loop takes, and the queue without it.
LEMMA HeadIntent ==
  ASSUME TypeOK, intents # << >>
  PROVE  /\ Head(intents).contract \in Contract /\ Head(intents).size \in Nat
         /\ Head(intents).size * LimitPrice \in Nat
         /\ Tail(intents) \in Seq(Intent) /\ Len(Tail(intents)) <= IntentCapacity
<1>1. intents \in Seq(Intent) /\ Len(intents) <= IntentCapacity
  BY DEF TypeOK
<1>2. Head(intents) \in Intent /\ Len(Tail(intents)) = Len(intents) - 1 /\ Len(intents) \in Nat
  BY <1>1
<1>3. Head(intents).contract \in Contract /\ Head(intents).size \in Nat
  BY <1>2 DEF Intent
<1> QED
  BY <1>1, <1>2, <1>3, LimitsAssumption

\* The parts of TypeOK a step leaves alone.
LEMMA Frame ==
  ASSUME TypeOK
  PROVE  /\ UNCHANGED trackerVars => TrackerTypeOK'
         /\ UNCHANGED exposures => ExposureTypeOK'
         /\ UNCHANGED venueVars => VenueTypeOK'
         /\ UNCHANGED lockVars => LockTypeOK'
  BY DEF TypeOK, TrackerTypeOK, trackerVars, ExposureTypeOK, VenueTypeOK, venueVars,
         LockTypeOK, lockVars

\* What submit_intent relies on while it waits: no other handler has run.
CoreInv == TypeOK /\ InFlightIndexed

\* The loop starts in CoreInv.
LEMMA CoreInit == Init => CoreInv
<1>1. ASSUME Init PROVE TrackerTypeOK /\ ExposureTypeOK /\ VenueTypeOK /\ LockTypeOK
  BY <1>1, LimitsAssumption
     DEF Init, TrackerInit, ExposureInit, VenueInit, LockInit, TrackerTypeOK,
         ExposureTypeOK, VenueTypeOK, LockTypeOK, LockState
<1>2. ASSUME Init PROVE InFlightIndexed /\ submission \in Submission
  BY <1>2, LimitsAssumption DEF Init, InFlightIndexed, NotSubmitting, Submission
<1>3. ASSUME Init
      PROVE  /\ intents \in Seq(Intent) /\ Len(intents) <= IntentCapacity
             /\ bus \in Seq(Event) /\ Len(bus) <= BusCapacity
  BY <1>3, LimitsAssumption DEF Init
<1>4. ASSUME Init PROVE killed \in BOOLEAN /\ stage \in {"on", "stopping", "off"}
                        /\ failed \subseteq OrderId
  BY <1>4 DEF Init
<1> QED
  BY <1>1, <1>2, <1>3, <1>4 DEF CoreInv, TypeOK

\* A signal touches the queue and the locks only.
LEMMA DispatchCore ==
  ASSUME CoreInv, NEW c \in Contract, NEW n \in Sizes, DispatchSignal(c, n)
  PROVE  CoreInv'
<1> USE DEF CoreInv
<1>1. /\ UNCHANGED fillStateVars /\ UNCHANGED venueVars
      /\ UNCHANGED <<bus, submission, killed, stage, failed>>
  BY DEF DispatchSignal
<1>2. UNCHANGED trackerVars /\ UNCHANGED exposures
  BY <1>1 DEF fillStateVars, trackerVars
<1>3. LockTypeOK'
  BY LockType, Frame DEF DispatchSignal, TypeOK
<1>4. intents' \in Seq(Intent) /\ Len(intents') <= IntentCapacity
  <2>1. intents \in Seq(Intent) /\ Len(intents) <= IntentCapacity /\ Len(intents) \in Nat
    BY DEF TypeOK
  <2>2. [contract |-> c, size |-> n] \in Intent
    BY LimitsAssumption DEF Intent
  <2> QED
    BY <2>1, <2>2, LimitsAssumption DEF DispatchSignal
<1>5. TypeOK'
  BY <1>1, <1>2, <1>3, <1>4, Frame DEF TypeOK
<1>6. InFlightIndexed'
  BY <1>1, <1>2 DEF InFlightIndexed, trackerVars
<1> QED
  BY <1>5, <1>6

\* A refused intent leaves the tracker alone; its exposure comes and goes.
LEMMA RejectCore == CoreInv /\ RejectIntent => CoreInv'
<1> SUFFICES ASSUME CoreInv, RejectIntent PROVE CoreInv'
  OBVIOUS
<1> USE DEF CoreInv
<1> DEFINE i == Head(intents)
           n == i.size * LimitPrice
<1>1. /\ i.contract \in Contract /\ n \in Nat
      /\ intents' \in Seq(Intent) /\ Len(intents') <= IntentCapacity
  BY HeadIntent DEF RejectIntent
<1>2. Exposures(exposures)
  BY DEF TypeOK, ExposureTypeOK, Exposures
<1>3. Exposures(AddPending(exposures, i.contract, n))
  BY <1>1, <1>2, AddPendingType
<1>4. Exposures(RemovePending(AddPending(exposures, i.contract, n), i.contract, n))
  BY <1>1, <1>3, RemovePendingType
<1>5. ExposureTypeOK'
  BY <1>4 DEF RejectIntent, Exposures, ExposureTypeOK
<1>6. LockTypeOK'
  <2>1. {i.contract} \in SUBSET Contract
    BY <1>1
  <2> QED
    BY <2>1, LockType DEF RejectIntent, TypeOK
<1>7. TypeOK'
  BY <1>1, <1>5, <1>6, Frame DEF RejectIntent, TypeOK
<1>8. InFlightIndexed'
  BY DEF InFlightIndexed, RejectIntent, Idle
<1> QED
  BY <1>7, <1>8

\* A new submission registers its order as Pending and indexes it.
LEMMA BeginCore ==
  ASSUME CoreInv, NEW o \in OrderId, BeginSubmit(o)
  PROVE  CoreInv'
<1> USE DEF CoreInv
<1> DEFINE i == Head(intents)
           n == i.size * LimitPrice
           r == [contract |-> i.contract, price |-> LimitPrice, size |-> i.size,
                 filled |-> 0, state |-> "Pending"]
<1>1. /\ i.contract \in Contract /\ i.size \in Nat /\ n \in Nat
      /\ intents' \in Seq(Intent) /\ Len(intents') <= IntentCapacity
  BY HeadIntent DEF BeginSubmit
<1>2. Exposures(exposures)
  BY DEF TypeOK, ExposureTypeOK, Exposures
<1>3. Exposures(AddPending(exposures, i.contract, n))
  BY <1>1, <1>2, AddPendingType
<1>4. ExposureTypeOK'
  BY <1>3 DEF BeginSubmit, Exposures, ExposureTypeOK
<1>5. r \in OrderRecord
  BY <1>1, LimitsAssumption DEF OrderRecord, OrderState
<1>6. Register(o, r)
  BY DEF BeginSubmit
<1>7. TrackerTypeOK'
  BY <1>5, <1>6, RegisterType DEF TypeOK
<1>8. Request(o, i.contract, LimitPrice, i.size)
  BY DEF BeginSubmit
<1>9. VenueTypeOK'
  BY <1>1, <1>8, LimitsAssumption, RequestType DEF TypeOK
<1>10. submission' = [phase |-> "trying", order |-> o, attempts |-> 1]
  BY DEF BeginSubmit
<1>11. submission' \in Submission
  BY <1>10, LimitsAssumption, NoOrderAssumption DEF Submission
<1>12. TypeOK'
  BY <1>1, <1>4, <1>7, <1>9, <1>11, Frame DEF BeginSubmit, TypeOK
<1>13. InFlightIndexed'
  BY <1>6, <1>10 DEF InFlightIndexed, Register, Put
<1> QED
  BY <1>12, <1>13

\* An answer moves the submitted order and ends the wait for the venue.
LEMMA AttemptCore == CoreInv /\ AttemptSucceeds => CoreInv'
<1> SUFFICES ASSUME CoreInv, AttemptSucceeds PROVE CoreInv'
  OBVIOUS
<1> USE DEF CoreInv
<1>1. PICK s \in {"Acked", "Filled"} : UpdateState(submission.order, s)
  BY DEF AttemptSucceeds, Answers
<1>2. TrackerTypeOK'
  BY <1>1, UpdateStateType, {"Acked", "Filled"} \subseteq OrderState DEF TypeOK, OrderState
<1>3. submission' \in Submission /\ submission'.phase = "acking"
  BY DEF AttemptSucceeds, TypeOK, Submission
<1>4. TypeOK'
  BY <1>2, <1>3, Frame DEF AttemptSucceeds, TypeOK
<1>5. InFlightIndexed'
  BY <1>3 DEF InFlightIndexed
<1> QED
  BY <1>4, <1>5

\* The acknowledgement is queued when there is room.
LEMMA AckCore == CoreInv /\ SendAck => CoreInv'
<1> SUFFICES ASSUME CoreInv, SendAck PROVE CoreInv'
  OBVIOUS
<1> USE DEF CoreInv
<1>1. submission' = NotSubmitting
  BY DEF SendAck
<1>2. submission' \in Submission
  BY <1>1, LimitsAssumption DEF NotSubmitting, Submission
<1>3. bus' \in Seq(Event) /\ Len(bus') <= BusCapacity
  <2>1. submission.order \in OrderId
    BY DEF SendAck, TypeOK, Submission
  <2> QED
    BY <2>1, MessageTypes, PostType DEF SendAck, Event
<1>4. TypeOK'
  BY <1>2, <1>3, Frame DEF SendAck, TypeOK, fillStateVars, trackerVars
<1>5. InFlightIndexed'
  BY <1>1 DEF InFlightIndexed, NotSubmitting
<1> QED
  BY <1>4, <1>5

\* A retry counts the attempt, within the limit, and moves nothing.
LEMMA RetryCore == CoreInv /\ RetryAttempt => CoreInv'
<1> SUFFICES ASSUME CoreInv, RetryAttempt PROVE CoreInv'
  OBVIOUS
<1> USE DEF CoreInv
<1>1. /\ submission' \in Submission
      /\ submission'.phase = "trying" /\ submission'.order = submission.order
  <2> DEFINE s == submission
  <2>1. s \in Submission /\ s.phase = "trying" /\ s.attempts < MaxRetryAttempts + 1
    BY DEF RetryAttempt, TypeOK
  <2>2. s.attempts + 1 \in 0..(MaxRetryAttempts + 1)
    BY <2>1, LimitsAssumption DEF Submission
  <2>3. submission' = [s EXCEPT !.attempts = s.attempts + 1]
    BY DEF RetryAttempt
  <2> QED
    BY <2>1, <2>2, <2>3 DEF Submission
<1>2. TypeOK'
  BY <1>1, Frame DEF RetryAttempt, TypeOK, fillStateVars, trackerVars
<1>3. InFlightIndexed'
  BY <1>1 DEF InFlightIndexed, RetryAttempt, fillStateVars
<1> QED
  BY <1>2, <1>3

\* Giving up reads the record of the submitted order, which InFlightIndexed
\* says is there.
LEMMA GiveUpCore == CoreInv /\ GiveUp => CoreInv'
<1> SUFFICES ASSUME CoreInv, GiveUp PROVE CoreInv'
  OBVIOUS
<1> USE DEF CoreInv
<1> DEFINE o == submission.order
           c == orders[o].contract
           n == orders[o].size * orders[o].price
<1>1. o \in DOMAIN orders /\ o \in OrderId
  BY DEF GiveUp, InFlightIndexed, TypeOK, TrackerTypeOK
<1>2. orders[o] \in OrderRecord
  BY <1>1 DEF TypeOK, TrackerTypeOK
<1>3. c \in Contract /\ orders[o].size \in Nat /\ orders[o].price \in Nat
  BY <1>2 DEF OrderRecord
<1>4. n \in Int
  BY <1>3
<1>5. ExposureTypeOK'
  <2>1. Exposures(exposures)
    BY DEF TypeOK, ExposureTypeOK, Exposures
  <2>2. Exposures(RemovePending(exposures, c, n))
    BY <1>4, <2>1, RemovePendingType
  <2> QED
    BY <2>2 DEF GiveUp, Exposures, ExposureTypeOK
<1>6. TrackerTypeOK'
  BY UpdateStateType, "Uncertain" \in OrderState DEF GiveUp, MarkUncertain, TypeOK, OrderState
<1>7. LockTypeOK'
  <2>1. {c} \in SUBSET Contract
    BY <1>3
  <2> QED
    BY <2>1, LockType DEF GiveUp, TypeOK
<1>8. submission' = NotSubmitting /\ failed' \subseteq OrderId
  BY <1>1 DEF GiveUp, TypeOK
<1>9. submission' \in Submission
  BY <1>8, LimitsAssumption DEF NotSubmitting, Submission
<1>10. TypeOK'
  BY <1>5, <1>6, <1>7, <1>8, <1>9, Frame DEF GiveUp, TypeOK
<1>11. InFlightIndexed'
  BY <1>8 DEF InFlightIndexed, NotSubmitting
<1> QED
  BY <1>10, <1>11

\* No event is handled while the engine waits for the venue.
LEMMA EventCore == CoreInv /\ EventStep => CoreInv'
<1> SUFFICES ASSUME CoreInv, EventStep PROVE CoreInv'
  OBVIOUS
<1> USE DEF CoreInv
<1>1. Idle /\ UNCHANGED <<venueVars, intents, submission, stage, failed>>
  BY DEF EventStep, HandleOrderAck, HandleFill, HandleOrderStateChange, HandleKillSwitch,
         HandleResolution, Takes
<1>2. InFlightIndexed'
  BY <1>1 DEF InFlightIndexed, Idle
<1>3. bus' \in Seq(Event) /\ Len(bus') <= BusCapacity
  BY TakesType DEF EventStep, HandleOrderAck, HandleFill, HandleOrderStateChange,
                   HandleKillSwitch, HandleResolution
<1>4. Exposures(exposures)
  BY DEF TypeOK, ExposureTypeOK, Exposures
<1> DEFINE e == Head(bus)
<1>5. TrackerTypeOK' /\ ExposureTypeOK' /\ LockTypeOK' /\ killed' \in BOOLEAN
  <2>1. CASE HandleOrderAck
    <3>1. TrackerTypeOK'
      BY <2>1, UpdateStateType, "Acked" \in OrderState
         DEF HandleOrderAck, ProcessAck, TypeOK, OrderState
    <3> QED
      BY <2>1, <3>1, Frame DEF HandleOrderAck, ProcessAck, TypeOK
  <2>2. CASE HandleFill
    <3>1. /\ e.contract \in Contract /\ e.size \in Nat /\ e.price \in Nat
          /\ e.size * e.price \in Nat
      BY <2>2, TakesType, EventTypes DEF HandleFill
    <3>2. PICK s \in {"Filled", "PartialFill"} : TrackFill(e.order, e.size, s)
      BY <2>2 DEF HandleFill, ProcessFill
    <3>3. TrackerTypeOK'
      BY <3>1, <3>2, TrackFillType, {"Filled", "PartialFill"} \subseteq OrderState
         DEF TypeOK, OrderState
    <3>4. exposures' = ApplyFill(exposures, e.contract, e.size * e.price)
      BY <2>2 DEF HandleFill, ProcessFill
    <3>5. ExposureTypeOK'
      BY <1>4, <3>1, <3>4, ApplyFillType DEF Exposures, ExposureTypeOK
    <3> QED
      BY <2>2, <3>3, <3>5, Frame DEF HandleFill, TypeOK
  <2>3. CASE HandleOrderStateChange
    <3>1. e.order \in OrderId /\ e.state \in {"Canceled", "Rejected"}
      BY <2>3, TakesType, EventTypes DEF HandleOrderStateChange
    <3>2. UpdateState(e.order, e.state)
      BY <2>3 DEF HandleOrderStateChange, ProcessStateChange
    <3>3. TrackerTypeOK'
      BY <3>1, <3>2, UpdateStateType, {"Canceled", "Rejected"} \subseteq OrderState
         DEF TypeOK, OrderState
    <3> DEFINE r == orders[e.order]
               n == (r.size - r.filled) * r.price
    <3>4. ASSUME e.order \in DOMAIN orders PROVE ExposureTypeOK'
      <4>1. r \in OrderRecord
        BY <3>4 DEF TypeOK, TrackerTypeOK
      <4>2. n \in Int
        BY <4>1 DEF OrderRecord
      <4>3. Exposures(RemovePending(exposures, r.contract, n))
        BY <1>4, <4>2, RemovePendingType
      <4>4. exposures' = RemovePending(exposures, r.contract, n)
        BY <2>3, <3>1, <3>4 DEF HandleOrderStateChange, ProcessStateChange
      <4> QED
        BY <4>3, <4>4 DEF Exposures, ExposureTypeOK
    <3>5. ASSUME e.order \notin DOMAIN orders PROVE ExposureTypeOK'
      <4>1. exposures' = exposures
        BY <2>3, <3>5 DEF HandleOrderStateChange, ProcessStateChange
      <4> QED
        BY <4>1, Frame
    <3>6. ExposureTypeOK'
      BY <3>4, <3>5
    <3> QED
      BY <2>3, <3>3, <3>6, Frame DEF HandleOrderStateChange, TypeOK
  <2>4. CASE HandleKillSwitch
    BY <2>4, Frame DEF HandleKillSwitch, fillStateVars, trackerVars
  <2>5. CASE HandleResolution
    <3>1. e.market \ expired \in SUBSET Contract
      BY <2>5, TakesType, EventTypes DEF HandleResolution
    <3>2. LockTypeOK'
      BY <2>5, <3>1, LockType DEF HandleResolution, TypeOK
    <3> QED
      BY <2>5, <3>2, Frame DEF HandleResolution, fillStateVars, trackerVars, TypeOK
  <2> QED
    BY <2>1, <2>2, <2>3, <2>4, <2>5 DEF EventStep
<1>6. TypeOK'
  BY <1>1, <1>3, <1>5, Frame DEF TypeOK
<1> QED
  BY <1>2, <1>6

\* What goes on beside the loop leaves tracker and submission alone.
LEMMA OutsideCore ==
  ASSUME CoreInv,
         \/ FeedDelivers \/ ActivateKillSwitch \/ RequestShutdown \/ ShutDown
         \/ VenueStep \/ ClockStep
         \/ PostEvent([type |-> "KillSwitch"])
         \/ \E m \in Markets : PostEvent([type |-> "Resolution", market |-> m])
  PROVE  CoreInv'
<1> USE DEF CoreInv
<1>1. UNCHANGED <<orders, pendingContracts, exposures, intents, submission, failed>>
  BY DEF FeedDelivers, ActivateKillSwitch, RequestShutdown, ShutDown, VenueStep, ClockStep,
         PostEvent, fillStateVars, loopVars
<1>2. UNCHANGED trackerVars /\ UNCHANGED exposures /\ InFlightIndexed'
  BY <1>1 DEF trackerVars, InFlightIndexed
<1>3. /\ VenueTypeOK' /\ LockTypeOK' /\ killed' \in BOOLEAN
      /\ stage' \in {"on", "stopping", "off"}
      /\ bus' \in Seq(Event) /\ Len(bus') <= BusCapacity
  <2>1. CASE FeedDelivers
    <3>1. wire \in Seq(VenueMessage) /\ wire # << >>
      BY <2>1 DEF FeedDelivers, TypeOK, VenueTypeOK
    <3>2. Head(wire) \in Event /\ Tail(wire) \in Seq(VenueMessage)
      BY <3>1 DEF Event
    <3>3. bus' \in Seq(Event) /\ Len(bus') <= BusCapacity
      BY <2>1, <3>2, PostType DEF FeedDelivers
    <3>4. VenueTypeOK'
      BY <2>1, <3>2 DEF FeedDelivers, TypeOK, VenueTypeOK
    <3> QED
      BY <2>1, <3>3, <3>4, Frame DEF FeedDelivers, TypeOK
  <2>2. CASE ActivateKillSwitch
    BY <2>2, Frame DEF ActivateKillSwitch, TypeOK
  <2>3. CASE RequestShutdown
    BY <2>3, Frame DEF RequestShutdown, TypeOK
  <2>4. CASE ShutDown
    <3>1. bus' \in Seq(Event) /\ Len(bus') <= BusCapacity
      BY <2>4, LimitsAssumption DEF ShutDown
    <3> QED
      BY <2>4, <3>1, Frame DEF ShutDown, TypeOK
  <2>5. CASE VenueStep
    <3>1. VenueTypeOK'
      BY <2>5, VenueActsType, WireType DEF VenueStep, TypeOK
    <3> QED
      BY <2>5, <3>1, Frame DEF VenueStep, TypeOK, loopVars
  <2>6. CASE ClockStep
    <3>1. LockTypeOK'
      BY <2>6, LockType DEF ClockStep, TypeOK
    <3> QED
      BY <2>6, <3>1, Frame DEF ClockStep, TypeOK, loopVars
  <2>7. ASSUME NEW e \in Event, PostEvent(e)
        PROVE  /\ bus' \in Seq(Event) /\ Len(bus') <= BusCapacity
               /\ UNCHANGED venueVars /\ UNCHANGED lockVars /\ UNCHANGED <<killed, stage>>
    BY <2>7, PostType DEF PostEvent
  <2>8. CASE \/ PostEvent([type |-> "KillSwitch"])
             \/ \E m \in Markets : PostEvent([type |-> "Resolution", market |-> m])
    <3>1. PICK e \in Event : PostEvent(e)
      BY <2>8, LimitsAssumption DEF Event
    <3> QED
      BY <2>7, <3>1, Frame DEF TypeOK
  <2> QED
    BY <2>1, <2>2, <2>3, <2>4, <2>5, <2>6, <2>8
<1>4. TypeOK'
  BY <1>1, <1>2, <1>3, Frame DEF TypeOK
<1> QED
  BY <1>2, <1>4

\* Every step keeps CoreInv.
LEMMA CoreStep == CoreInv /\ [Next]_vars => CoreInv'
<1> SUFFICES ASSUME CoreInv, [Next]_vars PROVE CoreInv'
  OBVIOUS
<1>1. CASE UNCHANGED vars
  <2>1. /\ UNCHANGED trackerVars /\ UNCHANGED exposures /\ UNCHANGED venueVars
        /\ UNCHANGED lockVars
        /\ UNCHANGED <<orders, pendingContracts, intents, bus, submission, killed, stage, failed>>
    BY <1>1 DEF vars, fillStateVars, trackerVars, loopVars
  <2> QED
    BY <2>1, Frame DEF CoreInv, TypeOK, InFlightIndexed
<1>2. CASE Next
  BY <1>2, DispatchCore, RejectCore, BeginCore, AttemptCore, AckCore, RetryCore,
     GiveUpCore, EventCore, OutsideCore
     DEF Next, IntentStep, SubmitStep
<1> QED
  BY <1>1, <1>2

\* Every reachable state of the main loop is well typed: queues keep within
\* their capacities, exposures never become negative, and while the engine
\* waits for the venue its order stays the one its contract is blocked by.
LEMMA CoreInvariant == Spec => []CoreInv
  BY CoreInit, CoreStep, PTL DEF Spec

\* Type correctness of the composed loop: records, messages, both queues within
\* their capacities, attempts within the retry limit.
THEOREM LoopTypes == Spec => []TypeOK
<1>1. CoreInv => TypeOK
  BY DEF CoreInv
<1> QED
  BY <1>1, CoreInvariant, PTL

\* While a submission is under way its order is Pending and blocks its
\* contract: nothing that the engine awaits lets another handler interfere.
THEOREM InFlightStaysIndexed == Spec => []InFlightIndexed
<1>1. CoreInv => InFlightIndexed
  BY DEF CoreInv
<1> QED
  BY <1>1, CoreInvariant, PTL

-----------------------------------------------------------------------------
(* The contract lock does its work: with no producer of Resolution events,  *)
(* as in the application, a contract stays locked from the dispatch of a    *)
(* signal until its market expires or its submission fails, and is entered  *)
(* at most once.                                                            *)

\* Neither property is inductive alone: the lock keeps a second intent out,
\* and that there is no second one keeps a cooldown from opening the lock.
\* A failing submission is not among those that failed before, and the bus
\* carries no resolution.
EntryInv ==
  /\ CoreInv
  /\ LockedWhileCommitted
  /\ SingleEntry
  /\ failed \subseteq DOMAIN orders
  /\ submission.phase = "trying" => submission.order \notin failed
  /\ \A i \in DOMAIN bus : bus[i].type # "Resolution"

-----------------------------------------------------------------------------
\* A step that leaves queue, locks and failures alone and keeps every order's
\* contract keeps both properties.
LEMMA EntryFrame ==
  ASSUME EntryInv, UNCHANGED <<intents, failed, lock, expired>>,
         DOMAIN orders' = DOMAIN orders,
         \A q \in DOMAIN orders : orders'[q].contract = orders[q].contract
  PROVE  LockedWhileCommitted' /\ SingleEntry' /\ (failed \subseteq DOMAIN orders)'
  BY DEF EntryInv, LockedWhileCommitted, SingleEntry

\* The bus stays free of resolutions when one that is none is added or one
\* is taken.
LEMMA QuietAppend ==
  ASSUME bus \in Seq(Event), \A i \in DOMAIN bus : bus[i].type # "Resolution",
         NEW e \in Event, e.type # "Resolution", bus' = Append(bus, e)
  PROVE  \A i \in DOMAIN bus' : bus'[i].type # "Resolution"
  BY AppendElements

\* A bus without resolutions has none when its head is taken.
LEMMA QuietTail ==
  ASSUME bus \in Seq(Event), \A i \in DOMAIN bus : bus[i].type # "Resolution",
         bus # << >>, bus' = Tail(bus)
  PROVE  \A i \in DOMAIN bus' : bus'[i].type # "Resolution"
  BY TailElements

\* Commitments concern contracts.
LEMMA CommittedTypes ==
  ASSUME TypeOK
  PROVE  /\ \A i \in DOMAIN intents : intents[i].contract \in Contract
         /\ \A o \in DOMAIN orders : orders[o].contract \in Contract
<1>1. \A i \in DOMAIN intents : intents[i] \in Intent
  <2>1. intents \in Seq(Intent)
    BY DEF TypeOK
  <2> QED
    BY <2>1
<1>2. \A o \in DOMAIN orders : orders[o] \in OrderRecord
  BY DEF TypeOK, TrackerTypeOK
<1> QED
  BY <1>1, <1>2 DEF Intent, OrderRecord

-----------------------------------------------------------------------------
\* A signal passes the gates only for a contract nothing is committed to.
LEMMA DispatchEntry ==
  ASSUME EntryInv, NEW c \in Contract, NEW n \in Sizes, DispatchSignal(c, n)
  PROVE  LockedWhileCommitted' /\ SingleEntry'
<1>1. lock[c] = "Unlocked" /\ c \notin expired
  BY DEF DispatchSignal, SignalAccepted, IsTradeable
<1>2. /\ \A i \in DOMAIN intents : intents[i].contract # c
      /\ \A o \in DOMAIN orders \ failed : orders[o].contract # c
  BY <1>1 DEF EntryInv, LockedWhileCommitted
<1>3. UNCHANGED <<orders, failed, expired>>
  BY DEF DispatchSignal, fillStateVars, Lock, lockVars
<1>4. CASE UNCHANGED <<intents, lockVars>>
  BY <1>3, <1>4, EntryFrame DEF lockVars
<1>5. CASE intents' = Append(intents, [contract |-> c, size |-> n]) /\ Lock(c)
  <2>1. intents \in Seq(Intent) /\ [contract |-> c, size |-> n] \in Intent
    BY LimitsAssumption DEF EntryInv, CoreInv, TypeOK, Intent
  <2>2. /\ DOMAIN intents' = DOMAIN intents \cup {Len(intents) + 1}
        /\ Len(intents) + 1 \notin DOMAIN intents
        /\ intents'[Len(intents) + 1].contract = c
        /\ \A i \in DOMAIN intents : intents'[i] = intents[i]
    BY <1>5, <2>1
  <2>3. /\ lock'[c] = "Locked"
        /\ \A d \in Contract \ {c} : lock'[d] = lock[d]
    BY <1>5 DEF Lock, EntryInv, CoreInv, TypeOK, LockTypeOK
  <2>4. /\ \A i \in DOMAIN intents : intents[i].contract \in Contract
        /\ \A o \in DOMAIN orders : orders[o].contract \in Contract
    BY CommittedTypes DEF EntryInv, CoreInv
  <2>5. LockedWhileCommitted'
    BY <1>2, <1>3, <2>2, <2>3, <2>4 DEF EntryInv, LockedWhileCommitted
  <2>6. SingleEntry'
    BY <1>2, <1>3, <2>2 DEF EntryInv, SingleEntry
  <2> QED
    BY <2>5, <2>6
<1> QED
  BY <1>4, <1>5 DEF DispatchSignal

\* Sending into cooldown a contract that nothing is committed to any more
\* opens no lock that is needed.
LEMMA CooldownEntry ==
  ASSUME EntryInv, NEW c \in Contract, Cooldown({c})
  PROVE  /\ \A d \in Contract \ {c} : lock'[d] = lock[d]
         /\ expired' = expired
  BY DEF Cooldown

\* A refused intent was the only commitment to its contract.
LEMMA RejectEntry ==
  ASSUME EntryInv, RejectIntent
  PROVE  LockedWhileCommitted' /\ SingleEntry'
<1> DEFINE c == Head(intents).contract
<1>1. intents \in Seq(Intent) /\ intents # << >> /\ c \in Contract
  BY HeadIntent DEF RejectIntent, EntryInv, CoreInv, TypeOK
<1>2. /\ 1 \in DOMAIN intents /\ intents[1].contract = c
      /\ \A i \in DOMAIN intents' : /\ intents'[i] = intents[i + 1]
                                    /\ i + 1 \in DOMAIN intents /\ i + 1 # 1 /\ i \in Nat
  BY <1>1 DEF RejectIntent
<1>3. UNCHANGED <<orders, failed>>
  BY DEF RejectIntent, trackerVars
<1>4. /\ \A d \in Contract \ {c} : lock'[d] = lock[d]
      /\ expired' = expired
  BY <1>1, CooldownEntry DEF RejectIntent
<1>5. /\ \A i \in DOMAIN intents' : intents'[i].contract # c
      /\ \A o \in DOMAIN orders \ failed : orders[o].contract # c
  BY <1>2 DEF EntryInv, SingleEntry
<1>6. /\ \A i \in DOMAIN intents' : intents'[i].contract \in Contract
      /\ \A o \in DOMAIN orders : orders[o].contract \in Contract
  BY <1>2, CommittedTypes DEF EntryInv, CoreInv
<1>7. LockedWhileCommitted'
  BY <1>2, <1>3, <1>4, <1>5, <1>6 DEF EntryInv, LockedWhileCommitted
<1>8. \A i, j \in DOMAIN intents' : intents'[i].contract = intents'[j].contract => i = j
  BY <1>2 DEF EntryInv, SingleEntry
<1>9. SingleEntry'
  BY <1>2, <1>3, <1>8 DEF EntryInv, SingleEntry
<1> QED
  BY <1>7, <1>9

\* The intent's commitment passes to the order made of it.
LEMMA BeginEntry ==
  ASSUME EntryInv, NEW o \in OrderId, BeginSubmit(o)
  PROVE  /\ LockedWhileCommitted' /\ SingleEntry'
         /\ (failed \subseteq DOMAIN orders)'
         /\ submission'.order \notin failed'
<1> DEFINE c == Head(intents).contract
<1>1. intents \in Seq(Intent) /\ intents # << >>
  BY DEF BeginSubmit, EntryInv, CoreInv, TypeOK
<1>2. /\ 1 \in DOMAIN intents /\ intents[1].contract = c
      /\ \A i \in DOMAIN intents' : /\ intents'[i] = intents[i + 1]
                                    /\ i + 1 \in DOMAIN intents /\ i + 1 # 1 /\ i \in Nat
  BY <1>1 DEF BeginSubmit
<1>3. UNCHANGED <<failed, lock, expired>> /\ o \notin DOMAIN orders /\ o \notin failed
  BY DEF BeginSubmit, lockVars, EntryInv
<1>4. /\ DOMAIN orders' = {o} \cup DOMAIN orders
      /\ orders'[o].contract = c
      /\ \A q \in DOMAIN orders : orders'[q] = orders[q]
  BY <1>3 DEF BeginSubmit, Register, Put
<1>5. LockedWhileCommitted'
  BY <1>2, <1>3, <1>4 DEF EntryInv, LockedWhileCommitted
<1>6. \A i, j \in DOMAIN intents' : intents'[i].contract = intents'[j].contract => i = j
  BY <1>2 DEF EntryInv, SingleEntry
<1>7. \A q \in DOMAIN orders' \ failed' :
        /\ \A i \in DOMAIN intents' : intents'[i].contract # orders'[q].contract
        /\ \A r \in DOMAIN orders' \ failed' :
             orders'[q].contract = orders'[r].contract => q = r
  BY <1>2, <1>3, <1>4 DEF EntryInv, SingleEntry
<1>8. SingleEntry'
  BY <1>6, <1>7 DEF SingleEntry
<1>9. submission'.order \notin failed' /\ (failed \subseteq DOMAIN orders)'
  BY <1>3, <1>4 DEF BeginSubmit, EntryInv
<1> QED
  BY <1>5, <1>8, <1>9

\* The failed order was the only commitment to its contract.
LEMMA GiveUpEntry ==
  ASSUME EntryInv, GiveUp
  PROVE  /\ LockedWhileCommitted' /\ SingleEntry'
         /\ (failed \subseteq DOMAIN orders)'
<1> DEFINE o == submission.order
           c == orders[o].contract
<1>1. o \in DOMAIN orders \ failed /\ o \in OrderId /\ TrackerTypeOK
  BY DEF GiveUp, EntryInv, CoreInv, InFlightIndexed, TypeOK, TrackerTypeOK
<1>2. c \in Contract /\ \A q \in DOMAIN orders : orders[q].contract \in Contract
  BY <1>1 DEF TrackerTypeOK, OrderRecord
<1>3. /\ DOMAIN orders' = DOMAIN orders
      /\ \A q \in DOMAIN orders : orders'[q].contract = orders[q].contract
  BY <1>1, SameOrders, "Uncertain" \in OrderState DEF GiveUp, MarkUncertain, OrderState
<1>4. intents' = intents /\ failed' = failed \cup {o}
  BY DEF GiveUp
<1>5. /\ \A d \in Contract \ {c} : lock'[d] = lock[d]
      /\ expired' = expired
  BY <1>2, CooldownEntry DEF GiveUp
<1>6. /\ \A i \in DOMAIN intents : intents[i].contract # c
      /\ \A q \in DOMAIN orders \ failed' : orders[q].contract # c
  BY <1>1, <1>4 DEF EntryInv, SingleEntry
<1>7. \A i \in DOMAIN intents : intents[i].contract \in Contract
  BY CommittedTypes DEF EntryInv, CoreInv
<1>8. LockedWhileCommitted'
  BY <1>2, <1>3, <1>4, <1>5, <1>6, <1>7 DEF EntryInv, LockedWhileCommitted
<1>9. SingleEntry'
  BY <1>3, <1>4 DEF EntryInv, SingleEntry
<1>10. (failed \subseteq DOMAIN orders)'
  BY <1>1, <1>3, <1>4 DEF EntryInv
<1> QED
  BY <1>8, <1>9, <1>10

\* An event moves the order it is about, if any.
LEMMA EventMoves ==
  ASSUME TypeOK, EventStep
  PROVE  \/ \E o \in OrderId, s \in OrderState : UpdateState(o, s)
         \/ \E o \in OrderId, n \in Nat, s \in OrderState : TrackFill(o, n, s)
         \/ UNCHANGED orders
<1> DEFINE e == Head(bus)
<1>1. CASE HandleOrderAck
  <2>1. e.order \in OrderId /\ "Acked" \in OrderState
    BY <1>1, TakesType, EventTypes DEF HandleOrderAck, OrderState
  <2> QED
    BY <1>1, <2>1 DEF HandleOrderAck, ProcessAck
<1>2. CASE HandleFill
  <2>1. /\ e.order \in OrderId /\ e.size \in Nat
        /\ "Filled" \in OrderState /\ "PartialFill" \in OrderState
    BY <1>2, TakesType, EventTypes DEF HandleFill, OrderState
  <2> QED
    BY <1>2, <2>1 DEF HandleFill, ProcessFill
<1>3. CASE HandleOrderStateChange
  <2>1. e.order \in OrderId /\ e.state \in OrderState
    BY <1>3, TakesType, EventTypes DEF HandleOrderStateChange, OrderState
  <2> QED
    BY <1>3, <2>1 DEF HandleOrderStateChange, ProcessStateChange
<1>4. CASE HandleKillSwitch \/ HandleResolution
  BY <1>4 DEF HandleKillSwitch, HandleResolution, fillStateVars
<1> QED
  BY <1>1, <1>2, <1>3, <1>4 DEF EventStep

\* Messages change no commitment; resolutions are ruled out.
LEMMA EventEntry ==
  ASSUME EntryInv, EventStep
  PROVE  /\ LockedWhileCommitted' /\ SingleEntry'
         /\ (failed \subseteq DOMAIN orders)'
         /\ UNCHANGED <<submission, failed>>
         /\ \A i \in DOMAIN bus' : bus'[i].type # "Resolution"
<1>1. bus \in Seq(Event) /\ TypeOK /\ TrackerTypeOK
  BY DEF EntryInv, CoreInv, TypeOK
<1>2. ~HandleResolution
  BY <1>1 DEF EntryInv, HandleResolution, Takes
<1>3. /\ bus # << >> /\ bus' = Tail(bus)
      /\ UNCHANGED <<intents, failed, submission>> /\ UNCHANGED lockVars
  BY <1>2 DEF EventStep, HandleOrderAck, HandleFill, HandleOrderStateChange,
              HandleKillSwitch, Takes
<1>5. /\ DOMAIN orders' = DOMAIN orders
      /\ \A q \in DOMAIN orders : orders'[q].contract = orders[q].contract
  BY <1>1, EventMoves, SameOrders
<1>6. UNCHANGED <<intents, failed, lock, expired>>
  BY <1>3 DEF lockVars
<1>7. \A i \in DOMAIN bus' : bus'[i].type # "Resolution"
  BY <1>1, <1>3, QuietTail DEF EntryInv
<1> QED
  BY <1>3, <1>5, <1>6, <1>7, EntryFrame

\* Time releases a locked contract only after its market's expiry.
LEMMA ClockEntry ==
  ASSUME EntryInv, ClockStep
  PROVE  LockedWhileCommitted' /\ SingleEntry'
<1>1. UNCHANGED <<orders, intents, failed>>
  BY DEF ClockStep, fillStateVars, loopVars
<1>2. /\ expired \subseteq expired'
      /\ \A c \in Contract : lock[c] = "Locked" /\ c \notin expired => lock'[c] = "Locked"
  BY DEF ClockStep, TimePasses
<1>3. LockedWhileCommitted'
  BY <1>1, <1>2, CommittedTypes DEF EntryInv, CoreInv, LockedWhileCommitted
<1>4. SingleEntry'
  BY <1>1 DEF EntryInv, SingleEntry
<1> QED
  BY <1>3, <1>4

\* The loop starts in EntryInv.
LEMMA EntryInit == Init => EntryInv
<1>1. Init => /\ DOMAIN intents = {} /\ DOMAIN orders = {} /\ DOMAIN bus = {}
              /\ failed = {} /\ submission.phase = "idle"
  BY DEF Init, TrackerInit, NotSubmitting
<1> QED
  BY <1>1, CoreInit DEF EntryInv, LockedWhileCommitted, SingleEntry

\* Every step keeps EntryInv, as long as no resolution is posted.
LEMMA EntryStep ==
  ASSUME "Resolution" \notin Stimuli, EntryInv, [Next]_vars
  PROVE  EntryInv'
<1>1. CoreInv'
  BY CoreStep DEF EntryInv
<1> DEFINE Rest == /\ LockedWhileCommitted /\ SingleEntry
                   /\ failed \subseteq DOMAIN orders
                   /\ submission.phase = "trying" => submission.order \notin failed
                   /\ \A i \in DOMAIN bus : bus[i].type # "Resolution"
<1>2. bus \in Seq(Event) /\ TypeOK /\ TrackerTypeOK
  BY DEF EntryInv, CoreInv, TypeOK
<1>3. ASSUME NEW c \in Contract, NEW n \in Sizes, DispatchSignal(c, n) PROVE Rest'
  BY <1>3, DispatchEntry DEF EntryInv, DispatchSignal, fillStateVars
<1>4. ASSUME RejectIntent PROVE Rest'
  BY <1>4, RejectEntry DEF EntryInv, RejectIntent, trackerVars
<1>5. ASSUME NEW o \in OrderId, BeginSubmit(o) PROVE Rest'
  BY <1>5, BeginEntry DEF EntryInv, BeginSubmit
<1>6. ASSUME AttemptSucceeds PROVE Rest'
  <2>1. /\ submission'.phase = "acking" /\ UNCHANGED <<intents, failed, bus>>
        /\ UNCHANGED lockVars
        /\ submission.order \in OrderId
    BY <1>2, <1>6 DEF AttemptSucceeds, TypeOK, Submission
  <2>2. PICK s \in OrderState : UpdateState(submission.order, s)
    BY <1>6 DEF AttemptSucceeds, Answers, OrderState
  <2>3. /\ DOMAIN orders' = DOMAIN orders
        /\ \A q \in DOMAIN orders : orders'[q].contract = orders[q].contract
    BY <1>2, <2>1, <2>2, SameOrders
  <2> QED
    BY <2>1, <2>3, EntryFrame DEF EntryInv, lockVars
<1>7. ASSUME SendAck PROVE Rest'
  <2>1. /\ submission' = NotSubmitting
        /\ UNCHANGED <<orders, intents, failed, lock, expired>>
        /\ submission.order \in OrderId
        /\ bus' = Append(bus, AckEvent(submission.order))
    BY <1>2, <1>7 DEF SendAck, fillStateVars, lockVars, TypeOK, Submission
  <2>2. AckEvent(submission.order) \in Event /\ AckEvent(submission.order).type # "Resolution"
    BY <2>1, MessageTypes DEF Event, AckEvent
  <2>3. \A i \in DOMAIN bus' : bus'[i].type # "Resolution"
    BY <1>2, <2>1, <2>2, QuietAppend DEF EntryInv
  <2> QED
    BY <2>1, <2>3, EntryFrame DEF EntryInv, NotSubmitting
<1>8. ASSUME RetryAttempt PROVE Rest'
  <2>1. /\ submission'.phase = submission.phase /\ submission'.order = submission.order
        /\ UNCHANGED <<orders, intents, failed, lock, expired, bus>>
    BY <1>2, <1>8 DEF RetryAttempt, fillStateVars, lockVars, TypeOK, Submission
  <2> QED
    BY <2>1, EntryFrame DEF EntryInv
<1>9. ASSUME GiveUp PROVE Rest'
  BY <1>9, GiveUpEntry DEF EntryInv, GiveUp, NotSubmitting
<1>10. ASSUME EventStep PROVE Rest'
  BY <1>10, EventEntry DEF EntryInv
<1>11. ASSUME FeedDelivers PROVE Rest'
  <2>1. /\ UNCHANGED <<orders, intents, failed, lock, expired, submission>>
        /\ wire \in Seq(VenueMessage) /\ wire # << >> /\ bus' = Append(bus, Head(wire))
    BY <1>2, <1>11 DEF FeedDelivers, fillStateVars, lockVars, TypeOK, VenueTypeOK
  <2>2. Head(wire) \in VenueMessage
    BY <2>1
  <2>3. Head(wire) \in Event /\ Head(wire).type # "Resolution"
    BY <2>2 DEF Event, VenueMessage
  <2>4. \A i \in DOMAIN bus' : bus'[i].type # "Resolution"
    BY <1>2, <2>1, <2>3, QuietAppend DEF EntryInv
  <2> QED
    BY <2>1, <2>4, EntryFrame DEF EntryInv
<1>12. ASSUME NEW e \in Event, PostEvent(e) PROVE Rest'
  <2>1. /\ UNCHANGED <<orders, intents, failed, lock, expired, submission>>
        /\ e.type # "Resolution" /\ bus' = Append(bus, e)
    BY <1>12 DEF PostEvent, fillStateVars, lockVars
  <2>2. \A i \in DOMAIN bus' : bus'[i].type # "Resolution"
    BY <1>2, <2>1, QuietAppend DEF EntryInv
  <2> QED
    BY <2>1, <2>2, EntryFrame DEF EntryInv
<1>13. ASSUME ActivateKillSwitch \/ RequestShutdown \/ ShutDown \/ VenueStep \/ UNCHANGED vars
       PROVE  Rest'
  <2>1. UNCHANGED <<orders, intents, failed, lock, expired, submission>>
    BY <1>13 DEF ActivateKillSwitch, RequestShutdown, ShutDown, VenueStep, vars,
                 fillStateVars, lockVars, loopVars
  <2>2. bus' = bus \/ bus' = << >>
    BY <1>13 DEF ActivateKillSwitch, RequestShutdown, ShutDown, VenueStep, vars, loopVars
  <2>3. \A i \in DOMAIN bus' : bus'[i].type # "Resolution"
    BY <2>2 DEF EntryInv
  <2> QED
    BY <2>1, <2>3, EntryFrame DEF EntryInv
<1>14. ASSUME ClockStep PROVE Rest'
  BY <1>14, ClockEntry DEF EntryInv, ClockStep, fillStateVars, loopVars
<1>15. [type |-> "KillSwitch"] \in Event
       /\ \A m \in Markets : [type |-> "Resolution", market |-> m] \in Event
  BY LimitsAssumption DEF Event
<1>16. Rest'
  BY <1>3, <1>4, <1>5, <1>6, <1>7, <1>8, <1>9, <1>10, <1>11, <1>12, <1>13, <1>14, <1>15
     DEF Next, IntentStep, SubmitStep
<1> QED
  BY <1>1, <1>16 DEF EntryInv

\* From dispatch to expiry or failure the contract's lock is closed.
THEOREM LockProtects ==
  ASSUME "Resolution" \notin Stimuli
  PROVE  Spec => []LockedWhileCommitted
<1>1. EntryInv /\ [Next]_vars => EntryInv'
  BY EntryStep
<1>2. EntryInv => LockedWhileCommitted
  BY DEF EntryInv
<1> QED
  BY <1>1, <1>2, EntryInit, PTL DEF Spec

\* No contract is entered twice, unless the first entry failed.
THEOREM EnteredOnce ==
  ASSUME "Resolution" \notin Stimuli
  PROVE  Spec => []SingleEntry
<1>1. EntryInv /\ [Next]_vars => EntryInv'
  BY EntryStep
<1>2. EntryInv => SingleEntry
  BY DEF EntryInv
<1> QED
  BY <1>1, <1>2, EntryInit, PTL DEF Spec

-----------------------------------------------------------------------------
(* What the bot believes of its orders: an order held for finished is       *)
(* finished at the venue, in the same way, and uncertainty about an order   *)
(* ends only with word of the venue; whatever is lost, repeated or late.    *)

\* A message tells the truth, and keeps telling it however long it travels:
\* it concerns an order the venue was asked for, and what it calls finished
\* is finished for good.
MessageSound(m) ==
  m.type \in {"OrderAck", "Fill", "OrderStateChange"} =>
    /\ m.order \in DOMAIN venue
    /\ m.type = "OrderStateChange" => venue[m.order].status = m.state
    /\ m.type = "Fill" /\ m.remaining = 0 => venue[m.order].status = "Filled"

\* The order an acknowledgement is about to be sent for is a known one.
AckedOnRecord ==
  submission.phase = "acking" => submission.order \in DOMAIN orders

BeliefInv ==
  /\ CoreInv
  /\ DOMAIN venue = DOMAIN orders
  /\ \A i \in DOMAIN wire : MessageSound(wire[i])
  /\ \A i \in DOMAIN bus : MessageSound(bus[i])
  /\ AckedOnRecord
  /\ TerminalBeliefSound

-----------------------------------------------------------------------------
\* What the venue finished stays finished, and what it says is so.
LEMMA ExchangeTells ==
  ASSUME VenueTypeOK, ExchangeActs
  PROVE  /\ DOMAIN venue' = DOMAIN venue
         /\ \A o \in DOMAIN venue :
              venue[o].status \in Terminal => venue'[o].status = venue[o].status
         /\ \E m \in VenueMessage : wire' = Append(wire, m) /\ MessageSound(m)'
<1>1. PICK o \in DOMAIN venue :
        \/ Accept(o) \/ Reject(o) \/ Cancel(o)
        \/ \E n \in 1..venue[o].size, p \in FillPrices : Fill(o, n, p)
  BY DEF ExchangeActs
<1>2. o \in OrderId /\ venue[o] \in VenueOrder
  BY DEF VenueTypeOK
<1>3. ASSUME NEW s \in {"Open", "Canceled", "Rejected"}, NEW m \in VenueMessage,
             venue[o].status \in {"Requested", "Open"},
             venue' = [venue EXCEPT ![o].status = s], wire' = Append(wire, m),
             m.type # "Fill", m.order = o, m.type = "OrderStateChange" => m.state = s
      PROVE  /\ DOMAIN venue' = DOMAIN venue
             /\ \A q \in DOMAIN venue :
                  venue[q].status \in Terminal => venue'[q].status = venue[q].status
             /\ MessageSound(m)'
  <2>1. DOMAIN venue' = DOMAIN venue /\ venue'[o].status = s
    BY <1>2, <1>3 DEF VenueTypeOK, VenueOrder
  <2>2. \A q \in DOMAIN venue : q # o => venue'[q] = venue[q]
    BY <1>3 DEF VenueTypeOK
  <2>3. MessageSound(m)'
    BY <1>3, <2>1 DEF MessageSound
  <2> QED
    BY <1>3, <2>1, <2>2, <2>3 DEF Terminal
<1>4. CASE Accept(o)
  <2>1. AckEvent(o) \in VenueMessage
    BY <1>2, MessageTypes
  <2> QED
    BY <1>3, <1>4, <2>1 DEF Accept, AckEvent
<1>5. CASE Reject(o)
  <2>1. StateChangeEvent(o, "Rejected") \in VenueMessage
    BY <1>2, MessageTypes
  <2> QED
    BY <1>3, <1>5, <2>1 DEF Reject, StateChangeEvent
<1>6. CASE Cancel(o)
  <2>1. StateChangeEvent(o, "Canceled") \in VenueMessage
    BY <1>2, MessageTypes
  <2> QED
    BY <1>3, <1>6, <2>1 DEF Cancel, StateChangeEvent
<1>7. ASSUME NEW n \in 1..venue[o].size, NEW p \in FillPrices, Fill(o, n, p)
      PROVE  /\ DOMAIN venue' = DOMAIN venue
             /\ \A q \in DOMAIN venue :
                  venue[q].status \in Terminal => venue'[q].status = venue[q].status
             /\ \E m \in VenueMessage : wire' = Append(wire, m) /\ MessageSound(m)'
  <2> DEFINE r == venue[o]
             left == r.size - (r.filled + n)
  <2>1. /\ r.filled \in Nat /\ r.size \in Nat /\ r.contract \in Contract
        /\ n \in Nat /\ p \in Nat
    <3>1. r.filled \in Nat /\ r.size \in Nat /\ r.contract \in Contract
      BY <1>2 DEF VenueOrder
    <3>2. n \in Nat
      BY <3>1
    <3>3. p \in Nat
      BY LimitsAssumption
    <3> QED
      BY <3>1, <3>2, <3>3
  <2>2. left \in Nat /\ (left = 0 <=> r.filled + n = r.size)
    <3>1. r.filled + n <= r.size
      BY <1>7 DEF Fill
    <3> QED
      BY <2>1, <3>1
  <2>3. PICK m \in VenueMessage, rest \in Nat :
          rest = left /\ m = FillEvent(o, r.contract, n, p, rest)
    BY <1>2, <2>1, <2>2, MessageTypes
  <2>4. /\ DOMAIN venue' = DOMAIN venue
        /\ \A q \in DOMAIN venue : q # o => venue'[q] = venue[q]
        /\ r.filled + n = r.size => venue'[o].status = "Filled"
    BY <1>2, <1>7 DEF Fill, VenueTypeOK, VenueOrder
  <2>5. r.status = "Open" /\ wire' = Append(wire, m)
    BY <1>7, <2>3 DEF Fill
  <2>6. m.type = "Fill" /\ m.order = o /\ m.remaining = rest
    BY <2>3 DEF FillEvent
  <2>7. rest = 0 => venue'[o].status = "Filled"
    BY <2>2, <2>3, <2>4
  <2>8. MessageSound(m)'
    BY <2>4, <2>6, <2>7 DEF MessageSound
  <2> QED
    BY <2>4, <2>5, <2>8 DEF Terminal
<1> QED
  BY <1>1, <1>4, <1>5, <1>6, <1>7

\* The simulation says nothing.
LEMMA VenueTells ==
  ASSUME VenueTypeOK, VenueActs
  PROVE  /\ DOMAIN venue' = DOMAIN venue
         /\ \A o \in DOMAIN venue :
              venue[o].status \in Terminal => venue'[o].status = venue[o].status
         /\ \/ wire' = wire
            \/ \E m \in VenueMessage : wire' = Append(wire, m) /\ MessageSound(m)'
<1>1. CASE ExchangeActs
  BY <1>1, ExchangeTells
<1>2. CASE SimulationActs
  BY <1>2, SimulationDoes DEF Terminal
<1> QED
  BY <1>1, <1>2 DEF VenueActs

\* Soundness of messages and beliefs survives whatever the venue finishes.
LEMMA SoundnessLasts ==
  ASSUME DOMAIN venue \subseteq DOMAIN venue',
         \A o \in DOMAIN venue :
           venue[o].status \in Terminal => venue'[o].status = venue[o].status,
         NEW m \in Event, MessageSound(m)
  PROVE  MessageSound(m)'
<1>1. m.type = "OrderStateChange" => m.state \in Terminal
  BY EventTypes DEF Terminal
<1> QED
  BY <1>1 DEF MessageSound, Terminal

-----------------------------------------------------------------------------
\* The venue's side of a step: it forgets no order and changes no outcome.
VenueGrows ==
  /\ DOMAIN venue \subseteq DOMAIN venue'
  /\ \A o \in DOMAIN venue :
       venue[o].status \in Terminal => venue'[o].status = venue[o].status

\* Every message of a step's queues was there before, or is sound after it.
QueuesSound ==
  /\ \A i \in DOMAIN wire' : \/ \E j \in DOMAIN wire : wire'[i] = wire[j]
                             \/ wire'[i] \in Event /\ MessageSound(wire[i])'
  /\ \A i \in DOMAIN bus' : \/ \E j \in DOMAIN bus : bus'[i] = bus[j]
                            \/ \E j \in DOMAIN wire : bus'[i] = wire[j]
                            \/ bus'[i] \in Event /\ MessageSound(bus[i])'

\* What travels on the wire and on the bus are events.
LEMMA QueuedEvents ==
  ASSUME TypeOK
  PROVE  /\ \A i \in DOMAIN wire : wire[i] \in Event
         /\ \A i \in DOMAIN bus : bus[i] \in Event
<1>1. wire \in Seq(VenueMessage) /\ bus \in Seq(Event)
  BY DEF TypeOK, VenueTypeOK
<1> QED
  BY <1>1 DEF Event

\* If queues gain only sound messages and the venue takes nothing back, every
\* message stays sound.
LEMMA MessagesStaySound ==
  ASSUME BeliefInv, VenueGrows, QueuesSound
  PROVE  /\ \A i \in DOMAIN wire' : MessageSound(wire[i])'
         /\ \A i \in DOMAIN bus' : MessageSound(bus[i])'
<1>1. ASSUME NEW m \in Event, MessageSound(m) PROVE MessageSound(m)'
  BY <1>1, SoundnessLasts DEF VenueGrows
<1>2. /\ \A i \in DOMAIN wire : wire[i] \in Event /\ MessageSound(wire[i])
      /\ \A i \in DOMAIN bus : bus[i] \in Event /\ MessageSound(bus[i])
  BY QueuedEvents DEF BeliefInv, CoreInv
<1>3. ASSUME NEW i \in DOMAIN wire', NEW j \in DOMAIN wire, wire'[i] = wire[j]
      PROVE  MessageSound(wire[i])'
  <2>1. PICK m \in Event : m = wire[j] /\ m = wire'[i] /\ MessageSound(m)
    BY <1>2, <1>3
  <2>2. MessageSound(m)'
    BY <1>1, <2>1
  <2> QED
    BY <2>1, <2>2 DEF MessageSound
<1>4. ASSUME NEW i \in DOMAIN bus', NEW m \in Event, MessageSound(m), bus'[i] = m
      PROVE  MessageSound(bus[i])'
  <2>1. MessageSound(m)'
    BY <1>1, <1>4
  <2> QED
    BY <1>4, <2>1 DEF MessageSound
<1> QED
  BY <1>2, <1>3, <1>4 DEF QueuesSound

\* A step that moves one order at most, and to a finished state only when the
\* venue finished it so, keeps the beliefs sound.
LEMMA BeliefKept ==
  ASSUME BeliefInv, VenueGrows, NEW o, NEW s,
         Moves(o, s) \/ UNCHANGED orders,
         o \in DOMAIN orders /\ s \in Terminal => venue'[o].status = s
  PROVE  TerminalBeliefSound' /\ DOMAIN orders' = DOMAIN orders
  BY DEF BeliefInv, VenueGrows, Moves, TerminalBeliefSound

\* The loop starts in BeliefInv.
LEMMA BeliefInit == Init => BeliefInv
<1>1. Init => /\ DOMAIN orders = {} /\ DOMAIN venue = {}
              /\ DOMAIN wire = {} /\ DOMAIN bus = {}
  BY DEF Init, TrackerInit, VenueInit
<1> QED
  BY <1>1, CoreInit DEF BeliefInv, TerminalBeliefSound, AckedOnRecord, Init, NotSubmitting

-----------------------------------------------------------------------------
\* What one step has to show.
BeliefAfter == /\ VenueGrows /\ QueuesSound /\ AckedOnRecord'
               /\ TerminalBeliefSound' /\ DOMAIN venue' = DOMAIN orders'

\* Taking a message and acting on it.
LEMMA EventBelief == ASSUME BeliefInv, EventStep PROVE BeliefAfter
<1>1. TypeOK /\ TrackerTypeOK /\ bus \in Seq(Event)
  BY DEF BeliefInv, CoreInv, TypeOK
<1>2. bus # << >> /\ bus' = Tail(bus) /\ UNCHANGED <<venue, wire>>
  BY DEF EventStep, HandleOrderAck, HandleFill, HandleOrderStateChange, HandleKillSwitch,
         HandleResolution, Takes, venueVars
<1>3. VenueGrows
  BY <1>2 DEF VenueGrows
<1>4. QueuesSound
  BY <1>1, <1>2, TailElements DEF QueuesSound
<1> DEFINE e == Head(bus)
<1>5. e \in Event /\ MessageSound(e)
  BY <1>1, <1>2, TailElements DEF BeliefInv
<1>6. \E o, s : /\ Moves(o, s) \/ UNCHANGED orders
                /\ o \in DOMAIN orders /\ s \in Terminal => venue'[o].status = s
  <2>1. CASE HandleOrderAck
    BY <1>1, <2>1, OneOrderMoves DEF HandleOrderAck, ProcessAck, Terminal
  <2>2. CASE HandleFill
    <3> DEFINE s == IF e.remaining = 0 THEN "Filled" ELSE "PartialFill"
    <3>1. e.type = "Fill" /\ e.size \in Nat
      BY <1>1, <2>2, TakesType, EventTypes DEF HandleFill
    <3>2. TrackFill(e.order, e.size, s)
      BY <2>2 DEF HandleFill, ProcessFill
    <3>3. Moves(e.order, s)
      BY <1>1, <3>1, <3>2, OneOrderMoves
    <3>4. s \in Terminal => venue'[e.order].status = s
      BY <1>2, <1>5, <3>1 DEF MessageSound, Terminal
    <3> QED
      BY <3>3, <3>4
  <2>3. CASE HandleOrderStateChange
    <3>1. e.type = "OrderStateChange"
      BY <1>1, <2>3, TakesType DEF HandleOrderStateChange
    <3>2. UpdateState(e.order, e.state)
      BY <2>3 DEF HandleOrderStateChange, ProcessStateChange
    <3>3. Moves(e.order, e.state)
      BY <1>1, <3>2, OneOrderMoves
    <3>4. venue'[e.order].status = e.state
      BY <1>2, <1>5, <3>1 DEF MessageSound
    <3> QED
      BY <3>3, <3>4
  <2>4. CASE HandleKillSwitch \/ HandleResolution
    <3>1. UNCHANGED orders
      BY <2>4 DEF HandleKillSwitch, HandleResolution, fillStateVars
    <3> QED
      BY <3>1, "Acked" \notin Terminal DEF Terminal
  <2> QED
    BY <2>1, <2>2, <2>3, <2>4 DEF EventStep
<1>7. TerminalBeliefSound' /\ DOMAIN orders' = DOMAIN orders
  BY <1>3, <1>6, BeliefKept
<1>8. AckedOnRecord'
  BY <1>7 DEF EventStep, HandleOrderAck, HandleFill, HandleOrderStateChange, HandleKillSwitch,
              HandleResolution, AckedOnRecord, BeliefInv
<1> QED
  BY <1>2, <1>3, <1>4, <1>7, <1>8 DEF BeliefAfter, BeliefInv

\* A new order is new to the venue too, so no message can be about it yet.
LEMMA BeginBelief ==
  ASSUME BeliefInv, NEW o \in OrderId, BeginSubmit(o) PROVE BeliefAfter
<1>1. UNCHANGED <<wire, bus>> /\ o \notin DOMAIN orders /\ o \notin DOMAIN venue
  BY DEF BeginSubmit, Request, BeliefInv
<1>2. /\ DOMAIN venue' = {o} \cup DOMAIN venue /\ DOMAIN orders' = {o} \cup DOMAIN orders
      /\ orders'[o].state = "Pending"
      /\ \A q \in DOMAIN venue : venue'[q] = venue[q]
      /\ \A q \in DOMAIN orders : orders'[q] = orders[q]
  BY <1>1 DEF BeginSubmit, Request, Register, Put
<1>3. VenueGrows /\ QueuesSound
  BY <1>1, <1>2 DEF VenueGrows, QueuesSound
<1>4. TerminalBeliefSound'
  BY <1>2 DEF BeliefInv, TerminalBeliefSound, Terminal
<1>5. AckedOnRecord'
  BY DEF BeginSubmit, AckedOnRecord
<1> QED
  BY <1>2, <1>3, <1>4, <1>5 DEF BeliefAfter, BeliefInv

\* The engine's own steps: an answer says no more than the venue knows, and a
\* failure says nothing.
LEMMA SubmitBelief == ASSUME BeliefInv, SubmitStep PROVE BeliefAfter
<1>1. TypeOK /\ TrackerTypeOK /\ bus \in Seq(Event)
  BY DEF BeliefInv, CoreInv, TypeOK
<1>2. UNCHANGED <<venue, wire>>
  BY DEF SubmitStep, AttemptSucceeds, SendAck, RetryAttempt, GiveUp, venueVars
<1>3. VenueGrows
  BY <1>2 DEF VenueGrows
<1> DEFINE o == submission.order
<1>4. ASSUME SendAck PROVE BeliefAfter
  <2>1. /\ submission.phase = "acking" /\ submission' = NotSubmitting
        /\ bus' = Append(bus, AckEvent(o)) /\ UNCHANGED orders
    BY <1>4 DEF SendAck, fillStateVars
  <2>2. o \in OrderId /\ o \in DOMAIN venue
    BY <2>1 DEF BeliefInv, AckedOnRecord, CoreInv, TypeOK, VenueTypeOK
  <2>3. PICK m \in Event : m = AckEvent(o)
    BY <2>2, MessageTypes DEF Event
  <2>4. MessageSound(m)'
    BY <1>2, <2>2, <2>3 DEF MessageSound, AckEvent
  <2>5. \A i \in DOMAIN bus' : bus'[i] = m \/ \E j \in DOMAIN bus : bus'[i] = bus[j]
    BY <1>1, <2>1, <2>3, AppendElements
  <2>6. QueuesSound
    <3>1. ASSUME NEW i \in DOMAIN bus', bus'[i] = m PROVE MessageSound(bus[i])'
      BY <2>4, <3>1 DEF MessageSound
    <3> QED
      BY <1>2, <2>5, <3>1 DEF QueuesSound
  <2>7. TerminalBeliefSound' /\ AckedOnRecord'
    BY <1>2, <2>1 DEF BeliefInv, TerminalBeliefSound, AckedOnRecord, NotSubmitting
  <2> QED
    BY <1>2, <1>3, <2>1, <2>6, <2>7 DEF BeliefAfter, BeliefInv
<1>5. ASSUME AttemptSucceeds \/ RetryAttempt \/ GiveUp PROVE BeliefAfter
  <2>1. bus' = bus
    BY <1>5 DEF AttemptSucceeds, RetryAttempt, GiveUp
  <2>2. QueuesSound
    BY <1>2, <2>1 DEF QueuesSound
  <2>3. \E s : /\ Moves(o, s) \/ UNCHANGED orders
               /\ o \in DOMAIN orders /\ s \in Terminal => venue'[o].status = s
    <3>1. CASE AttemptSucceeds
      <4>1. PICK s \in {"Acked", "Filled"} :
              UpdateState(o, s) /\ (s = "Filled" => venue[o].status = "Filled")
        BY <3>1 DEF AttemptSucceeds, Answers
      <4> QED
        BY <1>1, <1>2, <4>1, OneOrderMoves DEF Terminal
    <3>2. CASE RetryAttempt
      BY <3>2, "Acked" \notin Terminal DEF RetryAttempt, fillStateVars, Terminal
    <3>3. CASE GiveUp
      BY <1>1, <3>3, OneOrderMoves DEF GiveUp, MarkUncertain, Terminal
    <3> QED
      BY <1>5, <3>1, <3>2, <3>3
  <2>4. PICK s : /\ Moves(o, s) \/ UNCHANGED orders
                 /\ o \in DOMAIN orders /\ s \in Terminal => venue'[o].status = s
    BY <2>3
  <2>5. TerminalBeliefSound' /\ DOMAIN orders' = DOMAIN orders
    BY <1>3, <2>4, BeliefKept
  <2>6. AckedOnRecord'
    <3>1. submission'.phase = "acking" => submission' = [submission EXCEPT !.phase = "acking"]
      BY <1>1, <1>5 DEF AttemptSucceeds, RetryAttempt, GiveUp, NotSubmitting, TypeOK, Submission
    <3>2. o \in DOMAIN orders
      BY <1>5 DEF AttemptSucceeds, RetryAttempt, GiveUp, BeliefInv, CoreInv, InFlightIndexed
    <3> QED
      BY <1>1, <2>5, <3>1, <3>2 DEF AckedOnRecord, TypeOK, Submission
  <2> QED
    BY <1>2, <1>3, <2>2, <2>5, <2>6 DEF BeliefAfter, BeliefInv
<1> QED
  BY <1>4, <1>5 DEF SubmitStep

\* The other steps leave the tracker alone and add nothing unsound.
LEMMA OutsideBelief ==
  ASSUME BeliefInv, UNCHANGED <<orders, submission>>,
         \/ FeedDelivers \/ VenueStep
         \/ UNCHANGED venueVars /\ (bus' = bus \/ bus' = << >>)
         \/ UNCHANGED venueVars /\ \E e \in Event : bus' = Append(bus, e) /\ e.type \in {"KillSwitch", "Resolution"}
  PROVE  BeliefAfter
<1>1. wire \in Seq(VenueMessage) /\ bus \in Seq(Event) /\ VenueTypeOK
  BY DEF BeliefInv, CoreInv, TypeOK, VenueTypeOK
<1>2. ASSUME FeedDelivers PROVE VenueGrows /\ QueuesSound /\ DOMAIN venue' = DOMAIN venue
  <2>1. wire # << >> /\ UNCHANGED venue /\ wire' = Tail(wire) /\ bus' = Append(bus, Head(wire))
    BY <1>2 DEF FeedDelivers
  <2>2. /\ Head(wire) = wire[1] /\ 1 \in DOMAIN wire /\ Head(wire) \in Event
        /\ \A i \in DOMAIN wire' : wire'[i] = wire[i + 1] /\ i + 1 \in DOMAIN wire
    BY <1>1, <2>1, TailElements DEF Event
  <2>3. \A i \in DOMAIN bus' : bus'[i] = wire[1] \/ \E j \in DOMAIN bus : bus'[i] = bus[j]
    BY <1>1, <2>1, <2>2, AppendElements
  <2> QED
    BY <2>1, <2>2, <2>3 DEF VenueGrows, QueuesSound
<1>3. ASSUME VenueStep PROVE VenueGrows /\ QueuesSound /\ DOMAIN venue' = DOMAIN venue
  <2>1. bus' = bus
    BY <1>3 DEF VenueStep, loopVars
  <2>2. CASE VenueActs
    <3>1. ASSUME wire' = wire PROVE QueuesSound
      BY <2>1, <3>1 DEF QueuesSound
    <3>2. ASSUME NEW m \in VenueMessage, wire' = Append(wire, m), MessageSound(m)'
          PROVE  QueuesSound
      <4>1. \A i \in DOMAIN wire' : wire'[i] = m \/ \E j \in DOMAIN wire : wire'[i] = wire[j]
        BY <1>1, <3>2, AppendElements
      <4>2. ASSUME NEW i \in DOMAIN wire', wire'[i] = m
            PROVE  wire'[i] \in Event /\ MessageSound(wire[i])'
        BY <3>2, <4>2 DEF MessageSound, Event
      <4> QED
        BY <2>1, <4>1, <4>2 DEF QueuesSound
    <3>3. VenueGrows /\ DOMAIN venue' = DOMAIN venue
      BY <1>1, <2>2, VenueTells DEF VenueGrows
    <3> QED
      BY <1>1, <2>2, <3>1, <3>2, <3>3, VenueTells
  <2>3. CASE WireLoses
    BY <1>1, <2>1, <2>3, TailElements DEF WireLoses, VenueGrows, QueuesSound
  <2>4. CASE WireRepeats
    <3>1. Head(wire) \in VenueMessage /\ Head(wire) = wire[1] /\ 1 \in DOMAIN wire
      BY <1>1, <2>4, TailElements DEF WireRepeats
    <3> QED
      BY <1>1, <2>1, <2>4, <3>1, AppendElements DEF WireRepeats, VenueGrows, QueuesSound
  <2> QED
    BY <1>3, <2>2, <2>3, <2>4 DEF VenueStep
<1>4. ASSUME UNCHANGED venueVars, bus' = bus \/ bus' = << >>
      PROVE  VenueGrows /\ QueuesSound /\ DOMAIN venue' = DOMAIN venue
  BY <1>4 DEF venueVars, VenueGrows, QueuesSound
<1>5. ASSUME UNCHANGED venueVars, NEW e \in Event, bus' = Append(bus, e),
             e.type \in {"KillSwitch", "Resolution"}
      PROVE  VenueGrows /\ QueuesSound /\ DOMAIN venue' = DOMAIN venue
  <2>1. \A i \in DOMAIN bus' : bus'[i] = e \/ \E j \in DOMAIN bus : bus'[i] = bus[j]
    BY <1>1, <1>5, AppendElements
  <2>2. ASSUME NEW i \in DOMAIN bus', bus'[i] = e
        PROVE  bus'[i] \in Event /\ MessageSound(bus[i])'
    BY <1>5, <2>2 DEF MessageSound
  <2> QED
    BY <1>5, <2>1, <2>2 DEF venueVars, VenueGrows, QueuesSound
<1>6. VenueGrows /\ QueuesSound /\ DOMAIN venue' = DOMAIN venue
  BY <1>2, <1>3, <1>4, <1>5
<1>7. TerminalBeliefSound' /\ AckedOnRecord'
  BY <1>6 DEF BeliefInv, VenueGrows, TerminalBeliefSound, AckedOnRecord
<1> QED
  BY <1>6, <1>7 DEF BeliefAfter, BeliefInv

\* Every step keeps BeliefInv.
LEMMA BeliefStep == BeliefInv /\ [Next]_vars => BeliefInv'
<1> SUFFICES ASSUME BeliefInv, [Next]_vars PROVE BeliefInv'
  OBVIOUS
<1>1. CoreInv'
  BY CoreStep DEF BeliefInv
<1>2. ASSUME NEW c \in Contract, NEW n \in Sizes, DispatchSignal(c, n) PROVE BeliefAfter
  BY <1>2, OutsideBelief DEF DispatchSignal, fillStateVars
<1>3. ASSUME RejectIntent PROVE BeliefAfter
  BY <1>3, OutsideBelief DEF RejectIntent, trackerVars
<1>4. ASSUME FeedDelivers \/ VenueStep PROVE BeliefAfter
  BY <1>4, OutsideBelief DEF FeedDelivers, VenueStep, fillStateVars, loopVars
<1>5. ASSUME ActivateKillSwitch \/ RequestShutdown \/ ShutDown \/ ClockStep \/ UNCHANGED vars
      PROVE  BeliefAfter
  BY <1>5, OutsideBelief DEF ActivateKillSwitch, RequestShutdown, ShutDown, ClockStep,
                             fillStateVars, loopVars, vars
<1>6. ASSUME NEW e \in Event, e.type \in {"KillSwitch", "Resolution"}, PostEvent(e)
      PROVE  BeliefAfter
  BY <1>6, OutsideBelief DEF PostEvent, fillStateVars
<1>7. [type |-> "KillSwitch"] \in Event
      /\ \A m \in Markets : [type |-> "Resolution", market |-> m] \in Event
  BY LimitsAssumption DEF Event
<1>8. BeliefAfter
  BY <1>2, <1>3, <1>4, <1>5, <1>6, <1>7, EventBelief, BeginBelief, SubmitBelief
     DEF Next, IntentStep
<1> QED
  BY <1>1, <1>8, MessagesStaySound DEF BeliefAfter, BeliefInv

\* An order held for finished is finished at the venue, in the same way.
THEOREM BeliefsSound == Spec => []TerminalBeliefSound
<1>1. BeliefInv => TerminalBeliefSound
  BY DEF BeliefInv
<1> QED
  BY <1>1, BeliefInit, BeliefStep, PTL DEF Spec

-----------------------------------------------------------------------------
\* A step that moves one order, about which the bot is certain or about which
\* the event at hand is, settles no other order's uncertainty.
LEMMA EventSettles == ASSUME CoreInv, EventStep PROVE SettledOnWord
<1>1. TypeOK /\ TrackerTypeOK
  BY DEF CoreInv, TypeOK
<1> DEFINE e == Head(bus)
<1>2. bus # << >> /\ bus' = Tail(bus)
  BY DEF EventStep, HandleOrderAck, HandleFill, HandleOrderStateChange, HandleKillSwitch,
         HandleResolution, Takes
<1>3. ASSUME NEW s, Moves(e.order, s), e.type \in {"OrderAck", "Fill", "OrderStateChange"}
      PROVE  SettledOnWord
  BY <1>2, <1>3 DEF Moves, SettledOnWord
<1>4. CASE HandleOrderAck
  <2>1. Moves(e.order, "Acked") /\ e.type = "OrderAck"
    BY <1>1, <1>4, OneOrderMoves DEF HandleOrderAck, ProcessAck, Takes
  <2> QED
    BY <1>3, <2>1
<1>5. CASE HandleFill
  <2> DEFINE s == IF e.remaining = 0 THEN "Filled" ELSE "PartialFill"
  <2>1. e.type = "Fill" /\ e.size \in Nat
    BY <1>1, <1>5, TakesType, EventTypes DEF HandleFill
  <2>2. TrackFill(e.order, e.size, s)
    BY <1>5 DEF HandleFill, ProcessFill
  <2>3. Moves(e.order, s)
    BY <1>1, <2>1, <2>2, OneOrderMoves
  <2> QED
    BY <1>3, <2>1, <2>3
<1>6. CASE HandleOrderStateChange
  <2>1. Moves(e.order, e.state) /\ e.type = "OrderStateChange"
    BY <1>1, <1>6, OneOrderMoves DEF HandleOrderStateChange, ProcessStateChange, Takes
  <2> QED
    BY <1>3, <2>1
<1>7. CASE HandleKillSwitch \/ HandleResolution
  BY <1>7 DEF HandleKillSwitch, HandleResolution, fillStateVars, SettledOnWord
<1> QED
  BY <1>4, <1>5, <1>6, <1>7 DEF EventStep

\* The engine moves only the order it is submitting, which is Pending.
LEMMA SubmitSettles == ASSUME CoreInv, SubmitStep PROVE SettledOnWord
<1>1. TrackerTypeOK
  BY DEF CoreInv, TypeOK
<1> DEFINE o == submission.order
<1>2. CASE SendAck \/ RetryAttempt
  BY <1>2 DEF SendAck, RetryAttempt, fillStateVars, SettledOnWord
<1>3. CASE AttemptSucceeds \/ GiveUp
  <2>1. o \in DOMAIN orders /\ orders[o].state = "Pending"
    BY <1>3 DEF AttemptSucceeds, GiveUp, CoreInv, InFlightIndexed
  <2>2. \E s : UpdateState(o, s)
    BY <1>3 DEF AttemptSucceeds, GiveUp, MarkUncertain
  <2>3. PICK s : Moves(o, s)
    BY <1>1, <2>2, OneOrderMoves
  <2> QED
    BY <2>1, <2>3 DEF Moves, SettledOnWord
<1> QED
  BY <1>2, <1>3 DEF SubmitStep

\* Uncertainty about an order ends only with word of the venue about it.
THEOREM UncertaintyLasts == Spec => UncertaintyNeedsWord
<1>1. ASSUME CoreInv, [Next]_vars PROVE [SettledOnWord]_vars
  <2>1. CASE UNCHANGED orders
    BY <2>1 DEF SettledOnWord
  <2>2. ASSUME NEW o \in OrderId, BeginSubmit(o) PROVE SettledOnWord
    BY <2>2 DEF BeginSubmit, Register, Put, SettledOnWord
  <2>3. \/ UNCHANGED orders \/ IntentStep \/ SubmitStep \/ EventStep
    BY <1>1 DEF Next, vars, DispatchSignal, FeedDelivers, PostEvent, ActivateKillSwitch,
                RequestShutdown, ShutDown, VenueStep, ClockStep, fillStateVars
  <2>4. CASE IntentStep
    BY <2>1, <2>2, <2>4 DEF IntentStep, RejectIntent, trackerVars
  <2> QED
    BY <1>1, <2>1, <2>3, <2>4, SubmitSettles, EventSettles
<1> QED
  BY <1>1, CoreInit, CoreStep, PTL DEF Spec, UncertaintyNeedsWord

-----------------------------------------------------------------------------
(* What the gates see of the exposures: every fill reaches them once, or    *)
(* not at all, and what an order may still cost stays covered.              *)

\* The steps that submit no order leave every order what it is.
LEMMA OrdersStay ==
  ASSUME CoreInv, [Next]_vars
  PROVE  \/ /\ DOMAIN orders' = DOMAIN orders
            /\ \A q \in DOMAIN orders : orders'[q].contract = orders[q].contract
         \/ \E o \in OrderId : BeginSubmit(o)
<1>1. TypeOK /\ TrackerTypeOK
  BY DEF CoreInv, TypeOK
<1>2. CASE UNCHANGED orders
  BY <1>2
<1>3. CASE EventStep
  BY <1>1, <1>3, EventMoves, SameOrders
<1>4. CASE AttemptSucceeds \/ GiveUp
  <2>1. submission.order \in OrderId
    BY <1>1, <1>4 DEF AttemptSucceeds, GiveUp, TypeOK, Submission
  <2>2. \E s \in OrderState : UpdateState(submission.order, s)
    BY <1>4 DEF AttemptSucceeds, Answers, GiveUp, MarkUncertain, OrderState
  <2> QED
    BY <1>1, <2>1, <2>2, SameOrders
<1>5. \/ UNCHANGED orders \/ EventStep \/ AttemptSucceeds \/ GiveUp
      \/ \E o \in OrderId : BeginSubmit(o)
  BY DEF Next, vars, IntentStep, SubmitStep, DispatchSignal, RejectIntent, SendAck,
         RetryAttempt, FeedDelivers, PostEvent, ActivateKillSwitch, RequestShutdown, ShutDown,
         VenueStep, ClockStep, fillStateVars, trackerVars
<1> QED
  BY <1>2, <1>3, <1>4, <1>5

\* The venue's record changes when an order is submitted and when it acts.
LEMMA VenueStays ==
  ASSUME [Next]_vars
  PROVE  \/ venue' = venue \/ (\E o \in OrderId : BeginSubmit(o)) \/ (VenueStep /\ VenueActs)
  BY DEF Next, vars, venueVars, IntentStep, SubmitStep, EventStep, DispatchSignal,
         RejectIntent, AttemptSucceeds, SendAck, RetryAttempt, GiveUp, FeedDelivers,
         HandleOrderAck, HandleFill, HandleOrderStateChange, HandleKillSwitch,
         HandleResolution, PostEvent, ActivateKillSwitch, RequestShutdown, ShutDown,
         VenueStep, ClockStep, WireLoses, WireRepeats

\* A submission adds one order to the bot's record and to the venue's.
LEMMA BeginAdds ==
  ASSUME BeliefInv, NEW o \in OrderId, BeginSubmit(o)
  PROVE  LET i == Head(intents)
         IN /\ o \notin DOMAIN orders /\ o \notin DOMAIN venue
            /\ DOMAIN orders' = DOMAIN orders \cup {o} /\ DOMAIN venue' = DOMAIN venue \cup {o}
            /\ orders'[o].contract = i.contract
            /\ venue'[o] = [contract |-> i.contract, price |-> LimitPrice, size |-> i.size,
                            filled |-> 0, cost |-> 0, status |-> "Requested"]
            /\ \A q \in DOMAIN orders : orders'[q] = orders[q] /\ venue'[q] = venue[q]
  BY DEF BeliefInv, BeginSubmit, Register, Request, Put

\* The venue has the order as it was submitted, and filled no more than was
\* asked for, at no worse than its price.
AsAsked(o) ==
  LET v == venue[o]
  IN /\ v.contract = orders[o].contract
     /\ v.size # 0 /\ v.price # 0
     /\ v.filled <= v.size /\ v.cost <= v.filled * v.price

RecordInv ==
  /\ BeliefInv
  /\ IsFiniteSet(DOMAIN orders)
  /\ \A i \in DOMAIN intents : intents[i].size # 0
  /\ \A o \in DOMAIN orders : AsAsked(o)

\* Paying no more than the price for what is filled keeps the cost in bounds.
LEMMA CostBound ==
  ASSUME NEW k \in Nat, NEW f \in Nat, NEW n \in Nat, NEW p \in Nat, NEW q \in Nat,
         k <= f * q, p <= q
  PROVE  k + n * p <= (f + n) * q
<1>1. n * p <= n * q
  <2>1. q - p \in Nat
    OBVIOUS
  <2>2. n * (q - p) \in Nat
    BY <2>1
  <2>3. n * (q - p) = n * q - n * p
    OBVIOUS
  <2>4. n * q \in Int /\ n * p \in Int
    OBVIOUS
  <2> QED
    BY <2>2, <2>3, <2>4
<1>2. (f + n) * q = f * q + n * q
  OBVIOUS
<1>3. n * p \in Int /\ n * q \in Int /\ f * q \in Int
  OBVIOUS
<1> QED
  BY <1>1, <1>2, <1>3

\* What an order may still cost is no more than its notional.
LEMMA CostLeft ==
  ASSUME NEW k \in Nat, NEW f \in Nat, NEW n \in Nat, NEW p \in Nat, k <= f * p, f <= n
  PROVE  k + (n - f) * p <= n * p /\ k <= n * p
<1>1. (n - f) * p = n * p - f * p
  OBVIOUS
<1>2. n - f \in Nat
  OBVIOUS
<1>3. (n - f) * p \in Nat
  BY <1>2
<1>4. n * p \in Int /\ f * p \in Int
  OBVIOUS
<1> QED
  BY <1>1, <1>3, <1>4

\* The loop starts in RecordInv.
LEMMA RecordInit == Init => RecordInv
<1>1. Init => DOMAIN orders = {} /\ DOMAIN intents = {}
  BY DEF Init, TrackerInit
<1> QED
  BY <1>1, BeliefInit, FS_EmptySet DEF RecordInv

\* No intent is for nothing.
LEMMA IntentsNotEmpty ==
  ASSUME RecordInv, [Next]_vars
  PROVE  \A i \in DOMAIN intents' : intents'[i].size # 0
<1>1. intents \in Seq(Intent)
  BY DEF RecordInv, BeliefInv, CoreInv, TypeOK
<1>2. CASE intents' = intents
  BY <1>2 DEF RecordInv
<1>3. ASSUME NEW c \in Contract, NEW n \in Sizes,
             intents' = Append(intents, [contract |-> c, size |-> n])
      PROVE  \A i \in DOMAIN intents' : intents'[i].size # 0
  <2>1. [contract |-> c, size |-> n] \in Intent /\ n # 0
    BY LimitsAssumption DEF Intent
  <2> QED
    BY <1>1, <1>3, <2>1, AppendElements DEF RecordInv
<1>4. CASE intents # << >> /\ intents' = Tail(intents)
  BY <1>1, <1>4, TailElements DEF RecordInv
<1>5. \/ intents' = intents
      \/ \E c \in Contract, n \in Sizes : intents' = Append(intents, [contract |-> c, size |-> n])
      \/ intents # << >> /\ intents' = Tail(intents)
  BY DEF Next, vars, loopVars, IntentStep, SubmitStep, EventStep, DispatchSignal,
         RejectIntent, BeginSubmit, AttemptSucceeds, SendAck, RetryAttempt, GiveUp,
         FeedDelivers, HandleOrderAck, HandleFill, HandleOrderStateChange, HandleKillSwitch,
         HandleResolution, PostEvent, ActivateKillSwitch, RequestShutdown, ShutDown,
         VenueStep, ClockStep
<1> QED
  BY <1>2, <1>3, <1>4, <1>5

\* Every step keeps RecordInv.
LEMMA RecordStep == ASSUME RecordInv, [Next]_vars PROVE RecordInv'
<1>1. BeliefInv' /\ \A i \in DOMAIN intents' : intents'[i].size # 0
  BY BeliefStep, IntentsNotEmpty DEF RecordInv
<1>2. BeliefInv /\ CoreInv /\ TypeOK /\ VenueTypeOK /\ DOMAIN venue = DOMAIN orders
  BY DEF RecordInv, BeliefInv, CoreInv, TypeOK
<1>3. ASSUME NEW o \in OrderId, BeginSubmit(o)
      PROVE  IsFiniteSet(DOMAIN orders') /\ \A q \in DOMAIN orders' : AsAsked(q)'
  <2> DEFINE i == Head(intents)
  <2>1. i.size \in Nat /\ i.size # 0 /\ LimitPrice \in Nat \ {0}
    <3>1. intents # << >> /\ intents \in Seq(Intent)
      BY <1>2, <1>3 DEF BeginSubmit, TypeOK
    <3>2. i = intents[1] /\ 1 \in DOMAIN intents
      BY <3>1, TailElements
    <3> QED
      BY <1>2, <3>1, <3>2, HeadIntent, LimitsAssumption DEF RecordInv
  <2>2. /\ DOMAIN orders' = DOMAIN orders \cup {o} /\ o \notin DOMAIN orders
        /\ orders'[o].contract = i.contract
        /\ venue'[o] = [contract |-> i.contract, price |-> LimitPrice, size |-> i.size,
                        filled |-> 0, cost |-> 0, status |-> "Requested"]
        /\ \A q \in DOMAIN orders : orders'[q] = orders[q] /\ venue'[q] = venue[q]
    BY <1>2, <1>3, BeginAdds
  <2>3. IsFiniteSet(DOMAIN orders')
    BY <2>2, FS_AddElement DEF RecordInv
  <2>4. AsAsked(o)'
    BY <2>1, <2>2 DEF AsAsked
  <2>5. \A q \in DOMAIN orders : AsAsked(q)'
    BY <2>2 DEF RecordInv, AsAsked
  <2> QED
    BY <2>2, <2>3, <2>4, <2>5
<1>4. ASSUME DOMAIN orders' = DOMAIN orders,
             \A q \in DOMAIN orders : orders'[q].contract = orders[q].contract
      PROVE  IsFiniteSet(DOMAIN orders') /\ \A q \in DOMAIN orders' : AsAsked(q)'
  <2>1. CASE venue' = venue \/ \E o \in OrderId : BeginSubmit(o)
    <3>1. ~\E o \in OrderId : BeginSubmit(o)
      BY <1>2, <1>4, BeginAdds
    <3> QED
      BY <1>4, <2>1, <3>1 DEF RecordInv, AsAsked
  <2>2. CASE SimulationActs
    <3>1. PICK o \in DOMAIN venue :
            LET v == venue[o]
                w == venue'[o]
            IN /\ \A q \in DOMAIN venue : q # o => venue'[q] = venue[q]
               /\ w.contract = v.contract /\ w.size = v.size /\ w.price = v.price
               /\ w.filled = v.size /\ w.cost = v.size * v.price
      BY <1>2, <2>2, SimulationDoes
    <3>2. venue[o].size \in Nat /\ venue[o].size * venue[o].price \in Nat /\ AsAsked(o)
      BY <1>2 DEF VenueTypeOK, VenueOrder, RecordInv
    <3>3. AsAsked(o)'
      BY <1>2, <1>4, <3>1, <3>2 DEF AsAsked
    <3>4. \A q \in DOMAIN orders : q # o => AsAsked(q)'
      BY <1>2, <1>4, <3>1 DEF AsAsked, RecordInv
    <3> QED
      BY <1>4, <3>3, <3>4 DEF RecordInv
  <2>3. CASE ExchangeActs
    <3>1. PICK o \in DOMAIN venue, m \in VenueMessage :
            LET v == venue[o]
                w == venue'[o]
            IN /\ \A q \in DOMAIN venue : q # o => venue'[q] = venue[q]
               /\ w.contract = v.contract /\ w.size = v.size /\ w.price = v.price
               /\ \/ w.filled = v.filled /\ w.cost = v.cost
                  \/ /\ m.type = "Fill" /\ m.price <= v.price
                     /\ w.filled = v.filled + m.size /\ w.filled <= w.size
                     /\ w.cost = v.cost + m.size * m.price
      BY <1>2, <2>3, ExchangeDoes
    <3> DEFINE v == venue[o]
               w == venue'[o]
    <3>2. v \in VenueOrder /\ AsAsked(o)
      BY <1>2 DEF VenueTypeOK, RecordInv
    <3>3. v.cost \in Nat /\ v.filled \in Nat /\ v.price \in Nat
      BY <3>2 DEF VenueOrder
    <3>4. w.filled <= w.size /\ w.cost <= w.filled * w.price
      <4>1. CASE w.filled = v.filled /\ w.cost = v.cost
        BY <3>1, <3>2, <4>1 DEF AsAsked
      <4>2. CASE /\ m.type = "Fill" /\ m.price <= v.price
                 /\ w.filled = v.filled + m.size /\ w.filled <= w.size
                 /\ w.cost = v.cost + m.size * m.price
        <5>1. m.size \in Nat /\ m.price \in Nat
          BY <4>2 DEF VenueMessage
        <5>2. v.cost <= v.filled * v.price
          BY <3>2 DEF AsAsked
        <5>3. v.cost + m.size * m.price <= (v.filled + m.size) * v.price
          <6> HIDE DEF v
          <6> QED
            BY <3>3, <4>2, <5>1, <5>2, CostBound
        <5> QED
          BY <3>1, <4>2, <5>3
      <4> QED
        BY <3>1, <4>1, <4>2
    <3>5. AsAsked(o)'
      BY <1>2, <1>4, <3>1, <3>2, <3>4 DEF AsAsked
    <3>6. \A q \in DOMAIN orders : q # o => AsAsked(q)'
      BY <1>2, <1>4, <3>1 DEF AsAsked, RecordInv
    <3> QED
      BY <1>4, <3>5, <3>6 DEF RecordInv
  <2> QED
    BY <2>1, <2>2, <2>3, VenueStays DEF VenueActs
<1> QED
  BY <1>1, <1>2, <1>3, <1>4, OrdersStay DEF RecordInv

-----------------------------------------------------------------------------
(* What the bus and the stream have still to add.                           *)

Filled(c) == EntryOf(exposures, c).filled

\* What has reached the exposure of contract c, and what is on its way.
Underway(c) == Filled(c) + Flow(bus, c) + Flow(wire, c)

\* Events are typed messages or add nothing.
LEMMA EventAmount == \A c : /\ \A m \in Event : Amount(m, c) \in Nat
                            /\ \A m \in VenueMessage : Amount(m, c) \in Nat
<1>1. \A m \in Event : m \in VenueMessage \/ m.type # "Fill"
  BY DEF Event
<1> QED
  BY <1>1, AmountType DEF Amount

\* All three are numbers.
LEMMA UnderwayType ==
  ASSUME TypeOK, NEW c
  PROVE  /\ Filled(c) \in Nat /\ EntryOf(exposures, c).pending \in Nat
         /\ Flow(bus, c) \in Nat /\ Flow(wire, c) \in Nat
         /\ bus \in Seq(Event) /\ wire \in Seq(VenueMessage)
<1>1. EntryOf(exposures, c) \in ContractExposure
  BY EntryType DEF TypeOK, ExposureTypeOK, Exposures
<1>2. bus \in Seq(Event) /\ wire \in Seq(VenueMessage)
  BY DEF TypeOK, VenueTypeOK
<1>3. Flow(bus, c) \in Nat /\ Flow(wire, c) \in Nat
  BY <1>2, EventAmount, AmountsType
<1> QED
  BY <1>1, <1>2, <1>3 DEF Filled, ContractExposure

\* A message taken adds what it says to the exposure, unless there is no entry
\* for it; no message takes anything away from what is filled.
LEMMA EventFills ==
  ASSUME TypeOK, EventStep, NEW c
  PROVE  \/ Filled(c)' = Filled(c) + Amount(Head(bus), c)
         \/ Filled(c)' = Filled(c) /\ c \notin DOMAIN exposures
<1> DEFINE e == Head(bus)
<1>1. Filled(c) \in Nat /\ Exposures(exposures)
  BY UnderwayType DEF TypeOK, ExposureTypeOK, Exposures
<1>2. CASE HandleFill
  <2>1. /\ e.type = "Fill" /\ e.size \in Nat /\ e.price \in Nat
    BY <1>2, TakesType, EventTypes DEF HandleFill
  <2> DEFINE n == e.size * e.price
  <2>2. n \in Nat
    BY <2>1
  <2>3. exposures' = ApplyFill(exposures, e.contract, n)
    BY <1>2 DEF HandleFill, ProcessFill
  <2>4. Amount(e, c) = IF e.contract = c THEN n ELSE 0
    BY <2>1 DEF Amount
  <2> HIDE DEF n
  <2> QED
    BY <1>1, <2>2, <2>3, <2>4, ApplyFillEntry DEF Filled
<1>3. CASE ~HandleFill
  <2>1. Amount(e, c) = 0
    BY <1>3 DEF EventStep, HandleOrderAck, HandleOrderStateChange, HandleKillSwitch,
                HandleResolution, Takes, Amount
  <2>2. CASE HandleOrderStateChange
    <3> DEFINE r == orders[e.order]
               n == (r.size - r.filled) * r.price
    <3>1. \/ exposures' = exposures
          \/ e.order \in DOMAIN orders /\ exposures' = RemovePending(exposures, r.contract, n)
      BY <2>2 DEF HandleOrderStateChange, ProcessStateChange
    <3>2. ASSUME e.order \in DOMAIN orders PROVE n \in Int
      <4>1. r \in OrderRecord
        BY <3>2 DEF TypeOK, TrackerTypeOK
      <4> QED
        BY <4>1 DEF OrderRecord
    <3> HIDE DEF n, r
    <3>3. Filled(c)' = Filled(c)
      BY <1>1, <3>1, <3>2, RemovePendingEntry DEF Filled
    <3> QED
      BY <1>1, <2>1, <3>3
  <2>3. CASE ~HandleOrderStateChange
    <3>1. exposures' = exposures
      BY <1>3, <2>3 DEF EventStep, HandleOrderAck, ProcessAck, HandleKillSwitch,
                        HandleResolution, fillStateVars
    <3> QED
      BY <1>1, <2>1, <3>1 DEF Filled
  <2> QED
    BY <2>2, <2>3
<1> QED
  BY <1>2, <1>3

\* The other steps leave what is filled alone, and the entries of all
\* contracts but the one they are about.
LEMMA OthersFillNothing ==
  ASSUME TypeOK, InFlightIndexed, [Next]_vars, ~EventStep, NEW c
  PROVE  /\ Filled(c)' = Filled(c)
         /\ \/ EntryOf(exposures, c)' = EntryOf(exposures, c)
            \/ GiveUp /\ orders[submission.order].contract = c
            \/ (\E o \in OrderId : BeginSubmit(o)) /\ Head(intents).contract = c
<1> DEFINE i == Head(intents)
           n == i.size * LimitPrice
<1>1. Exposures(exposures) /\ Filled(c) \in Nat
  BY UnderwayType DEF TypeOK, ExposureTypeOK, Exposures
<1>2. CASE RejectIntent
  <2>1. i.contract \in Contract /\ n \in Nat
    BY <1>2, HeadIntent DEF RejectIntent
  <2> DEFINE e == AddPending(exposures, i.contract, n)
  <2>2. exposures' = RemovePending(e, i.contract, n)
    BY <1>2 DEF RejectIntent
  <2> HIDE DEF n, i
  <2>3. Exposures(e) /\ i.contract \in DOMAIN e
    BY <1>1, <2>1, AddPendingType DEF AddPending, Put
  <2>4. /\ EntryOf(e, i.contract).filled = EntryOf(exposures, i.contract).filled
        /\ EntryOf(e, i.contract).pending = EntryOf(exposures, i.contract).pending + n
        /\ \A d : d # i.contract => EntryOf(e, d) = EntryOf(exposures, d)
    BY <1>1, <2>1, AddPendingEntry
  <2> HIDE DEF e
  <2>5. /\ EntryOf(exposures', i.contract).filled = EntryOf(e, i.contract).filled
        /\ EntryOf(exposures', i.contract).pending = Minus(EntryOf(e, i.contract).pending, n)
        /\ \A d : d # i.contract => EntryOf(exposures', d) = EntryOf(e, d)
    BY <2>1, <2>2, <2>3, RemovePendingEntry
  <2>6. Exposures(exposures')
    BY <2>1, <2>2, <2>3, RemovePendingType
  <2>7. /\ EntryOf(exposures, i.contract) \in ContractExposure
        /\ EntryOf(exposures', i.contract) \in ContractExposure
    BY <1>1, <2>6, EntryType
  <2>8. EntryOf(exposures', i.contract) = EntryOf(exposures, i.contract)
    BY <2>1, <2>4, <2>5, <2>7 DEF Minus, ContractExposure
  <2> QED
    BY <2>4, <2>5, <2>8 DEF Filled
<1>3. ASSUME NEW o \in OrderId, BeginSubmit(o)
      PROVE  Filled(c)' = Filled(c) /\ (i.contract # c => EntryOf(exposures, c)' = EntryOf(exposures, c))
  <2>1. i.contract \in Contract /\ n \in Nat
    BY <1>3, HeadIntent DEF BeginSubmit
  <2>2. exposures' = AddPending(exposures, i.contract, n)
    BY <1>3 DEF BeginSubmit
  <2> HIDE DEF n, i
  <2> QED
    BY <1>1, <2>1, <2>2, AddPendingEntry DEF Filled
<1>4. ASSUME GiveUp
      PROVE  /\ Filled(c)' = Filled(c)
             /\ orders[submission.order].contract # c => EntryOf(exposures, c)' = EntryOf(exposures, c)
  <2> DEFINE r == orders[submission.order]
             k == r.size * r.price
  <2>1. r \in OrderRecord
    BY <1>4 DEF GiveUp, InFlightIndexed, TypeOK, TrackerTypeOK
  <2>2. k \in Int
    BY <2>1 DEF OrderRecord
  <2>3. exposures' = RemovePending(exposures, r.contract, k)
    BY <1>4 DEF GiveUp
  <2> HIDE DEF k, r
  <2>4. Filled(c)' = Filled(c) /\ (r.contract # c => EntryOf(exposures, c)' = EntryOf(exposures, c))
    BY <1>1, <2>2, <2>3, RemovePendingEntry DEF Filled
  <2> QED
    BY <2>4 DEF r
<1>5. CASE UNCHANGED exposures
  BY <1>5 DEF Filled
<1>6. \/ UNCHANGED exposures \/ RejectIntent \/ GiveUp
      \/ \E o \in OrderId : BeginSubmit(o)
  BY DEF Next, vars, IntentStep, SubmitStep, DispatchSignal, AttemptSucceeds, SendAck,
         RetryAttempt, FeedDelivers, PostEvent, ActivateKillSwitch, RequestShutdown, ShutDown,
         VenueStep, ClockStep, fillStateVars
<1> QED
  BY <1>2, <1>3, <1>4, <1>5, <1>6

\* How the queues move: at most one message is taken from the bus or put on
\* it, taken from the stream or put on it.
LEMMA QueuesMove ==
  ASSUME TypeOK, [Next]_vars
  PROVE  \/ bus' = bus /\ wire' = wire
         \/ EventStep /\ bus # << >> /\ bus' = Tail(bus) /\ wire' = wire
         \/ \E m \in Event : /\ bus' = Append(bus, m) /\ wire' = wire
                             /\ m.type \notin {"Fill", "OrderStateChange"}
         \/ wire # << >> /\ bus' = Append(bus, Head(wire)) /\ wire' = Tail(wire)
         \/ bus' = << >> /\ wire' = wire /\ stage' = "off"
         \/ VenueActs /\ bus' = bus
         \/ WireLoses /\ bus' = bus
         \/ WireRepeats /\ bus' = bus
<1>1. CASE SendAck
  <2>1. submission.order \in OrderId
    BY <1>1 DEF SendAck, TypeOK, Submission
  <2>2. AckEvent(submission.order) \in Event /\ AckEvent(submission.order).type = "OrderAck"
    BY <2>1, MessageTypes DEF Event, AckEvent
  <2> QED
    BY <1>1, <2>2 DEF SendAck, venueVars
<1>2. ASSUME NEW e \in Event, e.type \in {"KillSwitch", "Resolution"}, PostEvent(e)
      PROVE  /\ bus' = Append(bus, e) /\ wire' = wire
             /\ e.type \notin {"Fill", "OrderStateChange"}
  BY <1>2 DEF PostEvent, venueVars
<1>3. [type |-> "KillSwitch"] \in Event
      /\ \A m \in Markets : [type |-> "Resolution", market |-> m] \in Event
  BY LimitsAssumption DEF Event
<1>4. CASE EventStep
  BY <1>4 DEF EventStep, HandleOrderAck, HandleFill, HandleOrderStateChange,
              HandleKillSwitch, HandleResolution, Takes, venueVars
<1>5. CASE VenueStep
  BY <1>5 DEF VenueStep, loopVars
<1>6. CASE FeedDelivers
  BY <1>6 DEF FeedDelivers
<1>7. CASE ShutDown
  BY <1>7 DEF ShutDown, venueVars
<1>8. CASE bus' = bus /\ wire' = wire
  BY <1>8
<1>9. \/ SendAck \/ EventStep \/ VenueStep \/ FeedDelivers \/ ShutDown
      \/ bus' = bus /\ wire' = wire
      \/ \E e \in Event : e.type \in {"KillSwitch", "Resolution"} /\ PostEvent(e)
  BY <1>3 DEF Next, vars, venueVars, loopVars, IntentStep, SubmitStep, DispatchSignal,
              RejectIntent, BeginSubmit, Request, AttemptSucceeds, RetryAttempt, GiveUp,
              ActivateKillSwitch, RequestShutdown, ClockStep
<1> QED
  BY <1>1, <1>2, <1>4, <1>5, <1>6, <1>7, <1>8, <1>9

-----------------------------------------------------------------------------
(* What the venue was paid.                                                 *)

Costs(c) == [o \in OrdersOn(c) |-> venue[o].cost]

\* The cost of all orders on contract c.
CostOn(c) == SumFunction(Costs(c))

\* It is a number.
LEMMA CostType ==
  ASSUME RecordInv, NEW c
  PROVE  Summable(Costs(c)) /\ DOMAIN Costs(c) = OrdersOn(c) /\ CostOn(c) \in Nat
<1>1. IsFiniteSet(OrdersOn(c))
  BY FS_Subset DEF RecordInv, OrdersOn
<1>2. \A o \in OrdersOn(c) : venue[o].cost \in Nat
  BY DEF RecordInv, BeliefInv, CoreInv, TypeOK, VenueTypeOK, VenueOrder, OrdersOn
<1>3. Summable(Costs(c)) /\ \A o \in DOMAIN Costs(c) : Costs(c)[o] \in Nat
  BY <1>1, <1>2 DEF Costs, Summable
<1> QED
  BY <1>3, SumNat DEF Costs, CostOn

\* A submission costs nothing yet.
LEMMA CostBegins ==
  ASSUME RecordInv, NEW o \in OrderId, BeginSubmit(o), NEW c
  PROVE  CostOn(c)' = CostOn(c)
<1>1. /\ o \notin DOMAIN orders /\ DOMAIN orders' = DOMAIN orders \cup {o}
      /\ venue'[o].cost = 0
      /\ \A q \in DOMAIN orders : orders'[q] = orders[q] /\ venue'[q] = venue[q]
  <2>1. BeliefInv
    BY DEF RecordInv
  <2>2. venue'[o] = [contract |-> Head(intents).contract, price |-> LimitPrice,
                     size |-> Head(intents).size, filled |-> 0, cost |-> 0,
                     status |-> "Requested"]
    BY <2>1, BeginAdds
  <2>3. venue'[o].cost = 0
    BY <2>2
  <2> QED
    BY <2>1, <2>3, BeginAdds
<1>2. CASE orders'[o].contract = c
  <2> DEFINE f == Costs(c)
             g == Costs(c)'
  <2>1. /\ DOMAIN g = DOMAIN f \cup {o} /\ g[o] = 0 /\ o \notin DOMAIN f
        /\ \A x \in DOMAIN f : g[x] = f[x]
    BY <1>1, <1>2 DEF Costs, OrdersOn
  <2>2. Summable(f) /\ SumFunction(f) \in Nat
    BY CostType DEF CostOn
  <2> HIDE DEF f, g
  <2>3. SumFunction(g) = SumFunction(f) + 0 - 0
    BY <2>1, <2>2, SumAdds
  <2> QED
    BY <2>2, <2>3 DEF CostOn, f, g
<1>3. CASE orders'[o].contract # c
  <2>1. Costs(c)' = Costs(c)
    BY <1>1, <1>3 DEF Costs, OrdersOn
  <2> QED
    BY <2>1 DEF CostOn
<1> QED
  BY <1>2, <1>3

\* The cost grows by what the exchange reports.
LEMMA CostReported ==
  ASSUME RecordInv, ExchangeActs, UNCHANGED orders, NEW c
  PROVE  \E m \in VenueMessage : /\ wire' = Append(wire, m)
                                 /\ CostOn(c)' = CostOn(c) + Amount(m, c)
<1>1. VenueTypeOK /\ DOMAIN venue = DOMAIN orders
  BY DEF RecordInv, BeliefInv, CoreInv, TypeOK
<1>2. PICK o \in DOMAIN venue, m \in VenueMessage :
        LET v == venue[o]
            w == venue'[o]
        IN /\ \A q \in DOMAIN venue : q # o => venue'[q] = venue[q]
           /\ wire' = Append(wire, m)
           /\ \/ m.type # "Fill" /\ w.cost = v.cost
              \/ /\ m.type = "Fill" /\ m.contract = v.contract
                 /\ w.cost = v.cost + m.size * m.price
  BY <1>1, ExchangeDoes
<1> DEFINE f == Costs(c)
           g == Costs(c)'
           k == Amount(m, c)
<1>3. k \in Nat /\ CostOn(c) \in Nat /\ Summable(f) /\ venue[o].cost \in Nat
  BY <1>1, AmountType, CostType DEF VenueTypeOK, VenueOrder
<1>4. orders[o].contract = venue[o].contract
  BY <1>1 DEF RecordInv, AsAsked
<1>5. DOMAIN f = OrdersOn(c) /\ DOMAIN g = OrdersOn(c)
  BY DEF Costs, OrdersOn
<1>6. CASE o \in OrdersOn(c)
  <2>1. venue'[o].cost = venue[o].cost + k
    BY <1>2, <1>3, <1>4, <1>6 DEF OrdersOn, Amount
  <2>2. /\ DOMAIN g = DOMAIN f \cup {o} /\ o \in DOMAIN f
        /\ g[o] = f[o] + k /\ f[o] \in Nat
        /\ \A x \in DOMAIN f : x # o => g[x] = f[x]
    BY <1>1, <1>2, <1>3, <1>5, <1>6, <2>1 DEF Costs, OrdersOn
  <2> HIDE DEF f, g, k
  <2>3. SumFunction(g) = SumFunction(f) + g[o] - f[o]
    BY <1>3, <2>2, SumAdds
  <2>4. SumFunction(g) = SumFunction(f) + k
    <3>1. SumFunction(f) \in Int
      BY <1>3, SumType
    <3> QED
      BY <1>3, <2>2, <2>3, <3>1
  <2> QED
    BY <1>2, <2>4 DEF CostOn, f, g, k
<1>7. CASE o \notin OrdersOn(c)
  <2>1. k = 0
    BY <1>1, <1>2, <1>4, <1>7 DEF OrdersOn, Amount
  <2>2. g = f
    BY <1>1, <1>2, <1>7 DEF Costs, OrdersOn
  <2> HIDE DEF k
  <2>3. CostOn(c)' = CostOn(c) + k
    BY <1>3, <2>1, <2>2 DEF CostOn
  <2> QED
    BY <1>2, <2>3 DEF k
<1> QED
  BY <1>6, <1>7

\* It grows as well by what the simulation does not report.
LEMMA CostUnreported ==
  ASSUME RecordInv, SimulationActs, UNCHANGED orders, NEW c
  PROVE  CostOn(c)' \in Nat /\ CostOn(c)' >= CostOn(c)
<1>1. VenueTypeOK /\ DOMAIN venue = DOMAIN orders
  BY DEF RecordInv, BeliefInv, CoreInv, TypeOK
<1>2. PICK o \in DOMAIN venue :
        /\ \A q \in DOMAIN venue : q # o => venue'[q] = venue[q]
        /\ venue'[o].cost = venue[o].size * venue[o].price
  BY <1>1, SimulationDoes
<1> DEFINE f == Costs(c)
           g == Costs(c)'
           old == venue[o].cost
           new == venue[o].size * venue[o].price
<1>3. CostOn(c) \in Nat /\ Summable(f)
  BY <1>1, CostType
<1>4. old \in Nat /\ new \in Nat /\ old <= new
  <2>1. venue[o] \in VenueOrder /\ AsAsked(o)
    BY <1>1 DEF VenueTypeOK, RecordInv
  <2>2. /\ old \in Nat /\ venue[o].filled \in Nat /\ venue[o].size \in Nat
        /\ venue[o].price \in Nat
        /\ old <= venue[o].filled * venue[o].price /\ venue[o].filled <= venue[o].size
    BY <2>1 DEF VenueOrder, AsAsked
  <2> QED
    BY <2>2, CostLeft
<1>5. DOMAIN f = OrdersOn(c) /\ DOMAIN g = OrdersOn(c)
  BY DEF Costs, OrdersOn
<1>6. CASE o \in OrdersOn(c)
  <2>1. /\ DOMAIN g = DOMAIN f \cup {o} /\ o \in DOMAIN f /\ g[o] = new /\ f[o] = old
        /\ \A x \in DOMAIN f : x # o => g[x] = f[x]
    BY <1>1, <1>2, <1>5, <1>6 DEF Costs, OrdersOn
  <2>2. SumFunction(f) \in Int
    BY <1>3, SumType
  <2> HIDE DEF f, g, old, new
  <2>3. SumFunction(g) = SumFunction(f) + g[o] - f[o]
    BY <1>3, <1>4, <2>1, SumAdds
  <2>4. SumFunction(f) \in Nat
    BY <1>3 DEF CostOn, f
  <2>5. SumFunction(g) \in Nat /\ SumFunction(g) >= SumFunction(f)
    BY <1>4, <2>1, <2>3, <2>4
  <2> QED
    BY <2>5 DEF CostOn, f, g
<1>7. CASE o \notin OrdersOn(c)
  <2>1. g = f
    BY <1>1, <1>2, <1>7 DEF Costs, OrdersOn
  <2>2. CostOn(c)' = CostOn(c)
    BY <2>1 DEF CostOn
  <2> QED
    BY <1>3, <2>2
<1> QED
  BY <1>6, <1>7

\* All other steps leave the cost alone.
LEMMA CostStays ==
  ASSUME RecordInv, [Next]_vars, ~VenueActs, NEW c
  PROVE  CostOn(c)' = CostOn(c)
<1>1. CoreInv /\ DOMAIN venue = DOMAIN orders
  BY DEF RecordInv, BeliefInv
<1>2. CASE \E o \in OrderId : BeginSubmit(o)
  BY <1>2, CostBegins
<1>3. CASE ~\E o \in OrderId : BeginSubmit(o)
  <2>1. Costs(c)' = Costs(c)
    BY <1>1, <1>3, OrdersStay, VenueStays DEF Costs, OrdersOn
  <2> QED
    BY <2>1 DEF CostOn
<1> QED
  BY <1>2, <1>3

\* When the venue acts, nobody else does.
LEMMA VenueChanges ==
  ASSUME TypeOK, [Next]_vars, VenueActs
  PROVE  /\ VenueStep /\ ~EventStep
         /\ UNCHANGED <<orders, pendingContracts, exposures, bus, submission, stage, failed>>
<1>1. wire \in Seq(VenueMessage) /\ VenueTypeOK
  BY DEF TypeOK, VenueTypeOK
<1>2. \/ VenueStep
      \/ venue' = venue /\ (wire' = wire \/ FeedDelivers)
      \/ wire' = wire /\ \E o \in OrderId : BeginSubmit(o)
  <2>1. CASE IntentStep \/ SubmitStep
    BY <2>1 DEF venueVars, IntentStep, SubmitStep, RejectIntent, BeginSubmit, Request,
                AttemptSucceeds, SendAck, RetryAttempt, GiveUp
  <2>2. CASE EventStep
    BY <2>2 DEF venueVars, EventStep, HandleOrderAck, HandleFill, HandleOrderStateChange,
                HandleKillSwitch, HandleResolution
  <2>3. CASE FeedDelivers \/ VenueStep
    BY <2>3 DEF FeedDelivers
  <2>4. \/ IntentStep \/ SubmitStep \/ EventStep \/ FeedDelivers \/ VenueStep
        \/ venue' = venue /\ wire' = wire
    BY DEF Next, vars, venueVars, DispatchSignal, PostEvent, ActivateKillSwitch,
           RequestShutdown, ShutDown, ClockStep
  <2> QED
    BY <2>1, <2>2, <2>3, <2>4
<1>3. ASSUME ExchangeActs
      PROVE  wire' # wire /\ ~(wire # << >> /\ wire' = Tail(wire))
  <2>1. PICK m \in VenueMessage : wire' = Append(wire, m)
    BY <1>1, <1>3, ExchangeDoes
  <2>2. Len(wire') = Len(wire) + 1 /\ Len(wire) \in Nat
    BY <1>1, <2>1
  <2>3. wire # << >> => Len(Tail(wire)) = Len(wire) - 1
    BY <1>1
  <2> QED
    BY <2>2, <2>3
<1>4. ASSUME SimulationActs
      PROVE  venue' # venue /\ \A q \in OrderId : ~BeginSubmit(q)
  <2>1. PICK o \in DOMAIN venue : venue[o].status = "Requested" /\ venue'[o].status = "Filled"
    BY <1>1, <1>4, SimulationDoes
  <2>2. ASSUME NEW q \in OrderId, BeginSubmit(q) PROVE venue'[o].status = "Requested"
    BY <2>1, <2>2 DEF BeginSubmit, Request, Put
  <2> QED
    BY <2>1, <2>2
<1>5. VenueStep
  BY <1>2, <1>3, <1>4 DEF FeedDelivers, VenueActs
<1>6. ~EventStep
  BY <1>3, <1>4 DEF EventStep, HandleOrderAck, HandleFill, HandleOrderStateChange,
                    HandleKillSwitch, HandleResolution, venueVars, VenueActs
<1> QED
  BY <1>5, <1>6 DEF VenueStep, fillStateVars, loopVars

\* A repeated message changes the stream.
LEMMA RepeatsChange ==
  ASSUME TypeOK, [~WireRepeats]_vars PROVE ~WireRepeats
<1>1. ASSUME WireRepeats PROVE faults' # faults
  BY <1>1 DEF WireRepeats, TypeOK, VenueTypeOK
<1> QED
  BY <1>1 DEF vars, venueVars

\* What the venue filled and the bot has still to hear of or has heard of is
\* what the venue was paid, or less.
PaidInv == RecordInv /\ \A c \in Contract : Underway(c) <= CostOn(c)

\* The loop starts in PaidInv.
LEMMA PaidInit == Init => PaidInv
<1> SUFFICES ASSUME Init PROVE PaidInv
  OBVIOUS
<1>1. RecordInv
  BY RecordInit
<1>2. exposures = << >> /\ bus = << >> /\ wire = << >>
  BY DEF Init, ExposureInit, VenueInit
<1>3. \A c : Underway(c) = 0
  BY <1>2, FlowOfNone DEF Underway, Filled, EntryOf
<1> QED
  BY <1>1, <1>3, CostType DEF PaidInv

\* Every step keeps PaidInv, as long as no message is repeated.
LEMMA PaidStep == ASSUME PaidInv, [Next]_vars, [~WireRepeats]_vars PROVE PaidInv'
<1>1. RecordInv /\ RecordInv' /\ BeliefInv /\ CoreInv /\ TypeOK /\ TypeOK' /\ InFlightIndexed
  BY RecordStep DEF PaidInv, RecordInv, BeliefInv, CoreInv
<1>2. ASSUME NEW c \in Contract PROVE (Underway(c) <= CostOn(c))'
  <2> DEFINE f == Filled(c)
             b == Flow(bus, c)
             w == Flow(wire, c)
             f1 == Filled(c)'
             b1 == Flow(bus, c)'
             w1 == Flow(wire, c)'
  <2>1. f \in Nat /\ b \in Nat /\ w \in Nat /\ bus \in Seq(Event) /\ wire \in Seq(VenueMessage)
    BY <1>1, UnderwayType
  <2>2. f1 \in Nat /\ b1 \in Nat /\ w1 \in Nat
    <3>1. bus' \in Seq(Event) /\ wire' \in Seq(VenueMessage) /\ Exposures(exposures')
      BY <1>1 DEF TypeOK, VenueTypeOK, ExposureTypeOK, Exposures
    <3>2. b1 \in Nat /\ w1 \in Nat
      BY <3>1, EventAmount, AmountsType
    <3>3. EntryOf(exposures', c) \in ContractExposure
      BY <3>1, EntryType
    <3> QED
      BY <3>2, <3>3 DEF Filled, ContractExposure
  <2>3. CostOn(c) \in Nat /\ f + b + w <= CostOn(c)
    BY <1>1, CostType DEF PaidInv, Underway
  <2>4. CASE EventStep
    <3>1. bus # << >> /\ bus' = Tail(bus) /\ wire' = wire /\ ~VenueActs
      <4>1. bus # << >> /\ bus' = Tail(bus) /\ wire' = wire
        BY <2>4 DEF EventStep, HandleOrderAck, HandleFill, HandleOrderStateChange,
                    HandleKillSwitch, HandleResolution, Takes, venueVars
      <4> QED
        BY <1>1, <2>4, <4>1, VenueChanges
    <3>2. b = Amount(Head(bus), c) + b1 /\ w1 = w
      BY <2>1, <3>1, EventAmount, FlowTakes
    <3>3. Amount(Head(bus), c) \in Nat
      BY <2>1, <3>1, EventAmount, TailElements
    <3>4. f1 = f + Amount(Head(bus), c) \/ f1 = f
      BY <1>1, <2>4, EventFills
    <3>5. CostOn(c)' = CostOn(c)
      BY <1>1, <3>1, CostStays
    <3> DEFINE a == Amount(Head(bus), c)
    <3> HIDE DEF f, b, w, f1, b1, w1
    <3>6. f1 + b1 + w1 <= CostOn(c)
      <4>1. a \in Nat /\ b = a + b1 /\ w1 = w /\ (f1 = f + a \/ f1 = f)
        BY <3>2, <3>3, <3>4
      <4>2. f \in Nat /\ b \in Nat /\ w \in Nat
        BY <2>1
      <4> HIDE DEF a
      <4> QED
        BY <2>2, <2>3, <4>1, <4>2
    <3> QED
      BY <3>5, <3>6 DEF Underway, f1, b1, w1
  <2>5. CASE ~EventStep /\ VenueActs /\ bus' = bus
    <3>1. f1 = f /\ b1 = b
      BY <1>1, <2>5, OthersFillNothing
    <3>2. UNCHANGED orders
      BY <1>1, <2>5, VenueChanges
    <3>3. CASE ExchangeActs
      <4>1. PICK m \in VenueMessage :
              wire' = Append(wire, m) /\ CostOn(c)' = CostOn(c) + Amount(m, c)
        BY <1>1, <3>2, <3>3, CostReported
      <4>2. w1 = w + Amount(m, c) /\ Amount(m, c) \in Nat
        BY <2>1, <4>1, EventAmount, FlowAppend
      <4> HIDE DEF f, b, w, f1, b1, w1
      <4>3. f1 + b1 + w1 <= CostOn(c) + Amount(m, c)
        BY <2>1, <2>3, <3>1, <4>2
      <4> QED
        BY <4>1, <4>3 DEF Underway, f1, b1, w1
    <3>4. CASE SimulationActs
      <4>1. wire' = wire
        BY <1>1, <3>4, SimulationDoes DEF TypeOK
      <4>2. w1 = w /\ CostOn(c)' >= CostOn(c) /\ CostOn(c)' \in Nat
        BY <1>1, <3>2, <3>4, <4>1, CostUnreported
      <4> HIDE DEF f, b, w, f1, b1, w1
      <4>3. f1 + b1 + w1 <= CostOn(c)'
        BY <2>1, <2>2, <2>3, <3>1, <4>2
      <4> QED
        BY <4>3 DEF Underway, f1, b1, w1
    <3> QED
      BY <2>5, <3>3, <3>4 DEF VenueActs
  <2>6. CASE ~EventStep /\ ~VenueActs
    <3>1. f1 = f /\ CostOn(c)' = CostOn(c)
      BY <1>1, <2>6, OthersFillNothing, CostStays
    <3>2. b1 + w1 <= b + w
      <4>1. ASSUME NEW m \in Event, bus' = Append(bus, m), wire' = wire, m.type # "Fill"
            PROVE  b1 = b /\ w1 = w
        <5>1. b1 = b + Amount(m, c)
          BY <2>1, <4>1, EventAmount, FlowAppend
        <5> QED
          BY <2>1, <4>1, <5>1 DEF Amount
      <4>2. ASSUME wire # << >>, bus' = Append(bus, Head(wire)), wire' = Tail(wire)
            PROVE  b1 + w1 = b + w
        <5>1. Head(wire) \in VenueMessage /\ Head(wire) \in Event
          BY <2>1, <4>2, TailElements DEF Event
        <5>2. b1 = b + Amount(Head(wire), c)
          BY <2>1, <4>2, <5>1, EventAmount, FlowAppend
        <5>3. w = Amount(Head(wire), c) + w1 /\ Amount(Head(wire), c) \in Nat
          BY <2>1, <4>2, <5>1, EventAmount, FlowTakes
        <5> HIDE DEF f, b, w, f1, b1, w1
        <5> QED
          BY <2>1, <2>2, <5>2, <5>3
      <4>3. ASSUME bus' = << >>, wire' = wire PROVE b1 = 0 /\ w1 = w
        BY <4>3, FlowOfNone
      <4>4. ASSUME bus' = bus, wire # << >>, wire' = Tail(wire) PROVE b1 = b /\ w1 <= w
        <5>1. w = Amount(Head(wire), c) + w1 /\ Amount(Head(wire), c) \in Nat
          BY <2>1, <4>4, EventAmount, FlowTakes, TailElements
        <5> HIDE DEF w, w1
        <5> QED
          BY <2>2, <4>4, <5>1
      <4>5. ASSUME bus' = bus, wire' = wire PROVE b1 = b /\ w1 = w
        BY <4>5
      <4>6. ~WireRepeats
        BY <1>1, RepeatsChange
      <4> HIDE DEF f, b, w, f1, b1, w1
      <4> QED
        BY <1>1, <2>1, <2>2, <2>6, <4>1, <4>2, <4>3, <4>4, <4>5, <4>6, QueuesMove DEF WireLoses
    <3> HIDE DEF f, b, w, f1, b1, w1
    <3>3. f1 + b1 + w1 <= CostOn(c)
      BY <2>1, <2>2, <2>3, <3>1, <3>2
    <3> QED
      BY <3>1, <3>3 DEF Underway, f1, b1, w1
  <2>7. VenueActs => bus' = bus
    BY <1>1, VenueChanges
  <2> QED
    BY <2>4, <2>5, <2>6, <2>7
<1> QED
  BY <1>1, <1>2 DEF PaidInv

\* The filled exposure of a contract never exceeds what the venue filled on
\* it, whatever is lost or late, as long as no message comes twice.
THEOREM FillsCountedOnce ==
  Spec /\ [][~WireRepeats]_vars => []NoPhantomPosition
<1>1. PaidInv => NoPhantomPosition
  <2> SUFFICES ASSUME PaidInv, NEW c \in DOMAIN exposures
               PROVE  exposures[c].filled <= CostOn(c)
    BY DEF NoPhantomPosition, CostOn, Costs
  <2>1. TypeOK /\ RecordInv /\ c \in Contract
    BY DEF PaidInv, RecordInv, BeliefInv, CoreInv, TypeOK, ExposureTypeOK
  <2>2. Filled(c) \in Nat /\ Flow(bus, c) \in Nat /\ Flow(wire, c) \in Nat /\ CostOn(c) \in Nat
    BY <2>1, UnderwayType, CostType
  <2>3. exposures[c].filled = Filled(c)
    BY DEF Filled, EntryOf
  <2>4. Filled(c) + Flow(bus, c) + Flow(wire, c) <= CostOn(c)
    BY <2>1 DEF PaidInv, Underway
  <2> QED
    BY <2>2, <2>3, <2>4
<1> QED
  BY <1>1, PaidInit, PaidStep, PTL DEF Spec

-----------------------------------------------------------------------------
(* An order that is alone on its contract, and was submitted without an     *)
(* error, stays covered.                                                    *)

Sole(o) == o \in DOMAIN orders \ failed /\ OrdersOn(orders[o].contract) = {o}

\* Either its whole notional is still counted, or the venue ended it and what
\* it filled is.
Counted(e, v) ==
  \/ e.pending + e.filled >= v.size * v.price
  \/ v.status \in {"Canceled", "Rejected"} /\ e.filled >= v.cost

\* Until the bot is off, whatever the order has cost is counted or on its way,
\* all of it ahead of the message that ends the order. No message ends an order
\* that is filled, and what it cost its notional covers.
Covered(o) ==
  LET c == orders[o].contract
      v == venue[o]
  IN /\ Counted(EntryOf(exposures, c), v)
     /\ stage # "off" => \/ v.status = "Filled"
                         \/ Coming(Filled(c), bus, wire, o, c, v.cost)

CoverInv == RecordInv /\ \A o \in DOMAIN orders : Sole(o) => Covered(o)

\* An order that is alone on its contract was so before, or is new.
LEMMA SoleBefore ==
  ASSUME RecordInv, [Next]_vars, NEW o \in DOMAIN orders', Sole(o)'
  PROVE  \/ /\ o \in DOMAIN orders /\ Sole(o)
            /\ orders'[o].contract = orders[o].contract
         \/ o \notin DOMAIN orders /\ o \in OrderId /\ BeginSubmit(o)
<1>1. CoreInv /\ BeliefInv
  BY DEF RecordInv, BeliefInv
<1>2. failed \subseteq failed'
  BY DEF Next, vars, loopVars, IntentStep, SubmitStep, EventStep, DispatchSignal,
         RejectIntent, BeginSubmit, AttemptSucceeds, SendAck, RetryAttempt, GiveUp,
         FeedDelivers, HandleOrderAck, HandleFill, HandleOrderStateChange, HandleKillSwitch,
         HandleResolution, PostEvent, ActivateKillSwitch, RequestShutdown, ShutDown,
         VenueStep, ClockStep
<1>3. CASE /\ DOMAIN orders' = DOMAIN orders
           /\ \A q \in DOMAIN orders : orders'[q].contract = orders[q].contract
  BY <1>2, <1>3 DEF Sole, OrdersOn
<1>4. ASSUME NEW x \in OrderId, BeginSubmit(x), o # x
      PROVE  /\ o \in DOMAIN orders /\ Sole(o)
             /\ orders'[o].contract = orders[o].contract
  <2>1. /\ DOMAIN orders' = DOMAIN orders \cup {x}
        /\ \A q \in DOMAIN orders : orders'[q] = orders[q]
    BY <1>1, <1>4, BeginAdds
  <2> QED
    BY <1>2, <1>4, <2>1 DEF Sole, OrdersOn
<1>5. ASSUME BeginSubmit(o), o \in OrderId PROVE o \notin DOMAIN orders
  BY <1>1, <1>5, BeginAdds
<1> QED
  BY <1>1, <1>3, <1>4, <1>5, OrdersStay

\* A new order has its notional counted and has cost nothing.
LEMMA CoveredAnew ==
  ASSUME RecordInv, TypeOK', NEW o \in OrderId, BeginSubmit(o)
  PROVE  Covered(o)'
<1> DEFINE i == Head(intents)
           c == i.contract
           n == i.size * LimitPrice
<1>1. BeliefInv /\ TypeOK
  BY DEF RecordInv, BeliefInv, CoreInv
<1>2. c \in Contract /\ n \in Nat
  BY <1>1, HeadIntent DEF BeginSubmit
<1>3. /\ orders'[o].contract = c
      /\ venue'[o] = [contract |-> c, price |-> LimitPrice, size |-> i.size,
                      filled |-> 0, cost |-> 0, status |-> "Requested"]
  BY <1>1, BeginAdds
<1>4. venue'[o].size * venue'[o].price = n /\ venue'[o].cost = 0
  BY <1>3
<1> DEFINE f == EntryOf(exposures', c).filled
<1>5. bus' \in Seq(Event) /\ wire' \in Seq(Event)
  BY SeqMonotonic, VenueMessage \subseteq Event DEF TypeOK, VenueTypeOK, Event
<1>6. exposures' = AddPending(exposures, c, n) /\ Exposures(exposures)
  BY <1>1 DEF BeginSubmit, TypeOK, ExposureTypeOK, Exposures
<1> HIDE DEF n, c
<1>7. EntryOf(exposures, c) \in ContractExposure
  BY <1>6, EntryType
<1>8. /\ f \in Nat
      /\ EntryOf(exposures', c).pending + EntryOf(exposures', c).filled >= n
  BY <1>2, <1>6, <1>7, AddPendingEntry DEF ContractExposure
<1>9. Coming(f, bus', wire', o, c, 0)
  <2> HIDE DEF f
  <2> QED
    BY <1>5, <1>8, EventAmount, ComingNothing
<1> QED
  BY <1>3, <1>4, <1>8, <1>9 DEF Covered, Counted, Filled

\* A message taken: a fill moves from the queue to the exposure, and a cancel
\* or a reject takes back what is pending only once all fills are counted.
LEMMA CoveredTaken ==
  ASSUME RecordInv, EventStep, NEW o \in DOMAIN orders, Sole(o), Covered(o),
         orders'[o].contract = orders[o].contract
  PROVE  Covered(o)'
<1> DEFINE c == orders[o].contract
           v == venue[o]
           e == Head(bus)
           k == v.cost
           x == EntryOf(exposures, c)
           y == EntryOf(exposures', c)
<1>1. TypeOK /\ BeliefInv /\ VenueTypeOK /\ TrackerTypeOK /\ Exposures(exposures)
  BY DEF RecordInv, BeliefInv, CoreInv, TypeOK, ExposureTypeOK, Exposures
<1>2. bus # << >> /\ bus' = Tail(bus) /\ UNCHANGED <<wire, venue>> /\ stage' = stage /\ stage # "off"
  BY DEF EventStep, HandleOrderAck, HandleFill, HandleOrderStateChange, HandleKillSwitch,
         HandleResolution, Takes, Idle, venueVars
<1>3. bus \in Seq(Event) /\ wire \in Seq(Event) /\ e \in Event
  BY <1>1, <1>2, SeqMonotonic, VenueMessage \subseteq Event DEF TypeOK, VenueTypeOK, Event
<1>4. /\ x \in ContractExposure /\ k \in Nat /\ v.size \in Nat /\ v.price \in Nat
      /\ v.size # 0 /\ v.price # 0 /\ v.contract = c
  BY <1>1, EntryType DEF RecordInv, BeliefInv, VenueTypeOK, VenueOrder, AsAsked
<1>5. /\ Counted(x, v)
      /\ v.status # "Filled" => Coming(x.filled, bus, wire, o, c, k)
  BY <1>2 DEF Covered, Filled
<1>6. ASSUME v.status # "Filled"
      PROVE  /\ Coming(x.filled + Amount(e, c), bus', wire, o, c, k)
             /\ Concerns(e, o) => x.filled >= k
  <2>0. Coming(x.filled, bus, wire, o, c, k)
    BY <1>5, <1>6
  <2>1. x.filled \in Nat
    BY <1>4 DEF ContractExposure
  <2> HIDE DEF x, c, k
  <2> QED
    BY <1>2, <1>3, <1>4, <2>0, <2>1, EventAmount, ComingTaken
<1>7. ASSUME c \notin DOMAIN exposures PROVE k = 0
  <2>1. x.pending = 0 /\ x.filled = 0
    BY <1>7 DEF EntryOf
  <2>2. v.size * v.price > 0
    <3> HIDE DEF v
    <3> QED
      BY <1>4
  <2> QED
    BY <1>4, <1>5, <2>1, <2>2 DEF Counted
<1>8. ASSUME v.status # "Filled" PROVE Coming(y.filled, bus', wire, o, c, k)
  <2>1. CASE y.filled = x.filled + Amount(e, c)
    BY <1>6, <1>8, <2>1
  <2>2. CASE y.filled = x.filled /\ c \notin DOMAIN exposures
    <3>1. k = 0 /\ y.filled \in Nat /\ bus' \in Seq(Event)
      BY <1>2, <1>3, <1>4, <1>7, <2>2 DEF ContractExposure
    <3> HIDE DEF y, c
    <3>2. Coming(y.filled, bus', wire, o, c, 0)
      BY <1>3, <3>1, EventAmount, ComingNothing
    <3> QED
      BY <3>1, <3>2
  <2>3. \/ y.filled = x.filled + Amount(e, c)
        \/ y.filled = x.filled /\ c \notin DOMAIN exposures
    BY <1>1, EventFills DEF Filled
  <2> QED
    BY <2>1, <2>2, <2>3
<1>9. Counted(y, v)
  <2>1. ASSUME y.pending + y.filled >= x.pending + x.filled, y.filled >= x.filled,
               y \in ContractExposure
        PROVE  Counted(y, v)
    <3> DEFINE n == v.size * v.price
    <3>1. n \in Nat
      BY <1>4
    <3>2. Counted(x, v) <=> \/ x.pending + x.filled >= n
                            \/ v.status \in {"Canceled", "Rejected"} /\ x.filled >= k
      BY DEF Counted
    <3>3. Counted(y, v) <=> \/ y.pending + y.filled >= n
                            \/ v.status \in {"Canceled", "Rejected"} /\ y.filled >= k
      BY DEF Counted
    <3> HIDE DEF n, x, y, k
    <3> QED
      BY <1>4, <1>5, <2>1, <3>1, <3>2, <3>3 DEF ContractExposure
  <2>2. CASE HandleFill
    <3> DEFINE n == e.size * e.price
    <3>1. e.size \in Nat /\ e.price \in Nat /\ n \in Nat
      BY <1>1, <2>2, TakesType, EventTypes DEF HandleFill
    <3>2. exposures' = ApplyFill(exposures, e.contract, n)
      BY <2>2 DEF HandleFill, ProcessFill
    <3>3. y \in ContractExposure
      BY <1>1, <3>1, <3>2, ApplyFillType, EntryType
    <3> HIDE DEF n, e
    <3>4. y.pending + y.filled >= x.pending + x.filled /\ y.filled >= x.filled
      BY <1>1, <1>4, <3>1, <3>2, <3>3, ApplyFillEntry DEF Minus, ContractExposure
    <3> QED
      BY <2>1, <3>3, <3>4
  <2>3. CASE HandleOrderStateChange
    <3> DEFINE r == orders[e.order]
               n == (r.size - r.filled) * r.price
    <3>1. e.type = "OrderStateChange" /\ e.state \in {"Canceled", "Rejected"}
      BY <1>1, <2>3, TakesType, EventTypes DEF HandleOrderStateChange
    <3>2. MessageSound(e)
      BY <1>1, <1>2, <1>3, TailElements DEF BeliefInv
    <3>3. e.order \in DOMAIN orders /\ venue[e.order].status = e.state
      BY <1>1, <3>1, <3>2 DEF MessageSound, BeliefInv
    <3>4. exposures' = RemovePending(exposures, r.contract, n)
      BY <2>3, <3>1, <3>3 DEF HandleOrderStateChange, ProcessStateChange
    <3>5. n \in Int
      <4>1. r \in OrderRecord
        BY <1>1, <3>3 DEF TrackerTypeOK
      <4> QED
        BY <4>1 DEF OrderRecord
    <3>6. CASE e.order = o
      <4>1. y.filled = x.filled
        <5> HIDE DEF n
        <5> QED
          BY <1>1, <3>4, <3>5, <3>6, RemovePendingEntry
      <4>2. v.status \in {"Canceled", "Rejected"} /\ x.filled >= k
        BY <1>6, <3>1, <3>3, <3>6 DEF Concerns
      <4> QED
        BY <4>1, <4>2 DEF Counted
    <3>7. CASE e.order # o
      <4>1. r.contract # c
        BY <3>3, <3>7 DEF Sole, OrdersOn
      <4>2. y = x
        <5> HIDE DEF n
        <5> QED
          BY <1>1, <3>4, <3>5, <4>1, RemovePendingEntry
      <4> QED
        BY <1>5, <4>2
    <3> QED
      BY <3>6, <3>7
  <2>4. CASE ~HandleFill /\ ~HandleOrderStateChange
    <3>1. exposures' = exposures
      BY <2>4 DEF EventStep, HandleOrderAck, ProcessAck, HandleKillSwitch, HandleResolution,
                  fillStateVars
    <3> QED
      BY <1>5, <3>1
  <2> QED
    BY <2>2, <2>3, <2>4
<1> QED
  BY <1>2, <1>8, <1>9 DEF Covered, Filled

\* What the simulation does with the order: it fills all of it, for what is
\* counted already.
LEMMA CoveredSimulated ==
  ASSUME RecordInv, [Next]_vars, VenueActs, SimulationActs, NEW o \in DOMAIN orders, Covered(o)
  PROVE  Covered(o)'
<1>1. VenueTypeOK /\ DOMAIN venue = DOMAIN orders
  BY DEF RecordInv, BeliefInv, CoreInv, TypeOK
<1>2. UNCHANGED <<orders, exposures, bus, stage>>
  BY <1>1, VenueChanges DEF RecordInv, BeliefInv, CoreInv
<1>3. /\ wire' = wire
      /\ venue'[o] = venue[o] \/ /\ venue[o].status = "Requested" /\ venue'[o].status = "Filled"
                                 /\ venue'[o].size = venue[o].size
                                 /\ venue'[o].price = venue[o].price
  BY <1>1, SimulationDoes
<1> QED
  BY <1>2, <1>3 DEF Covered, Counted, Filled

\* What the exchange does with the order: it fills no order it has ended, and
\* reports a fill before the end.
LEMMA CoveredActs ==
  ASSUME RecordInv, [Next]_vars, VenueActs, ExchangeActs, NEW o \in DOMAIN orders, Covered(o)
  PROVE  Covered(o)'
<1> DEFINE c == orders[o].contract
           v == venue[o]
           w == venue'[o]
           x == EntryOf(exposures, c)
           f == x.filled
<1>1. TypeOK /\ BeliefInv /\ VenueTypeOK /\ Exposures(exposures) /\ DOMAIN venue = DOMAIN orders
  BY DEF RecordInv, BeliefInv, CoreInv, TypeOK, ExposureTypeOK, Exposures
<1>2. UNCHANGED <<orders, exposures, bus, stage>>
  BY <1>1, VenueChanges
<1>3. PICK q \in DOMAIN venue, m \in VenueMessage :
        /\ \A z \in DOMAIN venue : z # q => venue'[z] = venue[z]
        /\ wire' = Append(wire, m) /\ m.order = q
        /\ venue'[q].size = venue[q].size /\ venue'[q].price = venue[q].price
        /\ venue[q].status \in {"Requested", "Open"}
        /\ \/ m.type # "Fill" /\ venue'[q].cost = venue[q].cost
           \/ /\ m.type = "Fill" /\ m.contract = venue[q].contract
              /\ venue'[q].cost = venue[q].cost + m.size * m.price
  BY <1>1, ExchangeDoes
<1>4. bus \in Seq(Event) /\ wire \in Seq(Event) /\ m \in Event
  BY <1>1, SeqMonotonic, VenueMessage \subseteq Event DEF TypeOK, VenueTypeOK, Event
<1>5. x \in ContractExposure /\ v.cost \in Nat /\ AsAsked(o) /\ v \in VenueOrder
  BY <1>1, EntryType DEF RecordInv, VenueTypeOK, VenueOrder
<1>6. /\ w.size = v.size /\ w.price = v.price
      /\ v.status \in {"Canceled", "Rejected"} => w = v
      /\ w.cost = v.cost \/ (q = o /\ m.type = "Fill" /\ w.cost = v.cost + Amount(m, c))
  BY <1>3, <1>1, <1>5 DEF Amount, AsAsked
<1>7. Counted(x, w)
  BY <1>6 DEF Covered, Counted
<1>8. ASSUME stage # "off", w.status # "Filled"
      PROVE  Coming(f, bus, Append(wire, m), o, c, w.cost)
  <2>0. v.status # "Filled"
    BY <1>1, <1>3, <1>8
  <2>1. f \in Nat /\ Coming(f, bus, wire, o, c, v.cost)
    BY <1>5, <1>8, <2>0 DEF Covered, Filled, ContractExposure
  <2>2. CASE w.cost = v.cost
    <3>1. Coming(f, bus, Append(wire, m), o, c, v.cost)
      <4> HIDE DEF f, c, v
      <4> QED
        BY <1>4, <1>5, <2>1, EventAmount, ComingSent
    <3> QED
      BY <2>2, <3>1
  <2>3. CASE q = o /\ m.type = "Fill" /\ w.cost = v.cost + Amount(m, c)
    <3>1. \A i \in DOMAIN bus : ~Concerns(bus[i], o)
      <4>1. ASSUME NEW i \in DOMAIN bus, Concerns(bus[i], o) PROVE FALSE
        <5>1. MessageSound(bus[i]) /\ bus[i] \in Event
          BY <1>1, <1>4 DEF BeliefInv
        <5>2. v.status \in {"Canceled", "Rejected"}
          BY <4>1, <5>1, EventTypes DEF MessageSound, Concerns
        <5> QED
          BY <1>3, <2>3, <5>2
      <4> QED
        BY <4>1
    <3>2. \A i \in DOMAIN wire : ~Concerns(wire[i], o)
      <4>1. ASSUME NEW i \in DOMAIN wire, Concerns(wire[i], o) PROVE FALSE
        <5>1. MessageSound(wire[i]) /\ wire[i] \in Event
          BY <1>1, <1>4 DEF BeliefInv
        <5>2. v.status \in {"Canceled", "Rejected"}
          BY <4>1, <5>1, EventTypes DEF MessageSound, Concerns
        <5> QED
          BY <1>3, <2>3, <5>2
      <4> QED
        BY <4>1
    <3>3. ~Concerns(m, o)
      BY <2>3 DEF Concerns
    <3> HIDE DEF f, c
    <3>4. Coming(f, bus, Append(wire, m), o, c, v.cost + Amount(m, c))
      <4> HIDE DEF v
      <4> QED
        BY <1>4, <1>5, <2>1, <3>1, <3>2, <3>3, EventAmount, ComingFilled
    <3> QED
      BY <2>3, <3>4
  <2> QED
    BY <1>6, <2>2, <2>3
<1> QED
  BY <1>2, <1>3, <1>7, <1>8 DEF Covered, Filled

\* The other steps leave the entry and the venue's record alone; of the
\* messages none is lost.
LEMMA CoveredKept ==
  ASSUME RecordInv, [Next]_vars, ~EventStep, ~VenueActs, [~WireLoses]_vars,
         NEW o \in DOMAIN orders, Sole(o), Sole(o)', Covered(o),
         orders'[o].contract = orders[o].contract
  PROVE  Covered(o)'
<1> DEFINE c == orders[o].contract
           v == venue[o]
           x == EntryOf(exposures, c)
           f == x.filled
           k == v.cost
<1>1. TypeOK /\ BeliefInv /\ VenueTypeOK /\ Exposures(exposures) /\ InFlightIndexed
      /\ DOMAIN venue = DOMAIN orders
  BY DEF RecordInv, BeliefInv, CoreInv, TypeOK, ExposureTypeOK, Exposures
<1>2. /\ bus \in Seq(Event) /\ wire \in Seq(Event)
      /\ \A m \in VenueMessage : m \in Event
  BY <1>1, SeqMonotonic, VenueMessage \subseteq Event DEF TypeOK, VenueTypeOK, Event
<1>3. venue'[o] = v
  <2>1. ASSUME NEW q \in OrderId, BeginSubmit(q) PROVE venue'[o] = v
    BY <1>1, <2>1, BeginAdds
  <2> QED
    BY <2>1, VenueStays
<1>4. EntryOf(exposures', c) = x
  <2>1. \/ EntryOf(exposures', c) = x
        \/ GiveUp /\ orders[submission.order].contract = c
        \/ (\E q \in OrderId : BeginSubmit(q)) /\ Head(intents).contract = c
    BY <1>1, OthersFillNothing
  <2>2. ASSUME GiveUp, orders[submission.order].contract = c PROVE FALSE
    <3>1. submission.order \in DOMAIN orders /\ failed' = failed \cup {submission.order}
      BY <1>1, <2>2 DEF GiveUp, InFlightIndexed
    <3> QED
      BY <2>2, <3>1 DEF Sole, OrdersOn
  <2>3. ASSUME NEW q \in OrderId, BeginSubmit(q), Head(intents).contract = c PROVE FALSE
    <3>1. q \notin DOMAIN orders /\ q \in DOMAIN orders' /\ orders'[q].contract = c
      BY <1>1, <2>3, BeginAdds
    <3> QED
      BY <3>1 DEF Sole, OrdersOn
  <2> QED
    BY <2>1, <2>2, <2>3
<1>5. f \in Nat /\ k \in Nat
  BY <1>1, EntryType DEF ContractExposure, VenueTypeOK, VenueOrder
<1>6. stage' # "off" => stage # "off"
  BY DEF Next, vars, loopVars, IntentStep, SubmitStep, EventStep, DispatchSignal,
         RejectIntent, BeginSubmit, AttemptSucceeds, SendAck, RetryAttempt, GiveUp,
         FeedDelivers, PostEvent, ActivateKillSwitch, RequestShutdown, ShutDown,
         VenueStep, ClockStep, Idle
<1>7. ASSUME stage' # "off", v.status # "Filled" PROVE Coming(f, bus', wire', o, c, k)
  <2>1. Coming(f, bus, wire, o, c, k)
    BY <1>6, <1>7 DEF Covered, Filled
  <2> HIDE DEF f, c, k
  <2>2. CASE bus' = bus /\ wire' = wire
    BY <2>1, <2>2
  <2>3. ASSUME NEW m \in Event, bus' = Append(bus, m), wire' = wire,
               m.type \notin {"Fill", "OrderStateChange"}
        PROVE  Coming(f, bus', wire', o, c, k)
    <3>1. Amount(m, c) = 0 /\ ~Concerns(m, o)
      BY <2>3 DEF Amount, Concerns
    <3> QED
      BY <1>2, <1>5, <2>1, <2>3, <3>1, EventAmount, ComingPut
  <2>4. CASE wire # << >> /\ bus' = Append(bus, Head(wire)) /\ wire' = Tail(wire)
    BY <1>2, <1>5, <2>1, <2>4, EventAmount, ComingMoved
  <2>5. CASE WireRepeats /\ bus' = bus
    <3>1. Head(wire) \in Event /\ wire' = Append(wire, Head(wire))
      BY <1>2, <2>5, TailElements DEF WireRepeats
    <3> QED
      BY <1>2, <1>5, <2>1, <2>5, <3>1, EventAmount, ComingSent
  <2>6. ~WireLoses
    <3>1. ASSUME WireLoses PROVE faults' # faults
      BY <1>1, <3>1 DEF WireLoses, VenueTypeOK
    <3> QED
      BY <3>1 DEF vars, venueVars
  <2> QED
    BY <1>1, <1>7, <2>2, <2>3, <2>4, <2>5, <2>6, QueuesMove
<1> QED
  BY <1>3, <1>4, <1>7 DEF Covered, Filled

\* The loop starts in CoverInv.
LEMMA CoverInit == Init => CoverInv
<1>1. Init => DOMAIN orders = {}
  BY DEF Init, TrackerInit
<1> QED
  BY <1>1, RecordInit DEF CoverInv

\* Every step keeps CoverInv, as long as no message is lost.
LEMMA CoverStep == ASSUME CoverInv, [Next]_vars, [~WireLoses]_vars PROVE CoverInv'
<1>1. RecordInv /\ RecordInv' /\ TypeOK' /\ TypeOK
  BY RecordStep DEF CoverInv, RecordInv, BeliefInv, CoreInv
<1>2. ASSUME NEW o \in DOMAIN orders', Sole(o)' PROVE Covered(o)'
  <2>1. CASE o \notin DOMAIN orders /\ o \in OrderId /\ BeginSubmit(o)
    BY <1>1, <2>1, CoveredAnew
  <2>2. CASE o \in DOMAIN orders /\ Sole(o) /\ orders'[o].contract = orders[o].contract
    <3>1. Covered(o)
      BY <2>2 DEF CoverInv
    <3>2. CASE EventStep
      BY <1>1, <2>2, <3>1, <3>2, CoveredTaken
    <3>3. CASE VenueActs
      BY <1>1, <2>2, <3>1, <3>3, CoveredActs, CoveredSimulated DEF VenueActs
    <3>4. CASE ~EventStep /\ ~VenueActs
      BY <1>1, <1>2, <2>2, <3>1, <3>4, CoveredKept
    <3> QED
      BY <3>2, <3>3, <3>4
  <2> QED
    BY <1>1, <1>2, <2>1, <2>2, SoleBefore
<1> QED
  BY <1>1, <1>2 DEF CoverInv

\* The gates see all an order may cost while it is the only one on its
\* contract and its submission did not fail, as long as no message is lost.
THEOREM ExposureCoversCost ==
  Spec /\ [][~WireLoses]_vars => []SoleOrderCovered
<1>1. CoverInv => SoleOrderCovered
  <2> SUFFICES ASSUME CoverInv, NEW c \in Contract, NEW o \in OrdersOn(c) \ failed,
                      OrdersOn(c) = {o}
               PROVE  ContractNotional(c) >= OpenCost(o)
    BY DEF SoleOrderCovered
  <2> DEFINE v == venue[o]
             x == EntryOf(exposures, c)
             n == v.size * v.price
  <2>1. o \in DOMAIN orders /\ orders[o].contract = c /\ Sole(o) /\ TypeOK /\ AsAsked(o)
    BY DEF OrdersOn, Sole, CoverInv, RecordInv, BeliefInv, CoreInv
  <2>2. x \in ContractExposure /\ v \in VenueOrder
    BY <2>1, EntryType
       DEF TypeOK, ExposureTypeOK, Exposures, VenueTypeOK, CoverInv, RecordInv, BeliefInv
  <2>3. Counted(x, v)
    BY <2>1 DEF CoverInv, Covered
  <2>4. /\ v.cost \in Nat /\ v.filled \in Nat /\ v.size \in Nat /\ v.price \in Nat
        /\ v.filled <= v.size /\ v.cost <= v.filled * v.price
    BY <2>1, <2>2 DEF AsAsked, VenueOrder
  <2>5. v.cost + (v.size - v.filled) * v.price <= n /\ v.cost <= n
    <3> HIDE DEF v
    <3> QED
      BY <2>4, CostLeft
  <2>6. n \in Nat /\ (v.size - v.filled) * v.price \in Int
    BY <2>4
  <2>7. x.pending \in Nat /\ x.filled \in Nat
    BY <2>2 DEF ContractExposure
  <2> DEFINE rest == (v.size - v.filled) * v.price
  <2>8. OpenCost(o) = v.cost + (IF v.status \in {"Requested", "Open"} THEN rest ELSE 0)
    BY DEF OpenCost
  <2>9. /\ ContractNotional(c) = x.pending + x.filled
        /\ \/ x.pending + x.filled >= n
           \/ v.status \in {"Canceled", "Rejected"} /\ x.filled >= v.cost
    BY <2>3 DEF ContractNotional, Counted
  <2> HIDE DEF n, rest, x
  <2> QED
    BY <2>4, <2>5, <2>6, <2>7, <2>8, <2>9 DEF rest
<1> QED
  BY <1>1, CoverInit, CoverStep, PTL DEF Spec
=============================================================================
