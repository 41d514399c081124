-------------------------------- MODULE Desk ---------------------------------
(***************************************************************************)
(* A bot that restarts while orders of its last session are open: it       *)
(* reconciles, handles the venue's messages about them, evaluates quotes   *)
(* against what it then holds (alone, or behind the live guard as the      *)
(* documents ask of a live session), and scans for orders to cancel.       *)
(* Submission is modelled in TradingLoop, which starts from an accepted    *)
(* signal; here an evaluation ends with one.                               *)
(***************************************************************************)
EXTENDS Reconciler, CancelPolicy, SignalPipeline

CONSTANTS
  OldOrders,   \* the venue's books at the restart: a set of them
  CreatedAt,   \* order -> when the venue says it was created
  Quotes,      \* what a contract may be quoted at
  Modes,       \* sizing modes
  Equities,    \* equity at the start
  MaxTime      \* bound: the clock stops here

ASSUME DeskAssumption ==
  /\ CreatedAt \in [OrderId -> Nat] /\ MaxTime \in Nat /\ Equities \subseteq Nat
  /\ Quotes \subseteq Quote /\ Modes \subseteq SizingMode /\ IsFiniteSet(Contract)

\* The simulation client forgets its orders: open_orders answers with none.
ASSUME ClientAssumption == Clients = {"Exchange"}

\* What was filled was filled at the order's price or a better one. A request
\* of the last session may still be on its way.
ASSUME OldOrdersAssumption ==
  \A book \in OldOrders :
    /\ DOMAIN book \subseteq OrderId /\ book \in [DOMAIN book -> VenueOrder]
    /\ \A o \in DOMAIN book : /\ book[o].filled <= book[o].size
                              /\ book[o].cost <= book[o].filled * book[o].price

VARIABLES
  live,       \* whether the live guard is in force
  acked,      \* LiveGuard::operator_acked
  mode,       \* the sizing mode
  equity,     \* its value
  decision    \* the last evaluation's intent, or NoDecision

settingVars == <<live, mode, equity>>
vars == <<fillStateVars, venueVars, reconcileVars, createdAt, now, settingVars, acked, decision>>

NoDecision == [accepted |-> FALSE]

Init ==
  /\ TrackerInit /\ ExposureInit /\ ReconcileInit
  /\ venue \in OldOrders /\ wire = << >> /\ faults = 0
  /\ createdAt = CreatedAt /\ now = 0
  /\ live \in BOOLEAN /\ mode \in Modes /\ equity \in Equities
  /\ acked = FALSE /\ decision = NoDecision

\* The risk configuration in force.
Risk == IF live THEN ApplyOverrides(BaseRisk) ELSE BaseRisk

\* ExposureSnapshot, and the exposure of c.
Exposed(c) ==
  [contract |-> ContractNotional(c),
   gross    |-> SumFunction([k \in DOMAIN exposures |-> ContractNotional(k)]),
   active   |-> Cardinality(DOMAIN exposures)]

\* Locks, kill switch and the engine's health let the contract through.
Context(c) ==
  [risk |-> Risk, mode |-> mode, equity |-> equity, current |-> ContractNotional(c),
   positions |-> ActivePositionCount, locked |-> FALSE, killed |-> FALSE, execHealthy |-> TRUE]

Evaluate(c, q) ==
  /\ stage = "out" /\ safe
  /\ Accepts(q, Context(c))
  /\ live => GuardPasses(acked, Exposed(c), q.duration, SizeFor(q, Context(c)))
  /\ decision' = [accepted |-> TRUE, contract |-> c, quote |-> q,
                  intent |-> Intent(q, Context(c))]
  /\ UNCHANGED <<fillStateVars, venueVars, reconcileVars, createdAt, now, settingVars, acked>>

HandleMessage ==
  /\ stage = "out" /\ loads > 0 /\ wire # << >>
  /\ wire' = Tail(wire)
  /\ LET e == Head(wire)
     IN \/ e.type = "OrderAck" /\ ProcessAck(e.order)
        \/ e.type = "Fill" /\ ProcessFill(e.order, e.contract, e.size, e.price, e.remaining)
        \/ e.type = "OrderStateChange" /\ ProcessStateChange(e.order, e.state)
  /\ decision' = NoDecision
  /\ UNCHANGED <<venue, faults, reconcileVars, createdAt, now, settingVars, acked>>

ReconcileStep ==
  Reconcile /\ decision' = NoDecision /\ UNCHANGED <<createdAt, now, settingVars, acked>>

VenueStep ==
  /\ VenueActs /\ decision' = NoDecision
  /\ UNCHANGED <<fillStateVars, reconcileVars, createdAt, now, settingVars, acked>>

OperatorAck ==
  /\ live /\ ~acked /\ acked' = TRUE /\ decision' = NoDecision
  /\ UNCHANGED <<fillStateVars, venueVars, reconcileVars, createdAt, now, settingVars>>

TimePasses ==
  /\ now < MaxTime /\ now' = now + 1 /\ decision' = NoDecision
  /\ UNCHANGED <<fillStateVars, venueVars, reconcileVars, createdAt, settingVars, acked>>

Next == \/ \E c \in Contract, q \in Quotes : Evaluate(c, q)
        \/ HandleMessage \/ ReconcileStep \/ VenueStep \/ OperatorAck \/ TimePasses

Spec == Init /\ [][Next]_vars

-----------------------------------------------------------------------------
\* An accepted order earns what the gate asks for at the size it gets, on the
\* side it takes, although the edge was computed before there was a size
\* (pipeline.rs 111, 117, 153-183).
AcceptedPaysItsCosts ==
  decision.accepted =>
    LET q == decision.quote
        gain == IF decision.intent.side = "Buy" THEN FairValue(q) - q.price
                ELSE q.price - FairValue(q)
    IN gain - TotalCost(q, decision.intent.size) >= Thresholds[q.duration].minNetEdge

\* Sizing and the limit engine agree on what both know: an accepted order
\* breaks neither the limit of its market nor that of an order. The limits on
\* positions and on gross exposure only the limit engine has, and the app does
\* not ask it (limits.rs 67-110, sizing.rs 128-140).
SizedWithinLimits ==
  decision.accepted =>
    Violations(Risk, Exposed(decision.contract), decision.intent.size)
      \subseteq {"max_concurrent_positions", "max_gross_exposure"}

\* Behind the live guard the limit engine has nothing left to refuse: what is
\* sized under the guard's overrides and let through by its check is within
\* all four of its limits (live_guard.rs 117-197).
GuardedWithinLimits ==
  decision.accepted /\ live =>
    Violations([GuardRisk EXCEPT !.maxPosition = GuardRisk.maxOrder],
               Exposed(decision.contract), decision.intent.size) = {}

\* After a restart the gates see at least what a loaded order may still cost,
\* and the index keeps a second order away from its contract, whichever of the
\* order's fills the venue's list and its messages both report, if no other
\* order is on the contract: of two, the one listed last hides the other
\* (reconciliation.rs 170-188, submit.rs 165-179).
OpenCost(o) ==
  LET v == venue[o]
  IN v.cost + (IF v.status = "Open" THEN (v.size - v.filled) * v.price ELSE 0)

RestartCovered ==
  \A o \in DOMAIN orders :
    (\A p \in DOMAIN venue : venue[p].contract = venue[o].contract => p = o) =>
       /\ ContractNotional(venue[o].contract) >= OpenCost(o)
       /\ orders[o].state \in Working =>
            /\ venue[o].contract \in DOMAIN pendingContracts
            /\ pendingContracts[venue[o].contract] = o

\* The scan, which uses the limits of five-minute markets for every order,
\* leaves none alone that is over age by the limits of its own market, and an
\* emergency cancels no less than a scan (cancel_policy.rs 126-252).
NothingOutlivesTheScan ==
  /\ \A o \in DOMAIN orders, d \in Duration :
       /\ orders[o].state \in Working
       /\ Age(o) > Greatest(Limits[d].maxOrderAge, Limits[d].partialFillTimeout)
       => o \in AppScan
  /\ \A d \in Duration, expiry \in 0..MaxTime :
       ScanOrders(DOMAIN orders, d, expiry) \subseteq CancelAll(DOMAIN orders)
=============================================================================
