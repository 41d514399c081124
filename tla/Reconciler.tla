----------------------------- MODULE Reconciler ------------------------------
(***************************************************************************)
(* Reconciler::reconcile (src/src/execution/reconciliation.rs) and the     *)
(* loading of its results into the tracker and the exposures. It waits     *)
(* twice, for the open orders and for the balance; between the two it      *)
(* loads. The app does not call it yet: that the task which handles venue  *)
(* events awaits it, and tries again when it fails, is how the runbooks    *)
(* and docs/standby-model.md use it.                                       *)
(***************************************************************************)
EXTENDS FillStateProcessor, Venue

CONSTANT MaxLoads   \* bound: how often the orders are loaded

ASSUME LoadsAssumption == MaxLoads \in Nat

VARIABLES
  stage,        \* where reconcile() is: "out", "fetching", "checking"
  openOrders,   \* the venue's answer: a set of OpenOrderInfo
  safe,         \* safe_to_trade of the last result, FALSE before it
  unknown,      \* orders of the last answer the tracker did not know
  loads         \* bound: loads so far

reconcileVars == <<stage, openOrders, safe, unknown, loads>>

OpenOrderInfo == [order : OrderId, contract : Contract, price : Nat, size : Nat,
                  remaining : Nat, state : Working]

ReconcileInit ==
  stage = "out" /\ openOrders = {} /\ safe = FALSE /\ unknown = {} /\ loads = 0

InfoOf(o) ==
  [order |-> o, contract |-> venue[o].contract, price |-> venue[o].price,
   size |-> venue[o].size, remaining |-> venue[o].size - venue[o].filled,
   state |-> IF venue[o].filled > 0 THEN "PartialFill" ELSE "Acked"]

OpenAtVenue == {o \in DOMAIN venue : venue[o].status = "Open"}

\* The venue answers with what is open now, in any order: which of a
\* contract's orders comes last is left open until they are loaded.
VenueListsOrders ==
  /\ stage = "out" /\ loads < MaxLoads
  /\ openOrders' = {InfoOf(o) : o \in OpenAtVenue}
  /\ stage' = "fetching"
  /\ UNCHANGED <<fillStateVars, venueVars, safe, unknown, loads>>

\* The call for the open orders fails: nothing was changed.
FetchFails ==
  /\ stage = "fetching"
  /\ stage' = "out" /\ openOrders' = {}
  /\ UNCHANGED <<fillStateVars, venueVars, safe, unknown, loads>>

-----------------------------------------------------------------------------
RecordOf(info) ==
  [contract |-> info.contract, price |-> info.price, size |-> info.size,
   filled |-> info.size - info.remaining, state |-> info.state]

\* Mutant of ExposureOf: only what is still open counts.
ExposureOfRest(info) == [pending |-> info.remaining * info.price, filled |-> 0]

ExposureOf(info) ==
  [pending |-> info.remaining * info.price,
   filled  |-> (info.size - info.remaining) * info.price]

\* Every order of the answer is loaded, known or not.
Loaded == openOrders

\* Entries are inserted; what was under their keys is replaced.
Inserted(map, new) ==
  [k \in DOMAIN map \cup DOMAIN new |-> IF k \in DOMAIN new THEN new[k] ELSE map[k]]

LoadedOrders == {info.order : info \in Loaded}

\* `last`: for each contract the order of it that is inserted last.
LoadTracker(last) ==
  /\ orders' = Inserted(orders,
       [o \in LoadedOrders |-> RecordOf(CHOOSE info \in Loaded : info.order = o)])
  /\ pendingContracts' = Inserted(pendingContracts, [c \in DOMAIN last |-> last[c].order])

LoadExposures(last) ==
  exposures' = Inserted(exposures, [c \in DOMAIN last |-> ExposureOf(last[c])])

\* The answer is here: compared with the tracker, then loaded over it.
LoadOpenOrders ==
  /\ stage = "fetching"
  /\ unknown' = {info.order : info \in openOrders} \ DOMAIN orders
  /\ \E last \in [{info.contract : info \in Loaded} -> Loaded] :
       /\ \A c \in DOMAIN last : last[c].contract = c
       /\ LoadTracker(last) /\ LoadExposures(last)
  /\ stage' = "checking" /\ loads' = loads + 1
  /\ UNCHANGED <<venueVars, openOrders, safe>>

\* The balance is here: the result, with what was unknown before the load.
BalanceArrives ==
  /\ stage = "checking"
  /\ safe' = (unknown = {})
  /\ stage' = "out" /\ openOrders' = {}
  /\ UNCHANGED <<fillStateVars, venueVars, unknown, loads>>

\* The call for the balance fails: an error, but the orders stay loaded.
BalanceFails ==
  /\ stage = "checking"
  /\ stage' = "out" /\ openOrders' = {} /\ safe' = FALSE
  /\ UNCHANGED <<fillStateVars, venueVars, unknown, loads>>

Reconcile ==
  VenueListsOrders \/ FetchFails \/ LoadOpenOrders \/ BalanceArrives \/ BalanceFails
=============================================================================
