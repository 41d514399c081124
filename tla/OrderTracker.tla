---------------------------- MODULE OrderTracker ----------------------------
(***************************************************************************)
(* OrderTracker of src/src/execution/submit.rs: every order by client id,  *)
(* and for every contract the order that blocks another submission.  Both  *)
(* maps sit behind their own lock, but one task (the main loop) makes all  *)
(* the writes, so each operation is one step.                              *)
(***************************************************************************)
EXTENDS Domain, Naturals, FiniteSets

VARIABLES orders,            \* client order id -> OrderRecord
          pendingContracts   \* contract -> id of its open order

trackerVars == <<orders, pendingContracts>>

\* The fields of OrderRecord that decide something; price is the limit price.
OrderRecord == [contract : Contract, price : Nat, size : Nat, filled : Nat,
                state : OrderState]

TrackerTypeOK ==
  /\ DOMAIN orders \subseteq OrderId
  /\ orders \in [DOMAIN orders -> OrderRecord]
  /\ DOMAIN pendingContracts \subseteq Contract
  /\ pendingContracts \in [DOMAIN pendingContracts -> OrderId]

TrackerInit == orders = << >> /\ pendingContracts = << >>

-----------------------------------------------------------------------------
\* register: the order and its contract's index entry, whatever was there.
Register(o, record) ==
  /\ orders' = Put(orders, o, record)
  /\ pendingContracts' = Put(pendingContracts, record.contract, o)

\* has_pending_order: only the indexed order is looked at.
HasPendingOrder(c) ==
  /\ c \in DOMAIN pendingContracts
  /\ pendingContracts[c] \in DOMAIN orders
  /\ orders[pendingContracts[c]].state \in Working

ActiveCount == Cardinality({o \in DOMAIN orders : orders[o].state \in Active})

\* The index after an order of contract c moved to state s: a terminal state
\* removes the contract's entry, whichever order the entry names.
IndexAfter(c, s) ==
  IF s \in Terminal THEN Without(pendingContracts, c) ELSE pendingContracts

\* update_state: unconditional on the old state, silent on an unknown order.
UpdateState(o, s) ==
  IF o \in DOMAIN orders
  THEN /\ orders' = [orders EXCEPT ![o].state = s]
       /\ pendingContracts' = IndexAfter(orders[o].contract, s)
  ELSE UNCHANGED trackerVars

\* Mutant of MarkUncertain: a failed submission counts as rejected.
MarkRejected(o) == UpdateState(o, "Rejected")

MarkUncertain(o) == UpdateState(o, "Uncertain")

\* apply_fill: the reported size replaces the recorded one.
TrackFill(o, size, s) ==
  IF o \in DOMAIN orders
  THEN /\ orders' = [orders EXCEPT ![o].filled = size, ![o].state = s]
       /\ pendingContracts' = IF s = "Filled"
                              THEN Without(pendingContracts, orders[o].contract)
                              ELSE pendingContracts
  ELSE UNCHANGED trackerVars
=============================================================================
