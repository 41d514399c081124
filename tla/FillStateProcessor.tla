------------------------- MODULE FillStateProcessor -------------------------
(***************************************************************************)
(* FillStateProcessor of src/src/execution/fill_state.rs: what the three   *)
(* kinds of venue event do to the tracker and to the exposures.            *)
(***************************************************************************)
EXTENDS OrderTracker, ExposureTracker

fillStateVars == <<orders, pendingContracts, exposures>>

\* Mutant of ProcessAck: an acknowledged order is no longer pending exposure.
ProcessAckAsOpen(o) ==
  /\ UpdateState(o, "Acked")
  /\ exposures' = IF o \in DOMAIN orders
                  THEN RemovePending(exposures, orders[o].contract,
                                     orders[o].size * orders[o].price)
                  ELSE exposures

\* process_ack
ProcessAck(o) == UpdateState(o, "Acked") /\ UNCHANGED exposures

\* Mutant of ProcessFill: the notional is taken at the order's limit price.
ProcessFillAtLimit(o, c, size, price, remaining) ==
  /\ TrackFill(o, size, IF remaining = 0 THEN "Filled" ELSE "PartialFill")
  /\ exposures' = ApplyFill(exposures, c, size * orders[o].price)

\* process_fill: `size` filled at `price`, `remaining` still open.
ProcessFill(o, c, size, price, remaining) ==
  /\ TrackFill(o, size, IF remaining = 0 THEN "Filled" ELSE "PartialFill")
  /\ exposures' = ApplyFill(exposures, c, size * price)

\* process_state_change: a cancel or reject gives back what the record says
\* is unfilled, at the limit price.
ProcessStateChange(o, s) ==
  /\ UpdateState(o, s)
  /\ exposures' =
       IF s \in {"Canceled", "Rejected"} /\ o \in DOMAIN orders
       THEN LET r == orders[o]
            IN RemovePending(exposures, r.contract, (r.size - r.filled) * r.price)
       ELSE exposures
=============================================================================
