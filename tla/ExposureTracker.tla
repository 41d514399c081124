-------------------------- MODULE ExposureTracker ---------------------------
(***************************************************************************)
(* ExposureTracker of src/src/execution/fill_state.rs: per contract the    *)
(* notional of submitted orders and of fills.  The operations are written  *)
(* as maps from exposures to exposures because one handler applies two of  *)
(* them.  Fees, average price and time stamps decide nothing and are left  *)
(* out.                                                                    *)
(***************************************************************************)
EXTENDS Domain, Naturals, FiniteSets

VARIABLE exposures   \* contract -> ContractExposure, for contracts with any

ContractExposure == [pending : Nat, filled : Nat]

ExposureTypeOK ==
  /\ DOMAIN exposures \subseteq Contract
  /\ exposures \in [DOMAIN exposures -> ContractExposure]

ExposureInit == exposures = << >>

\* Mutant of Minus: without the clamp.
MinusUnclamped(a, b) == a - b

\* (a - b).max(ZERO)
Minus(a, b) == IF a >= b THEN a - b ELSE 0

EntryOf(e, c) == IF c \in DOMAIN e THEN e[c] ELSE [pending |-> 0, filled |-> 0]

-----------------------------------------------------------------------------
\* add_pending
AddPending(e, c, notional) ==
  Put(e, c, [EntryOf(e, c) EXCEPT !.pending = @ + notional])

\* remove_pending: clamped at zero; an entry with nothing left disappears.
RemovePending(e, c, notional) ==
  IF c \notin DOMAIN e THEN e
  ELSE LET left == Minus(e[c].pending, notional)
       IN IF left = 0 /\ e[c].filled = 0
          THEN Without(e, c)
          ELSE [e EXCEPT ![c].pending = left]

\* apply_fill: a fill for a contract without an entry is dropped.
ApplyFill(e, c, notional) ==
  IF c \notin DOMAIN e THEN e
  ELSE [e EXCEPT ![c] = [pending |-> Minus(@.pending, notional),
                         filled  |-> @.filled + notional]]

\* contract_notional
ContractNotional(c) == EntryOf(exposures, c).pending + EntryOf(exposures, c).filled

\* active_position_count: pending orders are not counted.
ActivePositionCount ==
  Cardinality({c \in DOMAIN exposures : exposures[c].filled > 0})
=============================================================================
