----------------------------- MODULE RiskLimits ------------------------------
(***************************************************************************)
(* What bounds an order: RiskConfig (src/src/config.rs), SizingEngine      *)
(* (strategy/sizing.rs), LimitEngine (risk/limits.rs) and LiveGuard        *)
(* (validation/live_guard.rs). Sizes and limits are whole USDC; exposures, *)
(* being sizes times prices, are in units of 1/One USDC. A size the code   *)
(* would not round is rounded down.                                        *)
(***************************************************************************)
EXTENDS Pricing

CONSTANTS
  BaseRisk,    \* the RiskConfig the app was started with
  GuardRisk,   \* LiveValidationConfig, with the same fields
  Allowed      \* LiveValidationConfig: allowed_durations

SizingMode ==
  [kind : {"FixedNotional"}, amount : Nat] \cup [kind : {"PercentOfEquity"}, pct : Nat]
    \cup [kind : {"CappedKelly"}, fraction : Nat, max : Nat]

RiskConfig == [maxOrder : Nat, maxPosition : Nat, maxConcurrent : Nat, maxGross : Nat]

ASSUME RiskAssumption ==
  BaseRisk \in RiskConfig /\ GuardRisk \in RiskConfig /\ Allowed \subseteq Duration

-----------------------------------------------------------------------------
(* Sizing.                                                                 *)

\* Fractional Kelly, with odds of (1 - m) / m; nothing on a negative edge.
KellyNotional(equity, p, m, fraction) ==
  IF m <= 0 \/ m >= One THEN 0
  ELSE LET f == (p * (One - m) - (One - p) * m) \div (One - m)
       IN IF f <= 0 THEN 0 ELSE (((f * fraction) \div One) * equity) \div One

RawSize(mode, equity, q) ==
  CASE mode.kind = "FixedNotional"   -> mode.amount
    [] mode.kind = "PercentOfEquity" -> (equity * mode.pct) \div One
    [] mode.kind = "CappedKelly" ->
         Least(KellyNotional(equity, FairValue(q), q.price, mode.fraction), mode.max)

\* Mutant of Capacity: the position that is already there is forgotten.
WholeCapacity(risk, current) == risk.maxPosition

\* Room left in the market, beside `current` exposure.
Capacity(risk, current) == Greatest((risk.maxPosition * One - current) \div One, 0)

\* The clips in turn; less than MIN_NOTIONAL, one USDC, is nothing.
Size(mode, risk, equity, current, q) ==
  Min({RawSize(mode, equity, q), risk.maxOrder, Capacity(risk, current),
       q.depth \div 4, equity \div 2})

-----------------------------------------------------------------------------
(* The limit engine: the names of the limits an order of n would break.    *)

Keeps(name, risk, exposed, n) ==
  CASE name = "max_position_per_market" -> exposed.contract + n * One <= risk.maxPosition * One
    [] name = "max_concurrent_positions" ->
         exposed.active + (IF exposed.contract = 0 THEN 1 ELSE 0) <= risk.maxConcurrent
    [] name = "max_gross_exposure" -> exposed.gross + n * One <= risk.maxGross * One
    [] name = "max_notional_per_order" -> n <= risk.maxOrder

Violations(risk, exposed, n) ==
  {name \in {"max_position_per_market", "max_concurrent_positions", "max_gross_exposure",
             "max_notional_per_order"} : ~Keeps(name, risk, exposed, n)}

-----------------------------------------------------------------------------
(* The live guard.                                                         *)

\* apply_overrides. A market may hold no more than one order.
ApplyOverrides(base) ==
  [maxOrder      |-> Least(GuardRisk.maxOrder, base.maxOrder),
   maxPosition   |-> Least(GuardRisk.maxOrder, base.maxPosition),
   maxConcurrent |-> Least(GuardRisk.maxConcurrent, base.maxConcurrent),
   maxGross      |-> Least(GuardRisk.maxGross, base.maxGross)]

\* Mutant of GuardPasses: the exposure is compared without the new order.
GuardPassesOnCurrent(acked, exposed, duration, n) ==
  /\ acked
  /\ Allowed = {} \/ duration \in Allowed
  /\ n <= GuardRisk.maxOrder
  /\ exposed.gross <= GuardRisk.maxGross * One
  /\ exposed.active < GuardRisk.maxConcurrent

\* LiveGuard::check, except for the asset.
GuardPasses(acked, exposed, duration, n) ==
  /\ acked
  /\ Allowed = {} \/ duration \in Allowed
  /\ n <= GuardRisk.maxOrder
  /\ exposed.gross + n * One <= GuardRisk.maxGross * One
  /\ exposed.active < GuardRisk.maxConcurrent
=============================================================================
