------------------------------- MODULE Pricing -------------------------------
(***************************************************************************)
(* FairValueEngine (src/src/strategy/fair_value.rs) and EdgeCalculator     *)
(* (edge.rs). Probabilities, prices, rates and edges are whole basis       *)
(* points (One is 1.0), money is whole USDC, ages are in one unit of time. *)
(* Where the code divides Decimals the model rounds down.                  *)
(*                                                                         *)
(* A quote q is everything one evaluation reads of the market.             *)
(***************************************************************************)
EXTENDS Integers, FiniteSetsExt

CONSTANTS
  TakerRate,           \* FeeSchedule: taker_rate
  ProbabilityScaled,   \* FeeSchedule: probability_scaled
  LatencyBuffer,       \* latency_decay_buffer
  None                 \* an Option without a value

One == 10000

ASSUME PricingAssumption ==
  /\ TakerRate \in 0..One /\ ProbabilityScaled \in BOOLEAN /\ LatencyBuffer \in Nat

Duration == {"FiveMin", "FifteenMin"}
Outcome == {"Up", "Down"}

Quote ==
  [outcome : Outcome, duration : Duration, spot : Nat, open : Nat, momentum : Int \cup {None},
   volatility : Int \cup {None}, secondary : Nat \cup {None}, price : 0..One, depth : Nat,
   tickAge : Nat, cexHealthy : BOOLEAN, bookAge : Nat \cup {None}]

Least(a, b) == Min({a, b})
Greatest(a, b) == Max({a, b})
Distance(a, b) == Greatest(a - b, b - a)

-----------------------------------------------------------------------------
(* Fair value.                                                             *)

\* The price's move since the window opened.
MovePct(q) == IF q.open = 0 THEN 0 ELSE ((q.spot - q.open) * One) \div q.open

\* The app's short_delta is that same move, once more.
MomentumAdj(q) == MovePct(q) * (IF q.momentum = None THEN 1 ELSE q.momentum)

Minutes(d) == IF d = "FiveMin" THEN 5 ELSE 15

\* The move in units of the window's volatility, where one is known: the
\* yearly one times the window's share of a year.
NormalisedMove(q) ==
  IF q.volatility = None \/ q.volatility <= 0 THEN MovePct(q)
  ELSE ((MovePct(q) * One) \div q.volatility) * (525600 \div Minutes(q.duration))

\* duration_scale times the sensitivity of 10.
Scale(d) == IF d = "FiveMin" THEN 15 ELSE 10

DirectionSign(outcome) == IF outcome = "Up" THEN 1 ELSE -1

FairValue(q) ==
  Least(Greatest(One \div 2 + (NormalisedMove(q) + MomentumAdj(q)) * Scale(q.duration)
                                * DirectionSign(q.outcome),
                 100), 9900)

ConsensusPenalty(q) ==
  IF q.secondary = None \/ q.spot <= 0 THEN 0
  ELSE LET diff == (Distance(q.secondary, q.spot) * One) \div q.spot
       IN IF diff > 10 THEN Least(diff * 100, 3000) ELSE 0

Unless(known, penalty) == IF known = None THEN penalty ELSE 0

Confidence(q) ==
  Greatest(One - Unless(q.momentum, 500) - Unless(q.volatility, 1000)
               - Unless(q.secondary, 500) - ConsensusPenalty(q), 1000)

-----------------------------------------------------------------------------
(* Edge, for an order of n USDC.                                           *)

EffectiveRate(p) ==
  IF ProbabilityScaled THEN (TakerRate * Least(p, One - p)) \div One ELSE TakerRate

\* Entry at the market price and exit at the fair value, per USDC.
FeesFrac(q, n) == IF n > 0 THEN EffectiveRate(q.price) + EffectiveRate(FairValue(q)) ELSE 0

EntrySlippage(n, depth) ==
  IF depth > 0 THEN Least((200 * n) \div depth, 500) ELSE 500

ExitSlippage(n, depth) == Least((3 * EntrySlippage(n, depth)) \div 2, 500)

GrossEdge(q) == Distance(FairValue(q), q.price)

LatencyDecay(q) ==
  IF LatencyBuffer > 0 THEN Least((100 * q.tickAge) \div LatencyBuffer, GrossEdge(q)) ELSE 0

TotalCost(q, n) ==
  FeesFrac(q, n) + EntrySlippage(n, q.depth) + ExitSlippage(n, q.depth) + LatencyDecay(q)

NetEdge(q, n) == GrossEdge(q) - TotalCost(q, n)
=============================================================================
