--------------------------- MODULE SignalPipeline ----------------------------
(***************************************************************************)
(* SignalGates (src/src/strategy/filters.rs) and SignalPipeline            *)
(* (pipeline.rs): from a quote to an intent. Besides the quote a decision  *)
(* reads a context x: the risk configuration, the sizing mode, the equity, *)
(* and what the bot holds.                                                 *)
(***************************************************************************)
EXTENDS RiskLimits

CONSTANT Thresholds   \* duration -> its MarketRegimeThresholds

ASSUME ThresholdsAssumption ==
  Thresholds \in [Duration -> [minNetEdge : Nat, minConfidence : Nat, minDepth : Nat,
                               feedTolerance : Nat, bookTolerance : Nat]]

\* Mutant of CostNotional: the smallest order stands for all.
SmallestNotional(risk) == 1

\* The order size the edge is computed for, before there is one.
CostNotional(risk) == risk.maxOrder

\* Gates 2 and 3 and the depth gate; a book older than tolerated, or none.
DataRejections(q, th) ==
  (IF ~q.cexHealthy \/ q.tickAge > th.feedTolerance THEN {"StaleFeed"} ELSE {})
    \cup (IF q.bookAge = None \/ q.bookAge > th.bookTolerance THEN {"StaleBook"} ELSE {})
    \cup (IF q.bookAge # None /\ q.depth < th.minDepth THEN {"InsufficientLiquidity"} ELSE {})

ValueRejections(q, risk, th) ==
  (IF Confidence(q) < th.minConfidence THEN {"BelowConfidence"} ELSE {})
    \cup (IF NetEdge(q, CostNotional(risk)) < th.minNetEdge THEN {"BelowEdgeThreshold"} ELSE {})

\* Gates 7 to 10; positions count when something was filled.
StateRejections(x) ==
  (IF x.locked THEN {"ContractLocked"} ELSE {})
    \cup (IF x.killed THEN {"KillSwitchActive"} ELSE {})
    \cup (IF ~x.execHealthy THEN {"ExecutionUnhealthy"} ELSE {})
    \cup (IF x.positions >= x.risk.maxConcurrent THEN {"MaxExposureReached"} ELSE {})

\* GateResult: all gates are evaluated and all reasons kept.
Rejections(q, x) ==
  DataRejections(q, Thresholds[q.duration])
    \cup ValueRejections(q, x.risk, Thresholds[q.duration])
    \cup StateRejections(x)

\* The sizing of step 4; a result of zero is a rejection of its own.
SizeFor(q, x) == Size(x.mode, x.risk, x.equity, x.current, q)

Accepts(q, x) == Rejections(q, x) = {} /\ SizeFor(q, x) > 0

Side(q) == IF FairValue(q) > q.price THEN "Buy" ELSE "Sell"

Intent(q, x) == [side |-> Side(q), price |-> q.price, size |-> SizeFor(q, x)]
=============================================================================
