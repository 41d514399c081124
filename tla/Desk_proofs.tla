----------------------------- MODULE Desk_proofs ------------------------------
(***************************************************************************)
(* Proofs about Desk, for any orders left open on any finitely many        *)
(* contracts, any quotes, limits and sizing modes: what a restart covers,  *)
(* and sizing against the limit engine and the live guard.                 *)
(***************************************************************************)
EXTENDS Desk, FillStateProcessor_proofs, FiniteSetTheorems

-----------------------------------------------------------------------------
(* Arithmetic of sizes.                                                     *)

\* The least of two and of five numbers is one of them and none is less.
LEMMA LeastOfTwo ==
  ASSUME NEW a \in Int, NEW b \in Int
  PROVE  Least(a, b) \in {a, b} /\ Least(a, b) <= a /\ Least(a, b) <= b
<1>1. \E x \in {a, b} : \A y \in {a, b} : x <= y
  OBVIOUS
<1> QED
  BY <1>1 DEF Least, Min

\* The same of the greatest.
LEMMA GreatestOfTwo ==
  ASSUME NEW a \in Int, NEW b \in Int
  PROVE  Greatest(a, b) \in {a, b} /\ Greatest(a, b) >= a /\ Greatest(a, b) >= b
<1>1. \E x \in {a, b} : \A y \in {a, b} : x >= y
  OBVIOUS
<1> QED
  BY <1>1 DEF Greatest, Max

\* And of the least of the five that bound a size.
LEMMA LeastOfFive ==
  ASSUME NEW a \in Int, NEW b \in Int, NEW c \in Int, NEW d \in Int, NEW e \in Int
  PROVE  LET m == Min({a, b, c, d, e}) IN m \in Int /\ m <= b /\ m <= c
<1>1. \E x \in {a, b, c, d, e} : \A y \in {a, b, c, d, e} : x <= y
  <2>1. PICK u \in {a, b, c} : u <= a /\ u <= b /\ u <= c
    OBVIOUS
  <2>2. PICK v \in {u, d, e} : v <= u /\ v <= d /\ v <= e
    BY <2>1
  <2>3. v \in {a, b, c, d, e} /\ v <= a /\ v <= b /\ v <= c /\ v <= d /\ v <= e
    BY <2>1, <2>2
  <2> QED
    BY <2>3
<1>2. PICK x \in {a, b, c, d, e} : \A y \in {a, b, c, d, e} : x <= y
  BY <1>1
<1>3. Min({a, b, c, d, e}) \in {a, b, c, d, e}
      /\ \A y \in {a, b, c, d, e} : Min({a, b, c, d, e}) <= y
  BY <1>2 DEF Min
<1> QED
  BY <1>3

\* Quotients of whole numbers are whole numbers.
LEMMA Quotients == \A x \in Int, n \in Nat \ {0} : x \div n \in Int
  OBVIOUS

\* A fair value is a whole number of basis points.
LEMMA FairValueIsInt == ASSUME NEW q \in Quote PROVE FairValue(q) \in Int
<1>1. /\ q.spot \in Nat /\ q.open \in Nat /\ q.duration \in Duration
      /\ q.momentum = None \/ q.momentum \in Int
      /\ q.volatility = None \/ q.volatility \in Int
  BY DEF Quote
<1>2. MovePct(q) \in Int
  <2>1. (q.spot - q.open) * One \in Int
    BY <1>1 DEF One
  <2> QED
    BY <1>1, <2>1, Quotients DEF MovePct
<1>3. MomentumAdj(q) \in Int
  <2>1. \A x, y \in Int : x * y \in Int
    OBVIOUS
  <2> QED
    BY <1>1, <1>2, <2>1 DEF MomentumAdj
<1>4. NormalisedMove(q) \in Int
  <2>1. CASE q.volatility = None \/ q.volatility <= 0
    BY <1>2, <2>1 DEF NormalisedMove
  <2>2. CASE q.volatility # None /\ ~(q.volatility <= 0)
    <3>1. q.volatility \in Nat \ {0}
      BY <1>1, <2>2
    <3>2. MovePct(q) * One \in Int /\ Minutes(q.duration) \in Nat \ {0}
      BY <1>1, <1>2 DEF One, Minutes
    <3>3. (MovePct(q) * One) \div q.volatility \in Int
      BY <3>1, <3>2, Quotients
    <3>4. 525600 \div Minutes(q.duration) \in Int
      BY <3>2, Quotients
    <3>5. \A x, y \in Int : x * y \in Int
      OBVIOUS
    <3> QED
      BY <2>2, <3>3, <3>4, <3>5 DEF NormalisedMove
  <2> QED
    BY <2>1, <2>2
<1>5. Scale(q.duration) \in Int /\ DirectionSign(q.outcome) \in Int
  BY DEF Scale, DirectionSign
<1> DEFINE raw == One \div 2 + (NormalisedMove(q) + MomentumAdj(q)) * Scale(q.duration)
                                * DirectionSign(q.outcome)
<1>6. raw \in Int
  <2>1. \A x, y, s, d \in Int : 5000 + (x + y) * s * d \in Int
    OBVIOUS
  <2>2. One \div 2 = 5000
    BY DEF One
  <2> QED
    BY <1>3, <1>4, <1>5, <2>1, <2>2
<1> HIDE DEF raw
<1>7. Greatest(raw, 100) \in Int
  BY <1>6, GreatestOfTwo
<1>8. Least(Greatest(raw, 100), 9900) \in Int
  BY <1>7, LeastOfTwo
<1> QED
  BY <1>8 DEF FairValue, raw

\* So is what a sizing mode asks for.
LEMMA RawSizeIsInt ==
  ASSUME NEW q \in Quote, NEW m \in SizingMode, NEW e \in Nat
  PROVE  RawSize(m, e, q) \in Int
<1>1. CASE m.kind = "FixedNotional"
  <2>1. m.amount \in Nat
    BY <1>1 DEF SizingMode
  <2> QED
    BY <1>1, <2>1 DEF RawSize
<1>2. CASE m.kind = "PercentOfEquity"
  <2>1. m.pct \in Nat
    BY <1>2 DEF SizingMode
  <2>2. e * m.pct \in Int
    BY <2>1
  <2>3. (e * m.pct) \div One \in Int
    BY <2>2, Quotients DEF One
  <2> QED
    BY <1>2, <2>3 DEF RawSize
<1>3. CASE m.kind = "CappedKelly"
  <2>1. m.fraction \in Nat /\ m.max \in Nat
    BY <1>3 DEF SizingMode
  <2>2. FairValue(q) \in Int /\ q.price \in Int
    BY FairValueIsInt DEF Quote
  <2> DEFINE v == FairValue(q)
             f == (v * (One - q.price) - (One - v) * q.price) \div (One - q.price)
  <2>3. ASSUME ~(q.price <= 0 \/ q.price >= One) PROVE f \in Int
    <3>1. One - q.price \in Nat \ {0}
      BY <2>2, <2>3 DEF One
    <3>2. v * (One - q.price) - (One - v) * q.price \in Int
      <4>1. \A x, y \in Int : x * (10000 - y) - (10000 - x) * y \in Int
        OBVIOUS
      <4> QED
        BY <2>2, <4>1 DEF One
    <3> QED
      BY <3>1, <3>2, Quotients
  <2>4. ASSUME ~(q.price <= 0 \/ q.price >= One)
        PROVE  (((f * m.fraction) \div One) * e) \div One \in Int
    <3> HIDE DEF f
    <3>1. f * m.fraction \in Int
      BY <2>1, <2>3, <2>4
    <3>2. (f * m.fraction) \div One \in Int
      BY <3>1, Quotients DEF One
    <3>3. ((f * m.fraction) \div One) * e \in Int
      BY <3>2
    <3> QED
      BY <3>3, Quotients DEF One
  <2>5. KellyNotional(e, v, q.price, m.fraction) \in Int
    BY <2>3, <2>4 DEF KellyNotional
  <2>6. Least(KellyNotional(e, v, q.price, m.fraction), m.max) \in Int
    BY <2>1, <2>5, LeastOfTwo
  <2> QED
    BY <1>3, <2>6 DEF RawSize
<1>4. m.kind \in {"FixedNotional", "PercentOfEquity", "CappedKelly"}
  BY DEF SizingMode
<1> QED
  BY <1>1, <1>2, <1>3, <1>4

\* A size that is not nothing keeps the limit of an order, and leaves its
\* market within its limit.
LEMMA SizeWithin ==
  ASSUME NEW q \in Quote, NEW m \in SizingMode, NEW e \in Nat, NEW risk \in RiskConfig,
         NEW held \in Nat, NEW n, n = Size(m, risk, e, held, q), n > 0
  PROVE  n \in Int /\ n <= risk.maxOrder /\ held + n * One <= risk.maxPosition * One
<1>1. risk.maxOrder \in Int /\ risk.maxPosition \in Int
  BY DEF RiskConfig
<1>2. (risk.maxPosition * One - held) \div One \in Int
  BY <1>1, Quotients DEF One
<1>3. Capacity(risk, held) \in {(risk.maxPosition * One - held) \div One, 0}
  BY <1>2, GreatestOfTwo DEF Capacity
<1>4. Capacity(risk, held) \in Int
  BY <1>2, <1>3
<1>5. q.depth \div 4 \in Int /\ e \div 2 \in Int
  BY Quotients DEF Quote
<1>6. n \in Int /\ n <= risk.maxOrder /\ n <= Capacity(risk, held)
  BY <1>1, <1>4, <1>5, RawSizeIsInt, LeastOfFive DEF Size
<1>7. n <= (risk.maxPosition * One - held) \div One
  BY <1>3, <1>4, <1>6
<1>8. \A x, k \in Int : k <= x \div 10000 => k * 10000 <= x
  OBVIOUS
<1>9. n * One <= risk.maxPosition * One - held
  <2>1. risk.maxPosition * 10000 - held \in Int
    BY <1>1
  <2> QED
    BY <1>6, <1>7, <1>8, <2>1 DEF One
<1> QED
  BY <1>1, <1>6, <1>9 DEF One

\* Quotients grow with what is divided.
LEMMA QuotientsGrow ==
  ASSUME NEW x \in Int, NEW y \in Int, x <= y, NEW d \in Nat \ {0}
  PROVE  x \div d <= y \div d
<1> DEFINE a == x \div d
           b == y \div d
<1>1. a \in Int /\ b \in Int
  OBVIOUS
<1>2. a * d <= x /\ y < (b + 1) * d
  OBVIOUS
<1>3. ASSUME a > b PROVE FALSE
  <2>1. \A u, v \in Int : u > v => u * d >= (v + 1) * d
    OBVIOUS
  <2> HIDE DEF a, b
  <2>2. a * d >= (b + 1) * d
    BY <1>1, <1>3, <2>1
  <2>3. a * d \in Int /\ (b + 1) * d \in Int
    BY <1>1
  <2> QED
    BY <1>2, <2>2, <2>3
<1> QED
  BY <1>1, <1>3

\* A smaller order slips less, on the way in and on the way out.
LEMMA SlippageGrows ==
  ASSUME NEW n \in Int, NEW m \in Nat, n <= m, NEW depth \in Nat
  PROVE  /\ EntrySlippage(n, depth) \in Int /\ ExitSlippage(n, depth) \in Int
         /\ EntrySlippage(m, depth) \in Int /\ ExitSlippage(m, depth) \in Int
         /\ EntrySlippage(n, depth) <= EntrySlippage(m, depth)
         /\ ExitSlippage(n, depth) <= ExitSlippage(m, depth)
<1>1. \A x, y \in Int : x <= y => /\ Least(x, 500) \in Int /\ Least(y, 500) \in Int
                                  /\ Least(x, 500) <= Least(y, 500)
  <2> SUFFICES ASSUME NEW x \in Int, NEW y \in Int, x <= y
               PROVE  /\ Least(x, 500) \in Int /\ Least(y, 500) \in Int
                      /\ Least(x, 500) <= Least(y, 500)
    OBVIOUS
  <2>1. Least(x, 500) \in {x, 500} /\ Least(x, 500) <= x /\ Least(x, 500) <= 500
    BY LeastOfTwo
  <2>2. Least(y, 500) \in {y, 500}
    BY LeastOfTwo
  <2> QED
    BY <2>1, <2>2
<1>2. /\ EntrySlippage(n, depth) \in Int /\ EntrySlippage(m, depth) \in Int
      /\ EntrySlippage(n, depth) <= EntrySlippage(m, depth)
  <2>1. CASE depth > 0
    <3>1. 200 * n \in Int /\ 200 * m \in Int /\ 200 * n <= 200 * m /\ depth \in Nat \ {0}
      BY <2>1
    <3>2. /\ (200 * n) \div depth \in Int /\ (200 * m) \div depth \in Int
          /\ (200 * n) \div depth <= (200 * m) \div depth
      BY <3>1, Quotients, QuotientsGrow
    <3> QED
      BY <1>1, <2>1, <3>2 DEF EntrySlippage
  <2>2. CASE ~(depth > 0)
    BY <2>2 DEF EntrySlippage
  <2> QED
    BY <2>1, <2>2
<1>3. \A x, y \in Int : x <= y => /\ (3 * x) \div 2 \in Int /\ (3 * y) \div 2 \in Int
                                  /\ (3 * x) \div 2 <= (3 * y) \div 2
  OBVIOUS
<1> QED
  BY <1>1, <1>2, <1>3 DEF ExitSlippage

\* What does not depend on the order's size are whole numbers too, and the
\* gain on the side that is taken is the gross edge.
LEMMA CostTypes ==
  ASSUME NEW q \in Quote
  PROVE  /\ GrossEdge(q) \in Int /\ LatencyDecay(q) \in Int
         /\ EffectiveRate(q.price) \in Int /\ EffectiveRate(FairValue(q)) \in Int
         /\ GrossEdge(q) = IF Side(q) = "Buy" THEN FairValue(q) - q.price
                           ELSE q.price - FairValue(q)
<1>1. FairValue(q) \in Int /\ q.price \in Int /\ q.tickAge \in Nat
  BY FairValueIsInt DEF Quote
<1>2. Greatest(FairValue(q) - q.price, q.price - FairValue(q))
        \in {FairValue(q) - q.price, q.price - FairValue(q)}
      /\ Greatest(FairValue(q) - q.price, q.price - FairValue(q)) >= FairValue(q) - q.price
      /\ Greatest(FairValue(q) - q.price, q.price - FairValue(q)) >= q.price - FairValue(q)
  BY <1>1, GreatestOfTwo
<1>3. GrossEdge(q) \in Int
  BY <1>1, <1>2 DEF GrossEdge, Distance
<1>4. GrossEdge(q) = IF Side(q) = "Buy" THEN FairValue(q) - q.price ELSE q.price - FairValue(q)
  BY <1>1, <1>2 DEF GrossEdge, Distance, Side
<1>5. LatencyDecay(q) \in Int
  <2>1. CASE LatencyBuffer > 0
    <3>1. (100 * q.tickAge) \div LatencyBuffer \in Int
      BY <1>1, <2>1, Quotients, PricingAssumption
    <3>2. Least((100 * q.tickAge) \div LatencyBuffer, GrossEdge(q)) \in Int
      BY <1>3, <3>1, LeastOfTwo
    <3> QED
      BY <2>1, <3>2 DEF LatencyDecay
  <2>2. CASE ~(LatencyBuffer > 0)
    BY <2>2 DEF LatencyDecay
  <2> QED
    BY <2>1, <2>2
<1>6. \A p \in Int : EffectiveRate(p) \in Int
  <2> SUFFICES ASSUME NEW p \in Int PROVE EffectiveRate(p) \in Int
    OBVIOUS
  <2>1. Least(p, One - p) \in Int /\ TakerRate \in Int
    BY LeastOfTwo, PricingAssumption DEF One
  <2>2. TakerRate * Least(p, One - p) \in Int
    BY <2>1
  <2>3. (TakerRate * Least(p, One - p)) \div One \in Int
    BY <2>2, Quotients DEF One
  <2> QED
    BY <2>1, <2>3 DEF EffectiveRate
<1> QED
  BY <1>1, <1>3, <1>4, <1>5, <1>6

\* An order no larger than the one the edge was computed for costs no more.
LEMMA CostGrows ==
  ASSUME NEW q \in Quote, NEW n \in Int, NEW m \in Nat, 0 < n, n <= m
  PROVE  TotalCost(q, n) \in Int /\ TotalCost(q, m) \in Int /\ TotalCost(q, n) <= TotalCost(q, m)
<1>1. q.depth \in Nat
  BY DEF Quote
<1>2. FeesFrac(q, n) = FeesFrac(q, m) /\ FeesFrac(q, m) \in Int
  BY CostTypes DEF FeesFrac
<1>3. LatencyDecay(q) \in Int
  BY CostTypes
<1> QED
  BY <1>1, <1>2, <1>3, SlippageGrows DEF TotalCost

\* The guard's overrides only ever tighten the limits.
LEMMA OverridesTighten ==
  LET r == ApplyOverrides(BaseRisk)
  IN r \in RiskConfig /\ r.maxOrder <= GuardRisk.maxOrder /\ r.maxPosition <= GuardRisk.maxOrder
<1>1. \A x, y \in Nat : Least(x, y) \in Nat /\ Least(x, y) <= x
  BY LeastOfTwo
<1> QED
  BY <1>1, RiskAssumption DEF ApplyOverrides, RiskConfig

-----------------------------------------------------------------------------
(* The invariant: the types, and what an evaluation promises.               *)

\* Nothing is filled beyond its size.
WithinSize == \A o \in DOMAIN venue : venue[o].filled <= venue[o].size

Types ==
  /\ TrackerTypeOK /\ ExposureTypeOK /\ VenueTypeOK /\ WithinSize
  /\ openOrders \subseteq OpenOrderInfo /\ \A info \in openOrders : info.remaining <= info.size
  /\ live \in BOOLEAN /\ mode \in Modes /\ equity \in Equities

AnsweredOrders == {info.order : info \in openOrders}

DeskInv == Types /\ GuardedWithinLimits /\ SizedWithinLimits /\ AcceptedPaysItsCosts

\* The books of the last session are all there is at the start.
LEMMA StartInv == Init => DeskInv
<1> SUFFICES ASSUME Init PROVE DeskInv
  OBVIOUS
<1>1. TrackerTypeOK /\ ExposureTypeOK
  BY DEF Init, TrackerInit, ExposureInit, TrackerTypeOK, ExposureTypeOK
<1>2. VenueTypeOK /\ WithinSize
  <2>1. wire \in Seq(VenueMessage) /\ faults \in 0..MaxFaults
    BY VenueAssumption DEF Init
  <2> QED
    BY <2>1, OldOrdersAssumption DEF Init, VenueTypeOK, WithinSize
<1>3. openOrders = {}
  BY DEF Init, ReconcileInit
<1>4. live \in BOOLEAN /\ mode \in Modes /\ equity \in Equities /\ decision = NoDecision
  BY DEF Init
<1>5. GuardedWithinLimits /\ SizedWithinLimits /\ AcceptedPaysItsCosts
  BY <1>4 DEF GuardedWithinLimits, SizedWithinLimits, AcceptedPaysItsCosts, NoDecision
<1> QED
  BY <1>1, <1>2, <1>3, <1>4, <1>5 DEF DeskInv, Types

\* Without an accepted order there is no limit to break and no cost to pay.
LEMMA NothingDecided ==
  ASSUME decision' = NoDecision
  PROVE  GuardedWithinLimits' /\ SizedWithinLimits' /\ AcceptedPaysItsCosts'
  BY DEF GuardedWithinLimits, SizedWithinLimits, AcceptedPaysItsCosts, NoDecision

-----------------------------------------------------------------------------
(* An evaluation.                                                           *)

\* What it reads of the exposures are numbers.
LEMMA ExposedTypes ==
  ASSUME Types, NEW c \in Contract
  PROVE  ContractNotional(c) \in Nat /\ Cardinality(DOMAIN exposures) \in Nat
<1>1. EntryOf(exposures, c) \in ContractExposure
  BY EntryType DEF Types, ExposureTypeOK, Exposures
<1>2. IsFiniteSet(DOMAIN exposures)
  BY FS_Subset, DeskAssumption DEF Types, ExposureTypeOK
<1> QED
  BY <1>1, <1>2, FS_CardinalityType DEF ContractNotional, ContractExposure

\* An accepted size keeps the limits that sizing and the limit engine share,
\* and behind the guard all four.
LEMMA EvaluateInv ==
  ASSUME DeskInv, NEW c \in Contract, NEW q \in Quotes, Evaluate(c, q)
  PROVE  DeskInv'
<1>1. /\ UNCHANGED <<fillStateVars, venueVars, reconcileVars, settingVars>>
      /\ decision' = [accepted |-> TRUE, contract |-> c, quote |-> q,
                      intent |-> Intent(q, Context(c))]
  BY DEF Evaluate
<1>2. UNCHANGED <<orders, pendingContracts, exposures, venue, wire, faults, stage, openOrders,
                  safe, unknown, loads, live, mode, equity>>
  BY <1>1 DEF fillStateVars, venueVars, reconcileVars, settingVars
<1>3. Types'
  <2>1. TrackerTypeOK' /\ ExposureTypeOK' /\ VenueTypeOK' /\ WithinSize'
    BY <1>2 DEF DeskInv, Types, TrackerTypeOK, ExposureTypeOK, VenueTypeOK, WithinSize
  <2> QED
    BY <1>2, <2>1 DEF DeskInv, Types
<1> DEFINE n == SizeFor(q, Context(c))
           held == ContractNotional(c)
<1>4. n > 0 /\ (live => GuardPasses(acked, Exposed(c), q.duration, n))
  BY DEF Evaluate, Accepts
<1>5. held \in Nat /\ Cardinality(DOMAIN exposures) \in Nat
  BY ExposedTypes DEF DeskInv
<1>6. Risk \in RiskConfig
  BY RiskAssumption, OverridesTighten DEF Risk
<1>7. n \in Int /\ n <= Risk.maxOrder /\ held + n * One <= Risk.maxPosition * One
  <2>1. n = Size(mode, Risk, equity, held, q)
    BY DEF SizeFor, Context
  <2>2. q \in Quote /\ mode \in SizingMode /\ equity \in Nat
    BY DeskAssumption DEF DeskInv, Types
  <2> HIDE DEF n, held
  <2> QED
    BY <1>4, <1>5, <1>6, <2>1, <2>2, SizeWithin
<1>8. /\ decision'.contract = c /\ decision'.intent.size = n
      /\ Exposed(c)' = Exposed(c) /\ Risk' = Risk
  <2>1. decision'.contract = c /\ decision'.intent.size = n
    BY <1>1 DEF Intent
  <2>2. \A k : ContractNotional(k)' = ContractNotional(k)
    BY <1>2 DEF ContractNotional, EntryOf
  <2>3. [k \in DOMAIN exposures |-> ContractNotional(k)]'
          = [k \in DOMAIN exposures |-> ContractNotional(k)]
    BY <1>2, <2>2
  <2>4. Exposed(c)' = Exposed(c)
    BY <1>2, <2>2, <2>3 DEF Exposed
  <2> QED
    BY <1>2, <2>1, <2>4 DEF Risk
<1>9. Exposed(c).contract = held /\ Exposed(c).active = Cardinality(DOMAIN exposures)
  BY DEF Exposed
<1> HIDE DEF n, held
<1>10. SizedWithinLimits'
  <2>1. /\ Keeps("max_position_per_market", Risk, Exposed(c), n)
        /\ Keeps("max_notional_per_order", Risk, Exposed(c), n)
    BY <1>7, <1>9 DEF Keeps
  <2> QED
    BY <1>8, <2>1 DEF SizedWithinLimits, Violations
<1>11. GuardedWithinLimits'
  <2> DEFINE g == [GuardRisk EXCEPT !.maxPosition = GuardRisk.maxOrder]
  <2> SUFFICES ASSUME live PROVE Violations(g, Exposed(c), n) = {}
    BY <1>2, <1>8 DEF GuardedWithinLimits
  <2>1. /\ g.maxOrder = GuardRisk.maxOrder /\ g.maxPosition = GuardRisk.maxOrder
        /\ g.maxConcurrent = GuardRisk.maxConcurrent /\ g.maxGross = GuardRisk.maxGross
    BY RiskAssumption DEF RiskConfig
  <2>2. /\ n <= GuardRisk.maxOrder
        /\ Exposed(c).gross + n * One <= GuardRisk.maxGross * One
        /\ Exposed(c).active < GuardRisk.maxConcurrent
    BY <1>4 DEF GuardPasses
  <2>3. held + n * One <= GuardRisk.maxOrder * One
    <3>1. Risk.maxPosition <= GuardRisk.maxOrder /\ Risk.maxPosition \in Nat
          /\ GuardRisk.maxOrder \in Nat
      BY <1>6, OverridesTighten, RiskAssumption DEF Risk, RiskConfig
    <3>2. Risk.maxPosition * One <= GuardRisk.maxOrder * One
      BY <3>1 DEF One
    <3> QED
      BY <1>5, <1>7, <3>1, <3>2 DEF One
  <2>4. Exposed(c).active + (IF Exposed(c).contract = 0 THEN 1 ELSE 0) <= GuardRisk.maxConcurrent
    <3>1. GuardRisk.maxConcurrent \in Nat
      BY RiskAssumption DEF RiskConfig
    <3> QED
      BY <1>5, <1>9, <2>2, <3>1
  <2> HIDE DEF g
  <2>5. /\ Keeps("max_position_per_market", g, Exposed(c), n)
        /\ Keeps("max_concurrent_positions", g, Exposed(c), n)
        /\ Keeps("max_gross_exposure", g, Exposed(c), n)
        /\ Keeps("max_notional_per_order", g, Exposed(c), n)
    BY <1>9, <2>1, <2>2, <2>3, <2>4 DEF Keeps
  <2> QED
    BY <2>5 DEF Violations
<1>12. AcceptedPaysItsCosts'
  <2>1. q \in Quote /\ Risk.maxOrder \in Nat /\ Thresholds[q.duration].minNetEdge \in Nat
    BY <1>6, DeskAssumption, ThresholdsAssumption DEF Quote, RiskConfig
  <2>2. ~(NetEdge(q, Risk.maxOrder) < Thresholds[q.duration].minNetEdge)
    BY DEF Evaluate, Accepts, Rejections, ValueRejections, CostNotional, Context
  <2>3. /\ TotalCost(q, n) \in Int /\ TotalCost(q, Risk.maxOrder) \in Int
        /\ TotalCost(q, n) <= TotalCost(q, Risk.maxOrder) /\ GrossEdge(q) \in Int
    BY <1>4, <1>7, <2>1, CostGrows, CostTypes
  <2>4. GrossEdge(q) - TotalCost(q, n) >= Thresholds[q.duration].minNetEdge
    BY <2>1, <2>2, <2>3 DEF NetEdge
  <2>5. decision'.quote = q /\ decision'.intent.side = Side(q)
    BY <1>1 DEF Intent
  <2> QED
    BY <1>8, <2>1, <2>4, <2>5, CostTypes DEF AcceptedPaysItsCosts
<1> QED
  BY <1>3, <1>10, <1>11, <1>12 DEF DeskInv

-----------------------------------------------------------------------------
(* The other steps.                                                         *)

\* A message changes what is known of an order, not which orders are known.
LEMMA MessageInv == ASSUME DeskInv, HandleMessage PROVE DeskInv'
<1> DEFINE e == Head(wire)
<1>1. /\ UNCHANGED <<venue, faults, reconcileVars, settingVars>> /\ decision' = NoDecision
      /\ wire # << >> /\ wire' = Tail(wire)
      /\ \/ e.type = "OrderAck" /\ ProcessAck(e.order)
         \/ e.type = "Fill" /\ ProcessFill(e.order, e.contract, e.size, e.price, e.remaining)
         \/ e.type = "OrderStateChange" /\ ProcessStateChange(e.order, e.state)
  BY DEF HandleMessage
<1>2. TrackerTypeOK /\ Exposures(exposures) /\ wire \in Seq(VenueMessage)
  BY DEF DeskInv, Types, ExposureTypeOK, Exposures, VenueTypeOK
<1>3. e \in VenueMessage /\ wire' \in Seq(VenueMessage)
  BY <1>1, <1>2
<1> HIDE DEF e
<1>4. TrackerTypeOK' /\ Exposures(exposures') /\ DOMAIN orders' = DOMAIN orders
  <2>1. ASSUME e.type = "OrderAck", ProcessAck(e.order)
        PROVE  TrackerTypeOK' /\ Exposures(exposures') /\ DOMAIN orders' = DOMAIN orders
    <3>1. UpdateState(e.order, "Acked") /\ exposures' = exposures
      BY <2>1 DEF ProcessAck
    <3> QED
      BY <1>2, <3>1, UpdateStateType, OneOrderMoves, "Acked" \in OrderState DEF OrderState, Moves
  <2>2. ASSUME e.type = "Fill", ProcessFill(e.order, e.contract, e.size, e.price, e.remaining)
        PROVE  TrackerTypeOK' /\ Exposures(exposures') /\ DOMAIN orders' = DOMAIN orders
    <3>1. e.size \in Nat /\ e.price \in Nat /\ e.size * e.price \in Nat
      BY <1>3, <2>2 DEF VenueMessage
    <3>2. PICK s \in {"Filled", "PartialFill"} : TrackFill(e.order, e.size, s)
      BY <2>2 DEF ProcessFill
    <3>3. exposures' = ApplyFill(exposures, e.contract, e.size * e.price)
      BY <2>2 DEF ProcessFill
    <3>4. s \in OrderState
      BY DEF OrderState
    <3> QED
      BY <1>2, <3>1, <3>2, <3>3, <3>4, TrackFillType, OneOrderMoves, ApplyFillType DEF Moves
  <2>3. ASSUME e.type = "OrderStateChange", ProcessStateChange(e.order, e.state)
        PROVE  TrackerTypeOK' /\ Exposures(exposures') /\ DOMAIN orders' = DOMAIN orders
    <3>1. e.state \in OrderState /\ UpdateState(e.order, e.state)
      BY <1>3, <2>3 DEF VenueMessage, ProcessStateChange, OrderState
    <3>2. Exposures(exposures')
      <4>1. CASE exposures' = exposures
        BY <1>2, <4>1
      <4>2. CASE exposures' # exposures
        <5> DEFINE r == orders[e.order]
        <5>1. /\ e.order \in DOMAIN orders
              /\ exposures' = RemovePending(exposures, r.contract, (r.size - r.filled) * r.price)
          BY <2>3, <4>2 DEF ProcessStateChange
        <5>2. r \in OrderRecord
          BY <1>2, <5>1 DEF TrackerTypeOK
        <5>3. (r.size - r.filled) * r.price \in Int
          BY <5>2 DEF OrderRecord
        <5> QED
          BY <1>2, <5>1, <5>3, RemovePendingType
      <4> QED
        BY <4>1, <4>2
    <3> QED
      BY <1>2, <3>1, <3>2, UpdateStateType, OneOrderMoves DEF Moves
  <2> QED
    BY <1>1, <2>1, <2>2, <2>3
<1>5. Types'
  <2>1. ExposureTypeOK'
    BY <1>4 DEF ExposureTypeOK, Exposures
  <2>2. VenueTypeOK' /\ WithinSize'
    BY <1>1, <1>3 DEF DeskInv, Types, VenueTypeOK, WithinSize
  <2> QED
    BY <1>1, <1>4, <2>1, <2>2 DEF DeskInv, Types, reconcileVars, settingVars
<1> QED
  BY <1>1, <1>5, NothingDecided DEF DeskInv

\* The venue is an exchange, and fills no order beyond its size.
LEMMA ExchangeOnly == VenueActs => ExchangeActs
  BY ClientAssumption DEF VenueActs, SimulationActs

LEMMA VenueInv == ASSUME DeskInv, VenueStep PROVE DeskInv'
<1>1. /\ UNCHANGED <<fillStateVars, reconcileVars, settingVars>> /\ decision' = NoDecision
      /\ VenueActs
  BY DEF VenueStep
<1>2. VenueTypeOK' /\ VenueTypeOK /\ WithinSize
  BY <1>1, VenueActsType DEF DeskInv, Types
<1>3. WithinSize'
  BY <1>1, <1>2, ExchangeOnly, ExchangeDoes DEF WithinSize
<1>4. Types'
  <2>1. TrackerTypeOK' /\ ExposureTypeOK'
    BY <1>1 DEF DeskInv, Types, TrackerTypeOK, ExposureTypeOK, fillStateVars
  <2> QED
    BY <1>1, <1>2, <1>3, <2>1 DEF DeskInv, Types, reconcileVars, settingVars
<1> QED
  BY <1>1, <1>4, NothingDecided DEF DeskInv

\* What the venue says of an open order is an answer.
LEMMA InfoType ==
  ASSUME VenueTypeOK, WithinSize, NEW o \in DOMAIN venue
  PROVE  InfoOf(o) \in OpenOrderInfo /\ InfoOf(o).remaining <= InfoOf(o).size /\ InfoOf(o).order = o
<1>1. o \in OrderId /\ venue[o] \in VenueOrder /\ venue[o].filled <= venue[o].size
  BY DEF VenueTypeOK, WithinSize
<1>2. /\ venue[o].contract \in Contract /\ venue[o].price \in Nat /\ venue[o].size \in Nat
      /\ venue[o].filled \in Nat
  BY <1>1 DEF VenueOrder
<1>3. venue[o].size - venue[o].filled \in Nat /\ venue[o].size - venue[o].filled <= venue[o].size
  BY <1>1, <1>2
<1> QED
  BY <1>1, <1>2, <1>3 DEF InfoOf, OpenOrderInfo, Working

\* Inserting keeps a map's type, and every key.
LEMMA InsertedType ==
  ASSUME NEW S, NEW m, m \in [DOMAIN m -> S], NEW n, n \in [DOMAIN n -> S]
  PROVE  /\ DOMAIN Inserted(m, n) = DOMAIN m \cup DOMAIN n
         /\ Inserted(m, n) \in [DOMAIN Inserted(m, n) -> S]
  BY DEF Inserted

\* Loading keeps the types: what is inserted are records of the answer.
LEMMA LoadTypes ==
  ASSUME Types, LoadOpenOrders
  PROVE  /\ TrackerTypeOK' /\ ExposureTypeOK'
         /\ DOMAIN orders' = DOMAIN orders \cup AnsweredOrders
<1>1. PICK last \in [{info.contract : info \in Loaded} -> Loaded] :
        /\ \A c \in DOMAIN last : last[c].contract = c
        /\ LoadTracker(last) /\ LoadExposures(last)
  BY DEF LoadOpenOrders
<1>2. \A info \in Loaded : /\ info.order \in OrderId /\ info.contract \in Contract
                           /\ RecordOf(info) \in OrderRecord /\ ExposureOf(info) \in ContractExposure
  <2> SUFFICES ASSUME NEW info \in Loaded
               PROVE  /\ info.order \in OrderId /\ info.contract \in Contract
                      /\ RecordOf(info) \in OrderRecord /\ ExposureOf(info) \in ContractExposure
    OBVIOUS
  <2>1. info \in OpenOrderInfo /\ info.remaining <= info.size
    BY DEF Types, Loaded
  <2>2. /\ info.order \in OrderId /\ info.contract \in Contract /\ info.price \in Nat
        /\ info.size \in Nat /\ info.remaining \in Nat /\ info.state \in OrderState
    BY <2>1 DEF OpenOrderInfo, Working, OrderState
  <2>3. info.size - info.remaining \in Nat
    BY <2>1, <2>2
  <2>4. info.remaining * info.price \in Nat /\ (info.size - info.remaining) * info.price \in Nat
    BY <2>2, <2>3
  <2> QED
    BY <2>2, <2>3, <2>4 DEF RecordOf, ExposureOf, OrderRecord, ContractExposure
<1>3. DOMAIN last \subseteq Contract /\ \A c \in DOMAIN last : last[c] \in Loaded
  BY <1>2
<1>4. ExposureTypeOK'
  <2> DEFINE new == [c \in DOMAIN last |-> ExposureOf(last[c])]
  <2>1. new \in [DOMAIN new -> ContractExposure] /\ DOMAIN new \subseteq Contract
    BY <1>2, <1>3
  <2>2. exposures' = Inserted(exposures, new)
    BY <1>1 DEF LoadExposures
  <2> HIDE DEF new
  <2> QED
    <3>1. DOMAIN exposures \subseteq Contract /\ exposures \in [DOMAIN exposures -> ContractExposure]
      BY DEF Types, ExposureTypeOK
    <3>2. /\ DOMAIN Inserted(exposures, new) = DOMAIN exposures \cup DOMAIN new
          /\ Inserted(exposures, new) \in [DOMAIN Inserted(exposures, new) -> ContractExposure]
      BY <2>1, <3>1, InsertedType
    <3> QED
      BY <2>1, <2>2, <3>1, <3>2 DEF ExposureTypeOK
<1>5. /\ DOMAIN pendingContracts' \subseteq Contract
      /\ pendingContracts' \in [DOMAIN pendingContracts' -> OrderId]
  <2> DEFINE new == [c \in DOMAIN last |-> last[c].order]
  <2>1. new \in [DOMAIN new -> OrderId] /\ DOMAIN new \subseteq Contract
    BY <1>2, <1>3
  <2>2. pendingContracts' = Inserted(pendingContracts, new)
    BY <1>1 DEF LoadTracker
  <2> HIDE DEF new
  <2> QED
    <3>1. /\ DOMAIN pendingContracts \subseteq Contract
          /\ pendingContracts \in [DOMAIN pendingContracts -> OrderId]
      BY DEF Types, TrackerTypeOK
    <3>2. /\ DOMAIN Inserted(pendingContracts, new) = DOMAIN pendingContracts \cup DOMAIN new
          /\ Inserted(pendingContracts, new) \in [DOMAIN Inserted(pendingContracts, new) -> OrderId]
      BY <2>1, <3>1, InsertedType
    <3> QED
      BY <2>1, <2>2, <3>1, <3>2
<1>6. /\ orders' \in [DOMAIN orders' -> OrderRecord]
      /\ DOMAIN orders' = DOMAIN orders \cup AnsweredOrders
  <2> DEFINE new == [o \in LoadedOrders |-> RecordOf(CHOOSE info \in Loaded : info.order = o)]
  <2>1. new \in [DOMAIN new -> OrderRecord] /\ DOMAIN new = AnsweredOrders
    <3>1. ASSUME NEW o \in LoadedOrders
          PROVE  (CHOOSE info \in Loaded : info.order = o) \in Loaded
      BY DEF LoadedOrders
    <3> QED
      BY <1>2, <3>1 DEF LoadedOrders, Loaded, AnsweredOrders
  <2>2. orders' = Inserted(orders, new)
    BY <1>1 DEF LoadTracker
  <2> HIDE DEF new
  <2> QED
    <3>1. orders \in [DOMAIN orders -> OrderRecord]
      BY DEF Types, TrackerTypeOK
    <3>2. /\ DOMAIN Inserted(orders, new) = DOMAIN orders \cup DOMAIN new
          /\ Inserted(orders, new) \in [DOMAIN Inserted(orders, new) -> OrderRecord]
      BY <2>1, <3>1, InsertedType
    <3> QED
      BY <2>1, <2>2, <3>2
<1>7. AnsweredOrders \subseteq OrderId
  BY <1>2 DEF AnsweredOrders, Loaded
<1> QED
  BY <1>4, <1>5, <1>6, <1>7 DEF Types, TrackerTypeOK

\* A step of reconcile() asks, loads or fails.
LEMMA ReconcileInv == ASSUME DeskInv, ReconcileStep PROVE DeskInv'
<1>1. UNCHANGED <<venue, wire, faults, settingVars>> /\ decision' = NoDecision /\ Reconcile
  BY DEF ReconcileStep, Reconcile, VenueListsOrders, FetchFails, LoadOpenOrders, BalanceArrives,
     BalanceFails, venueVars
<1>2. VenueTypeOK' /\ WithinSize'
  BY <1>1 DEF DeskInv, Types, VenueTypeOK, WithinSize
<1>3. live' \in BOOLEAN /\ mode' \in Modes /\ equity' \in Equities
  BY <1>1 DEF DeskInv, Types, settingVars
<1>4. ASSUME LoadOpenOrders PROVE Types'
  <2>1. TrackerTypeOK' /\ ExposureTypeOK'
    BY <1>4, LoadTypes DEF DeskInv
  <2>2. openOrders' = openOrders
    BY <1>4 DEF LoadOpenOrders
  <2> QED
    BY <1>2, <1>3, <2>1, <2>2 DEF DeskInv, Types
<1>5. ASSUME VenueListsOrders PROVE Types'
  <2>1. UNCHANGED fillStateVars /\ openOrders' = {InfoOf(o) : o \in OpenAtVenue}
    BY <1>5 DEF VenueListsOrders
  <2>2. VenueTypeOK /\ WithinSize /\ OpenAtVenue \subseteq DOMAIN venue
    BY DEF DeskInv, Types, OpenAtVenue
  <2>3. openOrders' \subseteq OpenOrderInfo /\ \A info \in openOrders' : info.remaining <= info.size
    BY <2>1, <2>2, InfoType
  <2> QED
    BY <1>2, <1>3, <2>1, <2>3 DEF DeskInv, Types, TrackerTypeOK, ExposureTypeOK, fillStateVars
<1>6. ASSUME FetchFails \/ BalanceArrives \/ BalanceFails PROVE Types'
  <2>1. UNCHANGED fillStateVars /\ openOrders' = {}
    BY <1>6 DEF FetchFails, BalanceArrives, BalanceFails
  <2> QED
    BY <1>2, <1>3, <2>1 DEF DeskInv, Types, TrackerTypeOK, ExposureTypeOK, fillStateVars
<1> QED
  BY <1>1, <1>4, <1>5, <1>6, NothingDecided DEF DeskInv, Reconcile

\* Clock, acknowledgement and stuttering leave it all alone.
LEMMA IdleSteps ==
  ASSUME DeskInv, \/ (OperatorAck \/ TimePasses)
                  \/ UNCHANGED vars
  PROVE  DeskInv'
<1>1. UNCHANGED <<orders, pendingContracts, exposures, venue, wire, faults, stage, openOrders,
                  unknown, loads, live, mode, equity>>
  BY DEF OperatorAck, TimePasses, vars, fillStateVars, venueVars, reconcileVars, settingVars
<1>2. Types'
  BY <1>1 DEF DeskInv, Types, TrackerTypeOK, ExposureTypeOK, VenueTypeOK, WithinSize
<1>3. GuardedWithinLimits' /\ SizedWithinLimits' /\ AcceptedPaysItsCosts'
  <2>1. CASE decision' = NoDecision
    BY <2>1, NothingDecided
  <2>2. CASE UNCHANGED vars
    <3>1. decision' = decision /\ Risk' = Risk
      BY <1>1, <2>2 DEF vars, Risk
    <3>2. \A k : ContractNotional(k)' = ContractNotional(k)
      BY <1>1 DEF ContractNotional, EntryOf
    <3>3. [k \in DOMAIN exposures |-> ContractNotional(k)]'
            = [k \in DOMAIN exposures |-> ContractNotional(k)]
      BY <1>1, <3>2
    <3>4. \A c : Exposed(c)' = Exposed(c)
      BY <1>1, <3>2, <3>3 DEF Exposed
    <3> QED
      BY <1>1, <3>1, <3>4 DEF DeskInv, GuardedWithinLimits, SizedWithinLimits, AcceptedPaysItsCosts
  <2> QED
    BY <2>1, <2>2 DEF OperatorAck, TimePasses
<1> QED
  BY <1>2, <1>3 DEF DeskInv

\* Every step keeps the invariant.
LEMMA StepInv == DeskInv /\ [Next]_vars => DeskInv'
  BY EvaluateInv, MessageInv, ReconcileInv, VenueInv, IdleSteps DEF Next

\* The invariant holds in every reachable state.
LEMMA Invariant == Spec => []DeskInv
  BY StartInv, StepInv, PTL DEF Spec

-----------------------------------------------------------------------------
(* What a loaded order may still cost. The exposures say less than the       *)
(* venue as long as its fills are on the wire, so the invariant counts what  *)
(* the wire will add; and an order that the tracker has closed gets no more  *)
(* messages, so what it was filled for is counted by then.                   *)

\* Order o is alone on its contract.
Sole(o) == \A p \in DOMAIN venue : venue[p].contract = venue[o].contract => p = o

\* No order was filled above its price.
BooksRight == \A o \in DOMAIN venue : venue[o].cost <= venue[o].filled * venue[o].price

Unfinished == {"Requested", "Open"}

\* The messages are about the venue's orders, and after the last about one
\* the order is finished and nothing more is said of it.
WireTells ==
  \A i \in DOMAIN wire :
    /\ wire[i].order \in DOMAIN venue
    /\ wire[i].type = "Fill" => wire[i].contract = venue[wire[i].order].contract
    /\ Ends(wire[i]) => /\ venue[wire[i].order].status \notin Unfinished
                        /\ \A j \in DOMAIN wire : j > i => wire[j].order # wire[i].order

\* The tracker has the venue's orders as they are; one it has closed is closed,
\* and the venue has nothing more to say of it.
Known ==
  \A o \in DOMAIN orders :
    /\ o \in DOMAIN venue
    /\ orders[o].contract = venue[o].contract /\ orders[o].price = venue[o].price
    /\ orders[o].size = venue[o].size /\ orders[o].state \in Working \cup Terminal
    /\ orders[o].state \in Terminal =>
         venue[o].status \notin Unfinished /\ \A i \in DOMAIN wire : wire[i].order # o

\* With n to begin with, the wire brings all that order o was filled for.
Due(n, o) == n + Flow(wire, venue[o].contract) >= venue[o].cost

Covered(o) ==
  LET c == venue[o].contract
  IN /\ Due(EntryOf(exposures, c).filled, o)
     /\ orders[o].state \notin {"Canceled", "Rejected"} =>
          c \in DOMAIN exposures /\ ContractNotional(c) >= venue[o].size * venue[o].price
     /\ orders[o].state \in Working =>
          c \in DOMAIN pendingContracts /\ pendingContracts[c] = o

SoleCovered == \A o \in DOMAIN orders : Sole(o) => Covered(o)

\* An answer that is not loaded yet is as the venue was: with the messages sent
\* since, it says all that was filled.
AnswerRight ==
  stage = "fetching" =>
    \A info \in openOrders :
      LET o == info.order
      IN /\ o \in DOMAIN venue /\ info.contract = venue[o].contract
         /\ info.price = venue[o].price /\ info.size = venue[o].size
         /\ Due((info.size - info.remaining) * info.price, o)

CoverInv == BooksRight /\ WireTells /\ Known /\ SoleCovered /\ AnswerRight

\* At the start nothing is loaded and nothing said.
LEMMA CoverInit == Init => CoverInv
<1> SUFFICES ASSUME Init PROVE CoverInv
  OBVIOUS
<1>1. DOMAIN orders = {} /\ DOMAIN wire = {} /\ stage = "out"
  BY DEF Init, TrackerInit, ReconcileInit
<1>2. BooksRight
  BY OldOrdersAssumption DEF Init, BooksRight
<1> QED
  BY <1>1, <1>2 DEF CoverInv, WireTells, Known, SoleCovered, AnswerRight

\* What a message adds is a number, and so is what the wire adds.
LEMMA WireAdds ==
  ASSUME VenueTypeOK
  PROVE  /\ \A c : \A m \in VenueMessage : Amount(m, c) \in Nat
         /\ \A c : Flow(wire, c) \in Nat
<1>1. \A c : \A m \in VenueMessage : Amount(m, c) \in Nat
  BY AmountType
<1>2. wire \in Seq(VenueMessage)
  BY DEF VenueTypeOK
<1> QED
  BY <1>1, <1>2, AmountsType

\* A step that leaves tracker, exposures and venue alone.
LEMMA QuietCover ==
  ASSUME CoverInv, UNCHANGED <<orders, pendingContracts, exposures, venue, wire>>,
         stage' # "fetching" \/ UNCHANGED <<stage, openOrders>>
  PROVE  CoverInv'
<1>1. BooksRight' /\ WireTells' /\ Known'
  BY DEF CoverInv, BooksRight, WireTells, Known
<1>2. \A o : (Sole(o)' <=> Sole(o)) /\ (Covered(o)' <=> Covered(o)) /\ \A n : Due(n, o)' <=> Due(n, o)
  BY DEF Sole, Covered, Due, ContractNotional
<1>3. SoleCovered'
  BY <1>2 DEF CoverInv, SoleCovered
<1>4. AnswerRight'
  <2>1. CASE stage' # "fetching"
    BY <2>1 DEF AnswerRight
  <2>2. CASE UNCHANGED <<stage, openOrders>>
    BY <1>2, <2>2 DEF CoverInv, AnswerRight, Due
  <2> QED
    BY <2>1, <2>2
<1> QED
  BY <1>1, <1>3, <1>4 DEF CoverInv

\* The answer says what is open now: nothing it says is filled is missing.
LEMMA AnswerCover ==
  ASSUME DeskInv, CoverInv, VenueListsOrders PROVE CoverInv'
<1>1. /\ UNCHANGED <<orders, pendingContracts, exposures, venue, wire>>
      /\ openOrders' = {InfoOf(o) : o \in OpenAtVenue}
  BY DEF VenueListsOrders, fillStateVars, venueVars
<1>2. BooksRight' /\ WireTells' /\ Known'
  BY <1>1 DEF CoverInv, BooksRight, WireTells, Known
<1>3. SoleCovered'
  BY <1>1 DEF CoverInv, SoleCovered, Sole, Covered, Due, ContractNotional
<1>4. ASSUME NEW o \in OpenAtVenue
      PROVE  /\ InfoOf(o).order = o /\ o \in DOMAIN venue
             /\ InfoOf(o).contract = venue[o].contract /\ InfoOf(o).price = venue[o].price
             /\ InfoOf(o).size = venue[o].size
             /\ Due((InfoOf(o).size - InfoOf(o).remaining) * InfoOf(o).price, o)
  <2>1. o \in DOMAIN venue /\ venue[o] \in VenueOrder /\ VenueTypeOK
    BY DEF OpenAtVenue, DeskInv, Types, VenueTypeOK
  <2>2. /\ venue[o].size \in Nat /\ venue[o].filled \in Nat /\ venue[o].price \in Nat
        /\ venue[o].cost \in Nat /\ Flow(wire, venue[o].contract) \in Nat
        /\ venue[o].cost <= venue[o].filled * venue[o].price
    BY <2>1, WireAdds DEF VenueOrder, CoverInv, BooksRight
  <2>3. InfoOf(o).size - InfoOf(o).remaining = venue[o].filled
    BY <2>2 DEF InfoOf
  <2>4. venue[o].filled * venue[o].price \in Nat
    BY <2>2
  <2>5. (InfoOf(o).size - InfoOf(o).remaining) * InfoOf(o).price = venue[o].filled * venue[o].price
    BY <2>3 DEF InfoOf
  <2> QED
    BY <2>1, <2>2, <2>4, <2>5 DEF Due, InfoOf
<1>5. AnswerRight'
  BY <1>1, <1>4 DEF AnswerRight, Due
<1> QED
  BY <1>2, <1>3, <1>5 DEF CoverInv

\* What a loaded record stands for is its size at its price.
LEMMA WholeNotional ==
  ASSUME NEW n \in Nat, NEW r \in Nat, r <= n, NEW p \in Nat
  PROVE  /\ r * p \in Nat /\ (n - r) * p \in Nat /\ r * p + (n - r) * p = n * p
  OBVIOUS

\* The load puts the answer over what was known, for an order alone on its
\* contract its own.
LEMMA LoadCover == ASSUME DeskInv, CoverInv, LoadOpenOrders PROVE CoverInv'
<1>1. PICK last \in [{info.contract : info \in openOrders} -> openOrders] :
        /\ \A c \in DOMAIN last : last[c].contract = c
        /\ LoadTracker(last) /\ LoadExposures(last)
  BY DEF LoadOpenOrders, Loaded
<1>2. /\ UNCHANGED <<venue, wire>> /\ stage = "fetching" /\ stage' # "fetching"
      /\ DOMAIN orders' = DOMAIN orders \cup AnsweredOrders
  BY LoadTypes DEF LoadOpenOrders, venueVars, DeskInv
<1>3. \A info \in openOrders :
        /\ info.order \in DOMAIN venue /\ info.contract = venue[info.order].contract
        /\ info.price = venue[info.order].price /\ info.size = venue[info.order].size
        /\ Due((info.size - info.remaining) * info.price, info.order)
        /\ info \in OpenOrderInfo /\ info.remaining <= info.size
  BY <1>2 DEF CoverInv, AnswerRight, DeskInv, Types
<1>4. /\ \A o \in AnsweredOrders : \E info \in openOrders :
           info.order = o /\ orders'[o] = RecordOf(info)
      /\ \A o \in DOMAIN orders \ AnsweredOrders : orders'[o] = orders[o]
  <2> DEFINE new == [o \in LoadedOrders |-> RecordOf(CHOOSE info \in Loaded : info.order = o)]
  <2>1. orders' = Inserted(orders, new)
    BY <1>1 DEF LoadTracker
  <2>2. DOMAIN new = AnsweredOrders
    BY DEF LoadedOrders, Loaded, AnsweredOrders
  <2>3. ASSUME NEW o \in AnsweredOrders
        PROVE  \E info \in openOrders : info.order = o /\ new[o] = RecordOf(info)
    <3>1. \E info \in openOrders : info.order = o
      BY DEF AnsweredOrders
    <3>2. /\ (CHOOSE info \in openOrders : info.order = o) \in openOrders
          /\ (CHOOSE info \in openOrders : info.order = o).order = o
      BY <3>1
    <3>3. new[o] = RecordOf(CHOOSE info \in openOrders : info.order = o)
      BY <2>2 DEF Loaded
    <3> HIDE DEF new
    <3> QED
      BY <3>2, <3>3
  <2> HIDE DEF new
  <2> QED
    BY <2>1, <2>2, <2>3 DEF Inserted
<1>5. BooksRight' /\ WireTells'
  BY <1>2 DEF CoverInv, BooksRight, WireTells
<1>6. Known'
  <2>1. ASSUME NEW o \in AnsweredOrders
        PROVE  /\ o \in DOMAIN venue /\ orders'[o].contract = venue[o].contract
               /\ orders'[o].price = venue[o].price /\ orders'[o].size = venue[o].size
               /\ orders'[o].state \in Working
    <3>1. PICK info \in openOrders : info.order = o /\ orders'[o] = RecordOf(info)
      BY <1>4
    <3> QED
      BY <1>3, <3>1 DEF RecordOf, OpenOrderInfo
  <2>2. Working \cap Terminal = {}
    BY DEF Working, Terminal
  <2> QED
    BY <1>2, <1>4, <2>1, <2>2 DEF CoverInv, Known
<1>7. ASSUME NEW o \in DOMAIN orders', Sole(o) PROVE Covered(o)'
  <2> DEFINE c == venue[o].contract
  <2>1. \A d : /\ d \in DOMAIN last => /\ d \in DOMAIN exposures' /\ d \in DOMAIN pendingContracts'
                                       /\ exposures'[d] = ExposureOf(last[d])
                                       /\ pendingContracts'[d] = last[d].order
               /\ d \notin DOMAIN last =>
                    /\ d \in DOMAIN exposures' <=> d \in DOMAIN exposures
                    /\ d \in DOMAIN exposures => exposures'[d] = exposures[d]
                    /\ d \in DOMAIN pendingContracts =>
                         d \in DOMAIN pendingContracts' /\ pendingContracts'[d] = pendingContracts[d]
    BY <1>1 DEF LoadTracker, LoadExposures, Inserted
  <2>2. \A d \in DOMAIN last : last[d] \in openOrders /\ last[d].contract = d
    BY <1>1
  <2>3. CASE c \in DOMAIN last
    <3> DEFINE info == last[c]
    <3>1. info \in openOrders /\ info.contract = c
      BY <2>2, <2>3
    <3>2. info.order = o
      BY <1>3, <1>7, <3>1 DEF Sole
    <3>3. /\ info.size \in Nat /\ info.remaining \in Nat /\ info.price \in Nat
          /\ info.remaining <= info.size /\ info.price = venue[o].price
          /\ info.size = venue[o].size /\ Due((info.size - info.remaining) * info.price, o)
      BY <1>3, <3>1, <3>2 DEF OpenOrderInfo
    <3>4. /\ info.remaining * info.price + (info.size - info.remaining) * info.price
               = info.size * info.price
          /\ info.size * info.price \in Nat
      BY <3>3, WholeNotional
    <3>5. /\ c \in DOMAIN exposures' /\ c \in DOMAIN pendingContracts'
          /\ exposures'[c] = ExposureOf(info) /\ pendingContracts'[c] = o
      BY <2>1, <2>3, <3>2
    <3> HIDE DEF info
    <3>6. /\ EntryOf(exposures', c).filled = (info.size - info.remaining) * info.price
          /\ EntryOf(exposures', c).pending = info.remaining * info.price
      BY <3>5 DEF EntryOf, ExposureOf
    <3>7. Due(EntryOf(exposures', c).filled, o)
      BY <3>3, <3>6
    <3>8. EntryOf(exposures', c).pending + EntryOf(exposures', c).filled >= venue[o].size * venue[o].price
      BY <3>3, <3>4, <3>6
    <3> QED
      BY <1>2, <3>5, <3>7, <3>8 DEF Covered, Due, ContractNotional
  <2>4. CASE c \notin DOMAIN last
    <3>1. o \notin AnsweredOrders
      <4>1. DOMAIN last = {info.contract : info \in openOrders}
        BY <1>1
      <4> QED
        BY <1>3, <2>4, <4>1 DEF AnsweredOrders
    <3>2. o \in DOMAIN orders /\ orders'[o] = orders[o] /\ Covered(o)
      BY <1>2, <1>4, <1>7, <3>1 DEF CoverInv, SoleCovered
    <3>3. EntryOf(exposures', c) = EntryOf(exposures, c)
      BY <2>1, <2>4 DEF EntryOf
    <3> QED
      BY <1>2, <2>1, <2>4, <3>2, <3>3 DEF Covered, Due, ContractNotional
  <2> QED
    BY <2>3, <2>4
<1>8. SoleCovered'
  <2>1. \A o : Sole(o)' => Sole(o)
    BY <1>2 DEF Sole
  <2> QED
    BY <1>7, <2>1 DEF SoleCovered
<1>9. AnswerRight'
  BY <1>2 DEF AnswerRight
<1> QED
  BY <1>5, <1>6, <1>8, <1>9 DEF CoverInv

\* A fill at the limit price or a better one keeps the cost within the limit.
LEMMA BetterPrice ==
  ASSUME NEW cost \in Nat, NEW f \in Nat, NEW limit \in Nat, cost <= f * limit,
         NEW n \in Nat, NEW p \in Nat, p <= limit
  PROVE  cost + n * p <= (f + n) * limit
<1>1. n * p <= n * limit
  OBVIOUS
<1>2. (f + n) * limit = f * limit + n * limit
  OBVIOUS
<1>3. n * p \in Nat /\ n * limit \in Nat /\ f * limit \in Nat
  OBVIOUS
<1> QED
  BY <1>1, <1>2, <1>3

\* What the venue does it also says: the wire brings what the order is filled
\* for. An order that is closed it leaves alone.
LEMMA ActsCover == ASSUME DeskInv, CoverInv, VenueStep PROVE CoverInv'
<1>1. /\ UNCHANGED <<orders, pendingContracts, exposures, stage, openOrders>>
      /\ VenueActs /\ VenueTypeOK /\ WithinSize
  BY DEF VenueStep, fillStateVars, reconcileVars, DeskInv, Types
<1>2. PICK o \in DOMAIN venue, m \in VenueMessage :
        /\ DOMAIN venue' = DOMAIN venue
        /\ \A q \in DOMAIN venue : q # o => venue'[q] = venue[q]
        /\ wire' = Append(wire, m) /\ m.order = o
        /\ venue'[o].contract = venue[o].contract /\ venue'[o].size = venue[o].size
        /\ venue'[o].price = venue[o].price
        /\ venue[o].status \in Unfinished /\ (Ends(m) => venue'[o].status \notin Unfinished)
        /\ \/ m.type # "Fill" /\ venue'[o].filled = venue[o].filled /\ venue'[o].cost = venue[o].cost
           \/ /\ m.type = "Fill" /\ m.contract = venue[o].contract /\ m.price <= venue[o].price
              /\ venue'[o].filled = venue[o].filled + m.size
              /\ venue'[o].cost = venue[o].cost + m.size * m.price
  BY <1>1, ExchangeOnly, ExchangeDoes DEF Unfinished
<1>3. \A q \in DOMAIN venue :
        /\ venue'[q].contract = venue[q].contract /\ venue'[q].size = venue[q].size
        /\ venue'[q].price = venue[q].price
        /\ venue[q].status \notin Unfinished => venue'[q] = venue[q]
  BY <1>2
<1>4. \A q \in DOMAIN venue : /\ venue[q].filled \in Nat /\ venue[q].cost \in Nat
                              /\ venue[q].price \in Nat /\ venue[q].size \in Nat
  BY <1>1 DEF VenueTypeOK, VenueOrder
<1>5. wire \in Seq(VenueMessage)
  BY <1>1 DEF VenueTypeOK
<1>6. /\ DOMAIN wire = 1..Len(wire) /\ Len(wire) \in Nat /\ DOMAIN wire' = 1..Len(wire) + 1
      /\ wire'[Len(wire) + 1] = m /\ \A i \in 1..Len(wire) : wire'[i] = wire[i]
  BY <1>2, <1>5, AppendProperties, LenProperties
<1>7. BooksRight'
  <2>1. ASSUME NEW q \in DOMAIN venue
        PROVE  venue'[q].cost <= venue'[q].filled * venue'[q].price
    <3>1. venue[q].cost <= venue[q].filled * venue[q].price
      BY DEF CoverInv, BooksRight
    <3>2. CASE q = o /\ m.type = "Fill"
      <4>1. m.size \in Nat /\ m.price \in Nat
        BY <3>2 DEF VenueMessage
      <4>2. venue[o].cost + m.size * m.price <= (venue[o].filled + m.size) * venue[o].price
        BY <1>2, <1>4, <3>1, <3>2, <4>1, BetterPrice
      <4> QED
        BY <1>2, <3>2, <4>2
    <3>3. CASE ~(q = o /\ m.type = "Fill")
      BY <1>2, <1>3, <3>1, <3>3
    <3> QED
      BY <3>2, <3>3
  <2> QED
    BY <1>2, <2>1 DEF BooksRight
<1>8. WireTells'
  <2>1. ASSUME NEW i \in DOMAIN wire'
        PROVE  /\ wire'[i].order \in DOMAIN venue
               /\ wire'[i].type = "Fill" => wire'[i].contract = venue[wire'[i].order].contract
               /\ Ends(wire'[i]) =>
                    /\ venue'[wire'[i].order].status \notin Unfinished
                    /\ \A j \in DOMAIN wire' : j > i => wire'[j].order # wire'[i].order
    <3>1. CASE i = Len(wire) + 1
      BY <1>2, <1>6, <3>1
    <3>2. CASE i # Len(wire) + 1
      <4>1. i \in DOMAIN wire /\ wire'[i] = wire[i]
        BY <1>6, <3>2
      <4>2. /\ wire[i].order \in DOMAIN venue
            /\ wire[i].type = "Fill" => wire[i].contract = venue[wire[i].order].contract
            /\ Ends(wire[i]) => /\ venue[wire[i].order].status \notin Unfinished
                                /\ \A j \in DOMAIN wire : j > i => wire[j].order # wire[i].order
        BY <4>1 DEF CoverInv, WireTells
      <4>3. \A j \in DOMAIN wire' : (j \in DOMAIN wire /\ wire'[j] = wire[j]) \/ wire'[j].order = o
        BY <1>2, <1>6
      <4> QED
        BY <1>2, <1>3, <4>1, <4>2, <4>3
    <3> QED
      BY <3>1, <3>2
  <2> QED
    BY <1>2, <1>3, <2>1 DEF WireTells
<1>9. Known'
  <2>1. ASSUME NEW q \in DOMAIN orders, orders[q].state \in Terminal
        PROVE  venue'[q].status \notin Unfinished /\ \A i \in DOMAIN wire' : wire'[i].order # q
    <3>1. /\ q \in DOMAIN venue /\ venue[q].status \notin Unfinished
          /\ \A i \in DOMAIN wire : wire[i].order # q
      BY <2>1 DEF CoverInv, Known
    <3> QED
      BY <1>2, <1>3, <1>6, <3>1
  <2> QED
    BY <1>1, <1>2, <1>3, <2>1 DEF CoverInv, Known
<1>10. ASSUME NEW q \in DOMAIN venue, NEW n \in Int, Due(n, q) PROVE Due(n, q)'
  <2> DEFINE c == venue[q].contract
  <2>1. /\ Amount(m, c) \in Nat /\ Flow(wire, c) \in Nat
        /\ Flow(Append(wire, m), c) = Flow(wire, c) + Amount(m, c)
    BY <1>1, <1>5, WireAdds, FlowAppend
  <2>2. venue'[q].cost \in Nat /\ venue'[q].cost <= venue[q].cost + Amount(m, c)
    <3>1. CASE q = o /\ m.type = "Fill"
      <4>1. Amount(m, c) = m.size * m.price
        BY <1>2, <3>1 DEF Amount
      <4> QED
        BY <1>2, <1>4, <2>1, <3>1, <4>1
    <3>2. CASE ~(q = o /\ m.type = "Fill")
      <4>1. venue'[q].cost = venue[q].cost
        BY <1>2, <3>2
      <4> QED
        BY <1>4, <2>1, <4>1
    <3> QED
      BY <3>1, <3>2
  <2>3. n + Flow(wire, c) >= venue[q].cost
    BY <1>10 DEF Due
  <2> HIDE DEF c
  <2>4. n + Flow(wire', c) >= venue'[q].cost
    BY <1>2, <1>4, <2>1, <2>2, <2>3
  <2>5. c = venue'[q].contract
    BY <1>3 DEF c
  <2> QED
    BY <2>4, <2>5 DEF Due
<1>11. SoleCovered'
  <2>1. ASSUME NEW q \in DOMAIN orders, Sole(q)' PROVE Covered(q)'
    <3>1. q \in DOMAIN venue /\ Sole(q)
      BY <1>2, <1>3, <2>1 DEF CoverInv, Known, Sole
    <3>2. Covered(q)
      BY <3>1 DEF CoverInv, SoleCovered
    <3>3. EntryOf(exposures, venue[q].contract).filled \in Nat
      BY EntryType DEF DeskInv, Types, ExposureTypeOK, Exposures, ContractExposure
    <3>4. Due(EntryOf(exposures, venue[q].contract).filled, q)'
      <4>1. PICK n \in Nat : n = EntryOf(exposures, venue[q].contract).filled
        BY <3>3
      <4>2. Due(n, q)'
        BY <1>10, <3>1, <3>2, <4>1 DEF Covered
      <4> QED
        BY <1>1, <1>3, <3>1, <4>1, <4>2 DEF Due
    <3> QED
      BY <1>1, <1>3, <3>1, <3>2, <3>4 DEF Covered, ContractNotional
  <2> QED
    BY <1>1, <2>1 DEF SoleCovered
<1>12. AnswerRight'
  <2>1. ASSUME NEW info \in openOrders, stage = "fetching"
        PROVE  /\ info.order \in DOMAIN venue
               /\ info.contract = venue'[info.order].contract
               /\ info.price = venue'[info.order].price /\ info.size = venue'[info.order].size
               /\ Due((info.size - info.remaining) * info.price, info.order)'
    <3>1. /\ info.order \in DOMAIN venue /\ info.contract = venue[info.order].contract
          /\ info.price = venue[info.order].price /\ info.size = venue[info.order].size
          /\ Due((info.size - info.remaining) * info.price, info.order)
      BY <2>1 DEF CoverInv, AnswerRight
    <3>2. (info.size - info.remaining) * info.price \in Int
      <4>1. info.size \in Int /\ info.remaining \in Int /\ info.price \in Int
        BY DEF DeskInv, Types, OpenOrderInfo
      <4> QED
        BY <4>1
    <3> QED
      BY <1>3, <1>10, <3>1, <3>2
  <2> QED
    BY <1>1, <1>2, <2>1 DEF AnswerRight, Due
<1> QED
  BY <1>7, <1>8, <1>9, <1>11, <1>12 DEF CoverInv

\* What a message does to tracker and index: its order moves to a state the
\* tracker knows, and to a terminal one only with the order's last message.
LEMMA MessageMoves ==
  ASSUME DeskInv, HandleMessage
  PROVE  LET e == Head(wire)
             o == e.order
         IN \E s \in Working \cup Terminal :
              /\ Moves(o, s)
              /\ s \in Terminal => Ends(e)
              /\ s \in {"Canceled", "Rejected"} <=> e.type = "OrderStateChange"
              /\ \A q \in DOMAIN orders : /\ orders'[q].contract = orders[q].contract
                                          /\ orders'[q].price = orders[q].price
                                          /\ orders'[q].size = orders[q].size
              /\ pendingContracts' = IF o \in DOMAIN orders /\ s \in Terminal
                                     THEN Without(pendingContracts, orders[o].contract)
                                     ELSE pendingContracts
<1> DEFINE e == Head(wire)
           o == e.order
<1>1. e \in VenueMessage /\ TrackerTypeOK
  BY DEF HandleMessage, DeskInv, Types, VenueTypeOK
<1>2. \/ e.type = "OrderAck" /\ ProcessAck(o)
      \/ e.type = "Fill" /\ ProcessFill(o, e.contract, e.size, e.price, e.remaining)
      \/ e.type = "OrderStateChange" /\ ProcessStateChange(o, e.state)
  BY DEF HandleMessage
<1> HIDE DEF e
<1>3. ASSUME NEW s \in OrderState, UpdateState(o, s)
      PROVE  /\ Moves(o, s)
             /\ \A q \in DOMAIN orders : /\ orders'[q].contract = orders[q].contract
                                         /\ orders'[q].price = orders[q].price
                                         /\ orders'[q].size = orders[q].size
             /\ pendingContracts' = IF o \in DOMAIN orders /\ s \in Terminal
                                    THEN Without(pendingContracts, orders[o].contract)
                                    ELSE pendingContracts
  <2>1. Moves(o, s)
    BY <1>1, <1>3, OneOrderMoves
  <2>2. o \in DOMAIN orders => orders' = [orders EXCEPT ![o].state = s]
    BY <1>3 DEF UpdateState
  <2>3. \A q \in DOMAIN orders : q # o => orders'[q] = orders[q]
    BY <2>1 DEF Moves
  <2>4. o \in DOMAIN orders => /\ orders'[o].contract = orders[o].contract
                               /\ orders'[o].price = orders[o].price
                               /\ orders'[o].size = orders[o].size
    BY <1>1, <2>2 DEF TrackerTypeOK, OrderRecord
  <2> QED
    BY <1>3, <2>1, <2>3, <2>4 DEF UpdateState, IndexAfter, trackerVars
<1>4. CASE e.type = "OrderAck"
  <2>1. UpdateState(o, "Acked") /\ "Acked" \in OrderState
    BY <1>2, <1>4 DEF ProcessAck, OrderState
  <2>2. "Acked" \in Working /\ "Acked" \notin Terminal /\ "Acked" \notin {"Canceled", "Rejected"}
    BY DEF Working, Terminal
  <2> QED
    BY <1>3, <1>4, <2>1, <2>2 DEF e
<1>5. CASE e.type = "Fill"
  <2> DEFINE s == IF e.remaining = 0 THEN "Filled" ELSE "PartialFill"
  <2>1. TrackFill(o, e.size, s) /\ e.size \in Nat
    BY <1>1, <1>2, <1>5 DEF ProcessFill, VenueMessage
  <2>2. /\ s \in Working \cup Terminal /\ s \notin {"Canceled", "Rejected"}
        /\ s \in Terminal => Ends(e)
        /\ s = "Filled" <=> s \in Terminal
    BY <1>5 DEF Working, Terminal, Ends
  <2> HIDE DEF s
  <2>3. Moves(o, s)
    BY <1>1, <2>1, OneOrderMoves
  <2>4. \A q \in DOMAIN orders : q # o => orders'[q] = orders[q]
    BY <2>3 DEF Moves
  <2>5. o \in DOMAIN orders => /\ orders'[o].contract = orders[o].contract
                               /\ orders'[o].price = orders[o].price
                               /\ orders'[o].size = orders[o].size
    BY <1>1, <2>1 DEF TrackFill, TrackerTypeOK, OrderRecord
  <2>6. pendingContracts' = IF o \in DOMAIN orders /\ s \in Terminal
                            THEN Without(pendingContracts, orders[o].contract)
                            ELSE pendingContracts
    BY <2>1, <2>2 DEF TrackFill, trackerVars
  <2> QED
    BY <1>5, <2>2, <2>3, <2>4, <2>5, <2>6 DEF e
<1>6. CASE e.type = "OrderStateChange"
  <2>1. UpdateState(o, e.state) /\ e.state \in {"Canceled", "Rejected"}
    BY <1>1, <1>2, <1>6 DEF ProcessStateChange, VenueMessage
  <2>2. e.state \in OrderState /\ e.state \in Terminal /\ Ends(e)
    BY <1>6, <2>1 DEF OrderState, Terminal, Ends
  <2> QED
    BY <1>3, <1>6, <2>1, <2>2 DEF e
<1> QED
  BY <1>2, <1>4, <1>5, <1>6

\* What it does to the exposures: a fill counts where there is an entry, and
\* nothing becomes less but where an order is cancelled.
LEMMA MessageExposes ==
  ASSUME DeskInv, HandleMessage
  PROVE  LET e == Head(wire)
         IN \A d :
              /\ d \in DOMAIN exposures =>
                   EntryOf(exposures', d).filled = EntryOf(exposures, d).filled + Amount(e, d)
              /\ \/ e.type = "OrderStateChange" /\ e.order \in DOMAIN orders
                    /\ d = orders[e.order].contract
                 \/ d \notin DOMAIN exposures
                 \/ d \in DOMAIN exposures' /\ ContractNotional(d)' >= ContractNotional(d)
<1> DEFINE e == Head(wire)
<1>1. e \in VenueMessage /\ TrackerTypeOK /\ Exposures(exposures)
  BY DEF HandleMessage, DeskInv, Types, VenueTypeOK, ExposureTypeOK, Exposures
<1>2. \/ e.type = "OrderAck" /\ ProcessAck(e.order)
      \/ e.type = "Fill" /\ ProcessFill(e.order, e.contract, e.size, e.price, e.remaining)
      \/ e.type = "OrderStateChange" /\ ProcessStateChange(e.order, e.state)
  BY DEF HandleMessage
<1> HIDE DEF e
<1> SUFFICES ASSUME NEW d
             PROVE  /\ d \in DOMAIN exposures =>
                         EntryOf(exposures', d).filled = EntryOf(exposures, d).filled + Amount(e, d)
                    /\ \/ e.type = "OrderStateChange" /\ e.order \in DOMAIN orders
                          /\ d = orders[e.order].contract
                       \/ d \notin DOMAIN exposures
                       \/ d \in DOMAIN exposures' /\ ContractNotional(d)' >= ContractNotional(d)
  BY DEF e
<1>3. EntryOf(exposures, d).filled \in Nat /\ EntryOf(exposures, d).pending \in Nat
  BY <1>1, EntryType DEF ContractExposure
<1>4. CASE exposures' = exposures /\ e.type # "Fill"
  BY <1>3, <1>4 DEF Amount, ContractNotional
<1>5. CASE e.type = "Fill"
  <2>1. /\ exposures' = ApplyFill(exposures, e.contract, e.size * e.price)
        /\ e.size * e.price \in Nat
    <3>1. e.size \in Nat /\ e.price \in Nat
      BY <1>1, <1>5 DEF VenueMessage
    <3> QED
      BY <1>2, <1>5, <3>1 DEF ProcessFill
  <2>2. CASE d = e.contract /\ d \in DOMAIN exposures
    <3> DEFINE n == e.size * e.price
               x == ApplyFill(exposures, e.contract, n)
    <3>1. /\ EntryOf(x, d).filled = EntryOf(exposures, d).filled + n
          /\ EntryOf(x, d).pending = Minus(EntryOf(exposures, d).pending, n)
          /\ Amount(e, d) = n /\ n \in Nat /\ exposures' = x
      BY <1>1, <1>5, <2>1, <2>2, ApplyFillEntry DEF Amount
    <3>2. d \in DOMAIN exposures'
      BY <2>1, <2>2 DEF ApplyFill
    <3> HIDE DEF n, x
    <3>3. Minus(EntryOf(exposures, d).pending, n) + n >= EntryOf(exposures, d).pending
          /\ Minus(EntryOf(exposures, d).pending, n) \in Nat
      BY <1>3, <3>1 DEF Minus
    <3> QED
      BY <1>3, <3>1, <3>2, <3>3 DEF ContractNotional
  <2>3. CASE d # e.contract
    <3>1. EntryOf(exposures', d) = EntryOf(exposures, d) /\ Amount(e, d) = 0
      BY <1>1, <2>1, <2>3, ApplyFillEntry DEF Amount
    <3>2. d \in DOMAIN exposures => d \in DOMAIN exposures'
      BY <2>1, <2>3 DEF ApplyFill
    <3> QED
      BY <1>3, <3>1, <3>2 DEF ContractNotional
  <2>4. CASE d \notin DOMAIN exposures
    BY <2>4
  <2> QED
    BY <2>2, <2>3, <2>4
<1>6. CASE e.type = "OrderStateChange" /\ e.order \in DOMAIN orders /\ exposures' # exposures
  <2> DEFINE r == orders[e.order]
             n == (r.size - r.filled) * r.price
  <2>1. exposures' = RemovePending(exposures, r.contract, n)
    BY <1>2, <1>6 DEF ProcessStateChange
  <2>2. n \in Int
    <3>1. r \in OrderRecord
      BY <1>1, <1>6 DEF TrackerTypeOK
    <3>2. r.size \in Nat /\ r.filled \in Nat /\ r.price \in Nat
      BY <3>1 DEF OrderRecord
    <3>3. r.size - r.filled \in Int
      BY <3>2
    <3> QED
      BY <3>2, <3>3
  <2> HIDE DEF n
  <2>3. Amount(e, d) = 0
    BY <1>6 DEF Amount
  <2>4. EntryOf(exposures', d).filled = EntryOf(exposures, d).filled
    BY <1>1, <2>1, <2>2, RemovePendingEntry
  <2>5. d # r.contract => EntryOf(exposures', d) = EntryOf(exposures, d)
    BY <1>1, <2>1, <2>2, RemovePendingEntry
  <2>6. d # r.contract /\ d \in DOMAIN exposures => d \in DOMAIN exposures'
    BY <1>1, <2>1 DEF RemovePending, Without, Restrict, Exposures
  <2> QED
    BY <1>3, <1>6, <2>3, <2>4, <2>5, <2>6 DEF ContractNotional
<1> QED
  BY <1>2, <1>4, <1>5, <1>6 DEF ProcessAck, ProcessStateChange

\* A message taken is counted where it was due, and its order's entry goes only
\* with the last.
LEMMA MessageCover == ASSUME DeskInv, CoverInv, HandleMessage PROVE CoverInv'
<1> DEFINE e == Head(wire)
           o == e.order
<1>1. /\ venue' = venue /\ wire' = Tail(wire) /\ wire # << >> /\ stage' # "fetching"
      /\ wire \in Seq(VenueMessage) /\ VenueTypeOK
  BY DEF HandleMessage, reconcileVars, DeskInv, Types, VenueTypeOK
<1>2. /\ e \in VenueMessage /\ e = wire[1] /\ 1 \in DOMAIN wire
      /\ \A i \in DOMAIN wire' : /\ i \in Nat /\ i + 1 > 1 /\ i + 1 \in DOMAIN wire
                                 /\ wire'[i] = wire[i + 1]
  BY <1>1, TailElements
<1>3. /\ o \in DOMAIN venue
      /\ e.type = "Fill" => e.contract = venue[o].contract
      /\ Ends(e) => venue[o].status \notin Unfinished /\ \A i \in DOMAIN wire' : wire'[i].order # o
  BY <1>2 DEF CoverInv, WireTells
<1>4. PICK s \in Working \cup Terminal :
        /\ Moves(o, s)
        /\ s \in Terminal => Ends(e)
        /\ s \in {"Canceled", "Rejected"} <=> e.type = "OrderStateChange"
        /\ \A q \in DOMAIN orders : /\ orders'[q].contract = orders[q].contract
                                    /\ orders'[q].price = orders[q].price
                                    /\ orders'[q].size = orders[q].size
        /\ pendingContracts' = IF o \in DOMAIN orders /\ s \in Terminal
                               THEN Without(pendingContracts, orders[o].contract)
                               ELSE pendingContracts
  BY MessageMoves
<1>5. \A d :
        /\ d \in DOMAIN exposures =>
             EntryOf(exposures', d).filled = EntryOf(exposures, d).filled + Amount(e, d)
        /\ \/ e.type = "OrderStateChange" /\ o \in DOMAIN orders /\ d = orders[o].contract
           \/ d \notin DOMAIN exposures
           \/ d \in DOMAIN exposures' /\ ContractNotional(d)' >= ContractNotional(d)
  BY MessageExposes
<1> HIDE DEF e
<1>6. \A q \in DOMAIN orders :
        /\ q \in DOMAIN venue /\ orders[q].contract = venue[q].contract
        /\ orders[q].price = venue[q].price /\ orders[q].size = venue[q].size
        /\ orders[q].state \in Working \cup Terminal
        /\ orders[q].state \in Terminal =>
             venue[q].status \notin Unfinished /\ \A i \in DOMAIN wire : wire[i].order # q
  BY DEF CoverInv, Known
<1>7. o \in DOMAIN orders => orders[o].state \in Working
  BY <1>2, <1>6
<1>8. BooksRight'
  BY <1>1 DEF CoverInv, BooksRight
<1>9. WireTells'
  <2>1. ASSUME NEW i \in DOMAIN wire'
        PROVE  /\ wire'[i].order \in DOMAIN venue
               /\ wire'[i].type = "Fill" => wire'[i].contract = venue[wire'[i].order].contract
               /\ Ends(wire'[i]) =>
                    /\ venue[wire'[i].order].status \notin Unfinished
                    /\ \A j \in DOMAIN wire' : j > i => wire'[j].order # wire'[i].order
    <3>1. i + 1 \in DOMAIN wire /\ wire'[i] = wire[i + 1] /\ i \in Nat
      BY <1>2
    <3>2. \A j \in DOMAIN wire' : j > i => j + 1 > i + 1 /\ j + 1 \in DOMAIN wire /\ wire'[j] = wire[j + 1]
      BY <1>2, <3>1
    <3> QED
      BY <3>1, <3>2 DEF CoverInv, WireTells
  <2> QED
    BY <1>1, <2>1 DEF WireTells
<1>10. Known'
  <2>1. ASSUME NEW q \in DOMAIN orders
        PROVE  /\ orders'[q].state \in Working \cup Terminal
               /\ orders'[q].state \in Terminal =>
                    venue[q].status \notin Unfinished /\ \A i \in DOMAIN wire' : wire'[i].order # q
    <3>1. CASE q = o
      BY <1>3, <1>4, <3>1 DEF Moves
    <3>2. CASE q # o
      <4>1. orders'[q] = orders[q]
        BY <1>4, <3>2 DEF Moves
      <4> QED
        BY <1>2, <1>6, <4>1
    <3> QED
      BY <3>1, <3>2
  <2>2. DOMAIN orders' = DOMAIN orders
    BY <1>4 DEF Moves
  <2> QED
    BY <1>1, <1>4, <1>6, <2>1, <2>2 DEF Known
<1>11. ASSUME NEW q \in DOMAIN orders, Sole(q) PROVE Covered(q)'
  <2>0. PICK c : c = venue[q].contract
    OBVIOUS
  <2>1. q \in DOMAIN venue /\ Covered(q)
    BY <1>6, <1>11 DEF CoverInv, SoleCovered
  <2>2. /\ \A d \in VenueMessage : Amount(d, c) \in Nat
        /\ Flow(wire', c) \in Nat
        /\ Flow(wire, c) = Amount(e, c) + Flow(wire', c)
    <3>1. \A d \in VenueMessage : Amount(d, c) \in Nat
      BY AmountType
    <3>2. Flow(wire, c) = Amount(e, c) + Flow(Tail(wire), c)
      BY <1>1, <3>1, FlowTakes DEF e
    <3>3. Tail(wire) \in Seq(VenueMessage)
      BY <1>1
    <3>4. Flow(Tail(wire), c) \in Nat
      BY <3>1, <3>3, AmountsType
    <3> QED
      BY <1>1, <3>1, <3>2, <3>4
  <2>3. /\ EntryOf(exposures, c).filled \in Nat /\ EntryOf(exposures', c).filled \in Nat
        /\ ContractNotional(c) \in Nat /\ ContractNotional(c)' \in Nat
        /\ venue[q].cost \in Nat /\ venue[q].size * venue[q].price \in Nat
    <3>1. Exposures(exposures) /\ Exposures(exposures')
      BY MessageInv DEF DeskInv, Types, ExposureTypeOK, Exposures
    <3>2. EntryOf(exposures, c) \in ContractExposure /\ EntryOf(exposures', c) \in ContractExposure
      BY <3>1, EntryType
    <3>3. venue[q].cost \in Nat /\ venue[q].size \in Nat /\ venue[q].price \in Nat
      BY <1>1, <2>1 DEF VenueTypeOK, VenueOrder
    <3>4. venue[q].size * venue[q].price \in Nat
      BY <3>3
    <3> QED
      BY <3>2, <3>3, <3>4 DEF ContractNotional, ContractExposure
  <2>4. EntryOf(exposures, c).filled + Flow(wire, c) >= venue[q].cost
    BY <2>0, <2>1 DEF Covered, Due
  <2>5. CASE q = o
    <3>1. orders[q].state \in Working /\ orders[q].state \notin {"Canceled", "Rejected"}
      BY <1>7, <2>5 DEF Working
    <3>2. /\ c \in DOMAIN exposures /\ ContractNotional(c) >= venue[q].size * venue[q].price
          /\ c \in DOMAIN pendingContracts /\ pendingContracts[c] = q
      BY <2>0, <2>1, <3>1 DEF Covered
    <3>3. EntryOf(exposures', c).filled = EntryOf(exposures, c).filled + Amount(e, c)
      BY <1>5, <3>2
    <3>4. EntryOf(exposures', c).filled + Flow(wire', c) >= venue[q].cost
      <4>1. Amount(e, c) \in Nat
        BY <1>2, <2>2
      <4> QED
        BY <2>2, <2>3, <2>4, <3>3, <4>1
    <3>5. orders'[q].state = s
      BY <1>4, <2>5 DEF Moves
    <3>6. ASSUME s \notin {"Canceled", "Rejected"}
          PROVE  c \in DOMAIN exposures' /\ ContractNotional(c)' >= venue[q].size * venue[q].price
      <4>1. e.type # "OrderStateChange"
        BY <1>4, <3>6
      <4>2. c \in DOMAIN exposures' /\ ContractNotional(c)' >= ContractNotional(c)
        BY <1>5, <3>2, <4>1
      <4> QED
        BY <2>3, <3>2, <4>2
    <3>7. s \in Working => c \in DOMAIN pendingContracts' /\ pendingContracts'[c] = q
      <4>1. s \in Working => s \notin Terminal
        BY DEF Working, Terminal
      <4> QED
        BY <1>4, <3>2, <4>1
    <3> QED
      BY <2>0, <1>1, <3>4, <3>5, <3>6, <3>7 DEF Covered, Due
  <2>6. CASE q # o
    <3>1. venue[o].contract # c
      BY <2>0, <1>3, <1>11, <2>6 DEF Sole
    <3>2. orders'[q] = orders[q] /\ (o \in DOMAIN orders => orders[o].contract # c)
      BY <1>4, <1>6, <2>6, <3>1 DEF Moves
    <3>3. Amount(e, c) = 0
      BY <1>3, <3>1 DEF Amount
    <3>4. EntryOf(exposures', c).filled + Flow(wire', c) >= venue[q].cost
      <4>1. CASE c \in DOMAIN exposures
        <5>1. EntryOf(exposures', c).filled = EntryOf(exposures, c).filled + Amount(e, c)
          BY <1>5, <4>1
        <5> QED
          BY <2>2, <2>3, <2>4, <3>3, <5>1
      <4>2. CASE c \notin DOMAIN exposures
        <5>1. EntryOf(exposures, c).filled = 0
          BY <4>2 DEF EntryOf
        <5> QED
          BY <2>2, <2>3, <2>4, <3>3, <5>1
      <4> QED
        BY <4>1, <4>2
    <3>5. ASSUME orders[q].state \notin {"Canceled", "Rejected"}
          PROVE  c \in DOMAIN exposures' /\ ContractNotional(c)' >= venue[q].size * venue[q].price
      <4>1. c \in DOMAIN exposures /\ ContractNotional(c) >= venue[q].size * venue[q].price
        BY <2>0, <2>1, <3>5 DEF Covered
      <4>2. c \in DOMAIN exposures' /\ ContractNotional(c)' >= ContractNotional(c)
        BY <1>5, <3>2, <4>1
      <4> QED
        BY <2>3, <4>1, <4>2
    <3>6. ASSUME orders[q].state \in Working
          PROVE  c \in DOMAIN pendingContracts' /\ pendingContracts'[c] = q
      <4>1. c \in DOMAIN pendingContracts /\ pendingContracts[c] = q
        BY <2>0, <2>1, <3>6 DEF Covered
      <4> QED
        BY <1>4, <3>2, <4>1 DEF Without, Restrict
    <3> QED
      BY <2>0, <1>1, <3>2, <3>4, <3>5, <3>6 DEF Covered, Due
  <2> QED
    BY <2>5, <2>6
<1>12. SoleCovered'
  <2>1. DOMAIN orders' = DOMAIN orders /\ \A q : Sole(q)' => Sole(q)
    BY <1>1, <1>4 DEF Moves, Sole
  <2> QED
    BY <1>11, <2>1 DEF SoleCovered
<1>13. AnswerRight'
  BY <1>1 DEF AnswerRight
<1> QED
  BY <1>8, <1>9, <1>10, <1>12, <1>13 DEF CoverInv

\* Every step keeps it.
LEMMA CoverStep == DeskInv /\ CoverInv /\ [Next]_vars => CoverInv'
<1> SUFFICES ASSUME DeskInv, CoverInv, [Next]_vars PROVE CoverInv'
  OBVIOUS
<1>1. CASE \E c \in Contract, q \in Quotes : Evaluate(c, q)
  BY <1>1, QuietCover DEF Evaluate, fillStateVars, venueVars, reconcileVars
<1>2. CASE OperatorAck \/ TimePasses
  BY <1>2, QuietCover DEF OperatorAck, TimePasses, fillStateVars, venueVars, reconcileVars
<1>3. CASE UNCHANGED vars
  BY <1>3, QuietCover DEF vars, fillStateVars, venueVars, reconcileVars
<1>4. CASE ReconcileStep
  <2>1. CASE FetchFails \/ BalanceArrives \/ BalanceFails
    BY <2>1, QuietCover DEF FetchFails, BalanceArrives, BalanceFails, fillStateVars, venueVars
  <2> QED
    BY <1>4, <2>1, AnswerCover, LoadCover DEF ReconcileStep, Reconcile
<1> QED
  BY <1>1, <1>2, <1>3, <1>4, ActsCover, MessageCover DEF Next

\* An order that is loaded costs no more than the exposures say, and keeps its
\* contract's index entry, for any books, any fills and any failures of a look,
\* if it is alone on its contract (reconciliation.rs 170-188, fill_state.rs
\* 170-214).
THEOREM RestartIsCovered == Spec => []RestartCovered
<1>1. DeskInv /\ CoverInv => RestartCovered
  <2> SUFFICES ASSUME DeskInv, CoverInv, NEW o \in DOMAIN orders, Sole(o)
               PROVE  /\ ContractNotional(venue[o].contract) >= OpenCost(o)
                      /\ orders[o].state \in Working =>
                           /\ venue[o].contract \in DOMAIN pendingContracts
                           /\ pendingContracts[venue[o].contract] = o
    BY DEF RestartCovered, Sole
  <2> DEFINE c == venue[o].contract
             v == venue[o]
  <2>1. Covered(o) /\ o \in DOMAIN venue /\ VenueTypeOK /\ v \in VenueOrder
    BY DEF CoverInv, SoleCovered, Known, DeskInv, Types, VenueTypeOK
  <2>2. /\ v.size \in Nat /\ v.filled \in Nat /\ v.price \in Nat /\ v.cost \in Nat
        /\ v.filled <= v.size /\ v.cost <= v.filled * v.price
    BY <2>1 DEF VenueOrder, CoverInv, BooksRight, DeskInv, Types, WithinSize
  <2>3. /\ v.filled * v.price \in Nat /\ (v.size - v.filled) * v.price \in Nat
        /\ v.size * v.price = v.filled * v.price + (v.size - v.filled) * v.price
    BY <2>2, WholeNotional
  <2>4. OpenCost(o) <= v.size * v.price /\ OpenCost(o) \in Nat
    <3> HIDE DEF v
    <3>1. OpenCost(o) = v.cost + (IF v.status = "Open" THEN (v.size - v.filled) * v.price ELSE 0)
      BY DEF OpenCost, v
    <3> QED
      BY <2>2, <2>3, <3>1
  <2>5. /\ EntryOf(exposures, c).filled \in Nat /\ EntryOf(exposures, c).pending \in Nat
    BY EntryType DEF DeskInv, Types, ExposureTypeOK, Exposures, ContractExposure
  <2>6. CASE orders[o].state \notin {"Canceled", "Rejected"}
    <3>1. ContractNotional(c) >= v.size * v.price
      BY <2>1, <2>6 DEF Covered
    <3>2. ContractNotional(c) \in Nat /\ v.size * v.price \in Nat
      BY <2>2, <2>3, <2>5 DEF ContractNotional
    <3>3. ContractNotional(c) >= OpenCost(o)
      <4> HIDE DEF c, v
      <4> QED
        BY <2>4, <3>1, <3>2
    <3> QED
      BY <2>1, <3>3 DEF Covered
  <2>7. CASE orders[o].state \in {"Canceled", "Rejected"}
    <3>1. v.status \notin Unfinished /\ \A i \in DOMAIN wire : wire[i].order # o
      BY <2>7 DEF CoverInv, Known, Terminal
    <3>2. \A i \in DOMAIN wire : Amount(wire[i], c) = 0
      <4> SUFFICES ASSUME NEW i \in DOMAIN wire, wire[i].type = "Fill" PROVE wire[i].contract # c
        BY DEF Amount
      <4>1. wire[i].order \in DOMAIN venue /\ wire[i].contract = venue[wire[i].order].contract
        BY DEF CoverInv, WireTells
      <4> QED
        BY <3>1, <4>1 DEF Sole
    <3>3. Flow(wire, c) = 0
      <4>1. wire \in Seq(VenueMessage) /\ \A m \in VenueMessage : Amount(m, c) \in Nat
        BY <2>1, AmountType DEF VenueTypeOK
      <4> QED
        BY <3>2, <4>1, FlowOfOthers
    <3>4. EntryOf(exposures, c).filled >= v.cost
      <4>1. EntryOf(exposures, c).filled + Flow(wire, c) >= v.cost
        BY <2>1 DEF Covered, Due
      <4> QED
        BY <2>5, <3>3, <4>1
    <3>5. OpenCost(o) = v.cost
      BY <2>2, <3>1 DEF OpenCost, Unfinished
    <3>6. orders[o].state \notin Working
      BY <2>7 DEF Working
    <3> QED
      BY <2>2, <2>5, <3>4, <3>5, <3>6 DEF ContractNotional
  <2> QED
    BY <2>6, <2>7
<1> QED
  BY <1>1, Invariant, CoverInit, CoverStep, PTL DEF Spec

-----------------------------------------------------------------------------
\* Whatever the sizing mode and the exposures, an accepted size breaks neither
\* limit that sizing and the limit engine share (sizing.rs 128-140).
THEOREM SizingKeepsLimits == Spec => []SizedWithinLimits
  BY Invariant, PTL DEF DeskInv

\* The clock, and when the orders were created.
Clock == now \in Nat /\ createdAt = CreatedAt

\* Only the clock moves.
LEMMA ClockStep == DeskInv /\ Clock /\ [Next]_vars => Clock'
<1>1. ASSUME Clock, TimePasses PROVE Clock'
  BY <1>1 DEF Clock, TimePasses
<1>2. ASSUME Clock, UNCHANGED <<createdAt, now>> PROVE Clock'
  BY <1>2 DEF Clock
<1> QED
  BY <1>1, <1>2 DEF Next, Evaluate, HandleMessage, ReconcileStep, VenueStep, OperatorAck, vars

\* An order that works beyond both limits of any duration is beyond the one
\* the scan applies to it, whichever market it is on: the scan's limits are the
\* tightest (cancel_policy.rs 76-95, 126-252).
THEOREM ScanReachesAll == Spec => []NothingOutlivesTheScan
<1>1. Types /\ Clock => NothingOutlivesTheScan
  <2> SUFFICES ASSUME Types, Clock PROVE NothingOutlivesTheScan
    OBVIOUS
  <2>1. ASSUME NEW o \in DOMAIN orders, NEW d \in Duration, orders[o].state \in Working,
               Age(o) > Greatest(Limits[d].maxOrderAge, Limits[d].partialFillTimeout)
        PROVE  o \in AppScan
    <3>1. o \in OrderId /\ Age(o) \in Int
      BY DeskAssumption DEF Types, TrackerTypeOK, Clock, Age
    <3>2. /\ Limits[d].maxOrderAge \in Nat /\ Limits[d].partialFillTimeout \in Nat
          /\ Limits["FiveMin"].maxOrderAge \in Nat
          /\ Limits["FiveMin"].partialFillTimeout \in Nat
          /\ Limits["FiveMin"].maxOrderAge <= Limits[d].maxOrderAge
          /\ Limits["FiveMin"].partialFillTimeout <= Limits[d].partialFillTimeout
      BY CancelAssumption DEF CancelPolicyConfig, Duration
    <3>3. /\ Age(o) > Limits[d].maxOrderAge
          /\ Age(o) > Limits[d].partialFillTimeout
      BY <2>1, <3>1, <3>2, GreatestOfTwo
    <3>4. Overdue(o, Limits["FiveMin"])
      BY <3>1, <3>2, <3>3 DEF Overdue
    <3> QED
      BY <2>1, <3>4 DEF AppScan, ScanOrders, MustCancel
  <2>2. \A d \in Duration, expiry \in 0..MaxTime :
          ScanOrders(DOMAIN orders, d, expiry) \subseteq CancelAll(DOMAIN orders)
    BY DEF ScanOrders, CancelAll, MustCancel
  <2> QED
    BY <2>1, <2>2 DEF NothingOutlivesTheScan
<1>2. Init => Clock
  BY DeskAssumption DEF Init, Clock
<1> QED
  BY <1>1, <1>2, ClockStep, Invariant, PTL DEF Spec, DeskInv

\* Behind the guard none of the four limits is broken, for any base and guard
\* configuration (live_guard.rs 117-197).
THEOREM GuardKeepsLimits == Spec => []GuardedWithinLimits
  BY Invariant, PTL DEF DeskInv

\* An accepted order earns what its gate asks for at the size it gets, for any
\* quote, fees and thresholds: costs grow with the size (pipeline.rs 111-183).
THEOREM OrdersPay == Spec => []AcceptedPaysItsCosts
  BY Invariant, PTL DEF DeskInv
=============================================================================
