------------------------------- MODULE MCDesk --------------------------------
(* Old sessions that left one or two orders behind, on one contract or two, *)
(* still on their way, fresh or partly filled, and quotes on either side of *)
(* each threshold.                                                          *)
EXTENDS Desk, TLC

CONSTANTS c1, c2, o1, o2

Left(c, filled) ==
  [contract |-> c, price |-> 5000, size |-> 2, filled |-> filled, cost |-> filled * 5000,
   status |-> "Open"]

Asked(c) == [Left(c, 0) EXCEPT !.status = "Requested"]

Books ==
  {<< >>, o1 :> Left(c1, 0), (o1 :> Left(c1, 0)) @@ (o2 :> Left(c1, 1)),
   (o1 :> Left(c1, 1)) @@ (o2 :> Left(c2, 0)), (o1 :> Left(c1, 1)) @@ (o2 :> Asked(c2))}

Created == (o1 :> 0) @@ (o2 :> 1)

Fair == [outcome |-> "Up", duration |-> "FiveMin", spot |-> 101, open |-> 100,
         momentum |-> None, volatility |-> None, secondary |-> None, price |-> 7500,
         depth |-> 12, tickAge |-> 1, cexHealthy |-> TRUE, bookAge |-> 0]

SomeQuotes ==
  {Fair, [Fair EXCEPT !.price = 7550], [Fair EXCEPT !.outcome = "Down", !.price = 2500],
   [Fair EXCEPT !.duration = "FifteenMin"], [Fair EXCEPT !.secondary = 101, !.depth = 8],
   [Fair EXCEPT !.depth = 7], [Fair EXCEPT !.spot = 100]}

Theta(edge, confidence) ==
  [minNetEdge |-> edge, minConfidence |-> confidence, minDepth |-> 8, feedTolerance |-> 1,
   bookTolerance |-> 1]

Regimes == ("FiveMin" :> Theta(200, 6000)) @@ ("FifteenMin" :> Theta(150, 5500))

CancelLimits ==
  ("FiveMin" :> [maxOrderAge |-> 1, partialFillTimeout |-> 0, expiryBuffer |-> 1])
    @@ ("FifteenMin" :> [maxOrderAge |-> 2, partialFillTimeout |-> 1, expiryBuffer |-> 2])

Base  == [maxOrder |-> 3, maxPosition |-> 4, maxConcurrent |-> 2, maxGross |-> 5]
Guard == [maxOrder |-> 2, maxPosition |-> 4, maxConcurrent |-> 2, maxGross |-> 3]

SizingModes == {[kind |-> "FixedNotional", amount |-> 3],
                [kind |-> "CappedKelly", fraction |-> 5000, max |-> 4]}
=============================================================================
