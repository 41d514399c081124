--------------------------- MODULE MCTradingLoop ----------------------------
(* Small instances of TradingLoop: names for the sets a configuration cannot *)
(* write down, and the symmetry of the runs that check invariants only.      *)
EXTENDS TradingLoop, TLC

CONSTANTS c1, c2, o1, o2, o3

OneMarket  == {{c1}}
TwoMarkets == {{c1}, {c2}}
Symmetry   == Permutations(Contract) \cup Permutations(OrderId)
=============================================================================
