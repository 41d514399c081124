---------------------------- MODULE MCMarketData ----------------------------
(* One market that is there at the start and one that is listed later.     *)
EXTENDS MarketData, TLC

CONSTANTS t1, t2

ListedAt == (t1 :> 0) @@ (t2 :> 1)
ExpiresAt == (t1 :> 2) @@ (t2 :> 2)
=============================================================================
