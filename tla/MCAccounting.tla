---------------------------- MODULE MCAccounting ----------------------------
(* Two tokens of one market, or of two markets.  A winning token pays four  *)
(* ticks; a position costs two, and one more with slippage.                *)
EXTENDS Accounting, TLC

CONSTANTS up, down

OneMarket == (up :> "m") @@ (down :> "m")
UpAndDown ==
  {[contract |-> up, side |-> "Buy", price |-> 2, slippage |-> 1, size |-> 1, fee |-> 1],
   [contract |-> down, side |-> "Sell", price |-> 2, slippage |-> 1, size |-> 1, fee |-> 0]}
=============================================================================
