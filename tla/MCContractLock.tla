--------------------------- MODULE MCContractLock ---------------------------
(* Two markets that expire at different times.                             *)
EXTENDS ContractLock, TLC

CONSTANTS c1, c2

TwoExpiries == (c1 :> 2) @@ (c2 :> 4)
=============================================================================
