------------------------------- MODULE Domain -------------------------------
(***************************************************************************)
(* The vocabulary of src/src/domain/: contracts, client order ids and the  *)
(* lifecycle states of an order, with the three groupings of those states  *)
(* that the execution code distinguishes, and the hash maps everything is  *)
(* kept in.                                                                *)
(***************************************************************************)
EXTENDS Functions

CONSTANTS Contract,   \* tradeable contract keys (market id, token id)
          OrderId,    \* client order ids, each a fresh UUID in the code
          NoOrder     \* no order is being submitted

ASSUME NoOrderAssumption == NoOrder \notin OrderId

\* enum OrderState.
OrderState == {"Pending", "Acked", "PartialFill", "Filled", "CancelPending",
               "Canceled", "Rejected", "Retrying", "Uncertain"}

\* States in which the duplicate check takes an order for open.
Working == {"Pending", "Acked", "PartialFill"}

\* States that use up one of the max_concurrent_orders slots.
Active == Working \cup {"Retrying"}

\* States on which the tracker forgets the contract's pending order.
Terminal == {"Filled", "Canceled", "Rejected"}

\* enum LockState, as the signal gates read it.
LockState == {"Unlocked", "Locked", "Cooldown"}

\* HashMap::insert and HashMap::remove.
Put(map, key, value) ==
  [k \in {key} \cup DOMAIN map |-> IF k = key THEN value ELSE map[k]]

Without(map, key) == Restrict(map, DOMAIN map \ {key})
=============================================================================
