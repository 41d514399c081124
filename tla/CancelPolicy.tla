---------------------------- MODULE CancelPolicy -----------------------------
(***************************************************************************)
(* CancelPolicy (src/src/execution/cancel_policy.rs): which of the orders  *)
(* that still work should be cancelled. The app scans every few seconds,   *)
(* with the five-minute limits and without an expiry whatever the order's  *)
(* market (app.rs 349-354), and only logs what it finds.                   *)
(***************************************************************************)
EXTENDS OrderTracker, Integers

CONSTANTS
  Limits,     \* duration -> CancelPolicyConfig
  NoExpiry    \* market_expiry: None

VARIABLES createdAt,   \* order -> created_at of its record
          now          \* Utc::now()

CancelPolicyConfig == [maxOrderAge : Nat, partialFillTimeout : Nat, expiryBuffer : Nat]

\* The limits are no setting: five_min is the tighter of the two.
ASSUME CancelAssumption ==
  /\ Limits \in [{"FiveMin", "FifteenMin"} -> CancelPolicyConfig] /\ NoExpiry \notin Nat
  /\ Limits["FiveMin"].maxOrderAge <= Limits["FifteenMin"].maxOrderAge
  /\ Limits["FiveMin"].partialFillTimeout <= Limits["FifteenMin"].partialFillTimeout

Age(o) == now - createdAt[o]

NearExpiry(limits, expiry) == expiry # NoExpiry /\ expiry - now < limits.expiryBuffer

\* Mutant of Overdue: a partial fill counts as progress and is kept.
OverdueUnfilled(o, limits) == orders[o].state # "PartialFill" /\ Age(o) > limits.maxOrderAge

\* A partially filled order has a time-out of its own.
Overdue(o, limits) ==
  Age(o) > IF orders[o].state = "PartialFill" THEN limits.partialFillTimeout
           ELSE limits.maxOrderAge

\* evaluate
MustCancel(o, limits, expiry) ==
  orders[o].state \in Working /\ (NearExpiry(limits, expiry) \/ Overdue(o, limits))

ScanOrders(S, duration, expiry) == {o \in S : MustCancel(o, Limits[duration], expiry)}

\* cancel_all, for a kill switch; nothing in the app calls it.
CancelAll(S) == {o \in S : orders[o].state \in Working}

\* The app's scan: orders in the three states, one query each.
AppScan == ScanOrders({o \in DOMAIN orders : orders[o].state \in Working}, "FiveMin", NoExpiry)
=============================================================================
