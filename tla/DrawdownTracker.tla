-------------------------- MODULE DrawdownTracker ---------------------------
(***************************************************************************)
(* DrawdownTracker (src/src/risk/drawdown.rs): the figures kept of the     *)
(* realized results, and the breaches that activate the kill switch.       *)
(* Money is a whole number of ticks.  The slippage totals decide nothing   *)
(* and are left out (the main loop passes none).                           *)
(***************************************************************************)
EXTENDS Integers, Sequences

CONSTANTS MaxDailyDrawdown, MaxTotalDrawdown, MaxConsecutiveLosses

ASSUME DrawdownLimitsAssumption ==
  /\ MaxDailyDrawdown \in Nat \ {0}
  /\ MaxTotalDrawdown \in Nat \ {0}
  /\ MaxConsecutiveLosses \in Nat \ {0}

VARIABLE drawdown   \* DrawdownState

DrawdownState ==
  [sessionStart : Int, dailyStart : Int, current : Int, highWater : Int,
   sessionPnl : Int, dailyPnl : Int, losses : Nat, maxLosses : Nat,
   trades : Nat, winning : Nat, losing : Nat]

\* DrawdownTracker::new
FreshDrawdown(equity) ==
  [sessionStart |-> equity, dailyStart |-> equity, current |-> equity,
   highWater |-> equity, sessionPnl |-> 0, dailyPnl |-> 0, losses |-> 0,
   maxLosses |-> 0, trades |-> 0, winning |-> 0, losing |-> 0]

Larger(a, b) == IF a >= b THEN a ELSE b

\* Mutant of StreakAfter: a scratch ends the streak.
StreakEndedByScratch(streak, pnl) == IF pnl >= 0 THEN 0 ELSE streak + 1

\* Consecutive losses: a win ends the streak, a scratch does not touch it.
StreakAfter(streak, pnl) ==
  IF pnl > 0 THEN 0 ELSE IF pnl < 0 THEN streak + 1 ELSE streak

\* record_trade up to the check of the thresholds.
AfterTrade(s, pnl) ==
  [s EXCEPT !.sessionPnl = @ + pnl,
            !.dailyPnl   = @ + pnl,
            !.current    = @ + pnl,
            !.highWater  = Larger(@, s.current + pnl),
            !.losses     = StreakAfter(@, pnl),
            !.maxLosses  = Larger(@, StreakAfter(s.losses, pnl)),
            !.trades     = @ + 1,
            !.winning    = IF pnl > 0 THEN @ + 1 ELSE @,
            !.losing     = IF pnl < 0 THEN @ + 1 ELSE @]

DailyDrawdown(s) == Larger(s.dailyStart - s.current, 0)

TotalDrawdown(s) == Larger(s.highWater - s.current, 0)

\* Mutant of Breaches: a limit must be exceeded, not reached.
BreachesBeyond(s) ==
     (IF DailyDrawdown(s) > MaxDailyDrawdown
      THEN <<"DailyDrawdownBreach">> ELSE << >>)
  \o (IF TotalDrawdown(s) > MaxTotalDrawdown
      THEN <<"TotalDrawdownBreach">> ELSE << >>)
  \o (IF s.losses > MaxConsecutiveLosses
      THEN <<"ConsecutiveLossBreach">> ELSE << >>)

\* check_thresholds: the reasons for which the switch is activated, in order.
Breaches(s) ==
     (IF DailyDrawdown(s) >= MaxDailyDrawdown
      THEN <<"DailyDrawdownBreach">> ELSE << >>)
  \o (IF TotalDrawdown(s) >= MaxTotalDrawdown
      THEN <<"TotalDrawdownBreach">> ELSE << >>)
  \o (IF s.losses >= MaxConsecutiveLosses
      THEN <<"ConsecutiveLossBreach">> ELSE << >>)

\* reset_daily
ResetDaily == drawdown' = [drawdown EXCEPT !.dailyStart = drawdown.current,
                                           !.dailyPnl   = 0]
=============================================================================
