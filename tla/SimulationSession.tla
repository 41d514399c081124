------------------------- MODULE SimulationSession --------------------------
(***************************************************************************)
(* SimulationSession (src/src/simulation/engine.rs): simulated fills of    *)
(* the accepted signals, booked in the session's ledger, and its counters, *)
(* together with the report drawn from them (simulation/evaluation.rs).    *)
(***************************************************************************)
EXTENDS Ledger

CONSTANTS FillModels,  \* models a session may be started with
          MinTrades,   \* trades below which a report recommends nothing (20)
          MaxFall      \* drawdown above which it advises against (50)

ASSUME FillModelAssumption ==
  FillModels \subseteq {"InstantFill", "WithSlippage", "Probabilistic"}

VARIABLES session,   \* SimulationStats
          fillModel  \* of the session's FillSimulator

SimulationStats == [evaluated : Nat, accepted : Nat, rejected : Nat,
                    simulated : Nat, missed : Nat, totalPnl : Int, totalFees : Int]

FreshSession == [evaluated |-> 0, accepted |-> 0, rejected |-> 0,
                 simulated |-> 0, missed |-> 0, totalPnl |-> 0, totalFees |-> 0]

\* simulate_fill: the price of a fill under the session's model.
FillPrice(intent) ==
  IF fillModel # "WithSlippage" THEN intent.price
  ELSE IF intent.side = "Buy" THEN intent.price + intent.slippage
                              ELSE intent.price - intent.slippage

\* A probabilistic fill depends on the nanoseconds of the clock.
MayMiss == fillModel = "Probabilistic"

-----------------------------------------------------------------------------
\* process_signal of an accepted signal whose fill is simulated, ...
SimulateFill(intent) ==
  /\ session' = [session EXCEPT !.evaluated = @ + 1, !.accepted = @ + 1,
                                !.simulated = @ + 1, !.totalFees = @ + intent.fee]
  /\ entries' = WithEntry(intent.contract, intent.side, FillPrice(intent),
                          intent.size, intent.fee)

\* ... or missed, ...
MissFill ==
  /\ MayMiss
  /\ session' = [session EXCEPT !.evaluated = @ + 1, !.accepted = @ + 1,
                                !.missed = @ + 1]
  /\ UNCHANGED entries

\* ... and of a rejected one.
RejectSignal ==
  /\ session' = [session EXCEPT !.evaluated = @ + 1, !.rejected = @ + 1]
  /\ UNCHANGED entries

\* close_position
ClosePosition(id, price, fee) ==
  /\ session' = [session EXCEPT !.totalPnl  = @ + ExitPnl(entries[id], price, fee),
                                !.totalFees = @ + fee]
  /\ entries' = WithExit(id, price, fee)

-----------------------------------------------------------------------------
\* Mutant of Fall: the peak is the first result's.
FallFromStart(run, pnl) ==
  LET equity == run.equity + pnl
      peak   == IF run.peak = 0 THEN equity ELSE run.peak
  IN [equity |-> equity, peak |-> peak,
      worst |-> IF peak - equity > run.worst THEN peak - equity ELSE run.worst]

Fall(run, pnl) ==
  LET equity == run.equity + pnl
      peak   == IF equity > run.peak THEN equity ELSE run.peak
  IN [equity |-> equity, peak |-> peak,
      worst |-> IF peak - equity > run.worst THEN peak - equity ELSE run.worst]

\* compute_overall: the running peak, from zero, over the realized results in
\* the order of the ledger, and the worst fall from it.
ReportedDrawdown ==
  LET run[n \in 0..Len(entries)] ==
        IF n = 0 THEN [equity |-> 0, peak |-> 0, worst |-> 0]
        ELSE IF entries[n].realized = NoPnl THEN run[n - 1]
        ELSE Fall(run[n - 1], entries[n].realized)
  IN run[Len(entries)].worst

\* The fees are taken off although the realized results are net of them.
NetPnl == TotalRealized - TotalFees

\* Mutant of GoLive: the result is not looked at.
GoLiveOnRate ==
  /\ Len(entries) >= MinTrades
  /\ 100 * WinCount >= 45 * Len(entries)
  /\ ReportedDrawdown <= MaxFall

\* compute_recommendation; a win rate of 0.45 is compared in whole numbers.
GoLive ==
  /\ Len(entries) >= MinTrades
  /\ 100 * WinCount >= 45 * Len(entries)
  /\ NetPnl > 0
  /\ ReportedDrawdown <= MaxFall

-----------------------------------------------------------------------------
\* The session's running totals are those of its ledger: every position has
\* its fees and its result counted once on both sides, in whatever order the
\* positions are opened, closed and settled.
SessionMatchesLedger ==
  /\ session.totalFees = TotalFees
  /\ session.totalPnl = TotalRealized
  /\ session.accepted = Len(entries) + session.missed

\* The drawdown a report states is the worst fall between any two moments of
\* the equity curve it is computed from (evaluation.rs: "Simple max drawdown
\* from equity curve").
RealizedUpTo(n) == SumFunction([id \in 1..n |-> RealizedOf(entries[id])])

ReportedDrawdownIsWorstFall ==
  /\ \A i, j \in 0..Len(entries) :
       i <= j => RealizedUpTo(i) - RealizedUpTo(j) <= ReportedDrawdown
  /\ \E i, j \in 0..Len(entries) :
       i <= j /\ RealizedUpTo(i) - RealizedUpTo(j) = ReportedDrawdown

\* A session that lost money is never recommended for live trading.
NoGoOnLoss == GoLive => session.totalPnl > 0
=============================================================================
