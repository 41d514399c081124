----------------------------- MODULE Accounting -----------------------------
(***************************************************************************)
(* What a resolved market does to the books, as the main loop does it      *)
(* (src/src/app.rs): positions are booked by the simulation session, a     *)
(* Resolution event has the official outcome fetched, every open entry of  *)
(* the market is verified and its result goes to the ledger, to the        *)
(* drawdown tracker (which may activate the kill switch) and to the equity *)
(* that sizes the next orders.  An operator uses the switch from another   *)
(* thread.                                                                 *)
(*                                                                         *)
(* In the app the ledger that resolutions settle and the session's ledger  *)
(* are two objects, and nothing writes the first.  They are one here, as   *)
(* ledger_mut ("for resolution recording") provides for.                   *)
(***************************************************************************)
EXTENDS KillSwitch, DrawdownTracker, SimulationSession

CONSTANTS
  Intents,          \* order intents the pipeline may accept
  ExitPrices,       \* prices at which a position may be closed
  StartEquity,      \* balance at start
  MaxSignals,       \* bound: signals
  MaxPosts,         \* bound: Resolution and KillSwitch events
  MaxOperatorCalls, \* bound: calls of the operator
  MaxResets         \* bound: daily resets

ASSUME AccountingAssumption ==
  /\ Intents \subseteq [contract : Contract, side : Side, price : Int, slippage : Nat,
                         size : Nat, fee : Nat]
  /\ ExitPrices \subseteq Int /\ StartEquity \in Int
  /\ "loop" \in Caller /\ "operator" \in Caller

VARIABLES
  equity,      \* the loop's equity
  queue,       \* Resolution and KillSwitch events on the bus
  handler,     \* where the loop stands in the handler of such an event
  bookings,     \* markets whose resolution has been booked
  posts, operatorCalls, resets,   \* counted against the bounds
  booked,      \* history variable: results booked, oldest first
  pardoned     \* history variable: the operator deactivated since the last result

loopVars  == <<equity, queue, handler, bookings>>
countVars == <<posts, operatorCalls, resets>>
vars == <<switchVars, drawdown, entries, session, fillModel, loopVars, countVars, booked, pardoned>>

Market == Range(MarketOf)

\* parse_kill_switch_reason on the texts the reasons are displayed as: the
\* texts of the three breaches ("daily_dd_breach", ...) match no pattern.
ParsedReason(text) ==
  IF text \in {"StaleFeedRegime", "ReconnectStorm"} THEN text ELSE "Manual"

NoHandler == [at |-> "idle"]

Idle == handler = NoHandler /\ call["loop"] = NoCall

Init ==
  /\ SwitchInit
  /\ drawdown = FreshDrawdown(StartEquity)
  /\ entries = << >>
  /\ session = FreshSession
  /\ fillModel \in FillModels
  /\ equity = StartEquity
  /\ queue = << >>
  /\ handler = NoHandler
  /\ bookings = [m \in Market |-> 0]
  /\ posts = 0 /\ operatorCalls = 0 /\ resets = 0
  /\ booked = << >>
  /\ pardoned = FALSE

-----------------------------------------------------------------------------
(* The tick branch, seen from the session.  The gates read the switch.      *)

SignalAccepted ==
  /\ Idle
  /\ session.evaluated < MaxSignals
  /\ ~active
  /\ \E intent \in Intents : SimulateFill(intent) \/ MissFill
  /\ UNCHANGED <<switchVars, drawdown, loopVars, countVars, booked, pardoned>>

SignalRejected ==
  /\ Idle
  /\ session.evaluated < MaxSignals
  /\ RejectSignal
  /\ UNCHANGED <<switchVars, drawdown, loopVars, countVars, booked, pardoned>>

\* The caller of close_position picks an open position.
PositionClosed ==
  /\ Idle
  /\ \E id \in DOMAIN entries, price \in ExitPrices :
       /\ IsOpen(entries[id])
       /\ ClosePosition(id, price, 1)
  /\ UNCHANGED <<switchVars, drawdown, loopVars, countVars, booked, pardoned>>

-----------------------------------------------------------------------------
(* The Resolution branch.                                                   *)

\* From the event to the answer of the fetch the loop waits.
TakeResolution ==
  /\ Idle
  /\ queue # << >> /\ Head(queue).type = "Resolution"
  /\ queue' = Tail(queue)
  /\ handler' = [at |-> "fetching", market |-> Head(queue).market]
  /\ UNCHANGED <<switchVars, drawdown, entries, session, equity, bookings,
                 countVars, booked, pardoned>>

\* An HTTP error, an answer that does not parse, a market not yet resolved.
FetchFails ==
  /\ handler.at = "fetching"
  /\ handler' = NoHandler
  /\ UNCHANGED <<switchVars, drawdown, entries, session, equity, queue, bookings,
                 countVars, booked, pardoned>>

\* The market is resolved, to one of its tokens or without a winner.
FetchSucceeds ==
  /\ handler.at = "fetching"
  /\ \E winner \in {c \in Contract : MarketOf[c] = handler.market} \cup {NoToken} :
       handler' = [at |-> "booking", winner |-> winner,
                   left |-> OpenEntriesOf(handler.market)]
  /\ bookings' = [bookings EXCEPT ![handler.market] = @ + 1]
  /\ UNCHANGED <<switchVars, drawdown, entries, session, equity, queue,
                 countVars, booked, pardoned>>

\* One turn of the loop over the entries, up to record_trade's check.
BookEntry ==
  /\ handler.at = "booking"
  /\ \E id \in handler.left :
       LET pnl == VerifiedPnl(entries[id], handler.winner)
       IN /\ \A other \in handler.left : id <= other
          /\ entries' = WithResolution(id, handler.winner)
          /\ drawdown' = AfterTrade(drawdown, pnl)
          /\ handler' = [at |-> "raising", winner |-> handler.winner,
                         left |-> handler.left \ {id}, pnl |-> pnl,
                         reasons |-> Breaches(AfterTrade(drawdown, pnl))]
          /\ booked' = Append(booked, pnl)
  /\ pardoned' = FALSE
  /\ UNCHANGED <<switchVars, session, equity, queue, bookings, countVars>>

\* check_thresholds activates the switch once for each breach.
RaiseBreach ==
  /\ handler.at = "raising" /\ handler.reasons # << >>
  /\ Activate("loop", Head(handler.reasons))
  /\ handler' = [handler EXCEPT !.reasons = Tail(@)]
  /\ UNCHANGED <<drawdown, entries, session, equity, queue, bookings, countVars,
                 booked, pardoned>>

\* Mutant of CreditEquity: a loss is not taken off the equity.
CreditGains ==
  /\ handler.at = "raising" /\ handler.reasons = << >> /\ call["loop"] = NoCall
  /\ equity' = equity + Larger(handler.pnl, 0)
  /\ handler' = [at |-> "booking", winner |-> handler.winner, left |-> handler.left]
  /\ UNCHANGED <<switchVars, drawdown, entries, session, queue, bookings,
                 countVars, booked, pardoned>>

\* Back from record_trade: the equity moves, and on to the next entry.
CreditEquity ==
  /\ handler.at = "raising" /\ handler.reasons = << >> /\ call["loop"] = NoCall
  /\ equity' = equity + handler.pnl
  /\ handler' = [at |-> "booking", winner |-> handler.winner, left |-> handler.left]
  /\ UNCHANGED <<switchVars, drawdown, entries, session, queue, bookings,
                 countVars, booked, pardoned>>

BookingDone ==
  /\ handler.at = "booking" /\ handler.left = {}
  /\ handler' = NoHandler
  /\ UNCHANGED <<switchVars, drawdown, entries, session, equity, queue, bookings,
                 countVars, booked, pardoned>>

-----------------------------------------------------------------------------
(* The KillSwitch branch, the second steps of the calls, the operator.      *)

HandleKillSwitch ==
  /\ Idle
  /\ queue # << >> /\ Head(queue).type = "KillSwitch"
  /\ queue' = Tail(queue)
  /\ Activate("loop", ParsedReason(Head(queue).text))
  /\ UNCHANGED <<drawdown, entries, session, equity, handler, bookings, countVars,
                 booked, pardoned>>

CallReturns ==
  /\ \E t \in Caller : FinishCall(t)
  /\ UNCHANGED <<drawdown, entries, session, loopVars, countVars, booked, pardoned>>

OperatorActivates ==
  /\ operatorCalls < MaxOperatorCalls
  /\ Activate("operator", "Manual")
  /\ operatorCalls' = operatorCalls + 1
  /\ UNCHANGED <<drawdown, entries, session, loopVars, posts, resets, booked, pardoned>>

OperatorDeactivates ==
  /\ operatorCalls < MaxOperatorCalls
  /\ Deactivate("operator")
  /\ operatorCalls' = operatorCalls + 1
  /\ pardoned' = TRUE
  /\ UNCHANGED <<drawdown, entries, session, loopVars, posts, resets, booked>>

\* reset_daily at the start of a day (runbooks.md: "Wait for daily reset").
DayBegins ==
  /\ Idle
  /\ resets < MaxResets
  /\ ResetDaily
  /\ resets' = resets + 1
  /\ UNCHANGED <<switchVars, entries, session, loopVars, posts, operatorCalls,
                 booked, pardoned>>

\* A market is reported resolved, perhaps for the second time.
PostResolution ==
  /\ posts < MaxPosts
  /\ \E m \in Market : queue' = Append(queue, [type |-> "Resolution", market |-> m])
  /\ posts' = posts + 1
  /\ UNCHANGED <<switchVars, drawdown, entries, session, equity, handler, bookings,
                 operatorCalls, resets, booked, pardoned>>

PostKillSwitch ==
  /\ posts < MaxPosts
  /\ \E text \in {"DailyDrawdownBreach", "StaleFeedRegime"} :
       queue' = Append(queue, [type |-> "KillSwitch", text |-> text])
  /\ posts' = posts + 1
  /\ UNCHANGED <<switchVars, drawdown, entries, session, equity, handler, bookings,
                 operatorCalls, resets, booked, pardoned>>

Step ==
  \/ SignalAccepted \/ SignalRejected \/ PositionClosed
  \/ TakeResolution \/ FetchFails \/ FetchSucceeds
  \/ BookEntry \/ RaiseBreach \/ CreditEquity \/ BookingDone
  \/ HandleKillSwitch \/ CallReturns
  \/ OperatorActivates \/ OperatorDeactivates \/ DayBegins
  \/ PostResolution \/ PostKillSwitch

Next == Step /\ UNCHANGED fillModel

Spec == Init /\ [][Next]_vars

-----------------------------------------------------------------------------
Handler ==
       {NoHandler}
  \cup [at : {"fetching"}, market : Market]
  \cup [at : {"booking"}, winner : Contract \cup {NoToken}, left : SUBSET Nat]
  \cup [at : {"raising"}, winner : Contract \cup {NoToken}, left : SUBSET Nat,
        pnl : Int, reasons : Seq(Reason)]

Event == [type : {"Resolution"}, market : Market]
    \cup [type : {"KillSwitch"}, text : Reason]

TypeOK ==
  /\ SwitchTypeOK
  /\ drawdown \in DrawdownState
  /\ entries \in Seq(LedgerEntry)
  /\ session \in SimulationStats
  /\ fillModel \in FillModels
  /\ equity \in Int
  /\ queue \in Seq(Event)
  /\ handler \in Handler
  /\ bookings \in [Market -> Nat]
  /\ <<posts, operatorCalls, resets>> \in Nat \X Nat \X Nat
  /\ booked \in Seq(Int)
  /\ pardoned \in BOOLEAN

SumOf(results) == SumFunction(results)

\* Equity, drawdown tracker and the results booked tell of the same money: the
\* loop's equity lags by the one result that is being booked, and the day's
\* and the session's figures are differences of the same current equity,
\* whatever is booked twice, reset or deactivated in between.
BooksAgree ==
  /\ equity + (IF handler.at = "raising" THEN handler.pnl ELSE 0) = drawdown.current
  /\ drawdown.sessionPnl = drawdown.current - drawdown.sessionStart
  /\ drawdown.dailyPnl = drawdown.current - drawdown.dailyStart
  /\ drawdown.highWater >= drawdown.current
  /\ drawdown.winning + drawdown.losing <= drawdown.trades

\* The incremental figures are what their names say of the results booked:
\* the mark is the highest equity ever reached, the streak the number of
\* losses since the last win (drawdown.rs: "pnl == 0 is a scratch, doesn't
\* affect streak").
EquityAfter(n) == StartEquity + SumOf(SubSeq(booked, 1, n))

FiguresMatchResults ==
  /\ \E n \in 0..Len(booked) : drawdown.highWater = EquityAfter(n)
  /\ \A n \in 0..Len(booked) : drawdown.highWater >= EquityAfter(n)
  /\ \E win \in 0..Len(booked) :
       /\ win # 0 => booked[win] > 0
       /\ \A i \in win + 1..Len(booked) : booked[i] <= 0
       /\ drawdown.losses = Cardinality({i \in win + 1..Len(booked) : booked[i] < 0})

\* As long as no market's resolution was booked twice, the session's result is
\* the sum of the official results in the ledger (drawdown.rs: "Tracks from
\* official P&L events").  A second booking counts the open entries again.
OfficialPnlCounted ==
  (\A m \in Market : bookings[m] <= 1) => drawdown.sessionPnl = TotalOfficial

\* When the loop is done with a result that breaches a limit, the switch is
\* on, unless an operator has deactivated it since that result.
InBreach ==
  \/ drawdown.current <= drawdown.dailyStart - MaxDailyDrawdown
  \/ drawdown.current <= drawdown.highWater - MaxTotalDrawdown
  \/ drawdown.losses >= MaxConsecutiveLosses

BreachHalts == Idle /\ InBreach /\ ~pardoned => active
=============================================================================
