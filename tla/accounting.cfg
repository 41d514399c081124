\* Two signals, results from +2 to -4 ticks, one market resolved
\* up to twice, an operator with two calls, one daily reset.
CONSTANTS
  up = up
  down = down
  Contract = {up, down}
  MarketOf <- OneMarket
  Payout = 4
  NoToken = NoToken
  NoPnl = NoPnl
  Caller = {"loop", "operator"}
  NoReason = NoReason
  MaxDailyDrawdown = 4
  MaxTotalDrawdown = 5
  MaxConsecutiveLosses = 2
  FillModels = {"WithSlippage", "Probabilistic"}
  MinTrades = 2
  MaxFall = 3
  Intents <- UpAndDown
  ExitPrices = {1, 5}
  StartEquity = 10
  MaxSignals = 2
  MaxPosts = 2
  MaxOperatorCalls = 1
  MaxResets = 1
SPECIFICATION Spec
INVARIANTS SerialSwitchAgrees SessionMatchesLedger ReportedDrawdownIsWorstFall NoGoOnLoss BooksAgree FiguresMatchResults OfficialPnlCounted BreachHalts
CHECK_DEADLOCK FALSE
