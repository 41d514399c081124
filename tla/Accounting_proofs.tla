-------------------------- MODULE Accounting_proofs --------------------------
(***************************************************************************)
(* Proofs about Accounting, for any markets, intents and limits, and any   *)
(* number of signals, resolutions, resets and operator calls: the two      *)
(* steps of the kill switch, the agreement of equity and drawdown tracker, *)
(* that a breach halts, the session's totals and its ledger, the report's  *)
(* drawdown, the tracker's mark and streak, and the official results.      *)
(***************************************************************************)
EXTENDS Accounting, Sums

-----------------------------------------------------------------------------
(* The kill switch, whoever calls it.                                       *)

Activating == \E t \in Caller : call[t].op = "activate"
Deactivating == \E t \in Caller : call[t].op = "deactivate"

\* While activations are under way the flag is up already, while deactivations
\* are it is down; when nothing is under way flag, reason and history agree.
SwitchInv ==
  /\ active \in BOOLEAN /\ history \in Seq(Reason) /\ clash \in BOOLEAN
  /\ call \in [Caller -> Call]
  /\ ~clash =>
       /\ ~(Activating /\ Deactivating)
       /\ Activating => active
       /\ Deactivating => ~active
       /\ ~Activating /\ ~Deactivating =>
            /\ active <=> current # NoReason
            /\ active => history # << >> /\ current = history[Len(history)]

\* A step of some caller, or none.
SwitchStep ==
  \/ \E t \in Caller : \/ \E r \in Reason : Activate(t, r)
                       \/ Deactivate(t) \/ RecordActivation(t) \/ ClearReason(t)
  \/ UNCHANGED switchVars

\* The switch starts off, without a reason.
LEMMA SwitchStart == Init => SwitchInv
<1> SUFFICES ASSUME SwitchInit PROVE SwitchInv
  BY DEF Init
<1>1. history \in Seq(Reason) /\ active = FALSE /\ clash = FALSE /\ current = NoReason
  BY DEF SwitchInit
<1>2. \A t \in Caller : call[t].op = "none"
  BY DEF SwitchInit, NoCall
<1>3. call \in [Caller -> Call]
  BY DEF SwitchInit, NoCall, Call
<1> QED
  BY <1>1, <1>2, <1>3 DEF SwitchInv, Activating, Deactivating

\* A first step raises the flag; a deactivation under way makes it a clash.
LEMMA ActivateSwitch ==
  ASSUME SwitchInv, NEW t \in Caller, NEW r \in Reason, Activate(t, r)
  PROVE  SwitchInv'
<1>1. call' = [call EXCEPT ![t] = [op |-> "activate", reason |-> r]] /\ active' = TRUE
      /\ history' = history /\ clash' = (clash \/ Deactivating)
  BY DEF Activate, Between, Deactivating
<1>2. call' \in [Caller -> Call]
  BY <1>1 DEF SwitchInv, Call
<1>3. call'[t].op = "activate" /\ Activating'
  BY <1>1 DEF SwitchInv, Activating
<1>4. Deactivating' => Deactivating
  BY <1>1, <1>3 DEF SwitchInv, Deactivating
<1> QED
  BY <1>1, <1>2, <1>3, <1>4 DEF SwitchInv

\* The other first step takes it down.
LEMMA DeactivateSwitch ==
  ASSUME SwitchInv, NEW t \in Caller, Deactivate(t)
  PROVE  SwitchInv'
<1>1. call' = [call EXCEPT ![t] = [op |-> "deactivate"]] /\ active' = FALSE
      /\ history' = history /\ clash' = (clash \/ Activating)
  BY DEF Deactivate, Between, Activating
<1>2. call' \in [Caller -> Call]
  BY <1>1 DEF SwitchInv, Call
<1>3. call'[t].op = "deactivate" /\ Deactivating'
  BY <1>1 DEF SwitchInv, Deactivating
<1>4. Activating' => Activating
  BY <1>1, <1>3 DEF SwitchInv, Activating
<1> QED
  BY <1>1, <1>2, <1>3, <1>4 DEF SwitchInv

\* Whichever activation is recorded last, its reason is the current one.
LEMMA RecordSwitch ==
  ASSUME SwitchInv, NEW t \in Caller, RecordActivation(t)
  PROVE  SwitchInv'
<1>1. /\ call[t].op = "activate" /\ call' = [call EXCEPT ![t] = NoCall]
      /\ history' = Append(history, call[t].reason) /\ current' = call[t].reason
      /\ active' = active /\ clash' = clash
  BY DEF RecordActivation
<1>2. call[t].reason \in Reason
  <2>1. call[t] \in Call
    BY DEF SwitchInv
  <2> QED
    BY <1>1, <2>1 DEF Call
<1>3. history' \in Seq(Reason) /\ history' # << >> /\ history'[Len(history')] = current'
  BY <1>1, <1>2 DEF SwitchInv
<1>4. call' \in [Caller -> Call]
  BY <1>1 DEF SwitchInv, Call, NoCall
<1>5. Activating /\ (Activating' => Activating) /\ (Deactivating' => Deactivating)
  BY <1>1 DEF SwitchInv, Activating, Deactivating, NoCall
<1> QED
  BY <1>1, <1>2, <1>3, <1>4, <1>5, NoReasonAssumption DEF SwitchInv

\* A recorded deactivation leaves no reason, and the flag is down.
LEMMA ClearSwitch ==
  ASSUME SwitchInv, NEW t \in Caller, ClearReason(t)
  PROVE  SwitchInv'
<1>1. /\ call[t].op = "deactivate" /\ call' = [call EXCEPT ![t] = NoCall]
      /\ history' = history /\ current' = NoReason /\ active' = active /\ clash' = clash
  BY DEF ClearReason
<1>2. call' \in [Caller -> Call]
  BY <1>1 DEF SwitchInv, Call, NoCall
<1>3. Deactivating /\ (Activating' => Activating) /\ (Deactivating' => Deactivating)
  BY <1>1 DEF SwitchInv, Activating, Deactivating, NoCall
<1> QED
  BY <1>1, <1>2, <1>3 DEF SwitchInv

\* The switch's own steps keep its invariant.
LEMMA SwitchKeeps == SwitchInv /\ SwitchStep => SwitchInv'
<1>1. ASSUME SwitchInv, UNCHANGED switchVars PROVE SwitchInv'
  BY <1>1 DEF switchVars, SwitchInv, Activating, Deactivating
<1> QED
  BY <1>1, ActivateSwitch, DeactivateSwitch, RecordSwitch, ClearSwitch DEF SwitchStep

\* Booking a result needs no more than that the figures are numbers.
LEMMA ResultIsInt ==
  ASSUME NEW e \in LedgerEntry, NEW winner
  PROVE  VerifiedPnl(e, winner) \in Int
<1>1. e.entryPrice \in Int /\ e.size \in Int /\ e.fees \in Int
  BY DEF LedgerEntry
<1>2. PayoutOf(e, winner) \in Int
  BY LedgerAssumption DEF PayoutOf
<1>3. \A x, y, n, f \in Int : (x - y) * n - f \in Int
  OBVIOUS
<1> QED
  BY <1>1, <1>2, <1>3 DEF VerifiedPnl, Pnl

\* Closing a position too.
LEMMA ExitIsInt ==
  ASSUME NEW e \in LedgerEntry, NEW price \in Int, NEW fee \in Int
  PROVE  ExitPnl(e, price, fee) \in Int
<1>1. e.entryPrice \in Int /\ e.size \in Int /\ e.fees + fee \in Int
  BY DEF LedgerEntry
<1>2. \A x, y, n, f \in Int : (x - y) * n - f \in Int
  OBVIOUS
<1> QED
  BY <1>1, <1>2 DEF ExitPnl, Pnl

\* The figures of a drawdown state that count here.
Figures(s) ==
  /\ DOMAIN s = {"sessionStart", "dailyStart", "current", "highWater", "sessionPnl", "dailyPnl",
                 "losses", "maxLosses", "trades", "winning", "losing"}
  /\ s.current \in Int /\ s.sessionPnl \in Int /\ s.dailyPnl \in Int /\ s.highWater \in Int
  /\ s.sessionStart \in Int /\ s.dailyStart \in Int
  /\ s.losses \in Nat /\ s.trades \in Nat /\ s.winning \in Nat /\ s.losing \in Nat

\* What record_trade does to the figures, in plain arithmetic.
LEMMA AfterTradeFigures ==
  ASSUME NEW s, Figures(s), NEW pnl \in Int, NEW t, t = AfterTrade(s, pnl)
  PROVE  /\ Figures(t)
         /\ t.current = s.current + pnl
         /\ t.sessionPnl = s.sessionPnl + pnl /\ t.dailyPnl = s.dailyPnl + pnl
         /\ t.sessionStart = s.sessionStart /\ t.dailyStart = s.dailyStart
         /\ t.highWater >= s.current + pnl
         /\ t.highWater = Larger(s.highWater, s.current + pnl)
         /\ t.losses = StreakAfter(s.losses, pnl)
         /\ t.winning + t.losing <= s.winning + s.losing + 1
         /\ t.trades = s.trades + 1
<1> DEFINE won == IF pnl > 0 THEN s.winning + 1 ELSE s.winning
           lost == IF pnl < 0 THEN s.losing + 1 ELSE s.losing
<1>1. /\ DOMAIN t = DOMAIN s
      /\ t.sessionStart = s.sessionStart /\ t.dailyStart = s.dailyStart
      /\ t.current = s.current + pnl
      /\ t.highWater = Larger(s.highWater, s.current + pnl)
      /\ t.sessionPnl = s.sessionPnl + pnl /\ t.dailyPnl = s.dailyPnl + pnl
      /\ t.losses = StreakAfter(s.losses, pnl)
      /\ t.trades = s.trades + 1 /\ t.winning = won /\ t.losing = lost
  BY DEF AfterTrade, Figures
<1>2. /\ Larger(s.highWater, s.current + pnl) \in Int
      /\ Larger(s.highWater, s.current + pnl) >= s.current + pnl
  BY DEF Larger, Figures
<1>3. StreakAfter(s.losses, pnl) \in Nat
  BY DEF StreakAfter, Figures
<1>4. won \in Nat /\ lost \in Nat /\ won + lost <= s.winning + s.losing + 1
  BY DEF Figures
<1> QED
  BY <1>1, <1>2, <1>3, <1>4 DEF Figures

\* The reasons raised after a trade are reasons, and there are some exactly
\* when a limit is reached.
LEMMA BreachesRaised ==
  ASSUME NEW s, Figures(s)
  PROVE  /\ Breaches(s) \in Seq(Reason)
         /\ Breaches(s) = << >> =>
              /\ ~(s.current <= s.dailyStart - MaxDailyDrawdown)
              /\ ~(s.current <= s.highWater - MaxTotalDrawdown)
              /\ ~(s.losses >= MaxConsecutiveLosses)
<1> DEFINE A == IF DailyDrawdown(s) >= MaxDailyDrawdown THEN <<"DailyDrawdownBreach">> ELSE << >>
           B == IF TotalDrawdown(s) >= MaxTotalDrawdown THEN <<"TotalDrawdownBreach">> ELSE << >>
           C == IF s.losses >= MaxConsecutiveLosses THEN <<"ConsecutiveLossBreach">> ELSE << >>
<1>1. A \in Seq(Reason) /\ B \in Seq(Reason) /\ C \in Seq(Reason)
  <2>1. /\ << >> \in Seq(Reason) /\ <<"DailyDrawdownBreach">> \in Seq(Reason)
        /\ <<"TotalDrawdownBreach">> \in Seq(Reason) /\ <<"ConsecutiveLossBreach">> \in Seq(Reason)
    BY DEF Reason
  <2> QED
    BY <2>1
<1>2. Breaches(s) = A \o B \o C
  BY DEF Breaches
<1>3. Len(A \o B \o C) = Len(A) + Len(B) + Len(C)
  BY <1>1
<1>4. Breaches(s) = << >> => Len(A) = 0 /\ Len(B) = 0 /\ Len(C) = 0
  <2>1. Len(A) \in Nat /\ Len(B) \in Nat /\ Len(C) \in Nat
    BY <1>1
  <2> QED
    BY <2>1, <1>2, <1>3
<1>5. Breaches(s) = << >> => /\ ~(DailyDrawdown(s) >= MaxDailyDrawdown)
                             /\ ~(TotalDrawdown(s) >= MaxTotalDrawdown)
                             /\ ~(s.losses >= MaxConsecutiveLosses)
  BY <1>4
<1>6. A \o B \o C \in Seq(Reason)
  BY <1>1
<1>7. /\ s.current <= s.dailyStart - MaxDailyDrawdown => DailyDrawdown(s) >= MaxDailyDrawdown
      /\ s.current <= s.highWater - MaxTotalDrawdown => TotalDrawdown(s) >= MaxTotalDrawdown
  BY DrawdownLimitsAssumption DEF DailyDrawdown, TotalDrawdown, Larger, Figures
<1> HIDE DEF A, B, C
<1> QED
  BY <1>2, <1>5, <1>6, <1>7

-----------------------------------------------------------------------------
(* The totals of the ledger.                                                *)

\* An entry's figures are numbers.
LEMMA FiguresOfEntry ==
  ASSUME NEW e \in LedgerEntry
  PROVE  RealizedOf(e) \in Int /\ OfficialOf(e) \in Int /\ e.fees \in Int
  BY LedgerAssumption DEF LedgerEntry, RealizedOf, OfficialOf

\* So each column can be summed.
LEMMA TotalsType ==
  ASSUME entries \in Seq(LedgerEntry)
  PROVE  /\ Summable([id \in DOMAIN entries |-> RealizedOf(entries[id])])
         /\ Summable([id \in DOMAIN entries |-> OfficialOf(entries[id])])
         /\ Summable([id \in DOMAIN entries |-> entries[id].fees])
         /\ TotalRealized \in Int /\ TotalOfficial \in Int /\ TotalFees \in Int
<1>1. IsFiniteSet(DOMAIN entries) /\ \A id \in DOMAIN entries : entries[id] \in LedgerEntry
  <2>1. DOMAIN entries = 1..Len(entries) /\ Len(entries) \in Nat
    OBVIOUS
  <2> QED
    BY <2>1, FS_Interval
<1>2. /\ Summable([id \in DOMAIN entries |-> RealizedOf(entries[id])])
      /\ Summable([id \in DOMAIN entries |-> OfficialOf(entries[id])])
      /\ Summable([id \in DOMAIN entries |-> entries[id].fees])
  BY <1>1, FiguresOfEntry DEF Summable
<1> QED
  BY <1>2, SumType DEF TotalRealized, TotalOfficial, TotalFees

\* When one entry is added or changed, each total moves by what that entry's
\* figure moves.
LEMMA TotalsMove ==
  ASSUME entries \in Seq(LedgerEntry), entries' \in Seq(LedgerEntry),
         NEW k, DOMAIN entries' = DOMAIN entries \cup {k},
         \A id \in DOMAIN entries : id # k => entries'[id] = entries[id]
  PROVE  LET before(v) == IF k \in DOMAIN entries THEN v ELSE 0
         IN /\ TotalRealized' = TotalRealized + RealizedOf(entries'[k]) - before(RealizedOf(entries[k]))
            /\ TotalOfficial' = TotalOfficial + OfficialOf(entries'[k]) - before(OfficialOf(entries[k]))
            /\ TotalFees' = TotalFees + entries'[k].fees - before(entries[k].fees)
<1> DEFINE r1 == [id \in DOMAIN entries |-> RealizedOf(entries[id])]
           r2 == [id \in DOMAIN entries' |-> RealizedOf(entries'[id])]
           o1 == [id \in DOMAIN entries |-> OfficialOf(entries[id])]
           o2 == [id \in DOMAIN entries' |-> OfficialOf(entries'[id])]
           f1 == [id \in DOMAIN entries |-> entries[id].fees]
           f2 == [id \in DOMAIN entries' |-> entries'[id].fees]
<1>1. Summable(r1) /\ Summable(o1) /\ Summable(f1)
  BY TotalsType
<1>2. k \in DOMAIN entries' /\ entries'[k] \in LedgerEntry
  OBVIOUS
<1>3. RealizedOf(entries'[k]) \in Int /\ OfficialOf(entries'[k]) \in Int /\ entries'[k].fees \in Int
  BY <1>2, FiguresOfEntry
<1>4. SumFunction(r2) = SumFunction(r1) + r2[k] - (IF k \in DOMAIN r1 THEN r1[k] ELSE 0)
  <2>1. /\ DOMAIN r2 = DOMAIN r1 \cup {k} /\ r2[k] \in Int
        /\ \A x \in DOMAIN r1 : x # k => r2[x] = r1[x]
    BY <1>2, <1>3
  <2> HIDE DEF r1, r2
  <2> QED
    BY <1>1, <2>1, SumAdds
<1>5. SumFunction(o2) = SumFunction(o1) + o2[k] - (IF k \in DOMAIN o1 THEN o1[k] ELSE 0)
  <2>1. /\ DOMAIN o2 = DOMAIN o1 \cup {k} /\ o2[k] \in Int
        /\ \A x \in DOMAIN o1 : x # k => o2[x] = o1[x]
    BY <1>2, <1>3
  <2> HIDE DEF o1, o2
  <2> QED
    BY <1>1, <2>1, SumAdds
<1>6. SumFunction(f2) = SumFunction(f1) + f2[k] - (IF k \in DOMAIN f1 THEN f1[k] ELSE 0)
  <2>1. /\ DOMAIN f2 = DOMAIN f1 \cup {k} /\ f2[k] \in Int
        /\ \A x \in DOMAIN f1 : x # k => f2[x] = f1[x]
    BY <1>2, <1>3
  <2> HIDE DEF f1, f2
  <2> QED
    BY <1>1, <2>1, SumAdds
<1>7. /\ TotalRealized = SumFunction(r1) /\ TotalRealized' = SumFunction(r2)
      /\ TotalOfficial = SumFunction(o1) /\ TotalOfficial' = SumFunction(o2)
      /\ TotalFees = SumFunction(f1) /\ TotalFees' = SumFunction(f2)
  BY DEF TotalRealized, TotalOfficial, TotalFees, RealizedOf, OfficialOf
<1>8. /\ r2[k] = RealizedOf(entries'[k]) /\ o2[k] = OfficialOf(entries'[k])
      /\ f2[k] = entries'[k].fees
  BY <1>2
<1>9. k \in DOMAIN entries => /\ r1[k] = RealizedOf(entries[k]) /\ o1[k] = OfficialOf(entries[k])
                              /\ f1[k] = entries[k].fees
  OBVIOUS
<1>10. DOMAIN r1 = DOMAIN entries /\ DOMAIN o1 = DOMAIN entries /\ DOMAIN f1 = DOMAIN entries
  OBVIOUS
<1> HIDE DEF r1, r2, o1, o2, f1, f2
<1> QED
  BY <1>4, <1>5, <1>6, <1>7, <1>8, <1>9, <1>10

\* An opened position is one more entry, without a result.
LEMMA EntryOpened ==
  ASSUME entries \in Seq(LedgerEntry), NEW intent \in Intents, SimulateFill(intent)
  PROVE  LET k == Len(entries) + 1
         IN /\ entries' \in Seq(LedgerEntry) /\ Len(entries') = k
            /\ DOMAIN entries' = DOMAIN entries \cup {k} /\ k \notin DOMAIN entries
            /\ \A id \in DOMAIN entries : entries'[id] = entries[id]
            /\ entries'[k].fees = intent.fee /\ intent.fee \in Nat /\ ~entries'[k].closed
            /\ entries'[k].realized = NoPnl /\ entries'[k].official = NoPnl
<1>1. intent \in [contract : Contract, side : Side, price : Int, slippage : Nat,
                  size : Nat, fee : Nat]
  BY AccountingAssumption
<1>2. FillPrice(intent) \in Int
  BY <1>1 DEF FillPrice
<1> DEFINE e == [contract |-> intent.contract, side |-> intent.side,
                 entryPrice |-> FillPrice(intent), size |-> intent.size, fees |-> intent.fee,
                 closed |-> FALSE, realized |-> NoPnl, outcome |-> "None", official |-> NoPnl]
<1>3. e \in LedgerEntry
  BY <1>1, <1>2 DEF LedgerEntry
<1>4. entries' = Append(entries, e)
  BY DEF SimulateFill, WithEntry
<1>5. e.fees = intent.fee /\ ~e.closed /\ e.realized = NoPnl /\ e.official = NoPnl
      /\ intent.fee \in Nat
  BY <1>1
<1> HIDE DEF e
<1> QED
  BY <1>3, <1>4, <1>5

\* A closed position has its result, and its fees grow by the fee of the exit.
LEMMA EntryClosed ==
  ASSUME entries \in Seq(LedgerEntry), NEW id \in DOMAIN entries, NEW price \in ExitPrices,
         NEW fee \in Nat, ClosePosition(id, price, fee)
  PROVE  /\ entries' \in Seq(LedgerEntry) /\ Len(entries') = Len(entries)
         /\ DOMAIN entries' = DOMAIN entries
         /\ \A i \in DOMAIN entries : i # id => entries'[i] = entries[i]
         /\ entries'[id].fees = entries[id].fees + fee /\ entries'[id].closed
         /\ entries'[id].realized = ExitPnl(entries[id], price, fee)
         /\ ExitPnl(entries[id], price, fee) \in Int
         /\ entries'[id].official = entries[id].official
         /\ entries'[id].contract = entries[id].contract
<1> DEFINE pnl == ExitPnl(entries[id], price, fee)
           e == [entries[id] EXCEPT !.fees = @ + fee, !.closed = TRUE, !.realized = pnl]
<1>1. entries[id] \in LedgerEntry /\ pnl \in Int /\ entries[id].fees + fee \in Int
  <2>1. entries[id] \in LedgerEntry /\ price \in Int
    BY AccountingAssumption
  <2>2. entries[id].fees \in Int
    BY <2>1 DEF LedgerEntry
  <2> QED
    BY <2>1, <2>2, ExitIsInt
<1>2. entries' = [entries EXCEPT ![id] = e]
  BY DEF ClosePosition, WithExit
<1> HIDE DEF pnl
<1>3. /\ e \in LedgerEntry /\ e.fees = entries[id].fees + fee /\ e.closed /\ e.realized = pnl
      /\ e.official = entries[id].official /\ e.contract = entries[id].contract
  BY <1>1 DEF LedgerEntry
<1> HIDE DEF e
<1>4. entries' \in Seq(LedgerEntry) /\ entries'[id] = e
  BY <1>2, <1>3
<1> QED
  BY <1>1, <1>2, <1>3, <1>4 DEF pnl

\* A booked resolution gives an entry its official result, and leaves it open.
LEMMA EntryBooked ==
  ASSUME entries \in Seq(LedgerEntry), NEW id \in DOMAIN entries, NEW winner,
         entries' = WithResolution(id, winner)
  PROVE  /\ entries' \in Seq(LedgerEntry) /\ Len(entries') = Len(entries)
         /\ DOMAIN entries' = DOMAIN entries
         /\ \A i \in DOMAIN entries : i # id => entries'[i] = entries[i]
         /\ entries'[id].official = VerifiedPnl(entries[id], winner)
         /\ VerifiedPnl(entries[id], winner) \in Int
         /\ entries'[id].contract = entries[id].contract
         /\ entries'[id].fees = entries[id].fees /\ entries'[id].closed = entries[id].closed
         /\ entries'[id].realized = entries[id].realized
<1> DEFINE pnl == VerifiedPnl(entries[id], winner)
           e == [entries[id] EXCEPT !.outcome = OutcomeOf(entries[id], winner), !.official = pnl]
<1>1. entries[id] \in LedgerEntry /\ pnl \in Int
  BY ResultIsInt
<1>2. entries' = [entries EXCEPT ![id] = e]
  BY DEF WithResolution
<1>3. OutcomeOf(entries[id], winner) \in {"None", "Yes", "No", "Unknown"}
  BY DEF OutcomeOf
<1> HIDE DEF pnl
<1>4. /\ e \in LedgerEntry /\ e.official = pnl /\ e.contract = entries[id].contract
      /\ e.fees = entries[id].fees /\ e.closed = entries[id].closed
      /\ e.realized = entries[id].realized
  BY <1>1, <1>3 DEF LedgerEntry
<1> HIDE DEF e
<1>5. entries' \in Seq(LedgerEntry) /\ entries'[id] = e
  BY <1>2, <1>4
<1> QED
  BY <1>1, <1>2, <1>4, <1>5 DEF pnl

-----------------------------------------------------------------------------
(* The loop and its books.                                                  *)

HandlerInv ==
  /\ handler.at \in {"idle", "fetching", "booking", "raising"}
  /\ handler.at \in {"booking", "raising"} => handler.left \subseteq DOMAIN entries
  /\ handler.at = "raising" =>
       /\ DOMAIN handler = {"at", "winner", "left", "pnl", "reasons"}
       /\ handler.pnl \in Int /\ handler.reasons \in Seq(Reason)

\* Results not yet credited to the equity.
InHand == IF handler.at = "raising" THEN handler.pnl ELSE 0

\* A reached limit has the switch on, or a reason yet to be raised.
Halts == InBreach /\ ~pardoned => active \/ (handler.at = "raising" /\ handler.reasons # << >>)

BooksInv ==
  /\ SwitchInv /\ entries \in Seq(LedgerEntry) /\ Figures(drawdown) /\ equity \in Int
  /\ HandlerInv /\ BooksAgree /\ Halts

\* Every invariant of the books holds at the start: nothing is in breach.
LEMMA StartInv == Init => BooksInv
<1> SUFFICES ASSUME Init PROVE BooksInv
  OBVIOUS
<1>1. SwitchInv
  BY SwitchStart
<1>2. entries = << >> /\ equity = StartEquity /\ handler.at = "idle"
      /\ drawdown = FreshDrawdown(StartEquity)
  BY DEF Init, NoHandler
<1>3. StartEquity \in Int
  BY AccountingAssumption
<1>4. /\ Figures(drawdown)
      /\ drawdown.current = StartEquity /\ drawdown.sessionStart = StartEquity
      /\ drawdown.dailyStart = StartEquity /\ drawdown.highWater = StartEquity
      /\ drawdown.sessionPnl = 0 /\ drawdown.dailyPnl = 0 /\ drawdown.losses = 0
      /\ drawdown.trades = 0 /\ drawdown.winning = 0 /\ drawdown.losing = 0
  BY <1>2, <1>3 DEF FreshDrawdown, Figures
<1>5. HandlerInv /\ entries \in Seq(LedgerEntry)
  BY <1>2 DEF HandlerInv
<1>6. BooksAgree
  BY <1>2, <1>3, <1>4 DEF BooksAgree
<1>7. ~InBreach
  BY <1>3, <1>4, DrawdownLimitsAssumption DEF InBreach
<1> QED
  BY <1>1, <1>2, <1>3, <1>4, <1>5, <1>6, <1>7 DEF BooksInv, Halts

\* What the steps have in common that touch neither the figures nor the
\* handler, and take the flag down only with a pardon.
LEMMA SameFigures ==
  ASSUME BooksInv, SwitchStep, UNCHANGED <<drawdown, equity, handler>>,
         entries' \in Seq(LedgerEntry), DOMAIN entries \subseteq DOMAIN entries',
         pardoned' \/ (pardoned' = pardoned /\ (active' \/ active' = active))
  PROVE  BooksInv'
<1>1. SwitchInv'
  BY SwitchKeeps DEF BooksInv
<1>2. Figures(drawdown') /\ equity' \in Int /\ HandlerInv'
  BY DEF BooksInv, HandlerInv
<1>3. BooksAgree'
  BY DEF BooksInv, BooksAgree
<1>4. InBreach' = InBreach
  BY DEF InBreach
<1>5. Halts'
  BY <1>4 DEF BooksInv, Halts
<1> QED
  BY <1>1, <1>2, <1>3, <1>5 DEF BooksInv

\* Opening a position adds an entry, closing one changes it.
LEMMA SessionSteps ==
  ASSUME BooksInv, SignalAccepted \/ SignalRejected \/ PositionClosed
  PROVE  BooksInv'
<1>1. UNCHANGED <<drawdown, equity, handler, pardoned, active>> /\ SwitchStep
  BY DEF SignalAccepted, SignalRejected, PositionClosed, loopVars, switchVars, SwitchStep
<1>2. entries \in Seq(LedgerEntry)
  BY DEF BooksInv
<1>3. entries' \in Seq(LedgerEntry) /\ DOMAIN entries \subseteq DOMAIN entries'
  <2>1. ASSUME NEW intent \in Intents, SimulateFill(intent)
        PROVE  entries' \in Seq(LedgerEntry) /\ DOMAIN entries \subseteq DOMAIN entries'
    BY <1>2, <2>1, EntryOpened
  <2>2. ASSUME NEW id \in DOMAIN entries, NEW price \in ExitPrices, ClosePosition(id, price, 1)
        PROVE  entries' \in Seq(LedgerEntry) /\ DOMAIN entries \subseteq DOMAIN entries'
    BY <1>2, <2>2, EntryClosed
  <2>3. ASSUME UNCHANGED entries
        PROVE  entries' \in Seq(LedgerEntry) /\ DOMAIN entries \subseteq DOMAIN entries'
    BY <1>2, <2>3
  <2> QED
    BY <2>1, <2>2, <2>3 DEF SignalAccepted, SignalRejected, PositionClosed, MissFill, RejectSignal
<1> QED
  BY <1>1, <1>3, SameFigures

\* The fetch and its answer: no figure moves, and what is left to book are
\* entries of the ledger.
LEMMA FetchSteps ==
  ASSUME BooksInv, TakeResolution \/ FetchFails \/ FetchSucceeds \/ BookingDone
  PROVE  BooksInv'
<1>1. UNCHANGED <<drawdown, equity, entries, pardoned, active, switchVars>>
  BY DEF TakeResolution, FetchFails, FetchSucceeds, BookingDone, switchVars
<1>2. handler.at # "raising" /\ handler'.at # "raising" /\ HandlerInv'
  BY <1>1 DEF TakeResolution, FetchFails, FetchSucceeds, BookingDone, HandlerInv, Idle, NoHandler,
     OpenEntriesOf
<1>3. SwitchInv'
  BY <1>1, SwitchKeeps DEF BooksInv, SwitchStep
<1>4. BooksAgree' /\ Halts'
  BY <1>1, <1>2 DEF BooksInv, BooksAgree, Halts, InBreach
<1> QED
  BY <1>1, <1>2, <1>3, <1>4 DEF BooksInv

\* A booked result moves every figure by itself; what it breaches is to be
\* raised.
LEMMA BookInv == ASSUME BooksInv, BookEntry PROVE BooksInv'
<1>1. PICK id \in handler.left :
        LET pnl == VerifiedPnl(entries[id], handler.winner)
        IN /\ entries' = WithResolution(id, handler.winner)
           /\ drawdown' = AfterTrade(drawdown, pnl)
           /\ handler' = [at |-> "raising", winner |-> handler.winner,
                          left |-> handler.left \ {id}, pnl |-> pnl,
                          reasons |-> Breaches(AfterTrade(drawdown, pnl))]
  BY DEF BookEntry
<1> DEFINE pnl == VerifiedPnl(entries[id], handler.winner)
<1>2. /\ handler.at = "booking" /\ UNCHANGED <<switchVars, equity>> /\ active' = active
      /\ entries \in Seq(LedgerEntry) /\ id \in DOMAIN entries /\ Figures(drawdown)
  BY DEF BookEntry, BooksInv, HandlerInv, switchVars
<1>3. entries[id] \in LedgerEntry /\ pnl \in Int
  BY <1>2, ResultIsInt
<1>4. entries' \in Seq(LedgerEntry) /\ DOMAIN entries' = DOMAIN entries
  BY <1>1, <1>2, EntryBooked
<1> HIDE DEF pnl
<1>5. /\ Figures(drawdown')
      /\ drawdown'.current = drawdown.current + pnl
      /\ drawdown'.sessionPnl = drawdown.sessionPnl + pnl
      /\ drawdown'.dailyPnl = drawdown.dailyPnl + pnl
      /\ drawdown'.sessionStart = drawdown.sessionStart
      /\ drawdown'.dailyStart = drawdown.dailyStart
      /\ drawdown'.highWater >= drawdown.current + pnl
      /\ drawdown'.winning + drawdown'.losing <= drawdown.winning + drawdown.losing + 1
      /\ drawdown'.trades = drawdown.trades + 1
  <2>1. drawdown' = AfterTrade(drawdown, pnl)
    BY <1>1 DEF pnl
  <2>2. Figures(drawdown) /\ pnl \in Int
    BY <1>2, <1>3
  <2> QED
    BY <2>1, <2>2, AfterTradeFigures
<1>6. /\ handler'.at = "raising" /\ handler'.pnl = pnl /\ handler'.left = handler.left \ {id}
      /\ DOMAIN handler' = {"at", "winner", "left", "pnl", "reasons"}
      /\ handler'.reasons = Breaches(drawdown')
  BY <1>1 DEF pnl
<1>7. HandlerInv'
  BY <1>2, <1>3, <1>4, <1>5, <1>6, BreachesRaised DEF HandlerInv, BooksInv
<1>8. BooksAgree'
  <2>1. equity = drawdown.current /\ drawdown.sessionPnl = drawdown.current - drawdown.sessionStart
        /\ drawdown.dailyPnl = drawdown.current - drawdown.dailyStart
        /\ drawdown.winning + drawdown.losing <= drawdown.trades
        /\ equity \in Int
    BY <1>2 DEF BooksInv, BooksAgree, Figures
  <2>2. /\ drawdown.current \in Int /\ drawdown.sessionStart \in Int /\ drawdown.dailyStart \in Int
        /\ drawdown.winning \in Nat /\ drawdown.losing \in Nat /\ drawdown.trades \in Nat
        /\ drawdown'.winning \in Nat /\ drawdown'.losing \in Nat
    BY <1>2, <1>5 DEF Figures
  <2>3. equity' + (IF handler'.at = "raising" THEN handler'.pnl ELSE 0) = drawdown'.current
    BY <1>2, <1>5, <1>6, <2>1
  <2>4. drawdown'.sessionPnl = drawdown'.current - drawdown'.sessionStart
        /\ drawdown'.dailyPnl = drawdown'.current - drawdown'.dailyStart
    BY <1>3, <1>5, <2>1, <2>2
  <2>5. drawdown'.highWater >= drawdown'.current
    BY <1>5
  <2>6. drawdown'.winning + drawdown'.losing <= drawdown'.trades
    BY <1>5, <2>1, <2>2
  <2> QED
    BY <2>3, <2>4, <2>5, <2>6 DEF BooksAgree
<1>9. Halts'
  <2>1. handler'.reasons = << >> => ~InBreach'
    BY <1>5, <1>6, BreachesRaised DEF InBreach
  <2> QED
    BY <1>6, <2>1 DEF Halts
<1> QED
  BY <1>2, <1>4, <1>5, <1>7, <1>8, <1>9, SwitchKeeps DEF BooksInv, SwitchStep

\* Raising a reason turns the switch on; the last one raised ends the duty.
LEMMA RaiseInv == ASSUME BooksInv, RaiseBreach PROVE BooksInv'
<1>1. /\ handler.at = "raising" /\ handler.reasons # << >>
      /\ Activate("loop", Head(handler.reasons))
      /\ handler' = [handler EXCEPT !.reasons = Tail(@)]
      /\ UNCHANGED <<drawdown, entries, equity>>
  BY DEF RaiseBreach
<1>2. /\ DOMAIN handler = {"at", "winner", "left", "pnl", "reasons"} /\ handler.pnl \in Int
      /\ handler.reasons \in Seq(Reason) /\ handler.left \subseteq DOMAIN entries
  BY <1>1 DEF BooksInv, HandlerInv
<1>3. SwitchInv'
  <2>1. Head(handler.reasons) \in Reason
    BY <1>1, <1>2
  <2> QED
    BY <1>1, <2>1, ActivateSwitch, AccountingAssumption DEF BooksInv
<1>4. handler'.at = "raising" /\ handler'.pnl = handler.pnl /\ HandlerInv'
  BY <1>1, <1>2 DEF HandlerInv
<1>5. BooksAgree' /\ Halts'
  BY <1>1, <1>4 DEF BooksInv, BooksAgree, Halts, Activate
<1> QED
  BY <1>1, <1>3, <1>4, <1>5 DEF BooksInv

\* The equity catches up with the result in hand.
LEMMA CreditInv == ASSUME BooksInv, CreditEquity PROVE BooksInv'
<1>1. /\ handler.at = "raising" /\ handler.reasons = << >> /\ equity' = equity + handler.pnl
      /\ UNCHANGED <<drawdown, entries, pardoned, active, switchVars>>
      /\ handler'.at = "booking" /\ handler'.left = handler.left
  BY DEF CreditEquity, switchVars
<1>2. handler.pnl \in Int /\ equity \in Int
  BY <1>1 DEF BooksInv, HandlerInv
<1>3. SwitchInv'
  BY <1>1, SwitchKeeps DEF BooksInv, SwitchStep
<1>4. HandlerInv'
  BY <1>1 DEF BooksInv, HandlerInv
<1>5. BooksAgree'
  BY <1>1, <1>2 DEF BooksInv, BooksAgree
<1>6. Halts'
  BY <1>1 DEF BooksInv, Halts, InBreach
<1> QED
  BY <1>1, <1>2, <1>3, <1>4, <1>5, <1>6 DEF BooksInv

\* Calls of the switch, by the loop or by the operator, and posted events.
LEMMA CallSteps ==
  ASSUME BooksInv, HandleKillSwitch \/ CallReturns \/ OperatorActivates \/ OperatorDeactivates
                     \/ PostResolution \/ PostKillSwitch
  PROVE  BooksInv'
<1>1. UNCHANGED <<drawdown, equity, handler, entries>>
  BY DEF HandleKillSwitch, CallReturns, OperatorActivates, OperatorDeactivates, PostResolution,
     PostKillSwitch, loopVars
<1>2. "loop" \in Caller /\ "operator" \in Caller
  BY AccountingAssumption
<1>3. SwitchStep
  <2>1. CASE HandleKillSwitch
    <3>1. ParsedReason(Head(queue).text) \in Reason
      BY DEF ParsedReason, Reason
    <3> QED
      BY <1>2, <2>1, <3>1 DEF HandleKillSwitch, SwitchStep
  <2>2. CASE CallReturns
    BY <2>2 DEF CallReturns, FinishCall, SwitchStep
  <2>3. CASE OperatorActivates \/ OperatorDeactivates
    BY <1>2, <2>3 DEF OperatorActivates, OperatorDeactivates, SwitchStep, Reason
  <2>4. CASE PostResolution \/ PostKillSwitch
    BY <2>4 DEF PostResolution, PostKillSwitch, SwitchStep
  <2> QED
    BY <2>1, <2>2, <2>3, <2>4
<1>4. pardoned' \/ (pardoned' = pardoned /\ (active' \/ active' = active))
  BY DEF HandleKillSwitch, CallReturns, OperatorActivates, OperatorDeactivates, PostResolution,
     PostKillSwitch, Activate, FinishCall, RecordActivation, ClearReason, switchVars
<1>5. entries' \in Seq(LedgerEntry) /\ DOMAIN entries \subseteq DOMAIN entries'
  BY <1>1 DEF BooksInv
<1> QED
  BY <1>1, <1>3, <1>4, <1>5, SameFigures

\* A new day can only lift a breach.
LEMMA DayInv == ASSUME BooksInv, DayBegins PROVE BooksInv'
<1>1. /\ UNCHANGED <<switchVars, entries, equity, handler, pardoned, active>>
      /\ drawdown' = [drawdown EXCEPT !.dailyStart = drawdown.current, !.dailyPnl = 0]
  BY DEF DayBegins, ResetDaily, loopVars, switchVars
<1>2. Figures(drawdown)
  BY DEF BooksInv
<1>3. /\ Figures(drawdown')
      /\ drawdown'.dailyStart = drawdown.current /\ drawdown'.dailyPnl = 0
      /\ drawdown'.current = drawdown.current /\ drawdown'.highWater = drawdown.highWater
      /\ drawdown'.sessionPnl = drawdown.sessionPnl
      /\ drawdown'.sessionStart = drawdown.sessionStart
      /\ drawdown'.losses = drawdown.losses /\ drawdown'.trades = drawdown.trades
      /\ drawdown'.winning = drawdown.winning /\ drawdown'.losing = drawdown.losing
  BY <1>1, <1>2 DEF Figures
<1>4. drawdown.current \in Int
  BY <1>2 DEF Figures
<1>5. SwitchInv' /\ HandlerInv'
  BY <1>1, SwitchKeeps DEF BooksInv, SwitchStep, HandlerInv
<1>6. BooksAgree'
  BY <1>1, <1>3, <1>4 DEF BooksInv, BooksAgree
<1>7. InBreach' => InBreach
  <2>1. ~(drawdown.current <= drawdown.current - MaxDailyDrawdown)
    BY <1>4, DrawdownLimitsAssumption
  <2> QED
    BY <1>3, <2>1 DEF InBreach
<1>8. Halts'
  BY <1>1, <1>7 DEF BooksInv, Halts
<1> QED
  BY <1>1, <1>3, <1>5, <1>6, <1>8 DEF BooksInv

\* A step that changes nothing.
LEMMA StutterInv == ASSUME BooksInv, UNCHANGED vars PROVE BooksInv'
<1>1. UNCHANGED <<switchVars, drawdown, entries, equity, handler, pardoned, active>>
  BY DEF vars, loopVars, switchVars
<1> QED
  BY <1>1, SameFigures DEF BooksInv, SwitchStep

\* Every step keeps the invariant.
LEMMA StepInv == BooksInv /\ [Next]_vars => BooksInv'
  BY SessionSteps, FetchSteps, BookInv, RaiseInv, CreditInv, CallSteps, DayInv, StutterInv
  DEF Next, Step

\* The invariant holds in every reachable state.
LEMMA Invariant == Spec => []BooksInv
  BY StartInv, StepInv, PTL DEF Spec

-----------------------------------------------------------------------------
\* Flag, reason and history of the kill switch agree unless an activation and
\* a deactivation overlapped, for any number of callers (kill_switch.rs).
THEOREM SwitchIsConsistent == Spec => []SerialSwitchAgrees
<1>1. SwitchInv => SerialSwitchAgrees
  BY DEF SwitchInv, SerialSwitchAgrees, Activating, Deactivating, NoCall
<1> QED
  BY <1>1, Invariant, PTL DEF BooksInv

\* Equity and drawdown figures tell of the same money, for any results, booked
\* any number of times, with any resets (app.rs 613-637, drawdown.rs).
THEOREM SameMoney == Spec => []BooksAgree
  BY Invariant, PTL DEF BooksInv

\* When the loop is idle and a limit is reached, the switch is on or an
\* operator took it off, whatever the limits (drawdown.rs check_thresholds).
THEOREM BreachIsRaised == Spec => []BreachHalts
<1>1. BooksInv => BreachHalts
  BY DEF BooksInv, Halts, BreachHalts, Idle, NoHandler
<1> QED
  BY <1>1, Invariant, PTL

-----------------------------------------------------------------------------
(* The session and its ledger.                                              *)

\* The session's counters are those of its ledger; an entry has a realized
\* result exactly when it is closed, and fees are never negative.
SessionInv ==
  /\ session \in SimulationStats /\ SessionMatchesLedger
  /\ \A id \in DOMAIN entries : /\ entries[id].fees \in Nat
                                /\ ~entries[id].closed => entries[id].realized = NoPnl


\* An empty ledger, a fresh session.
LEMMA SessionStart == Init => SessionInv
<1> SUFFICES ASSUME Init PROVE SessionInv
  OBVIOUS
<1>1. entries = << >> /\ session = FreshSession
  BY DEF Init
<1>2. /\ session \in SimulationStats /\ session.totalFees = 0 /\ session.totalPnl = 0
      /\ session.accepted = 0 /\ session.missed = 0
  BY <1>1 DEF FreshSession, SimulationStats
<1>3. TotalFees = 0 /\ TotalRealized = 0
  <2> DEFINE f == [id \in DOMAIN entries |-> entries[id].fees]
             r == [id \in DOMAIN entries |-> RealizedOf(entries[id])]
  <2>1. DOMAIN f = {} /\ DOMAIN r = {} /\ Summable(f) /\ Summable(r)
    BY <1>1, TotalsType
  <2> HIDE DEF f, r
  <2>2. SumFunction(f) = 0 /\ SumFunction(r) = 0
    BY <2>1, SumType
  <2> QED
    BY <2>2 DEF f, r, TotalFees, TotalRealized
<1> QED
  BY <1>1, <1>2, <1>3 DEF SessionInv, SessionMatchesLedger

\* The session's counters, one by one.
LEMMA SessionRecord ==
  ASSUME session \in SimulationStats
  PROVE  /\ session.evaluated \in Nat /\ session.accepted \in Nat /\ session.rejected \in Nat
         /\ session.simulated \in Nat /\ session.missed \in Nat /\ session.totalPnl \in Int
         /\ session.totalFees \in Int
         /\ session = [evaluated |-> session.evaluated, accepted |-> session.accepted,
                       rejected |-> session.rejected, simulated |-> session.simulated,
                       missed |-> session.missed, totalPnl |-> session.totalPnl,
                       totalFees |-> session.totalFees]
  BY DEF SimulationStats

\* Each of the session's steps moves some of them.
LEMMA SessionCounts ==
  ASSUME session \in SimulationStats
  PROVE  /\ \A fee \in Nat :
              session' = [session EXCEPT !.evaluated = @ + 1, !.accepted = @ + 1,
                                         !.simulated = @ + 1, !.totalFees = @ + fee]
              => /\ session' \in SimulationStats /\ session'.totalFees = session.totalFees + fee
                 /\ session'.totalPnl = session.totalPnl /\ session'.missed = session.missed
                 /\ session'.accepted = session.accepted + 1
         /\ session' = [session EXCEPT !.evaluated = @ + 1, !.accepted = @ + 1, !.missed = @ + 1]
              => /\ session' \in SimulationStats /\ session'.totalFees = session.totalFees
                 /\ session'.totalPnl = session.totalPnl /\ session'.missed = session.missed + 1
                 /\ session'.accepted = session.accepted + 1
         /\ session' = [session EXCEPT !.evaluated = @ + 1, !.rejected = @ + 1]
              => /\ session' \in SimulationStats /\ session'.totalFees = session.totalFees
                 /\ session'.totalPnl = session.totalPnl /\ session'.missed = session.missed
                 /\ session'.accepted = session.accepted
         /\ \A pnl \in Int, fee \in Nat :
              session' = [session EXCEPT !.totalPnl = @ + pnl, !.totalFees = @ + fee]
              => /\ session' \in SimulationStats /\ session'.totalFees = session.totalFees + fee
                 /\ session'.totalPnl = session.totalPnl + pnl /\ session'.missed = session.missed
                 /\ session'.accepted = session.accepted
<1>1. /\ session.evaluated + 1 \in Nat /\ session.accepted + 1 \in Nat
      /\ session.rejected + 1 \in Nat /\ session.simulated + 1 \in Nat
      /\ session.missed + 1 \in Nat /\ \A pnl \in Int : session.totalPnl + pnl \in Int
      /\ \A fee \in Nat : session.totalFees + fee \in Int
  BY SessionRecord
<1>2. ASSUME NEW fee \in Nat,
             session' = [session EXCEPT !.evaluated = @ + 1, !.accepted = @ + 1,
                                        !.simulated = @ + 1, !.totalFees = @ + fee]
      PROVE  /\ session' \in SimulationStats /\ session'.totalFees = session.totalFees + fee
             /\ session'.totalPnl = session.totalPnl /\ session'.missed = session.missed
             /\ session'.accepted = session.accepted + 1
  BY <1>1, <1>2 DEF SimulationStats
<1>3. ASSUME session' = [session EXCEPT !.evaluated = @ + 1, !.accepted = @ + 1, !.missed = @ + 1]
      PROVE  /\ session' \in SimulationStats /\ session'.totalFees = session.totalFees
             /\ session'.totalPnl = session.totalPnl /\ session'.missed = session.missed + 1
             /\ session'.accepted = session.accepted + 1
  BY <1>1, <1>3 DEF SimulationStats
<1>4. ASSUME session' = [session EXCEPT !.evaluated = @ + 1, !.rejected = @ + 1]
      PROVE  /\ session' \in SimulationStats /\ session'.totalFees = session.totalFees
             /\ session'.totalPnl = session.totalPnl /\ session'.missed = session.missed
             /\ session'.accepted = session.accepted
  BY <1>1, <1>4 DEF SimulationStats
<1>5. ASSUME NEW pnl \in Int, NEW fee \in Nat,
             session' = [session EXCEPT !.totalPnl = @ + pnl, !.totalFees = @ + fee]
      PROVE  /\ session' \in SimulationStats /\ session'.totalFees = session.totalFees + fee
             /\ session'.totalPnl = session.totalPnl + pnl /\ session'.missed = session.missed
             /\ session'.accepted = session.accepted
  BY <1>1, <1>5 DEF SimulationStats
<1> QED
  BY <1>2, <1>3, <1>4, <1>5

\* A simulated fill adds its fee on both sides, ...
LEMMA SessionFills ==
  ASSUME BooksInv, SessionInv, NEW intent \in Intents, SimulateFill(intent)
  PROVE  SessionInv'
<1> DEFINE k == Len(entries) + 1
<1>1. entries \in Seq(LedgerEntry) /\ Len(entries) \in Nat
  BY DEF BooksInv
<1>2. /\ entries' \in Seq(LedgerEntry) /\ Len(entries') = k
      /\ DOMAIN entries' = DOMAIN entries \cup {k} /\ k \notin DOMAIN entries
      /\ \A id \in DOMAIN entries : entries'[id] = entries[id]
      /\ entries'[k].fees = intent.fee /\ intent.fee \in Nat /\ ~entries'[k].closed
      /\ entries'[k].realized = NoPnl
  BY <1>1, EntryOpened
<1>3. TotalRealized' = TotalRealized /\ TotalFees' = TotalFees + intent.fee
  <2> HIDE DEF k
  <2>1. /\ TotalRealized' = TotalRealized + RealizedOf(entries'[k]) - 0
        /\ TotalFees' = TotalFees + entries'[k].fees - 0
    BY <1>1, <1>2, TotalsMove
  <2>2. RealizedOf(entries'[k]) = 0
    BY <1>2 DEF RealizedOf
  <2> QED
    BY <1>1, <1>2, <2>1, <2>2, TotalsType
<1>4. /\ session' \in SimulationStats /\ session'.totalFees = session.totalFees + intent.fee
      /\ session'.totalPnl = session.totalPnl /\ session'.accepted = session.accepted + 1
      /\ session'.missed = session.missed /\ session.accepted \in Nat /\ session.missed \in Nat
  <2>1. session \in SimulationStats /\ intent.fee \in Nat
    BY <1>2 DEF SessionInv
  <2>2. session' = [session EXCEPT !.evaluated = @ + 1, !.accepted = @ + 1,
                                   !.simulated = @ + 1, !.totalFees = @ + intent.fee]
    BY DEF SimulateFill
  <2> QED
    BY <2>1, <2>2, SessionCounts, SessionRecord
<1>5. SessionMatchesLedger'
  <2> HIDE DEF k
  <2>1. /\ session.totalFees = TotalFees /\ session.totalPnl = TotalRealized
        /\ session.accepted = Len(entries) + session.missed
    BY DEF SessionInv, SessionMatchesLedger
  <2>2. session'.accepted = Len(entries') + session'.missed
    BY <1>1, <1>2, <1>4, <2>1 DEF k
  <2>3. session'.totalFees = TotalFees' /\ session'.totalPnl = TotalRealized'
    BY <1>3, <1>4, <2>1
  <2> QED
    BY <2>2, <2>3 DEF SessionMatchesLedger
<1>6. \A id \in DOMAIN entries' : /\ entries'[id].fees \in Nat
                                  /\ ~entries'[id].closed => entries'[id].realized = NoPnl
  BY <1>2 DEF SessionInv
<1> QED
  BY <1>4, <1>5, <1>6 DEF SessionInv

\* ... and a closed position its fee and its result, once.
LEMMA SessionCloses ==
  ASSUME BooksInv, SessionInv, NEW id \in DOMAIN entries, NEW price \in ExitPrices,
         IsOpen(entries[id]), ClosePosition(id, price, 1)
  PROVE  SessionInv'
<1> DEFINE pnl == ExitPnl(entries[id], price, 1)
<1>1. entries \in Seq(LedgerEntry)
  BY DEF BooksInv
<1>2. /\ entries' \in Seq(LedgerEntry) /\ Len(entries') = Len(entries)
      /\ DOMAIN entries' = DOMAIN entries
      /\ \A i \in DOMAIN entries : i # id => entries'[i] = entries[i]
      /\ entries'[id].fees = entries[id].fees + 1 /\ entries'[id].closed
      /\ entries'[id].realized = pnl /\ pnl \in Int
  BY <1>1, EntryClosed
<1>3. entries[id].fees \in Nat /\ entries[id].realized = NoPnl
  BY DEF SessionInv, IsOpen
<1>4. /\ session' \in SimulationStats /\ session'.totalFees = session.totalFees + 1
      /\ session'.totalPnl = session.totalPnl + pnl /\ session'.accepted = session.accepted
      /\ session'.missed = session.missed
  <2>1. session' = [session EXCEPT !.totalPnl = @ + pnl, !.totalFees = @ + 1]
    BY DEF ClosePosition
  <2> HIDE DEF pnl
  <2> QED
    BY <1>2, <2>1, SessionCounts DEF SessionInv
<1> HIDE DEF pnl
<1>5. TotalRealized' = TotalRealized + pnl /\ TotalFees' = TotalFees + 1
  <2>1. DOMAIN entries' = DOMAIN entries \cup {id}
    BY <1>2
  <2>2. /\ TotalRealized' = TotalRealized + RealizedOf(entries'[id]) - RealizedOf(entries[id])
        /\ TotalFees' = TotalFees + entries'[id].fees - entries[id].fees
    BY <1>1, <1>2, <2>1, TotalsMove
  <2>3. RealizedOf(entries'[id]) = pnl /\ RealizedOf(entries[id]) = 0
    BY <1>2, <1>3, LedgerAssumption DEF RealizedOf
  <2> QED
    BY <1>1, <1>2, <1>3, <2>2, <2>3, TotalsType
<1>6. SessionMatchesLedger'
  BY <1>2, <1>4, <1>5 DEF SessionInv, SessionMatchesLedger
<1>7. \A i \in DOMAIN entries' : /\ entries'[i].fees \in Nat
                                 /\ ~entries'[i].closed => entries'[i].realized = NoPnl
  <2>1. entries'[id].fees \in Nat
    BY <1>2, <1>3
  <2> QED
    BY <1>2, <2>1 DEF SessionInv
<1> QED
  BY <1>4, <1>6, <1>7 DEF SessionInv

\* A booked resolution leaves fees and realized results alone.
LEMMA SessionBooks == ASSUME BooksInv, SessionInv, BookEntry PROVE SessionInv'
<1>1. entries \in Seq(LedgerEntry) /\ UNCHANGED session
  BY DEF BooksInv, BookEntry
<1>2. PICK id \in handler.left : entries' = WithResolution(id, handler.winner)
  BY DEF BookEntry
<1>3. id \in DOMAIN entries
  BY DEF BooksInv, HandlerInv, BookEntry
<1>4. /\ entries' \in Seq(LedgerEntry) /\ Len(entries') = Len(entries)
      /\ DOMAIN entries' = DOMAIN entries
      /\ \A i \in DOMAIN entries : i # id => entries'[i] = entries[i]
      /\ entries'[id].fees = entries[id].fees /\ entries'[id].closed = entries[id].closed
      /\ entries'[id].realized = entries[id].realized
  BY <1>1, <1>2, <1>3, EntryBooked
<1>5. TotalRealized' = TotalRealized /\ TotalFees' = TotalFees
  <2>1. DOMAIN entries' = DOMAIN entries \cup {id}
    BY <1>3, <1>4
  <2>2. /\ TotalRealized' = TotalRealized + RealizedOf(entries'[id]) - RealizedOf(entries[id])
        /\ TotalFees' = TotalFees + entries'[id].fees - entries[id].fees
    BY <1>1, <1>3, <1>4, <2>1, TotalsMove
  <2>3. RealizedOf(entries'[id]) = RealizedOf(entries[id]) /\ RealizedOf(entries[id]) \in Int
        /\ entries[id].fees \in Int
    BY <1>1, <1>3, <1>4, FiguresOfEntry DEF RealizedOf
  <2> QED
    BY <1>1, <1>4, <2>2, <2>3, TotalsType
<1> QED
  BY <1>1, <1>4, <1>5 DEF SessionInv, SessionMatchesLedger

\* Every step keeps them.
LEMMA SessionStep == BooksInv /\ SessionInv /\ [Next]_vars => SessionInv'
<1> SUFFICES ASSUME BooksInv, SessionInv, [Next]_vars PROVE SessionInv'
  OBVIOUS
<1>1. ASSUME UNCHANGED <<session, entries>> PROVE SessionInv'
  BY <1>1 DEF SessionInv, SessionMatchesLedger, TotalFees, TotalRealized, RealizedOf
<1>2. CASE SignalAccepted
  <2>1. PICK intent \in Intents : SimulateFill(intent) \/ MissFill
    BY <1>2 DEF SignalAccepted
  <2>2. CASE MissFill
    <3>1. UNCHANGED entries /\ entries \in Seq(LedgerEntry)
      BY <2>2 DEF MissFill, BooksInv
    <3>2. /\ session' \in SimulationStats /\ session'.totalFees = session.totalFees
          /\ session'.totalPnl = session.totalPnl /\ session'.accepted = session.accepted + 1
          /\ session'.missed = session.missed + 1
          /\ session.accepted \in Nat /\ session.missed \in Nat
      BY <2>2, SessionCounts, SessionRecord DEF MissFill, SessionInv
    <3>3. TotalFees' = TotalFees /\ TotalRealized' = TotalRealized /\ Len(entries') = Len(entries)
      BY <3>1 DEF TotalFees, TotalRealized, RealizedOf
    <3>4. Len(entries) \in Nat
      BY <3>1
    <3> QED
      BY <3>1, <3>2, <3>3, <3>4 DEF SessionInv, SessionMatchesLedger
  <2> QED
    BY <2>1, <2>2, SessionFills
<1>3. CASE SignalRejected
  <2>1. UNCHANGED entries
    BY <1>3 DEF SignalRejected, RejectSignal
  <2>2. /\ session' \in SimulationStats /\ session'.totalFees = session.totalFees
        /\ session'.totalPnl = session.totalPnl /\ session'.accepted = session.accepted
        /\ session'.missed = session.missed
    BY <1>3, SessionCounts DEF SignalRejected, RejectSignal, SessionInv
  <2>3. TotalFees' = TotalFees /\ TotalRealized' = TotalRealized /\ Len(entries') = Len(entries)
    BY <2>1 DEF TotalFees, TotalRealized, RealizedOf
  <2> QED
    BY <2>1, <2>2, <2>3 DEF SessionInv, SessionMatchesLedger
<1>4. CASE PositionClosed
  BY <1>4, SessionCloses DEF PositionClosed
<1>5. CASE BookEntry
  BY <1>5, SessionBooks
<1>6. CASE TakeResolution \/ FetchFails \/ FetchSucceeds \/ RaiseBreach \/ CreditEquity \/ BookingDone
  <2>1. UNCHANGED <<session, entries>>
    BY <1>6 DEF TakeResolution, FetchFails, FetchSucceeds, RaiseBreach, CreditEquity, BookingDone
  <2> QED
    BY <1>1, <2>1
<1>7. CASE HandleKillSwitch \/ CallReturns \/ OperatorActivates \/ OperatorDeactivates \/ DayBegins
             \/ PostResolution \/ PostKillSwitch
  <2>1. UNCHANGED <<session, entries>>
    BY <1>7 DEF HandleKillSwitch, CallReturns, OperatorActivates, OperatorDeactivates, DayBegins,
       PostResolution, PostKillSwitch
  <2> QED
    BY <1>1, <2>1
<1>8. CASE UNCHANGED vars
  BY <1>1, <1>8 DEF vars
<1> QED
  BY <1>2, <1>3, <1>4, <1>5, <1>6, <1>7, <1>8 DEF Next, Step

\* The invariant holds in every reachable state.
LEMMA SessionInvariant == Spec => []SessionInv
  BY StartInv, StepInv, SessionStart, SessionStep, PTL DEF Spec

\* The session's running totals are those of its ledger, in whatever order
\* positions are opened, closed and resolved (simulation/engine.rs, ledger.rs).
THEOREM SessionIsItsLedger == Spec => []SessionMatchesLedger
  BY SessionInvariant, PTL DEF SessionInv

\* A session that lost money is never recommended for live trading, whatever
\* the thresholds: taking the fees off a second time errs on the safe side
\* (simulation/evaluation.rs compute_recommendation).
THEOREM LossIsNoGo == Spec => []NoGoOnLoss
<1>1. ASSUME BooksInv, SessionInv PROVE NoGoOnLoss
  <2> DEFINE f == [id \in DOMAIN entries |-> entries[id].fees]
  <2>1. Summable(f) /\ TotalRealized \in Int /\ TotalFees = SumFunction(f)
    BY <1>1, TotalsType DEF BooksInv, TotalFees
  <2>2. \A id \in DOMAIN f : f[id] \in Nat
    BY <1>1 DEF SessionInv
  <2>3. TotalFees \in Nat
    <3> HIDE DEF f
    <3> QED
      BY <2>1, <2>2, SumNat
  <2>4. session.totalPnl = TotalRealized
    BY <1>1 DEF SessionInv, SessionMatchesLedger
  <2> QED
    BY <2>1, <2>3, <2>4 DEF NoGoOnLoss, GoLive, NetPnl
<1> QED
  BY <1>1, Invariant, SessionInvariant, PTL

-----------------------------------------------------------------------------
(* The drawdown of the report.                                              *)

\* The equation the report's run over the ledger solves.
Curve(g) ==
  g = [n \in 0..Len(entries) |->
         IF n = 0 THEN [equity |-> 0, peak |-> 0, worst |-> 0]
         ELSE IF entries[n].realized = NoPnl THEN g[n - 1]
         ELSE Fall(g[n - 1], entries[n].realized)]

\* What the run keeps: the equity so far, its peak and the worst fall.
Standing == [equity : Int, peak : Int, worst : Int]

\* A step of the run.
LEMMA FallType ==
  ASSUME NEW r \in Standing, NEW pnl \in Int
  PROVE  /\ Fall(r, pnl) \in Standing /\ Fall(r, pnl).equity = r.equity + pnl
         /\ Fall(r, pnl).peak >= r.peak /\ Fall(r, pnl).peak >= r.equity + pnl
         /\ Fall(r, pnl).peak \in {r.peak, r.equity + pnl}
         /\ Fall(r, pnl).worst >= r.worst
         /\ Fall(r, pnl).worst >= Fall(r, pnl).peak - (r.equity + pnl)
         /\ Fall(r, pnl).worst \in {r.worst, Fall(r, pnl).peak - (r.equity + pnl)}
<1>1. r.equity \in Int /\ r.peak \in Int /\ r.worst \in Int
  BY DEF Standing
<1> DEFINE eq == r.equity + pnl
           pk == IF eq > r.peak THEN eq ELSE r.peak
           wt == IF pk - eq > r.worst THEN pk - eq ELSE r.worst
<1>2. Fall(r, pnl) = [equity |-> eq, peak |-> pk, worst |-> wt]
  BY DEF Fall
<1>3. eq \in Int /\ pk \in Int /\ wt \in Int
  BY <1>1
<1>4. /\ pk >= r.peak /\ pk >= eq /\ pk \in {r.peak, eq}
      /\ wt >= r.worst /\ wt >= pk - eq /\ wt \in {r.worst, pk - eq}
  BY <1>1
<1> HIDE DEF eq, pk, wt
<1>5. /\ Fall(r, pnl) \in Standing /\ Fall(r, pnl).equity = eq
      /\ Fall(r, pnl).peak = pk /\ Fall(r, pnl).worst = wt
  BY <1>2, <1>3 DEF Standing
<1> QED
  BY <1>4, <1>5 DEF eq

\* There is such a run, so the report's is one.
LEMMA CurveExists ==
  ASSUME entries \in Seq(LedgerEntry)
  PROVE  \E g \in [0..Len(entries) -> Standing] : Curve(g)
<1> DEFINE N == Len(entries)
           First == [equity |-> 0, peak |-> 0, worst |-> 0]
           After(r, n) == IF entries[n].realized = NoPnl THEN r ELSE Fall(r, entries[n].realized)
           Solves(g, m) == \A n \in 0..m : g[n] = IF n = 0 THEN First ELSE After(g[n - 1], n)
           P == {m \in Nat : m <= N => \E g \in [0..m -> Standing] : Solves(g, m)}
<1>1. N \in Nat /\ First \in Standing
  BY DEF Standing
<1>2. ASSUME NEW n \in 1..N, NEW r \in Standing PROVE After(r, n) \in Standing
  <2>1. entries[n] \in LedgerEntry
    OBVIOUS
  <2>2. entries[n].realized \in Int \cup {NoPnl}
    BY <2>1 DEF LedgerEntry
  <2> QED
    BY <2>2, FallType
<1> HIDE DEF First, After
<1>3. 0 \in P
  <2> DEFINE g == [n \in 0..0 |-> First]
  <2>1. g \in [0..0 -> Standing] /\ Solves(g, 0)
    BY <1>1
  <2> HIDE DEF g
  <2> QED
    BY <2>1
<1>4. ASSUME NEW m \in Nat, m \in P PROVE m + 1 \in P
  <2> SUFFICES ASSUME m + 1 <= N PROVE \E g \in [0..m + 1 -> Standing] : Solves(g, m + 1)
    OBVIOUS
  <2>1. PICK g \in [0..m -> Standing] : Solves(g, m)
    BY <1>1, <1>4
  <2> DEFINE h == [n \in 0..m + 1 |-> IF n <= m THEN g[n] ELSE After(g[m], m + 1)]
  <2>2. After(g[m], m + 1) \in Standing
    BY <1>1, <1>2, <2>1
  <2>3. h \in [0..m + 1 -> Standing]
    BY <2>1, <2>2
  <2>4. ASSUME NEW n \in 0..m + 1
        PROVE  h[n] = IF n = 0 THEN First ELSE After(h[n - 1], n)
    <3>1. CASE n <= m
      <4>1. n \in 0..m /\ (n # 0 => n - 1 \in 0..m /\ n - 1 \in 0..m + 1 /\ n - 1 <= m)
        BY <3>1
      <4>2. h[n] = g[n] /\ (n # 0 => h[n - 1] = g[n - 1])
        BY <3>1, <4>1
      <4> QED
        BY <2>1, <4>1, <4>2
    <3>2. CASE n = m + 1
      <4>1. n # 0 /\ n - 1 = m /\ m \in 0..m + 1 /\ m <= m /\ ~(n <= m)
        BY <3>2
      <4>2. h[n] = After(g[m], m + 1) /\ h[n - 1] = g[m]
        BY <3>2, <4>1
      <4> QED
        BY <3>2, <4>1, <4>2
    <3> QED
      BY <3>1, <3>2
  <2> HIDE DEF h
  <2> QED
    BY <2>3, <2>4
<1>5. N \in P
  <2> HIDE DEF P, N
  <2>1. Nat \subseteq P
    BY <1>3, <1>4, Induction
  <2> QED
    BY <1>1, <2>1
<1>6. PICK g \in [0..N -> Standing] : Solves(g, N)
  BY <1>1, <1>5
<1>7. g = [n \in 0..N |-> IF n = 0 THEN First ELSE After(g[n - 1], n)]
  BY <1>6
<1>8. Curve(g)
  BY <1>7 DEF Curve, First, After
<1> QED
  BY <1>6, <1>8

\* The drawdown of the report is at the end of such a run.
LEMMA ReportedIs ==
  ReportedDrawdown = (CHOOSE g : Curve(g))[Len(entries)].worst
  BY DEF ReportedDrawdown, Curve

\* The equity of the curve, entry by entry.
LEMMA RealizedSteps ==
  ASSUME entries \in Seq(LedgerEntry)
  PROVE  /\ RealizedUpTo(0) = 0
         /\ \A n \in 0..Len(entries) : RealizedUpTo(n) \in Int
         /\ \A n \in 0..Len(entries) - 1 :
              RealizedUpTo(n + 1) = RealizedUpTo(n) + RealizedOf(entries[n + 1])
<1> DEFINE f(n) == [id \in 1..n |-> RealizedOf(entries[id])]
<1>1. \A n \in 0..Len(entries) : Summable(f(n))
  <2> SUFFICES ASSUME NEW n \in 0..Len(entries) PROVE Summable(f(n))
    OBVIOUS
  <2>1. \A id \in 1..n : RealizedOf(entries[id]) \in Int
    BY FiguresOfEntry
  <2> QED
    BY <2>1, FS_Interval DEF Summable
<1>2. \A n \in 0..Len(entries) : RealizedUpTo(n) \in Int
  <2> SUFFICES ASSUME NEW n \in 0..Len(entries) PROVE RealizedUpTo(n) \in Int
    OBVIOUS
  <2>1. Summable(f(n)) /\ RealizedUpTo(n) = SumFunction(f(n))
    BY <1>1 DEF RealizedUpTo
  <2> QED
    BY <2>1, SumType
<1>3. RealizedUpTo(0) = 0
  <2>1. 0 \in 0..Len(entries) /\ 1..0 = {}
    OBVIOUS
  <2>2. Summable(f(0)) /\ DOMAIN f(0) = {}
    BY <1>1, <2>1
  <2>3. RealizedUpTo(0) = SumFunction(f(0))
    BY DEF RealizedUpTo
  <2> HIDE DEF f
  <2> QED
    BY <2>2, <2>3, SumType
<1>4. ASSUME NEW n \in 0..Len(entries) - 1
      PROVE  RealizedUpTo(n + 1) = RealizedUpTo(n) + RealizedOf(entries[n + 1])
  <2> DEFINE k == n + 1
             a == f(n)
             b == f(k)
  <2>1. n \in 0..Len(entries) /\ k \in 1..k /\ k \notin 1..n
    OBVIOUS
  <2>2. entries[k] \in LedgerEntry
    OBVIOUS
  <2>3. /\ Summable(a) /\ DOMAIN b = DOMAIN a \cup {k} /\ b[k] = RealizedOf(entries[k])
        /\ k \notin DOMAIN a /\ \A x \in DOMAIN a : x # k => b[x] = a[x]
    BY <1>1, <2>1
  <2>4. b[k] \in Int
    BY <2>2, <2>3, FiguresOfEntry
  <2>5. RealizedUpTo(n) = SumFunction(a) /\ RealizedUpTo(k) = SumFunction(b)
    BY DEF RealizedUpTo
  <2>6. RealizedUpTo(n) \in Int
    BY <1>2, <2>1
  <2> HIDE DEF a, b, f
  <2>7. SumFunction(b) = SumFunction(a) + b[k] - 0
    BY <2>3, <2>4, SumAdds
  <2> QED
    BY <2>3, <2>4, <2>5, <2>6, <2>7
<1> QED
  BY <1>2, <1>3, <1>4

\* The drawdown of the report is the worst fall of its curve, for any ledger.
LEMMA WorstFall ==
  ASSUME entries \in Seq(LedgerEntry)
  PROVE  ReportedDrawdownIsWorstFall
<1> DEFINE N == Len(entries)
           g == CHOOSE h : Curve(h)
           R(n) == RealizedUpTo(n)
           Peaks(n, p) == /\ \A i \in 0..n : R(i) <= p
                          /\ \E i \in 0..n : R(i) = p
           Falls(n, w) == /\ \A i, j \in 0..n : i <= j => R(i) - R(j) <= w
                          /\ \E i, j \in 0..n : i <= j /\ R(i) - R(j) = w
           Q(n) == /\ g[n] \in Standing /\ g[n].equity = R(n)
                   /\ Peaks(n, g[n].peak) /\ Falls(n, g[n].worst)
           P == {n \in Nat : n <= N => Q(n)}
<1>1. N \in Nat /\ Curve(g)
  BY CurveExists
<1>2. \A n \in 0..N : g[n] = IF n = 0 THEN [equity |-> 0, peak |-> 0, worst |-> 0]
                             ELSE IF entries[n].realized = NoPnl THEN g[n - 1]
                             ELSE Fall(g[n - 1], entries[n].realized)
  <2> HIDE DEF g
  <2> QED
    BY <1>1 DEF Curve
<1>3. /\ R(0) = 0 /\ \A n \in 0..N : R(n) \in Int
      /\ \A n \in 0..N - 1 : R(n + 1) = R(n) + RealizedOf(entries[n + 1])
  BY RealizedSteps
<1> HIDE DEF g, R
<1>4. 0 \in P
  <2>1. g[0] = [equity |-> 0, peak |-> 0, worst |-> 0]
    BY <1>1, <1>2
  <2>2. g[0] \in Standing /\ g[0].equity = 0 /\ g[0].peak = 0 /\ g[0].worst = 0
    BY <2>1 DEF Standing
  <2>3. Peaks(0, 0) /\ Falls(0, 0)
    BY <1>3
  <2> QED
    BY <1>3, <2>2, <2>3
<1>5. ASSUME NEW n \in Nat, n \in P PROVE n + 1 \in P
  <2> SUFFICES ASSUME n + 1 <= N PROVE Q(n + 1)
    OBVIOUS
  <2>1. /\ n \in 0..N - 1 /\ n \in 0..N /\ n + 1 \in 1..N /\ n + 1 \in 0..N /\ n + 1 # 0
        /\ (n + 1) - 1 = n
    BY <1>1
  <2>2. /\ g[n] \in Standing /\ g[n].equity = R(n)
        /\ Peaks(n, g[n].peak) /\ Falls(n, g[n].worst)
    BY <1>5, <2>1
  <2>3. R(n + 1) = R(n) + RealizedOf(entries[n + 1])
    BY <1>3, <2>1
  <2>4. entries[n + 1].realized \in Int \cup {NoPnl}
    <3>1. entries[n + 1] \in LedgerEntry
      BY <2>1
    <3> QED
      BY <3>1 DEF LedgerEntry
  <2>5. g[n + 1] = IF entries[n + 1].realized = NoPnl THEN g[n]
                   ELSE Fall(g[n], entries[n + 1].realized)
    BY <1>2, <2>1
  <2>6. \A i \in 0..n + 1 : i \in 0..n \/ i = n + 1
    OBVIOUS
  <2>7. \A i \in 0..n + 1 : R(i) \in Int
    BY <1>3, <2>1
  <2>8. CASE entries[n + 1].realized = NoPnl
    <3>1. g[n + 1] = g[n] /\ R(n + 1) = R(n)
      <4>1. RealizedOf(entries[n + 1]) = 0
        BY <2>8 DEF RealizedOf
      <4> QED
        BY <2>3, <2>5, <2>7, <2>8, <4>1
    <3>2. g[n].peak \in Int /\ g[n].worst \in Int
      BY <2>2 DEF Standing
    <3>3. Peaks(n + 1, g[n].peak)
      BY <2>2, <2>6, <3>1
    <3>4. ASSUME NEW i \in 0..n + 1, NEW j \in 0..n + 1, i <= j
          PROVE  R(i) - R(j) <= g[n].worst
      <4>1. CASE i \in 0..n /\ j \in 0..n
        BY <2>2, <3>4, <4>1
      <4>2. CASE i \in 0..n /\ j = n + 1
        <5>1. n \in 0..n /\ i <= n
          BY <4>2
        <5> QED
          BY <2>2, <3>1, <4>2, <5>1
      <4>3. CASE i = n + 1
        <5>1. j = n + 1 /\ n \in 0..n /\ n <= n
          BY <3>4, <4>3
        <5>2. R(n) - R(n) <= g[n].worst
          BY <2>2, <5>1
        <5> QED
          BY <3>1, <4>3, <5>1, <5>2
      <4> QED
        BY <2>6, <4>1, <4>2, <4>3
    <3>5. \E i, j \in 0..n + 1 : i <= j /\ R(i) - R(j) = g[n].worst
      BY <2>2
    <3> QED
      BY <2>2, <3>1, <3>3, <3>4, <3>5
  <2>9. CASE entries[n + 1].realized # NoPnl
    <3> DEFINE pnl == entries[n + 1].realized
               r == g[n]
               t == Fall(r, pnl)
    <3>1. pnl \in Int /\ R(n + 1) = r.equity + pnl /\ g[n + 1] = t
      <4>1. RealizedOf(entries[n + 1]) = pnl
        BY <2>9 DEF RealizedOf
      <4> QED
        BY <2>2, <2>3, <2>4, <2>5, <2>9, <4>1
    <3> HIDE DEF pnl, r, t
    <3>2. r \in Standing /\ Peaks(n, r.peak) /\ Falls(n, r.worst)
      BY <2>2 DEF r
    <3>3. /\ t \in Standing /\ t.equity = R(n + 1)
          /\ t.peak >= r.peak /\ t.peak >= R(n + 1) /\ t.peak \in {r.peak, R(n + 1)}
          /\ t.worst >= r.worst /\ t.worst >= t.peak - R(n + 1)
          /\ t.worst \in {r.worst, t.peak - R(n + 1)}
      BY <3>1, <3>2, FallType DEF t
    <3>4. /\ r.peak \in Int /\ r.worst \in Int /\ t.peak \in Int /\ t.worst \in Int
          /\ R(n + 1) \in Int
      BY <2>7, <3>2, <3>3 DEF Standing
    <3>5. Peaks(n + 1, t.peak)
      <4>1. ASSUME NEW i \in 0..n + 1 PROVE R(i) <= t.peak
        <5>1. CASE i \in 0..n
          <6>1. R(i) <= r.peak
            BY <3>2, <5>1
          <6> QED
            BY <2>7, <3>3, <3>4, <6>1
        <5>2. CASE i = n + 1
          BY <3>3, <5>2
        <5> QED
          BY <2>6, <5>1, <5>2
      <4>2. \E i \in 0..n + 1 : R(i) = t.peak
        <5>1. \A i \in 0..n : i \in 0..n + 1
          OBVIOUS
        <5>2. n + 1 \in 0..n + 1
          OBVIOUS
        <5> QED
          BY <3>2, <3>3, <5>1, <5>2
      <4> QED
        BY <4>1, <4>2
    <3>6. Falls(n + 1, t.worst)
      <4>1. ASSUME NEW i \in 0..n + 1, NEW j \in 0..n + 1, i <= j
            PROVE  R(i) - R(j) <= t.worst
        <5>1. CASE j \in 0..n
          <6>1. i \in 0..n
            BY <4>1, <5>1
          <6>2. R(i) - R(j) <= r.worst
            BY <3>2, <4>1, <5>1, <6>1
          <6> QED
            BY <2>7, <3>3, <3>4, <6>2
        <5>2. CASE j = n + 1
          <6>1. R(i) <= t.peak
            BY <3>5
          <6> QED
            BY <2>7, <3>3, <3>4, <5>2, <6>1
        <5> QED
          BY <2>6, <5>1, <5>2
      <4>2. \E i, j \in 0..n + 1 : i <= j /\ R(i) - R(j) = t.worst
        <5>1. CASE t.worst = r.worst
          <6>1. PICK i \in 0..n, j \in 0..n : i <= j /\ R(i) - R(j) = r.worst
            BY <3>2
          <6>2. i \in 0..n + 1 /\ j \in 0..n + 1
            OBVIOUS
          <6> QED
            BY <5>1, <6>1, <6>2
        <5>2. CASE t.worst = t.peak - R(n + 1)
          <6>1. PICK i \in 0..n + 1 : R(i) = t.peak
            BY <3>5
          <6>2. n + 1 \in 0..n + 1 /\ i <= n + 1
            OBVIOUS
          <6> QED
            BY <5>2, <6>1, <6>2
        <5> QED
          BY <3>3, <5>1, <5>2
      <4> QED
        BY <4>1, <4>2
    <3> QED
      BY <3>1, <3>3, <3>5, <3>6
  <2> QED
    BY <2>8, <2>9
<1>6. Q(N)
  <2> HIDE DEF P, N
  <2>1. Nat \subseteq P
    BY <1>4, <1>5, Induction
  <2>2. N \in P /\ N <= N
    BY <1>1, <2>1
  <2> QED
    BY <2>2 DEF P
<1>7. ReportedDrawdown = g[N].worst
  BY ReportedIs DEF g
<1>8. Falls(N, ReportedDrawdown)
  BY <1>6, <1>7
<1> QED
  BY <1>8 DEF ReportedDrawdownIsWorstFall, R

\* The drawdown stated in a report is the worst fall between any two moments
\* of the curve of the realized results, in every reachable state
\* (simulation/evaluation.rs compute_overall).
THEOREM ReportIsTrue == Spec => []ReportedDrawdownIsWorstFall
<1>1. BooksInv => ReportedDrawdownIsWorstFall
  BY WorstFall DEF BooksInv
<1> QED
  BY <1>1, Invariant, PTL

-----------------------------------------------------------------------------
(* The figures of the tracker.                                              *)

\* The tracker's figures are what their names say of the results booked.
ResultsInv ==
  /\ booked \in Seq(Int) /\ drawdown.current = StartEquity + SumOf(booked)
  /\ FiguresMatchResults


\* Nothing booked, nothing lost.
LEMMA ResultsStart == Init => ResultsInv
<1> SUFFICES ASSUME Init PROVE ResultsInv
  OBVIOUS
<1>1. booked = << >> /\ drawdown = FreshDrawdown(StartEquity) /\ StartEquity \in Int
  BY AccountingAssumption DEF Init
<1>2. drawdown.current = StartEquity /\ drawdown.highWater = StartEquity /\ drawdown.losses = 0
  BY <1>1 DEF FreshDrawdown
<1>3. booked \in Seq(Int) /\ Len(booked) = 0 /\ 0..Len(booked) = {0}
  BY <1>1
<1>4. SumOf(booked) = 0
  BY <1>1, SumOfNone DEF SumOf
<1>5. EquityAfter(0) = StartEquity
  <2>1. SubSeq(booked, 1, 0) = booked
    BY <1>3, PrefixOfAll
  <2>2. EquityAfter(0) = StartEquity + 0
    BY <1>4, <2>1 DEF EquityAfter, SumOf
  <2> QED
    BY <1>1, <2>2
<1>6. FiguresMatchResults
  <2>1. {i \in 0 + 1..Len(booked) : booked[i] < 0} = {}
    BY <1>3
  <2>2. Cardinality({i \in 0 + 1..Len(booked) : booked[i] < 0}) = 0
    BY <2>1, FS_EmptySet
  <2>3. 0 \in 0..Len(booked) /\ \A i \in 0 + 1..Len(booked) : booked[i] <= 0
    BY <1>3
  <2>4. \A n \in 0..Len(booked) : n = 0
    BY <1>3
  <2>5. drawdown.highWater = EquityAfter(0) /\ drawdown.highWater >= EquityAfter(0)
    BY <1>1, <1>2, <1>5
  <2>6. /\ \E n \in 0..Len(booked) : drawdown.highWater = EquityAfter(n)
        /\ \A n \in 0..Len(booked) : drawdown.highWater >= EquityAfter(n)
    BY <2>3, <2>4, <2>5, Zenon
  <2>7. \E win \in 0..Len(booked) :
          /\ win # 0 => booked[win] > 0
          /\ \A i \in win + 1..Len(booked) : booked[i] <= 0
          /\ drawdown.losses = Cardinality({i \in win + 1..Len(booked) : booked[i] < 0})
    BY <1>2, <2>2, <2>3, Zenon
  <2> QED
    BY <2>6, <2>7 DEF FiguresMatchResults
<1> QED
  BY <1>1, <1>2, <1>3, <1>4, <1>6 DEF ResultsInv

\* A booked result moves the equity by itself, the mark if it is passed, and
\* the streak by one loss.
LEMMA ResultsBook == ASSUME BooksInv, ResultsInv, BookEntry PROVE ResultsInv'
<1>1. PICK id \in handler.left :
        /\ drawdown' = AfterTrade(drawdown, VerifiedPnl(entries[id], handler.winner))
        /\ booked' = Append(booked, VerifiedPnl(entries[id], handler.winner))
  BY DEF BookEntry
<1> DEFINE pnl == VerifiedPnl(entries[id], handler.winner)
<1>2. entries[id] \in LedgerEntry /\ Figures(drawdown)
  BY DEF BookEntry, BooksInv, HandlerInv
<1>3. pnl \in Int
  BY <1>2, ResultIsInt
<1>4. drawdown' = AfterTrade(drawdown, pnl) /\ booked' = Append(booked, pnl)
  BY <1>1
<1> HIDE DEF pnl
<1>5. /\ drawdown'.current = drawdown.current + pnl
      /\ drawdown'.highWater = Larger(drawdown.highWater, drawdown.current + pnl)
      /\ drawdown'.losses = StreakAfter(drawdown.losses, pnl)
      /\ drawdown.current \in Int /\ drawdown.highWater \in Int /\ drawdown.losses \in Nat
  <2>1. \A t : t = AfterTrade(drawdown, pnl) =>
          /\ t.current = drawdown.current + pnl
          /\ t.highWater = Larger(drawdown.highWater, drawdown.current + pnl)
          /\ t.losses = StreakAfter(drawdown.losses, pnl)
    BY <1>2, <1>3, AfterTradeFigures
  <2> QED
    BY <1>2, <1>4, <2>1 DEF Figures
<1> PICK k \in Nat : k = Len(booked) + 1
  BY DEF ResultsInv
<1>6. /\ booked \in Seq(Int) /\ booked' \in Seq(Int) /\ Len(booked) \in Nat /\ Len(booked') = k
      /\ \A i \in 1..Len(booked) : booked'[i] = booked[i] /\ booked[i] \in Int
      /\ booked'[k] = pnl
  BY <1>3, <1>4 DEF ResultsInv
<1>7. /\ SumOf(booked') = SumOf(booked) + pnl /\ SumOf(booked) \in Int
      /\ drawdown.current = StartEquity + SumOf(booked) /\ StartEquity \in Int
  BY <1>3, <1>4, <1>6, SumAppends, SumType, AccountingAssumption DEF SumOf, ResultsInv
<1>8. drawdown'.current = StartEquity + SumOf(booked')
  BY <1>3, <1>5, <1>7
<1>9. /\ \A n \in 0..Len(booked) : EquityAfter(n)' = EquityAfter(n)
      /\ EquityAfter(k)' = drawdown.current + pnl
  <2>1. \A n \in 0..Len(booked) : SubSeq(booked', 1, n) = SubSeq(booked, 1, n)
    BY <1>3, <1>4, <1>6, PrefixOfAppend
  <2>2. SubSeq(booked', 1, k) = booked'
    BY <1>6, PrefixOfAll
  <2>3. \A n \in 0..Len(booked) : EquityAfter(n)' = EquityAfter(n)
    BY <2>1 DEF EquityAfter
  <2>4. EquityAfter(k)' = StartEquity + SumOf(booked')
    BY <2>2 DEF EquityAfter, SumOf
  <2> QED
    BY <1>5, <1>8, <2>3, <2>4
<1>10. FiguresMatchResults
  BY DEF ResultsInv
<1>11. \A n \in 0..Len(booked') : n \in 0..Len(booked) \/ n = k
  BY <1>6
<1>12. /\ \E n \in 0..Len(booked') : drawdown'.highWater = EquityAfter(n)'
       /\ \A n \in 0..Len(booked') : drawdown'.highWater >= EquityAfter(n)'
  <2>1. k \in 0..Len(booked') /\ \A n \in 0..Len(booked) : n \in 0..Len(booked')
    BY <1>6
  <2>2. PICK m \in 0..Len(booked) : drawdown.highWater = EquityAfter(m)
    BY <1>10 DEF FiguresMatchResults
  <2>3. CASE drawdown.highWater >= drawdown.current + pnl
    <3>1. drawdown'.highWater = drawdown.highWater
      BY <1>5, <2>3 DEF Larger
    <3>2. \A n \in 0..Len(booked) : drawdown'.highWater >= EquityAfter(n)'
      BY <1>9, <1>10, <3>1 DEF FiguresMatchResults
    <3>3. drawdown'.highWater >= EquityAfter(k)'
      BY <1>9, <2>3, <3>1
    <3>4. drawdown'.highWater = EquityAfter(m)'
      BY <1>9, <2>2, <3>1
    <3>5. m \in 0..Len(booked')
      BY <2>1
    <3>6. \A n \in 0..Len(booked') : drawdown'.highWater >= EquityAfter(n)'
      BY <1>11, <3>2, <3>3, Zenon
    <3> QED
      BY <3>4, <3>5, <3>6, Zenon
  <2>4. CASE ~(drawdown.highWater >= drawdown.current + pnl)
    <3>1. drawdown'.highWater = drawdown.current + pnl
      BY <1>5, <2>4 DEF Larger
    <3>2. ASSUME NEW n \in 0..Len(booked) PROVE drawdown'.highWater >= EquityAfter(n)'
      <4>1. drawdown.highWater >= EquityAfter(n) /\ EquityAfter(n)' = EquityAfter(n)
        BY <1>9, <1>10 DEF FiguresMatchResults
      <4>2. EquityAfter(n) \in Int
        <5>1. SubSeq(booked, 1, n) \in Seq(Int)
          BY <1>6
        <5>2. SumFunction(SubSeq(booked, 1, n)) \in Int
          BY <5>1, SumOfSeq
        <5> QED
          BY <1>7, <5>2 DEF EquityAfter, SumOf
      <4> QED
        BY <1>3, <1>5, <2>4, <3>1, <4>1, <4>2
    <3>3. drawdown'.highWater = EquityAfter(k)' /\ drawdown'.highWater >= EquityAfter(k)'
      BY <1>3, <1>5, <1>9, <3>1
    <3>4. \A n \in 0..Len(booked') : drawdown'.highWater >= EquityAfter(n)'
      BY <1>11, <3>2, <3>3, Zenon
    <3> QED
      BY <2>1, <3>3, <3>4, Zenon
  <2> QED
    BY <2>3, <2>4
<1>13. \E win \in 0..Len(booked') :
         /\ win # 0 => booked'[win] > 0
         /\ \A i \in win + 1..Len(booked') : booked'[i] <= 0
         /\ drawdown'.losses = Cardinality({i \in win + 1..Len(booked') : booked'[i] < 0})
  <2>1. PICK win \in 0..Len(booked) :
          /\ win # 0 => booked[win] > 0
          /\ \A i \in win + 1..Len(booked) : booked[i] <= 0
          /\ drawdown.losses = Cardinality({i \in win + 1..Len(booked) : booked[i] < 0})
    BY <1>10 DEF FiguresMatchResults
  <2> DEFINE lost == {i \in win + 1..Len(booked) : booked[i] < 0}
  <2>2. IsFiniteSet(lost) /\ k \notin lost
    <3>1. win + 1 \in Int /\ Len(booked) \in Int /\ k \notin win + 1..Len(booked)
      BY <1>6
    <3>2. IsFiniteSet(win + 1..Len(booked))
      BY <3>1, FS_Interval
    <3> QED
      BY <3>1, <3>2, FS_Subset
  <2>3. CASE pnl > 0
    <3>1. {i \in k + 1..Len(booked') : booked'[i] < 0} = {} /\ k \in 0..Len(booked')
      BY <1>6
    <3>2. drawdown'.losses = 0
      BY <1>5, <2>3 DEF StreakAfter
    <3>3. Cardinality({i \in k + 1..Len(booked') : booked'[i] < 0}) = 0
      BY <3>1, FS_EmptySet
    <3>4. \A i \in k + 1..Len(booked') : booked'[i] <= 0
      BY <1>6
    <3>5. booked'[k] > 0
      BY <1>6, <2>3
    <3>6. drawdown'.losses = Cardinality({i \in k + 1..Len(booked') : booked'[i] < 0})
      BY <3>2, <3>3, Zenon
    <3>7. k \in 0..Len(booked')
      BY <3>1
    <3> QED
      BY <3>4, <3>5, <3>6, <3>7, Zenon
  <2>4. CASE ~(pnl > 0)
    <3>1. win \in 0..Len(booked') /\ (win # 0 => booked'[win] > 0)
      BY <1>6, <2>1
    <3>2. \A i \in win + 1..Len(booked') : i \in win + 1..Len(booked) \/ i = k
      BY <1>6
    <3>3. \A i \in win + 1..Len(booked') : booked'[i] <= 0
      BY <1>3, <1>6, <2>1, <2>4, <3>2
    <3>4. {i \in win + 1..Len(booked') : booked'[i] < 0}
            = IF pnl < 0 THEN lost \cup {k} ELSE lost
      <4>1. k \in win + 1..Len(booked') /\ booked'[k] = pnl
        BY <1>6
      <4>2. \A i \in win + 1..Len(booked) : i \in win + 1..Len(booked') /\ booked'[i] = booked[i]
        BY <1>6
      <4> QED
        BY <3>2, <4>1, <4>2
    <3>5. Cardinality(lost \cup {k}) = Cardinality(lost) + 1
      BY <2>2, FS_AddElement
    <3>6. drawdown'.losses = IF pnl < 0 THEN drawdown.losses + 1 ELSE drawdown.losses
      BY <1>5, <2>4 DEF StreakAfter
    <3>7. drawdown'.losses = Cardinality({i \in win + 1..Len(booked') : booked'[i] < 0})
      BY <2>1, <3>4, <3>5, <3>6
    <3> QED
      BY <3>1, <3>3, <3>7
  <2> QED
    BY <2>3, <2>4
<1>14. FiguresMatchResults'
  BY <1>12, <1>13 DEF FiguresMatchResults
<1> QED
  BY <1>6, <1>8, <1>14 DEF ResultsInv

\* No other step touches mark, streak or results.
LEMMA ResultsStep == BooksInv /\ ResultsInv /\ [Next]_vars => ResultsInv'
<1> SUFFICES ASSUME BooksInv, ResultsInv, [Next]_vars, ~BookEntry PROVE ResultsInv'
  BY ResultsBook
<1>1. UNCHANGED <<drawdown, booked>> \/ DayBegins
  BY DEF Next, Step, vars, SignalAccepted, SignalRejected, PositionClosed, TakeResolution,
     FetchFails, FetchSucceeds, RaiseBreach, CreditEquity, BookingDone, HandleKillSwitch,
     CallReturns, OperatorActivates, OperatorDeactivates, PostResolution, PostKillSwitch
<1>2. /\ booked' = booked /\ drawdown'.current = drawdown.current
      /\ drawdown'.highWater = drawdown.highWater /\ drawdown'.losses = drawdown.losses
  BY <1>1 DEF DayBegins, ResetDaily, BooksInv, Figures
<1>3. \A n : EquityAfter(n)' = EquityAfter(n)
  BY <1>2 DEF EquityAfter
<1> QED
  BY <1>2, <1>3 DEF ResultsInv, FiguresMatchResults

\* The mark is the highest equity the results ever reached, the streak the
\* losses since the last win, for any results (drawdown.rs record_trade).
THEOREM FiguresAreHistory == Spec => []FiguresMatchResults
<1>1. Spec => []ResultsInv
  BY StartInv, StepInv, ResultsStart, ResultsStep, PTL DEF Spec
<1> QED
  BY <1>1, PTL DEF ResultsInv

-----------------------------------------------------------------------------
(* The official results.                                                    *)

\* A market with an entry that is being booked, or was, had its resolution
\* counted, and counted again if the entry had a result before.
Resolved(id, times) ==
  MarketOf[entries[id].contract] \in Market /\ bookings[MarketOf[entries[id].contract]] >= times

OfficialInv ==
  /\ queue \in Seq(Event) /\ bookings \in [Market -> Nat]
  /\ handler.at = "fetching" => handler.market \in Market
  /\ \A id \in DOMAIN entries : entries[id].official # NoPnl => Resolved(id, 1)
  /\ handler.at \in {"booking", "raising"} =>
       \A id \in handler.left : Resolved(id, IF entries[id].official = NoPnl THEN 1 ELSE 2)
  /\ OfficialPnlCounted

\* No entry, no booking.
LEMMA OfficialStart == Init => OfficialInv
<1> SUFFICES ASSUME Init PROVE OfficialInv
  OBVIOUS
<1>1. /\ queue = << >> /\ handler.at = "idle" /\ bookings = [m \in Market |-> 0]
      /\ entries = << >> /\ drawdown = FreshDrawdown(StartEquity)
  BY DEF Init, NoHandler
<1>2. TotalOfficial = 0
  <2> DEFINE f == [id \in DOMAIN entries |-> OfficialOf(entries[id])]
  <2>1. DOMAIN f = {} /\ Summable(f)
    BY <1>1, TotalsType
  <2> HIDE DEF f
  <2>2. SumFunction(f) = 0
    BY <2>1, SumType
  <2> QED
    BY <2>2 DEF f, TotalOfficial
<1>3. drawdown.sessionPnl = 0
  BY <1>1 DEF FreshDrawdown
<1> QED
  BY <1>1, <1>2, <1>3 DEF OfficialInv, OfficialPnlCounted

\* What the steps have in common that neither book nor take an event: entries
\* keep their markets and their official results, new ones have none.
LEMMA OfficialKept ==
  ASSUME BooksInv, OfficialInv, UNCHANGED bookings, drawdown'.sessionPnl = drawdown.sessionPnl,
         queue' \in Seq(Event), handler'.at = "fetching" => handler'.market \in Market,
         handler'.at \in {"booking", "raising"} =>
           handler.at \in {"booking", "raising"} /\ handler'.left = handler.left,
         DOMAIN entries \subseteq DOMAIN entries',
         \A id \in DOMAIN entries : /\ entries'[id].contract = entries[id].contract
                                    /\ entries'[id].official = entries[id].official,
         \A id \in DOMAIN entries' \ DOMAIN entries : entries'[id].official = NoPnl,
         TotalOfficial' = TotalOfficial
  PROVE  OfficialInv'
<1>1. \A id \in DOMAIN entries, n \in {1, 2} : Resolved(id, n) => Resolved(id, n)'
  BY DEF Resolved
<1>2. \A id \in DOMAIN entries' : entries'[id].official # NoPnl => Resolved(id, 1)'
  BY <1>1 DEF OfficialInv
<1>3. ASSUME handler'.at \in {"booking", "raising"}, NEW id \in handler'.left
      PROVE  Resolved(id, IF entries[id].official = NoPnl THEN 1 ELSE 2)'
  <2>1. id \in handler.left /\ handler.at \in {"booking", "raising"} /\ id \in DOMAIN entries
    BY <1>3 DEF BooksInv, HandlerInv
  <2>2. entries'[id].official = entries[id].official
    BY <2>1
  <2>3. CASE entries[id].official = NoPnl
    <3>1. Resolved(id, 1)
      BY <2>1, <2>3 DEF OfficialInv
    <3>2. Resolved(id, 1)'
      BY <1>1, <2>1, <3>1
    <3> QED
      BY <2>2, <2>3, <3>2 DEF Resolved
  <2>4. CASE entries[id].official # NoPnl
    <3>1. Resolved(id, 2)
      BY <2>1, <2>4 DEF OfficialInv
    <3>2. Resolved(id, 2)'
      BY <1>1, <2>1, <3>1
    <3> QED
      BY <2>2, <2>4, <3>2 DEF Resolved
  <2> QED
    BY <2>3, <2>4
<1>4. OfficialPnlCounted'
  BY DEF OfficialInv, OfficialPnlCounted
<1>5. bookings' \in [Market -> Nat]
  BY DEF OfficialInv
<1> QED
  BY <1>2, <1>3, <1>4, <1>5 DEF OfficialInv

\* The answer of the fetch: the open entries of the market are to be booked,
\* and each of them that has a result had its market booked before.
LEMMA OfficialFetched == ASSUME BooksInv, OfficialInv, FetchSucceeds PROVE OfficialInv'
<1> DEFINE m == handler.market
<1>1. /\ m \in Market /\ bookings \in [Market -> Nat] /\ queue \in Seq(Event)
      /\ bookings' = [bookings EXCEPT ![m] = @ + 1]
      /\ UNCHANGED <<entries, drawdown, queue>>
      /\ handler'.at = "booking" /\ handler'.left = OpenEntriesOf(m)
  BY DEF FetchSucceeds, OfficialInv
<1>2. /\ bookings' \in [Market -> Nat] /\ bookings'[m] = bookings[m] + 1
      /\ \A n \in Market : bookings'[n] >= bookings[n]
  BY <1>1
<1>3. \A id \in DOMAIN entries' : entries'[id].official # NoPnl => Resolved(id, 1)'
  <2> SUFFICES ASSUME NEW id \in DOMAIN entries, entries[id].official # NoPnl
               PROVE  Resolved(id, 1)'
    BY <1>1
  <2>1. Resolved(id, 1)
    BY DEF OfficialInv
  <2> QED
    BY <1>1, <1>2, <2>1 DEF Resolved
<1>4. ASSUME NEW id \in handler'.left
      PROVE  Resolved(id, IF entries[id].official = NoPnl THEN 1 ELSE 2)'
  <2>1. id \in DOMAIN entries /\ MarketOf[entries[id].contract] = m
    BY <1>1, <1>4 DEF OpenEntriesOf
  <2>2. entries[id].official # NoPnl => bookings[m] >= 1
    BY <2>1 DEF OfficialInv, Resolved
  <2>3. bookings[m] \in Nat
    BY <1>1
  <2> QED
    BY <1>1, <1>2, <2>1, <2>2, <2>3 DEF Resolved
<1>5. OfficialPnlCounted'
  <2> SUFFICES ASSUME \A n \in Market : bookings'[n] <= 1
               PROVE  drawdown'.sessionPnl = TotalOfficial'
    BY DEF OfficialPnlCounted
  <2>1. \A n \in Market : bookings[n] <= 1
    BY <1>1, <1>2
  <2>2. drawdown.sessionPnl = TotalOfficial
    BY <2>1 DEF OfficialInv, OfficialPnlCounted
  <2> QED
    BY <1>1, <2>2 DEF TotalOfficial, OfficialOf
<1> HIDE DEF m
<1> QED
  BY <1>1, <1>2, <1>3, <1>4, <1>5 DEF OfficialInv

\* A booked entry adds its result to both sums; one that had a result already
\* shows that its market was booked twice.
LEMMA OfficialBooks == ASSUME BooksInv, OfficialInv, BookEntry PROVE OfficialInv'
<1>1. PICK id \in handler.left :
        /\ entries' = WithResolution(id, handler.winner)
        /\ drawdown' = AfterTrade(drawdown, VerifiedPnl(entries[id], handler.winner))
        /\ handler'.at = "raising" /\ handler'.left = handler.left \ {id}
  BY DEF BookEntry
<1> DEFINE pnl == VerifiedPnl(entries[id], handler.winner)
<1>2. /\ handler.at = "booking" /\ UNCHANGED <<bookings, queue>> /\ id \in DOMAIN entries
      /\ handler.left \subseteq DOMAIN entries
      /\ entries \in Seq(LedgerEntry) /\ Figures(drawdown)
  BY DEF BookEntry, BooksInv, HandlerInv
<1>3. /\ entries' \in Seq(LedgerEntry) /\ DOMAIN entries' = DOMAIN entries
      /\ \A i \in DOMAIN entries : i # id => entries'[i] = entries[i]
      /\ entries'[id].official = pnl /\ pnl \in Int
      /\ entries'[id].contract = entries[id].contract
  BY <1>1, <1>2, EntryBooked
<1>4. drawdown'.sessionPnl = drawdown.sessionPnl + pnl /\ drawdown.sessionPnl \in Int
  <2>1. drawdown' = AfterTrade(drawdown, pnl)
    BY <1>1
  <2> HIDE DEF pnl
  <2>2. \A t : t = AfterTrade(drawdown, pnl) => t.sessionPnl = drawdown.sessionPnl + pnl
    <3>1. Figures(drawdown) /\ pnl \in Int
      BY <1>2, <1>3
    <3> QED
      BY <3>1, AfterTradeFigures
  <2> QED
    BY <1>2, <2>1, <2>2 DEF Figures
<1> HIDE DEF pnl
<1>5. Resolved(id, IF entries[id].official = NoPnl THEN 1 ELSE 2) /\ bookings \in [Market -> Nat]
  BY <1>2 DEF OfficialInv
<1>6. MarketOf[entries[id].contract] \in Market /\ bookings[MarketOf[entries[id].contract]] >= 1
  BY <1>5 DEF Resolved
<1>7. \A i \in DOMAIN entries' : entries'[i].official # NoPnl => Resolved(i, 1)'
  <2> SUFFICES ASSUME NEW i \in DOMAIN entries, entries'[i].official # NoPnl
               PROVE  Resolved(i, 1)'
    BY <1>3
  <2>1. CASE i = id
    BY <1>2, <1>3, <1>6, <2>1 DEF Resolved
  <2>2. CASE i # id
    <3>1. entries'[i] = entries[i]
      BY <1>3, <2>2
    <3>2. Resolved(i, 1)
      BY <3>1 DEF OfficialInv
    <3> QED
      BY <1>2, <3>1, <3>2 DEF Resolved
  <2> QED
    BY <2>1, <2>2
<1>8. ASSUME NEW i \in handler'.left
      PROVE  Resolved(i, IF entries[i].official = NoPnl THEN 1 ELSE 2)'
  <2>1. i \in handler.left /\ i # id /\ i \in DOMAIN entries
    BY <1>1, <1>2, <1>8
  <2>2. entries'[i] = entries[i]
    BY <1>3, <2>1
  <2>3. Resolved(i, IF entries[i].official = NoPnl THEN 1 ELSE 2)
    BY <1>2, <2>1 DEF OfficialInv
  <2> QED
    BY <1>2, <2>2, <2>3 DEF Resolved
<1>9. OfficialPnlCounted'
  <2> SUFFICES ASSUME \A n \in Market : bookings[n] <= 1
               PROVE  drawdown'.sessionPnl = TotalOfficial'
    BY <1>2 DEF OfficialPnlCounted
  <2>1. drawdown.sessionPnl = TotalOfficial
    BY DEF OfficialInv, OfficialPnlCounted
  <2>2. entries[id].official = NoPnl
    <3>1. ~(bookings[MarketOf[entries[id].contract]] >= 2)
      BY <1>5, <1>6
    <3> QED
      BY <1>5, <3>1 DEF Resolved
  <2>3. DOMAIN entries' = DOMAIN entries \cup {id}
    BY <1>2, <1>3
  <2>4. TotalOfficial' = TotalOfficial + OfficialOf(entries'[id]) - OfficialOf(entries[id])
    BY <1>2, <1>3, <2>3, TotalsMove
  <2>5. OfficialOf(entries'[id]) = pnl /\ OfficialOf(entries[id]) = 0
    BY <1>3, <2>2, LedgerAssumption DEF OfficialOf
  <2> QED
    BY <1>3, <1>4, <2>1, <2>4, <2>5
<1>10. queue' \in Seq(Event) /\ bookings' \in [Market -> Nat]
  BY <1>2, <1>5 DEF OfficialInv
<1> QED
  BY <1>1, <1>7, <1>8, <1>9, <1>10 DEF OfficialInv

\* Every step keeps it.
LEMMA OfficialStep == BooksInv /\ OfficialInv /\ [Next]_vars => OfficialInv'
<1> SUFFICES ASSUME BooksInv, OfficialInv, [Next]_vars PROVE OfficialInv'
  OBVIOUS
<1>1. entries \in Seq(LedgerEntry) /\ queue \in Seq(Event) /\ TotalOfficial \in Int
  BY TotalsType DEF BooksInv, OfficialInv
<1>2. ASSUME UNCHANGED entries
      PROVE  TotalOfficial' = TotalOfficial
  BY <1>2 DEF TotalOfficial, OfficialOf
<1>3. CASE SignalAccepted
  <2>1. PICK intent \in Intents : SimulateFill(intent) \/ MissFill
    BY <1>3 DEF SignalAccepted
  <2>2. UNCHANGED <<drawdown, queue, handler, bookings>>
    BY <1>3 DEF SignalAccepted, loopVars
  <2>3. CASE MissFill
    BY <1>1, <1>2, <2>2, <2>3, OfficialKept DEF MissFill, OfficialInv
  <2>4. CASE SimulateFill(intent)
    <3> PICK k : k = Len(entries) + 1
      OBVIOUS
    <3>1. /\ entries' \in Seq(LedgerEntry) /\ DOMAIN entries' = DOMAIN entries \cup {k}
          /\ k \notin DOMAIN entries /\ \A id \in DOMAIN entries : entries'[id] = entries[id]
          /\ entries'[k].official = NoPnl
      BY <1>1, <2>4, EntryOpened
    <3>2. TotalOfficial' = TotalOfficial + OfficialOf(entries'[k]) - 0
      BY <1>1, <3>1, TotalsMove
    <3>3. TotalOfficial' = TotalOfficial
      BY <1>1, <3>1, <3>2 DEF OfficialOf
    <3> QED
      BY <1>1, <2>2, <3>1, <3>3, OfficialKept DEF OfficialInv
  <2> QED
    BY <2>1, <2>3, <2>4
<1>4. CASE PositionClosed
  <2>1. PICK id \in DOMAIN entries, price \in ExitPrices : ClosePosition(id, price, 1)
    BY <1>4 DEF PositionClosed
  <2>2. UNCHANGED <<drawdown, queue, handler, bookings>>
    BY <1>4 DEF PositionClosed, loopVars
  <2>3. /\ entries' \in Seq(LedgerEntry) /\ DOMAIN entries' = DOMAIN entries
        /\ \A i \in DOMAIN entries : i # id => entries'[i] = entries[i]
        /\ entries'[id].official = entries[id].official
        /\ entries'[id].contract = entries[id].contract
    BY <1>1, <2>1, EntryClosed
  <2>4. TotalOfficial' = TotalOfficial
    <3>1. DOMAIN entries' = DOMAIN entries \cup {id}
      BY <2>3
    <3>2. TotalOfficial' = TotalOfficial + OfficialOf(entries'[id]) - OfficialOf(entries[id])
      BY <1>1, <2>3, <3>1, TotalsMove
    <3>3. OfficialOf(entries'[id]) = OfficialOf(entries[id]) /\ OfficialOf(entries[id]) \in Int
      BY <1>1, <2>3, FiguresOfEntry DEF OfficialOf
    <3> QED
      BY <1>1, <3>2, <3>3
  <2> QED
    BY <1>1, <2>2, <2>3, <2>4, OfficialKept DEF OfficialInv
<1>5. CASE TakeResolution
  <2>1. /\ UNCHANGED <<drawdown, entries, bookings>> /\ queue' = Tail(queue) /\ queue # << >>
        /\ handler'.at = "fetching" /\ handler'.market = Head(queue).market
        /\ Head(queue).type = "Resolution"
    BY <1>5 DEF TakeResolution
  <2>2. Head(queue) \in Event /\ queue' \in Seq(Event)
    BY <1>1, <2>1
  <2>3. handler'.market \in Market
    BY <2>1, <2>2 DEF Event
  <2> QED
    BY <1>2, <2>1, <2>2, <2>3, OfficialKept
<1>6. CASE FetchFails \/ BookingDone
  <2>1. UNCHANGED <<drawdown, entries, bookings, queue>> /\ handler'.at = "idle"
    BY <1>6 DEF FetchFails, BookingDone, NoHandler
  <2> QED
    BY <1>1, <1>2, <2>1, OfficialKept
<1>7. CASE RaiseBreach \/ CreditEquity
  <2>1. /\ UNCHANGED <<drawdown, entries, bookings, queue>>
        /\ handler.at = "raising" /\ handler'.at \in {"booking", "raising"}
        /\ handler'.left = handler.left
    BY <1>7 DEF RaiseBreach, CreditEquity, BooksInv, HandlerInv
  <2> QED
    BY <1>1, <1>2, <2>1, OfficialKept
<1>8. CASE DayBegins
  <2>1. /\ UNCHANGED <<entries, bookings, queue, handler>>
        /\ drawdown'.sessionPnl = drawdown.sessionPnl
    BY <1>8 DEF DayBegins, loopVars, ResetDaily, BooksInv, Figures
  <2> QED
    BY <1>1, <1>2, <2>1, OfficialKept DEF OfficialInv
<1>9. CASE HandleKillSwitch \/ PostResolution \/ PostKillSwitch
  <2>1. UNCHANGED <<drawdown, entries, bookings, handler>>
    BY <1>9 DEF HandleKillSwitch, PostResolution, PostKillSwitch
  <2>2. queue' \in Seq(Event)
    <3>1. \A m \in Market : [type |-> "Resolution", market |-> m] \in Event
      BY DEF Event
    <3>2. \A text \in {"DailyDrawdownBreach", "StaleFeedRegime"} :
            [type |-> "KillSwitch", text |-> text] \in Event
      BY DEF Event, Reason
    <3>3. \A e \in Event : Append(queue, e) \in Seq(Event)
      BY <1>1
    <3>4. queue # << >> => Tail(queue) \in Seq(Event)
      BY <1>1
    <3> QED
      BY <1>9, <3>1, <3>2, <3>3, <3>4 DEF HandleKillSwitch, PostResolution, PostKillSwitch
  <2> QED
    BY <1>2, <2>1, <2>2, OfficialKept DEF OfficialInv
<1>10. CASE SignalRejected \/ CallReturns \/ OperatorActivates \/ OperatorDeactivates \/ UNCHANGED vars
  <2>1. UNCHANGED <<drawdown, entries, bookings, handler, queue>>
    BY <1>10 DEF SignalRejected, RejectSignal, CallReturns, OperatorActivates, OperatorDeactivates,
       vars, loopVars
  <2> QED
    BY <1>1, <1>2, <2>1, OfficialKept DEF OfficialInv
<1> QED
  BY <1>3, <1>4, <1>5, <1>6, <1>7, <1>8, <1>9, <1>10, OfficialFetched, OfficialBooks DEF Next, Step

\* As long as no market was booked twice the session's result is the sum of
\* the official results in the ledger, for any markets, positions and
\* resolutions (app.rs, drawdown.rs: "Tracks from official P&L events").
THEOREM OfficialIsCounted == Spec => []OfficialPnlCounted
<1>1. Spec => []OfficialInv
  BY StartInv, StepInv, OfficialStart, OfficialStep, PTL DEF Spec
<1> QED
  BY <1>1, PTL DEF OfficialInv
=============================================================================
