------------------------------- MODULE Ledger -------------------------------
(***************************************************************************)
(* Ledger (src/src/telemetry/ledger.rs) with the verification of a         *)
(* position against the official outcome (src/src/resolution/verifier.rs). *)
(* Entries are numbered from 1 and never removed, so the id of an entry is *)
(* its place in the sequence; the index by contract is a lookup structure  *)
(* over the same ids.  Money is a whole number of ticks, and a winning     *)
(* token pays Payout of them.                                              *)
(***************************************************************************)
EXTENDS Integers, Sequences, FiniteSets, Functions

CONSTANTS Contract,   \* tradeable contract keys
          MarketOf,   \* contract -> its market
          Payout,     \* what a winning token pays (1.0)
          NoToken,    \* a resolution that names no winner
          NoPnl       \* a result that is not recorded yet

ASSUME LedgerAssumption == Payout \in Nat /\ NoPnl \notin Int

Side == {"Buy", "Sell"}

VARIABLE entries   \* sequence of LedgerEntry

LedgerEntry ==
  [contract : Contract, side : Side, entryPrice : Int, size : Nat, fees : Int,
   closed : BOOLEAN, realized : Int \cup {NoPnl},
   outcome : {"None", "Yes", "No", "Unknown"}, official : Int \cup {NoPnl}]

IsOpen(e) == ~e.closed
IsVerified(e) == e.outcome # "None"

\* Profit of a position entered at `entry` and left at `exit`, after fees.
Pnl(side, entry, exit, size, fees) ==
  (IF side = "Buy" THEN exit - entry ELSE entry - exit) * size - fees

-----------------------------------------------------------------------------
\* record_entry followed by add_fees, which its only caller adds at once.
WithEntry(c, side, price, size, fee) ==
  Append(entries, [contract |-> c, side |-> side, entryPrice |-> price,
                   size |-> size, fees |-> fee, closed |-> FALSE,
                   realized |-> NoPnl, outcome |-> "None", official |-> NoPnl])

\* record_exit: the entry's own result, after the fees of both sides.
ExitPnl(e, price, fee) == Pnl(e.side, e.entryPrice, price, e.size, e.fees + fee)

\* Mutant of WithExit: the exit fee is charged but not recorded.
WithExitFeeForgotten(id, price, fee) ==
  [entries EXCEPT ![id].closed   = TRUE,
                  ![id].realized = ExitPnl(entries[id], price, fee)]

WithExit(id, price, fee) ==
  [entries EXCEPT ![id].fees     = @ + fee,
                  ![id].closed   = TRUE,
                  ![id].realized = ExitPnl(entries[id], price, fee)]

\* The open entries of a market, to be settled in the order of the ids.
OpenEntriesOf(market) ==
  {id \in DOMAIN entries : IsOpen(entries[id]) /\ MarketOf[entries[id].contract] = market}

-----------------------------------------------------------------------------
\* verify: what the resolution makes of a position.  One without a winner
\* pays what the fetcher put down for it, which is nothing.
OutcomeOf(e, winner) ==
  IF winner = NoToken THEN "Unknown"
  ELSE IF winner = e.contract THEN "Yes" ELSE "No"

PayoutOf(e, winner) == IF OutcomeOf(e, winner) = "Yes" THEN Payout ELSE 0

VerifiedPnl(e, winner) ==
  Pnl(e.side, e.entryPrice, PayoutOf(e, winner), e.size, e.fees)

\* Mutant of WithResolution: the result before fees.
WithGrossResolution(id, winner) ==
  [entries EXCEPT ![id].outcome  = OutcomeOf(entries[id], winner),
                  ![id].official = VerifiedPnl(entries[id], winner) + entries[id].fees]

\* record_resolution: it does not close the entry.
WithResolution(id, winner) ==
  [entries EXCEPT ![id].outcome  = OutcomeOf(entries[id], winner),
                  ![id].official = VerifiedPnl(entries[id], winner)]

-----------------------------------------------------------------------------
\* summary
RealizedOf(e) == IF e.realized = NoPnl THEN 0 ELSE e.realized
OfficialOf(e) == IF e.official = NoPnl THEN 0 ELSE e.official

TotalRealized == SumFunction([id \in DOMAIN entries |-> RealizedOf(entries[id])])
TotalOfficial == SumFunction([id \in DOMAIN entries |-> OfficialOf(entries[id])])
TotalFees     == SumFunction([id \in DOMAIN entries |-> entries[id].fees])

WinCount ==
  Cardinality({id \in DOMAIN entries :
                 entries[id].realized # NoPnl /\ entries[id].realized > 0})
=============================================================================
