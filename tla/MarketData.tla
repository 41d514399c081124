----------------------------- MODULE MarketData -----------------------------
(***************************************************************************)
(* From the network to an order: the adapters of src/src/feeds/, the       *)
(* discovery loop, the event bus, the tick handler of the main loop        *)
(* (app.rs) and the age check of submit_intent. Prices are left out, and   *)
(* with them the price kept from a window's opening and the ticks kept for *)
(* a second opinion; what counts is which token, and how old.              *)
(*                                                                         *)
(* The tick handler waits once for each contract, for the client's health. *)
(* `evaluation` is its position: while it is not Nothing the loop takes    *)
(* no other event and no intent, but the clock, the adapters and discovery *)
(* go on. What the rest of the loop does to an order is in TradingLoop;    *)
(* its waits are delays of an intent here. Shutdown is left out.           *)
(*                                                                         *)
(* "Market" is the Polymarket book stream.                                 *)
(***************************************************************************)
EXTENDS FeedHealth, ContractRegistry, Sequences, FiniteSets

CONSTANTS
  Cex,             \* the spot price feeds that are spawned
  MaxAttempts,     \* Binance: max_reconnect_attempts
  BusCapacity,     \* capacity of the event bus
  IntentCapacity,  \* capacity of the intent channel
  FeedTolerance,   \* stale_feed_tolerance
  BookTolerance,   \* stale_book_tolerance
  SignalTolerance, \* stale_signal_threshold
  Skews,           \* by how much the time in a book may differ from the own
  MaxSkew,         \* clock's, and the most it runs ahead
  MaxTime,         \* bound: the clock stops here
  MaxTrouble       \* bound: failing connections, handshakes and refreshes

ASSUME FeedAssumption == Cex \subseteq {"Binance", "Coinbase"} /\ Registered = Cex
ASSUME MarketDataAssumption ==
  /\ MaxAttempts \in Nat /\ BusCapacity \in Nat \ {0} /\ IntentCapacity \in Nat
  /\ FeedTolerance \in Nat /\ BookTolerance \in Nat /\ SignalTolerance \in Nat
  /\ MaxSkew \in Nat /\ Skews \subseteq Int /\ \A s \in Skews : s <= MaxSkew
  /\ MaxTime \in Nat /\ MaxTrouble \in Nat

VARIABLES
  tokenIds,     \* what wait_for_discovery returned
  task,         \* feed -> where its adapter is
  attempts,     \* Binance: reconnect_attempts
  subscribed,   \* tokens the book stream's connection is subscribed to
  held,         \* feed -> the event its adapter is about to send
  bus,          \* event_rx
  books,        \* latest.books: token -> the last update of its book
  evaluation,   \* the tick handler: its tick, its `now`, the contracts left
  intents,      \* intent channel
  trouble       \* bound: failures so far

adapterVars == <<task, attempts, subscribed, held>>
loopVars == <<books, evaluation, intents>>
vars == <<healthVars, registryVars, now, tokenIds, adapterVars, bus, loopVars, trouble>>

Feed == Cex \cup {"Market"}
NoEvent == [kind |-> "None"]
Tick == [kind : {"Tick"}, at : Nat]

\* `at` is the time in the message, which the gates read; `received` is
\* history.
Book == [kind : {"Book"}, token : Token, at : Int, received : Nat]

Nothing == [left |-> {}]
Evaluation == [tick : Tick, now : Nat, left : SUBSET Token]

\* An intent carries the time of its signal; what the signal rested on is
\* history.
Intent == [token : Token, signal : Nat, tick : Tick, book : Book]

TypeOK ==
  /\ conn \in [Cex -> ConnectionState] /\ heard \in [Cex -> Nat \cup {Never}]
  /\ DOMAIN entries \subseteq Token /\ failures \in Nat /\ healthy \in BOOLEAN
  /\ now \in 0..MaxTime /\ trouble \in 0..MaxTrouble
  /\ tokenIds \subseteq Token
  /\ task \in [Feed -> {"Idle", "Connecting", "Streaming", "Sending", "Backoff", "Ended"}]
  /\ attempts \in 0..(MaxAttempts + 1)
  /\ subscribed \subseteq Token
  /\ \A f \in Feed : held[f] \in Tick \cup Book \cup {NoEvent}
  /\ Range(bus) \subseteq Tick \cup Book /\ Len(bus) <= BusCapacity
  /\ DOMAIN books \subseteq Token /\ Range(books) \subseteq Book
  /\ evaluation \in Evaluation \cup {Nothing}
  /\ Range(intents) \subseteq Intent /\ Len(intents) <= IntentCapacity

Init ==
  /\ HealthInit /\ RegistryInit /\ now = 0 /\ trouble = 0
  /\ tokenIds = {}
  /\ task = [f \in Feed |-> "Idle"] /\ attempts = 0 /\ subscribed = {}
  /\ held = [f \in Feed |-> NoEvent]
  /\ bus = << >> /\ books = << >> /\ evaluation = Nothing /\ intents = << >>

Trouble == trouble < MaxTrouble /\ trouble' = trouble + 1

-----------------------------------------------------------------------------
(* Discovery, and the start of the adapters.                                *)

\* One request, which may miss markets; the interval's next tick comes
\* whenever it is over.
Refresh ==
  /\ \/ (\E found \in SUBSET Discovered(now) : ApplyDiscovery(found, now)) /\ UNCHANGED trouble
     \/ RecordFailure /\ Trouble
  /\ registryVars' # registryVars
  /\ UNCHANGED <<healthVars, now, tokenIds, adapterVars, bus, loopVars>>

\* wait_for_discovery returns the active contracts once there are some, or
\* nothing when its time is up; then the adapters are spawned.
Spawn ==
  /\ task["Market"] = "Idle"
  /\ \/ healthy /\ ActiveContracts(now) # {} /\ tokenIds' = ActiveContracts(now)
     \/ now > 0 /\ tokenIds' = {}
  /\ task' = [f \in Feed |-> "Connecting"]
  /\ conn' = [f \in Cex |-> "Connecting"]
  /\ UNCHANGED <<heard, registryVars, now, attempts, subscribed, held, bus, loopVars, trouble>>

-----------------------------------------------------------------------------
(* The adapters.                                                            *)

Connect(f) ==
  /\ task[f] = "Connecting"
  /\ task' = [task EXCEPT ![f] = "Streaming"]
  /\ SetState(f, "Connected") /\ UNCHANGED <<heard, held>>

\* The connection fails, or a stream is closed by the server, ends in an
\* error, or cannot answer a ping.
Lose(f) == task[f] \in {"Connecting", "Streaming"} /\ Trouble /\ UNCHANGED <<heard, subscribed, held>>

BackOff(f) == SetState(f, "Reconnecting") /\ task' = [task EXCEPT ![f] = "Backoff"]

End(f) == SetState(f, "Disconnected") /\ task' = [task EXCEPT ![f] = "Ended"]

BackoffEnds(f) ==
  /\ task[f] = "Backoff"
  /\ task' = [task EXCEPT ![f] = "Connecting"]
  /\ SetState(f, "Connecting")
  /\ UNCHANGED <<heard, attempts, subscribed, held, trouble>>

\* A text message: it proves the feed alive even when it is not understood.
Receive(f, Events) ==
  /\ task[f] = "Streaming"
  /\ RecordMessage(f)
  /\ \/ UNCHANGED <<task, held>>
     \/ task' = [task EXCEPT ![f] = "Sending"] /\ \E e \in Events : held' = [held EXCEPT ![f] = e]
  /\ <<task, held, heard>>' # <<task, held, heard>>
  /\ UNCHANGED <<conn, attempts, subscribed, trouble>>

NewTicks == {[kind |-> "Tick", at |-> now]}

\* A book carries the server's time, or the time of its parsing if it has
\* none.
BooksOf(S) == {[kind |-> "Book", token |-> t, at |-> now + skew, received |-> now] :
                 t \in S, skew \in Skews}

\* binance::spawn: the only one that counts its attempts, and gives up.
BinanceTask ==
  /\ "Binance" \in Cex
  /\ \/ Connect("Binance") /\ attempts' = 0 /\ UNCHANGED <<subscribed, trouble>>
     \/ /\ Lose("Binance") /\ attempts' = attempts + 1
        /\ IF attempts + 1 > MaxAttempts THEN End("Binance") ELSE BackOff("Binance")
     \/ BackoffEnds("Binance") \/ Receive("Binance", NewTicks)

\* coinbase::spawn: it ends for good when its subscription fails.
CoinbaseTask ==
  /\ "Coinbase" \in Cex
  /\ \/ Connect("Coinbase") /\ UNCHANGED <<attempts, subscribed, trouble>>
     \/ Lose("Coinbase") /\ BackOff("Coinbase") /\ UNCHANGED attempts
     \/ task["Coinbase"] = "Connecting" /\ Lose("Coinbase") /\ End("Coinbase") /\ UNCHANGED attempts
     \/ BackoffEnds("Coinbase") \/ Receive("Coinbase", NewTicks)

\* polymarket_market::spawn: it asks for each token it was spawned with, in
\* turn, and goes on without the rest when one request fails.
BookStream ==
  \/ Connect("Market") /\ subscribed' = tokenIds /\ UNCHANGED <<attempts, trouble>>
  \/ /\ Connect("Market") /\ Trouble /\ UNCHANGED attempts
     /\ \E some \in SUBSET tokenIds : some # tokenIds /\ subscribed' = some
  \/ Lose("Market") /\ BackOff("Market") /\ UNCHANGED attempts
  \/ BackoffEnds("Market") \/ Receive("Market", BooksOf(subscribed))

\* event_tx.send(event).await: nothing is read while the bus is full.
Send(f) ==
  /\ task[f] = "Sending" /\ Len(bus) < BusCapacity
  /\ bus' = Append(bus, held[f])
  /\ held' = [held EXCEPT ![f] = NoEvent]
  /\ task' = [task EXCEPT ![f] = "Streaming"]
  /\ UNCHANGED <<healthVars, registryVars, now, tokenIds, attempts, subscribed, loopVars, trouble>>

Adapter ==
  /\ BinanceTask \/ CoinbaseTask \/ BookStream
  /\ UNCHANGED <<registryVars, now, tokenIds, bus, loopVars>>

-----------------------------------------------------------------------------
(* The loop.                                                                *)

CexHealthy == \E f \in Cex : IsHealthy(f)

\* The kill switch, the third condition, is taken to be off.
IsSystemReady == healthy /\ CexHealthy

Idle == evaluation = Nothing

\* CexTick, up to the first wait: `now` and the contracts are read once.
TakeTick ==
  /\ Idle /\ bus # << >> /\ Head(bus).kind = "Tick"
  /\ bus' = Tail(bus)
  /\ evaluation' = IF IsSystemReady /\ ActiveContracts(now) # {}
                   THEN [tick |-> Head(bus), now |-> now, left |-> ActiveContracts(now)]
                   ELSE Nothing
  /\ UNCHANGED <<healthVars, registryVars, now, tokenIds, adapterVars, books, intents, trouble>>

\* Gates 2 and 3 of SignalGates: the feeds' health is that of this moment,
\* the ages are measured from the handler's `now`.
DataGates(t) ==
  /\ CexHealthy /\ evaluation.now - evaluation.tick.at <= FeedTolerance
  /\ t \in DOMAIN books /\ evaluation.now - books[t].at <= BookTolerance

\* Mutant of SignalTime: the intent is stamped when it is queued.
QueueTime == now

\* signal_timestamp: the handler's `now`.
SignalTime == evaluation.now

\* The rest of the handler for contract t, once the client has told its
\* health, and on to the wait for the next contract. Gates that read other
\* things than data may refuse any signal, and so does a full channel.
EvaluateContract(t) ==
  /\ ~Idle /\ t \in evaluation.left
  /\ \/ UNCHANGED intents
     \/ /\ DataGates(t) /\ Len(intents) < IntentCapacity
        /\ intents' = Append(intents, [token |-> t, signal |-> SignalTime,
                                       tick |-> evaluation.tick, book |-> books[t]])
  /\ evaluation' = IF evaluation.left = {t} THEN Nothing
                   ELSE [evaluation EXCEPT !.left = @ \ {t}]
  /\ UNCHANGED <<healthVars, registryVars, now, tokenIds, adapterVars, bus, books, trouble>>

HandleBook ==
  /\ Idle /\ bus # << >> /\ Head(bus).kind = "Book"
  /\ books' = [t \in DOMAIN books \cup {Head(bus).token} |->
                 IF t = Head(bus).token THEN Head(bus) ELSE books[t]]
  /\ bus' = Tail(bus)
  /\ UNCHANGED <<healthVars, registryVars, now, tokenIds, adapterVars, evaluation, intents, trouble>>

TakesIntent ==
  /\ Idle /\ intents # << >> /\ intents' = Tail(intents)
  /\ UNCHANGED <<healthVars, registryVars, now, tokenIds, adapterVars, bus, books, evaluation,
                 trouble>>

\* submit_intent, check 3, behind which the order is registered and its
\* request leaves.
Submit == TakesIntent /\ now - Head(intents).signal <= SignalTolerance

\* It refuses: the signal is too old, or the order is a duplicate or one too
\* many.
Refuse == TakesIntent

Advance ==
  /\ now < MaxTime /\ now' = now + 1
  /\ UNCHANGED <<healthVars, registryVars, tokenIds, adapterVars, bus, loopVars, trouble>>

Loop == TakeTick \/ (\E t \in Token : EvaluateContract(t)) \/ HandleBook \/ Submit \/ Refuse

Next == Refresh \/ Spawn \/ Adapter \/ (\E f \in Feed : Send(f)) \/ Loop \/ Advance

Spec == Init /\ [][Next]_vars

-----------------------------------------------------------------------------
\* What the gates and the readiness check believe of a feed is true of its
\* adapter: a healthy feed is connected, in its read loop, and was heard of
\* within the threshold (health.rs 55-57, binance.rs 44-142).
HealthyMeansStreaming ==
  \A f \in Cex : IsHealthy(f) => /\ task[f] \in {"Streaming", "Sending"}
                                 /\ now - heard[f] <= StaleAfter

\* An order rests on data that is fresh when it leaves, although the age of
\* tick and book was last looked at with the clock as it was before the
\* handler's waits, and the channel and the engine delay it after that: the
\* three tolerances add up, and the server's clock counts in full (app.rs
\* 411-453, pipeline.rs 203, submit.rs 238-249). Its market, checked with the
\* same old clock, is over for at most as long as a signal may wait.
FreshAtSubmission ==
  Submit => LET i == Head(intents)
            IN /\ now - i.tick.at <= FeedTolerance + SignalTolerance
               /\ now - i.book.received <= BookTolerance + SignalTolerance + MaxSkew
               /\ now - Expiry[i.token] < SignalTolerance
               /\ \E f \in Cex : heard[f] # Never /\ now - heard[f] <= StaleAfter + SignalTolerance

OrdersOnFreshData == [][FreshAtSubmission]_vars

\* The registry hides no open market from the tick handler, whatever the
\* answers to discovery were.
RegistryHidesOnlyExpired == HidesOnlyExpired(now)
=============================================================================
