-------------------------- MODULE MarketData_proofs --------------------------
(***************************************************************************)
(* Proofs about MarketData, for any tokens with any listing and expiry,    *)
(* any tolerances, thresholds, skews and queues, with or without the       *)
(* second feed: what an order rests on when it leaves, the health of a     *)
(* feed, and what the registry hides.                                      *)
(***************************************************************************)
EXTENDS MarketData, TLAPS

TaskState == {"Idle", "Connecting", "Streaming", "Sending", "Backoff", "Ended"}

\* The events that may be on their way: ticks, and books whose time is not
\* further ahead than the server's clock.
KnownBook == {b \in Book : b.at <= b.received + MaxSkew}
Known == Tick \cup KnownBook

Control ==
  /\ now \in Nat
  /\ DOMAIN entries \subseteq Token
  /\ task \in [Feed -> TaskState]
  /\ conn \in [Cex -> ConnectionState]
  /\ heard \in [Cex -> Nat \cup {Never}]
  /\ DOMAIN held = Feed
  /\ tokenIds \subseteq Token /\ subscribed \subseteq Token

\* What moves and what is kept are known events.
Carried ==
  /\ bus \in Seq(Known)
  /\ \A f \in Feed : task[f] = "Sending" => held[f] \in Known
  /\ \A t \in DOMAIN books : books[t] \in KnownBook

\* A handler's clock is not ahead, and at it no contract left was expired.
Position ==
  evaluation # Nothing =>
    /\ evaluation \in Evaluation /\ evaluation.now <= now
    /\ \A t \in evaluation.left : evaluation.now < Expiry[t]

\* An intent rests on data that was fresh at its signal.
Rests(i) ==
  /\ i.signal <= now
  /\ i.signal - i.tick.at <= FeedTolerance
  /\ i.signal - i.book.at <= BookTolerance /\ i.book \in KnownBook
  /\ i.signal < Expiry[i.token]
  /\ \E f \in Cex : heard[f] # Never /\ i.signal - heard[f] <= StaleAfter

Queued == intents \in Seq(Intent) /\ \A k \in 1..Len(intents) : Rests(intents[k])

\* A feed that health calls connected is in its read loop.
Live == \A f \in Cex : conn[f] = "Connected" => task[f] \in {"Streaming", "Sending"}

IInv == Control /\ Carried /\ Position /\ Queued /\ Live /\ RegistryHidesOnlyExpired

-----------------------------------------------------------------------------
\* The invariant holds at the start.
LEMMA StartInv == Init => IInv
  BY FeedAssumption, TokenAssumption
  DEF Init, IInv, Control, Carried, Position, Queued, Live, HealthInit, RegistryInit,
      RegistryHidesOnlyExpired, HidesOnlyExpired, TaskState, ConnectionState, Feed, Known

\* A connection's state is written to the feed's own entry, or nowhere.
LEMMA SetStateShape ==
  ASSUME Control, NEW f \in Feed, NEW state \in ConnectionState, SetState(f, state)
  PROVE  /\ conn' \in [Cex -> ConnectionState]
         /\ \A g \in Cex : conn'[g] = IF g = f THEN state ELSE conn[g]
  BY FeedAssumption DEF Control, SetState, Feed

\* The times of messages stay or become the present one.
HeardGrows == /\ heard' \in [Cex -> Nat \cup {Never}]
              /\ \A f \in Cex : heard'[f] = heard[f] \/ heard'[f] = now

\* What one adapter step does to its own feed and leaves alone of the others.
AdapterShape(f) ==
  /\ task' \in [Feed -> TaskState] /\ \A g \in Feed : g # f => task'[g] = task[g]
  /\ conn' \in [Cex -> ConnectionState] /\ \A g \in Cex : g # f => conn'[g] = conn[g]
  /\ f \in Cex /\ conn'[f] = "Connected" => task'[f] \in {"Streaming", "Sending"}
  /\ HeardGrows
  /\ DOMAIN held' = Feed /\ \A g \in Feed : g # f => held'[g] = held[g]
  /\ subscribed' \subseteq Token
  /\ task'[f] = "Sending" => held'[f] \in Known

\* Connecting, losing the connection and waiting have that shape.
LEMMA ControlSteps ==
  ASSUME IInv, NEW f \in Feed, subscribed' \subseteq Token,
         Connect(f) \/ (Lose(f) /\ (BackOff(f) \/ End(f))) \/ BackoffEnds(f)
  PROVE  AdapterShape(f)
<1> USE DEF IInv, Control, ConnectionState, HeardGrows
<1>1. ASSUME Connect(f) PROVE AdapterShape(f)
  BY <1>1, SetStateShape DEF Connect, AdapterShape, TaskState
<1>2. ASSUME Lose(f), BackOff(f) PROVE AdapterShape(f)
  BY <1>2, SetStateShape DEF Lose, BackOff, AdapterShape, TaskState
<1>3. ASSUME Lose(f), End(f) PROVE AdapterShape(f)
  BY <1>3, SetStateShape DEF Lose, End, AdapterShape, TaskState
<1>4. ASSUME BackoffEnds(f) PROVE AdapterShape(f)
  BY <1>4, SetStateShape DEF BackoffEnds, AdapterShape, TaskState
<1> QED
  BY <1>1, <1>2, <1>3, <1>4

\* So has the receipt of a message, if what it stands for may move.
LEMMA ReceiveStep ==
  ASSUME IInv, NEW f \in Feed, NEW Events, Events \subseteq Known, Receive(f, Events)
  PROVE  AdapterShape(f)
<1> USE DEF IInv, Control, Carried, Live, Receive, AdapterShape, TaskState
<1>1. HeardGrows
  BY FeedAssumption DEF HeardGrows, RecordMessage
<1>2. CASE UNCHANGED <<task, held>>
  BY <1>1, <1>2
<1>3. ASSUME NEW e \in Events, task' = [task EXCEPT ![f] = "Sending"],
             held' = [held EXCEPT ![f] = e]
      PROVE  AdapterShape(f)
  BY <1>1, <1>3
<1> QED
  BY <1>2, <1>3

\* Every step of an adapter has the shape.
LEMMA AdapterSteps ==
  ASSUME IInv, Adapter
  PROVE  \E f \in Feed : AdapterShape(f)
<1>1. NewTicks \subseteq Known
  BY DEF IInv, Control, NewTicks, Known, Tick
<1>2. BooksOf(subscribed) \subseteq Known
  <2> SUFFICES ASSUME NEW t \in subscribed, NEW s \in Skews
               PROVE  [kind |-> "Book", token |-> t, at |-> now + s, received |-> now] \in KnownBook
    BY DEF BooksOf, Known
  <2>1. now \in Nat /\ t \in Token /\ s \in Int /\ s <= MaxSkew /\ MaxSkew \in Nat
    BY MarketDataAssumption DEF IInv, Control
  <2> QED
    BY <2>1 DEF KnownBook, Book
<1>3. subscribed \subseteq Token /\ tokenIds \subseteq Token
  BY DEF IInv, Control
<1>4. "Market" \in Feed /\ Cex \subseteq Feed
  BY DEF Feed
<1>5. CASE BinanceTask
  <2>1. "Binance" \in Feed
    BY <1>5, <1>4 DEF BinanceTask
  <2>2. ASSUME Receive("Binance", NewTicks) PROVE AdapterShape("Binance")
    BY <2>1, <2>2, <1>1, ReceiveStep
  <2>3. CASE ~Receive("Binance", NewTicks)
    <3>1. subscribed' = subscribed
      BY <1>5, <2>3 DEF BinanceTask, Lose, BackoffEnds
    <3>2. Connect("Binance") \/ (Lose("Binance") /\ (BackOff("Binance") \/ End("Binance")))
            \/ BackoffEnds("Binance")
      BY <1>5, <2>3 DEF BinanceTask
    <3> QED
      BY <2>1, <3>1, <3>2, <1>3, ControlSteps
  <2> QED
    BY <2>1, <2>2, <2>3
<1>6. CASE CoinbaseTask
  <2>1. "Coinbase" \in Feed
    BY <1>6, <1>4 DEF CoinbaseTask
  <2>2. ASSUME Receive("Coinbase", NewTicks) PROVE AdapterShape("Coinbase")
    BY <2>1, <2>2, <1>1, ReceiveStep
  <2>3. CASE ~Receive("Coinbase", NewTicks)
    <3>1. subscribed' = subscribed
      BY <1>6, <2>3 DEF CoinbaseTask, Lose, BackoffEnds
    <3>2. Connect("Coinbase") \/ (Lose("Coinbase") /\ (BackOff("Coinbase") \/ End("Coinbase")))
            \/ BackoffEnds("Coinbase")
      BY <1>6, <2>3 DEF CoinbaseTask
    <3> QED
      BY <2>1, <3>1, <3>2, <1>3, ControlSteps
  <2> QED
    BY <2>1, <2>2, <2>3
<1>7. CASE BookStream
  <2>1. ASSUME Receive("Market", BooksOf(subscribed)) PROVE AdapterShape("Market")
    BY <2>1, <1>2, <1>4, ReceiveStep
  <2>2. CASE ~Receive("Market", BooksOf(subscribed))
    <3>1. subscribed' \subseteq Token
      BY <1>7, <2>2, <1>3 DEF BookStream, Lose, BackoffEnds
    <3>2. Connect("Market") \/ (Lose("Market") /\ (BackOff("Market") \/ End("Market")))
            \/ BackoffEnds("Market")
      BY <1>7, <2>2 DEF BookStream
    <3> QED
      BY <3>1, <3>2, <1>4, ControlSteps
  <2> QED
    BY <2>1, <2>2, <1>4
<1> QED
  BY <1>5, <1>6, <1>7 DEF Adapter
-----------------------------------------------------------------------------
\* What a queued intent rests on stays fresh as of its signal, as long as the
\* clock and the times of messages only grow.
LEMMA QueuedKept ==
  ASSUME IInv, HeardGrows, now' \in Nat, now <= now',
         intents' \in Seq(Intent),
         \A k \in 1..Len(intents') : \E j \in 1..Len(intents) : intents'[k] = intents[j]
  PROVE  Queued'
<1> SUFFICES ASSUME NEW i \in Intent, Rests(i) PROVE Rests(i)'
  BY DEF IInv, Queued
<1>1. i.signal \in Nat /\ i.signal <= now /\ now \in Nat /\ StaleAfter \in Nat /\ Never \notin Nat
  BY HealthAssumption DEF Rests, Intent, IInv, Control
<1>2. \E f \in Cex : heard'[f] # Never /\ i.signal - heard'[f] <= StaleAfter
  <2>1. PICK f \in Cex : heard[f] # Never /\ i.signal - heard[f] <= StaleAfter
    BY DEF Rests
  <2> QED
    BY <2>1, <1>1 DEF HeardGrows
<1>3. i.signal <= now'
  BY <1>1
<1> QED
  BY <1>2, <1>3 DEF Rests

\* The handler's position stays sound while the clock grows.
LEMMA PositionKept ==
  ASSUME IInv, now' \in Nat, now <= now', evaluation' = evaluation
  PROVE  Position'
<1> SUFFICES ASSUME evaluation # Nothing PROVE evaluation.now <= now'
  BY DEF IInv, Position
<1> QED
  BY DEF IInv, Control, Position, Evaluation

\* A step that is not one of the loop's and leaves the clock alone.
LEMMA OutsideInv ==
  ASSUME IInv, UNCHANGED <<now, loopVars>>, HeardGrows
  PROVE  Position' /\ Queued' /\ \A t \in DOMAIN books' : books'[t] \in KnownBook
<1>1. UNCHANGED <<books, evaluation, intents>> /\ now \in Nat
  BY DEF loopVars, IInv, Control
<1>2. Queued'
  BY <1>1, QueuedKept DEF IInv, Queued
<1> QED
  BY <1>1, <1>2, PositionKept DEF IInv, Carried

\* The adapters keep the invariant.
LEMMA AdapterInv == ASSUME IInv, Adapter PROVE IInv'
<1>1. PICK f \in Feed : AdapterShape(f)
  BY AdapterSteps
<1>2. UNCHANGED <<now, entries, tokenIds, bus, loopVars>>
  BY DEF Adapter, registryVars
<1>3. Control'
  BY <1>1, <1>2 DEF IInv, Control, AdapterShape, HeardGrows
<1>4. Position' /\ Queued' /\ \A t \in DOMAIN books' : books'[t] \in KnownBook
  BY <1>1, <1>2, OutsideInv DEF AdapterShape
<1>5. Carried'
  <2>1. \A g \in Feed : task'[g] = "Sending" => held'[g] \in Known
    BY <1>1 DEF IInv, Carried, AdapterShape
  <2> QED
    BY <1>2, <1>4, <2>1 DEF IInv, Carried
<1>6. Live'
  BY <1>1 DEF IInv, Live, AdapterShape, Feed
<1>7. RegistryHidesOnlyExpired'
  BY <1>2 DEF IInv, RegistryHidesOnlyExpired, HidesOnlyExpired, IsExpired
<1> QED
  BY <1>3, <1>4, <1>5, <1>6, <1>7 DEF IInv

\* A refresh adds entries that are open and cools down expired ones only.
LEMMA RefreshInv == ASSUME IInv, Refresh PROVE IInv'
<1>1. UNCHANGED <<now, tokenIds, bus, task, conn, heard, held, subscribed, loopVars>>
  BY DEF Refresh, healthVars, adapterVars
<1>2. DOMAIN entries' \subseteq Token /\ RegistryHidesOnlyExpired'
  <2>1. ASSUME NEW found \in SUBSET Discovered(now), ApplyDiscovery(found, now)
        PROVE  DOMAIN entries' \subseteq Token /\ RegistryHidesOnlyExpired'
    BY <1>1, <2>1 DEF ApplyDiscovery, Discovered, CoolsDown, IInv, Control,
       RegistryHidesOnlyExpired, HidesOnlyExpired, IsExpired
  <2>2. ASSUME RecordFailure PROVE DOMAIN entries' \subseteq Token /\ RegistryHidesOnlyExpired'
    BY <1>1, <2>2 DEF RecordFailure, IInv, Control, RegistryHidesOnlyExpired, HidesOnlyExpired,
       IsExpired
  <2> QED
    BY <2>1, <2>2 DEF Refresh
<1>3. Control' /\ Live'
  BY <1>1, <1>2 DEF IInv, Control, Live
<1>4. Position' /\ Queued' /\ Carried'
  BY <1>1, OutsideInv DEF IInv, Control, Carried, HeardGrows
<1> QED
  BY <1>2, <1>3, <1>4 DEF IInv

\* Spawning the adapters moves nothing.
LEMMA SpawnInv == ASSUME IInv, Spawn PROVE IInv'
<1>1. UNCHANGED <<now, entries, bus, heard, held, subscribed, loopVars>>
  BY DEF Spawn, registryVars
<1>2. tokenIds' \subseteq Token
  BY DEF Spawn, ActiveContracts, IInv, Control
<1>3. Control'
  BY <1>1, <1>2 DEF Spawn, IInv, Control, TaskState, ConnectionState
<1>4. Position' /\ Queued' /\ Carried'
  <2>1. \A f \in Feed : task'[f] = "Connecting"
    BY DEF Spawn
  <2> QED
    BY <1>1, <2>1, OutsideInv DEF IInv, Control, Carried, HeardGrows
<1>5. Live'
  BY DEF Spawn, Live
<1>6. RegistryHidesOnlyExpired'
  BY <1>1 DEF IInv, RegistryHidesOnlyExpired, HidesOnlyExpired, IsExpired
<1> QED
  BY <1>3, <1>4, <1>5, <1>6 DEF IInv

\* What is sent onto the bus was on its way.
LEMMA SendInv == ASSUME IInv, NEW f \in Feed, Send(f) PROVE IInv'
<1>1. UNCHANGED <<now, entries, tokenIds, conn, heard, subscribed, loopVars>>
  BY DEF Send, registryVars, healthVars
<1>2. Control'
  BY <1>1 DEF Send, IInv, Control, TaskState
<1>3. Position' /\ Queued' /\ \A t \in DOMAIN books' : books'[t] \in KnownBook
  BY <1>1, OutsideInv DEF IInv, Control, HeardGrows
<1>4. Carried'
  <2>1. bus' \in Seq(Known)
    BY DEF Send, IInv, Carried
  <2>2. \A g \in Feed : task'[g] = "Sending" => held'[g] \in Known
    BY DEF Send, IInv, Control, Carried
  <2> QED
    BY <1>3, <2>1, <2>2 DEF Carried
<1>5. Live'
  BY <1>1 DEF Send, IInv, Control, Live, Feed
<1>6. RegistryHidesOnlyExpired'
  BY <1>1 DEF IInv, RegistryHidesOnlyExpired, HidesOnlyExpired, IsExpired
<1> QED
  BY <1>2, <1>3, <1>4, <1>5, <1>6 DEF IInv
-----------------------------------------------------------------------------
\* What every step of the loop leaves alone.
LEMMA LoopFrame ==
  ASSUME IInv, UNCHANGED <<healthVars, registryVars, now, tokenIds, adapterVars>>
  PROVE  /\ Control' /\ Live' /\ RegistryHidesOnlyExpired' /\ HeardGrows
         /\ now \in Nat /\ now' = now
         /\ \A f \in Feed : task'[f] = "Sending" => held'[f] \in Known
<1>1. UNCHANGED <<now, entries, tokenIds, conn, heard, task, held, subscribed>>
  BY DEF healthVars, registryVars, adapterVars
<1>2. Control' /\ Live' /\ HeardGrows
  BY <1>1 DEF IInv, Control, Live, HeardGrows
<1>3. RegistryHidesOnlyExpired'
  BY <1>1 DEF IInv, RegistryHidesOnlyExpired, HidesOnlyExpired, IsExpired
<1> QED
  BY <1>1, <1>2, <1>3 DEF IInv, Control, Carried

\* The handler of a tick begins with the clock and the contracts of the
\* moment, none of which is expired.
LEMMA TakeTickInv == ASSUME IInv, TakeTick PROVE IInv'
<1>1. UNCHANGED <<healthVars, registryVars, now, tokenIds, adapterVars, books, intents>>
  BY DEF TakeTick
<1>2. Control' /\ Live' /\ RegistryHidesOnlyExpired' /\ HeardGrows /\ now \in Nat /\ now' = now
        /\ \A f \in Feed : task'[f] = "Sending" => held'[f] \in Known
  BY <1>1, LoopFrame
<1>3. Carried'
  BY <1>1, <1>2 DEF TakeTick, IInv, Carried
<1>4. Queued'
  BY <1>1, <1>2, QueuedKept DEF IInv, Queued
<1>5. Position'
  <2> SUFFICES ASSUME evaluation' # Nothing PROVE Position'
    BY DEF Position
  <2>1. evaluation' = [tick |-> Head(bus), now |-> now, left |-> ActiveContracts(now)]
    BY DEF TakeTick
  <2>2. Head(bus) \in Tick
    <3>1. Head(bus) \in Known /\ Head(bus).kind = "Tick"
      BY DEF TakeTick, IInv, Carried
    <3> QED
      BY <3>1 DEF Known, KnownBook, Book
  <2>3. ActiveContracts(now) \subseteq Token
    BY DEF ActiveContracts, IInv, Control
  <2>4. \A t \in ActiveContracts(now) : now < Expiry[t]
    BY <2>3, <1>2, TokenAssumption DEF ActiveContracts, IsExpired
  <2>5. evaluation' \in Evaluation
    BY <2>1, <2>2, <2>3, <1>2 DEF Evaluation
  <2> QED
    BY <2>1, <2>4, <2>5, <1>2 DEF Position
<1> QED
  BY <1>2, <1>3, <1>4, <1>5 DEF IInv

\* A signal that passes the gates rests on data that is fresh by the
\* handler's clock, and on a feed healthy at this moment.
LEMMA GatesPassed ==
  ASSUME IInv, NEW t \in Token, ~Idle, t \in evaluation.left, DataGates(t),
         NEW i, i = [token |-> t, signal |-> SignalTime, tick |-> evaluation.tick,
                     book |-> books[t]]
  PROVE  i \in Intent /\ Rests(i)
<1>1. evaluation.now \in Nat /\ evaluation.now <= now /\ evaluation.tick \in Tick
        /\ evaluation.now < Expiry[t]
  BY DEF Idle, IInv, Position, Evaluation
<1>2. books[t] \in KnownBook /\ books[t] \in Book
  BY DEF DataGates, IInv, Carried, KnownBook
<1>3. i \in Intent
  BY <1>1, <1>2 DEF Intent, SignalTime
<1>4. \E f \in Cex : heard[f] # Never /\ evaluation.now - heard[f] <= StaleAfter
  <2>1. PICK f \in Cex : IsHealthy(f)
    BY DEF DataGates, CexHealthy
  <2>2. heard[f] # Never /\ heard[f] \in Nat /\ now - heard[f] <= StaleAfter
    <3>1. heard[f] # Never /\ ~(now - heard[f] > StaleAfter)
      BY <2>1 DEF IsHealthy, IsStale
    <3> QED
      BY <3>1, HealthAssumption DEF IInv, Control
  <2>3. now \in Nat /\ StaleAfter \in Nat
    BY HealthAssumption DEF IInv, Control
  <2> QED
    BY <2>2, <2>3, <1>1
<1>5. /\ evaluation.now - evaluation.tick.at <= FeedTolerance
      /\ evaluation.now - books[t].at <= BookTolerance
  BY DEF DataGates
<1> QED
  BY <1>1, <1>2, <1>3, <1>4, <1>5 DEF Rests, SignalTime

\* One contract evaluated.
LEMMA EvaluateInv == ASSUME IInv, NEW t \in Token, EvaluateContract(t) PROVE IInv'
<1>1. UNCHANGED <<healthVars, registryVars, now, tokenIds, adapterVars, bus, books>>
  BY DEF EvaluateContract
<1>2. Control' /\ Live' /\ RegistryHidesOnlyExpired' /\ HeardGrows /\ now \in Nat /\ now' = now
        /\ \A f \in Feed : task'[f] = "Sending" => held'[f] \in Known
  BY <1>1, LoopFrame
<1>3. Carried'
  BY <1>1, <1>2 DEF IInv, Carried
<1>4. Position'
  <2>1. evaluation \in Evaluation /\ evaluation.now <= now
          /\ \A u \in evaluation.left : evaluation.now < Expiry[u]
    BY DEF EvaluateContract, Idle, IInv, Position
  <2>2. CASE evaluation.left = {t}
    BY <2>2 DEF EvaluateContract, Position
  <2>3. CASE evaluation.left # {t}
    <3>1. evaluation' = [evaluation EXCEPT !.left = @ \ {t}]
      BY <2>3 DEF EvaluateContract
    <3>2. evaluation' \in Evaluation /\ evaluation'.now = evaluation.now
            /\ evaluation'.left \subseteq evaluation.left
      BY <2>1, <3>1 DEF Evaluation
    <3> QED
      BY <2>1, <3>2, <1>2 DEF Position
  <2> QED
    BY <2>2, <2>3
<1>5. Queued'
  <2>1. CASE UNCHANGED intents
    BY <2>1, <1>2, QueuedKept DEF IInv, Queued
  <2>2. CASE ~UNCHANGED intents
    <3> DEFINE i == [token |-> t, signal |-> SignalTime, tick |-> evaluation.tick,
                     book |-> books[t]]
    <3>1. DataGates(t) /\ intents' = Append(intents, i)
      BY <2>2 DEF EvaluateContract
    <3>2. i \in Intent /\ Rests(i)
      BY <3>1, GatesPassed DEF EvaluateContract
    <3> HIDE DEF i
    <3>3. heard' = heard /\ now' = now
      BY <1>1 DEF healthVars
    <3>4. \A j \in Intent : Rests(j) => Rests(j)'
      BY <3>3 DEF Rests
    <3> QED
      BY <3>1, <3>2, <3>4 DEF IInv, Queued
  <2> QED
    BY <2>1, <2>2
<1> QED
  BY <1>2, <1>3, <1>4, <1>5 DEF IInv

\* A book that is kept is a known one.
LEMMA HandleBookInv == ASSUME IInv, HandleBook PROVE IInv'
<1>1. UNCHANGED <<healthVars, registryVars, now, tokenIds, adapterVars, evaluation, intents>>
  BY DEF HandleBook
<1>2. Control' /\ Live' /\ RegistryHidesOnlyExpired' /\ HeardGrows /\ now \in Nat /\ now' = now
        /\ \A f \in Feed : task'[f] = "Sending" => held'[f] \in Known
  BY <1>1, LoopFrame
<1>3. Head(bus) \in KnownBook /\ bus' \in Seq(Known)
  <2>1. Head(bus) \in Known /\ Head(bus).kind = "Book" /\ bus' \in Seq(Known)
    BY DEF HandleBook, IInv, Carried
  <2> QED
    BY <2>1 DEF Known, Tick
<1>4. Carried'
  <2>1. \A t \in DOMAIN books' : books'[t] \in KnownBook
    BY <1>3 DEF HandleBook, IInv, Carried
  <2> QED
    BY <2>1, <1>2, <1>3 DEF Carried
<1>5. Position' /\ Queued'
  BY <1>1, <1>2, PositionKept, QueuedKept DEF IInv, Queued
<1> QED
  BY <1>2, <1>4, <1>5 DEF IInv

\* An intent that is taken leaves the others.
LEMMA TakesIntentInv == ASSUME IInv, TakesIntent PROVE IInv'
<1>1. UNCHANGED <<healthVars, registryVars, now, tokenIds, adapterVars, bus, books, evaluation>>
  BY DEF TakesIntent
<1>2. Control' /\ Live' /\ RegistryHidesOnlyExpired' /\ HeardGrows /\ now \in Nat /\ now' = now
        /\ \A f \in Feed : task'[f] = "Sending" => held'[f] \in Known
  BY <1>1, LoopFrame
<1>3. Carried'
  BY <1>1, <1>2 DEF IInv, Carried
<1>4. Position'
  BY <1>1, <1>2, PositionKept
<1>5. Queued'
  <2>1. intents' = Tail(intents) /\ intents # << >> /\ intents \in Seq(Intent)
    BY DEF TakesIntent, IInv, Queued
  <2>2. intents' \in Seq(Intent) /\ Len(intents') = Len(intents) - 1
          /\ \A k \in 1..Len(intents') : k + 1 \in 1..Len(intents) /\ intents'[k] = intents[k + 1]
    BY <2>1
  <2> QED
    BY <2>2, <1>2, QueuedKept
<1> QED
  BY <1>2, <1>3, <1>4, <1>5 DEF IInv

\* Every step of the loop keeps the invariant.
LEMMA LoopInv == ASSUME IInv, Loop PROVE IInv'
  BY TakeTickInv, EvaluateInv, HandleBookInv, TakesIntentInv DEF Loop, Submit, Refuse

\* Time only ever ends markets.
LEMMA AdvanceInv == ASSUME IInv, Advance PROVE IInv'
<1>1. UNCHANGED <<entries, tokenIds, bus, books, evaluation, intents, task, conn, heard, held,
                  subscribed>>
  BY DEF Advance, healthVars, registryVars, adapterVars, loopVars
<1>2. now \in Nat /\ now' = now + 1
  BY DEF Advance, IInv, Control
<1>3. RegistryHidesOnlyExpired'
  BY <1>1, <1>2, TokenAssumption DEF IInv, Control, RegistryHidesOnlyExpired, HidesOnlyExpired,
     IsExpired
<1>4. Control' /\ Live' /\ Carried' /\ HeardGrows
  BY <1>1, <1>2 DEF IInv, Control, Live, Carried, HeardGrows
<1>5. Position' /\ Queued'
  BY <1>1, <1>2, <1>4, PositionKept, QueuedKept DEF IInv, Queued
<1> QED
  BY <1>3, <1>4, <1>5 DEF IInv

\* A step that changes nothing.
LEMMA StutterInv == ASSUME IInv, UNCHANGED vars PROVE IInv'
<1>1. UNCHANGED <<healthVars, registryVars, now, tokenIds, adapterVars, bus, books, evaluation,
                  intents>>
  BY DEF vars, loopVars
<1>2. Control' /\ Live' /\ RegistryHidesOnlyExpired' /\ HeardGrows /\ now \in Nat /\ now' = now
        /\ \A f \in Feed : task'[f] = "Sending" => held'[f] \in Known
  BY <1>1, LoopFrame
<1>3. Position' /\ Queued' /\ Carried'
  BY <1>1, <1>2, PositionKept, QueuedKept DEF IInv, Queued, Carried
<1> QED
  BY <1>2, <1>3 DEF IInv

\* Every step keeps the invariant.
LEMMA StepInv == IInv /\ [Next]_vars => IInv'
  BY AdapterInv, RefreshInv, SpawnInv, SendInv, LoopInv, AdvanceInv, StutterInv DEF Next

\* The invariant holds in every reachable state.
LEMMA Invariant == Spec => []IInv
  BY StartInv, StepInv, PTL DEF Spec

-----------------------------------------------------------------------------
\* What is called healthy is being read and was heard of in time, for any
\* threshold and any number of reconnects.
THEOREM HealthIsReal == Spec => []HealthyMeansStreaming
<1>1. IInv => HealthyMeansStreaming
  <2> SUFFICES ASSUME IInv, NEW f \in Cex, IsHealthy(f)
               PROVE  task[f] \in {"Streaming", "Sending"} /\ now - heard[f] <= StaleAfter
    BY DEF HealthyMeansStreaming
  <2>1. task[f] \in {"Streaming", "Sending"}
    BY DEF IInv, Live, IsHealthy
  <2>2. now \in Nat /\ heard[f] \in Nat /\ ~(now - heard[f] > StaleAfter)
    BY DEF IInv, Control, IsHealthy, IsStale
  <2> QED
    BY <2>1, <2>2, HealthAssumption
<1> QED
  BY <1>1, Invariant, PTL

\* An order rests on data no older than the gate's and the engine's tolerances
\* together, and the skew of the server's clock, when it leaves: for any
\* number of waits of the handler and any time in the queue.
THEOREM FreshData == Spec => OrdersOnFreshData
<1>1. IInv => FreshAtSubmission
  <2> SUFFICES ASSUME IInv, Submit PROVE FreshAtSubmission
    BY DEF FreshAtSubmission
  <2> DEFINE i == Head(intents)
  <2>1. i \in Intent /\ Rests(i)
    <3>1. intents # << >> /\ intents \in Seq(Intent)
      BY DEF Submit, TakesIntent, IInv, Queued
    <3>2. i = intents[1] /\ 1 \in 1..Len(intents)
      BY <3>1
    <3> QED
      BY <3>1, <3>2 DEF IInv, Queued
  <2>2. now - i.signal <= SignalTolerance
    BY DEF Submit
  <2> HIDE DEF i
  <2>3. i.signal \in Nat /\ i.tick.at \in Nat /\ i.book.at \in Int /\ i.book.received \in Nat
          /\ i.token \in Token /\ i.book.at <= i.book.received + MaxSkew
    BY <2>1 DEF Intent, Tick, Book, Rests, KnownBook
  <2>4. now \in Nat /\ FeedTolerance \in Nat /\ BookTolerance \in Nat /\ SignalTolerance \in Nat
          /\ MaxSkew \in Nat /\ StaleAfter \in Nat /\ Expiry[i.token] \in Nat
    BY <2>3, MarketDataAssumption, HealthAssumption, TokenAssumption DEF IInv, Control
  <2>5. now - i.tick.at <= FeedTolerance + SignalTolerance
    BY <2>1, <2>2, <2>3, <2>4 DEF Rests
  <2>6. now - i.book.received <= BookTolerance + SignalTolerance + MaxSkew
    BY <2>1, <2>2, <2>3, <2>4 DEF Rests
  <2>7. now - Expiry[i.token] < SignalTolerance
    BY <2>1, <2>2, <2>3, <2>4 DEF Rests
  <2>8. \E f \in Cex : heard[f] # Never /\ now - heard[f] <= StaleAfter + SignalTolerance
    <3>1. PICK f \in Cex : heard[f] # Never /\ i.signal - heard[f] <= StaleAfter
      BY <2>1 DEF Rests
    <3>2. heard[f] \in Nat
      BY <3>1 DEF IInv, Control
    <3> QED
      BY <3>1, <3>2, <2>2, <2>3, <2>4
  <2> QED
    BY <2>5, <2>6, <2>7, <2>8 DEF FreshAtSubmission, i
<1> QED
  BY <1>1, Invariant, PTL DEF OrdersOnFreshData

\* The registry never hides an open market, whatever refreshes return.
THEOREM HidesExpiredOnly == Spec => []RegistryHidesOnlyExpired
<1>1. IInv => RegistryHidesOnlyExpired
  BY DEF IInv
<1> QED
  BY <1>1, Invariant, PTL
=============================================================================
