------------------------------- MODULE Venue --------------------------------
(***************************************************************************)
(* What is behind the ExchangeClient trait (execution/client.rs), and what *)
(* the user WebSocket (feeds/polymarket_user.rs) tells of it.              *)
(*                                                                         *)
(* "Simulation" is SimulationClient, the only client in the repository,    *)
(* which app.rs wires in every mode: it fills an order when it is asked to *)
(* submit it, tells so in its answer only, and its calls never fail.       *)
(*                                                                         *)
(* "Exchange" is what the trait is for; its client and the venue behind it *)
(* are not in the repository, and this is an assumption about them.  It    *)
(* takes a client order id once, however often the request is repeated; it *)
(* may act on a request long after the client has given up on it; and it   *)
(* reports what it did on one ordered stream of messages.                  *)
(***************************************************************************)
EXTENDS Domain, Naturals, Sequences

CONSTANTS Clients,      \* the clients an order may be sent by
          FillPrices,   \* prices at which the exchange may fill an order
          MaxFaults     \* bound: messages the stream may lose or repeat

ASSUME VenueAssumption == /\ Clients \subseteq {"Exchange", "Simulation"}
                          /\ FillPrices \subseteq Nat /\ MaxFaults \in Nat

VARIABLES venue,    \* orders the venue was asked for -> what it made of them
          wire,     \* user stream: messages sent and not yet received
          faults    \* messages lost or repeated so far

venueVars == <<venue, wire, faults>>

VenueOrder == [contract : Contract, price : Nat, size : Nat, filled : Nat,
               cost : Nat,
               status : {"Requested", "Open", "Filled", "Canceled", "Rejected"}]

\* What crosses the event bus: messages of the venue and risk events.
AckEvent(o) == [type |-> "OrderAck", order |-> o]
FillEvent(o, c, n, p, left) ==
  [type |-> "Fill", order |-> o, contract |-> c, size |-> n, price |-> p,
   remaining |-> left]
StateChangeEvent(o, s) == [type |-> "OrderStateChange", order |-> o, state |-> s]

VenueMessage ==
       [type : {"OrderAck"}, order : OrderId]
  \cup [type : {"Fill"}, order : OrderId, contract : Contract, size : Nat,
        price : Nat, remaining : Nat]
  \cup [type : {"OrderStateChange"}, order : OrderId,
        state : {"Canceled", "Rejected"}]

VenueTypeOK ==
  /\ DOMAIN venue \subseteq OrderId
  /\ venue \in [DOMAIN venue -> VenueOrder]
  /\ wire \in Seq(VenueMessage)
  /\ faults \in 0..MaxFaults

VenueInit == venue = << >> /\ wire = << >> /\ faults = 0

-----------------------------------------------------------------------------
\* A request leaves for the venue; a repeated one is recognised by its id.
Request(o, c, price, size) ==
  /\ venue' = Put(venue, o, [contract |-> c, price |-> price, size |-> size,
                            filled |-> 0, cost |-> 0, status |-> "Requested"])
  /\ UNCHANGED <<wire, faults>>

Accept(o) ==
  /\ venue[o].status = "Requested"
  /\ venue' = [venue EXCEPT ![o].status = "Open"]
  /\ wire' = Append(wire, AckEvent(o))

Reject(o) ==
  /\ venue[o].status = "Requested"
  /\ venue' = [venue EXCEPT ![o].status = "Rejected"]
  /\ wire' = Append(wire, StateChangeEvent(o, "Rejected"))

\* A limit order is filled at its price or a better one.
Fill(o, n, p) ==
  LET r == venue[o] IN
  /\ r.status = "Open"
  /\ p <= r.price
  /\ r.filled + n <= r.size
  /\ venue' = [venue EXCEPT
                 ![o] = [r EXCEPT !.filled = @ + n,
                                  !.cost   = @ + n * p,
                                  !.status = IF r.filled + n = r.size
                                             THEN "Filled" ELSE "Open"]]
  /\ wire' = Append(wire, FillEvent(o, r.contract, n, p, r.size - (r.filled + n)))

Cancel(o) ==
  /\ venue[o].status = "Open"
  /\ venue' = [venue EXCEPT ![o].status = "Canceled"]
  /\ wire' = Append(wire, StateChangeEvent(o, "Canceled"))

\* SimulationClient::submit_order, fill_probability 1: nothing is sent to
\* the user stream. It makes up no price; the order's own is taken.
FillAtOnce(o) ==
  LET r == venue[o] IN
  /\ r.status = "Requested"
  /\ venue' = [venue EXCEPT ![o] = [r EXCEPT !.filled = r.size, !.cost = r.size * r.price,
                                             !.status = "Filled"]]
  /\ UNCHANGED wire

ExchangeActs ==
  /\ "Exchange" \in Clients
  /\ \E o \in DOMAIN venue :
       \/ Accept(o)
       \/ Reject(o)
       \/ \E n \in 1..venue[o].size, p \in FillPrices : Fill(o, n, p)
       \/ Cancel(o)

SimulationActs == "Simulation" \in Clients /\ \E o \in DOMAIN venue : FillAtOnce(o)

VenueActs == (ExchangeActs \/ SimulationActs) /\ UNCHANGED faults

\* What the client may answer about order o. The simulation tells the fill;
\* an exchange may tell no more than that it has the order.
Answers(o) ==
  {s \in {"Acked", "Filled"} :
     \/ "Exchange" \in Clients /\ s = "Acked" /\ venue[o].status \in {"Open", "Filled", "Canceled"}
     \/ s = "Filled" /\ venue[o].status = "Filled"}

\* Whether a call of the client may end in an error.
CallsFail == "Exchange" \in Clients

\* Messages sent while the socket is down are gone.
WireLoses ==
  /\ faults < MaxFaults
  /\ wire # << >>
  /\ wire' = Tail(wire)
  /\ faults' = faults + 1
  /\ UNCHANGED venue

\* A message is sent a second time, after the ones already under way.
WireRepeats ==
  /\ faults < MaxFaults
  /\ wire # << >>
  /\ wire' = Append(wire, Head(wire))
  /\ faults' = faults + 1
  /\ UNCHANGED venue
=============================================================================
