---------------------- MODULE FillStateProcessor_proofs ----------------------
(***************************************************************************)
(* Lemmas about the operations of the order tracker, the exposure tracker, *)
(* the fill-state processor and the venue: what each keeps, for any orders *)
(* and any contracts.  The proofs about the main loop and about the desk   *)
(* cite them.                                                              *)
(***************************************************************************)
EXTENDS FillStateProcessor, Venue, Sums

\* A well-typed exposure map, as a predicate on maps.
Exposures(e) == DOMAIN e \subseteq Contract /\ e \in [DOMAIN e -> ContractExposure]

-----------------------------------------------------------------------------
(* Exposures.                                                              *)

LEMMA MinusType == ASSUME NEW a \in Nat, NEW b \in Int PROVE Minus(a, b) \in Nat
  BY DEF Minus

\* A missing entry reads as an empty exposure.
LEMMA EntryType ==
  ASSUME NEW e, Exposures(e), NEW c PROVE EntryOf(e, c) \in ContractExposure
  BY DEF Exposures, EntryOf, ContractExposure

\* add_pending keeps the exposures well-formed.
LEMMA AddPendingType ==
  ASSUME NEW e, Exposures(e), NEW c \in Contract, NEW n \in Nat
  PROVE  Exposures(AddPending(e, c, n))
<1>1. [EntryOf(e, c) EXCEPT !.pending = @ + n] \in ContractExposure
  BY EntryType DEF ContractExposure
<1> QED
  BY <1>1 DEF AddPending, Put, Exposures

\* remove_pending keeps the exposures well-formed: the clamp at zero at work.
LEMMA RemovePendingType ==
  ASSUME NEW e, Exposures(e), NEW c, NEW n \in Int
  PROVE  Exposures(RemovePending(e, c, n))
<1>1. CASE c \notin DOMAIN e
  BY <1>1 DEF RemovePending
<1>2. CASE c \in DOMAIN e
  <2>1. e[c].pending \in Nat
    BY <1>2 DEF Exposures, ContractExposure
  <2>2. Minus(e[c].pending, n) \in Nat
    BY <2>1 DEF Minus
  <2>3. Exposures(Without(e, c))
    BY DEF Without, Restrict, Exposures
  <2>4. [e EXCEPT ![c].pending = Minus(e[c].pending, n)] \in [DOMAIN e -> ContractExposure]
    BY <1>2, <2>2 DEF Exposures, ContractExposure
  <2>5. Exposures([e EXCEPT ![c].pending = Minus(e[c].pending, n)])
    BY <2>4 DEF Exposures
  <2> QED
    BY <1>2, <2>3, <2>5 DEF RemovePending
<1> QED
  BY <1>1, <1>2

\* apply_fill keeps the exposures well-formed.
LEMMA ApplyFillType ==
  ASSUME NEW e, Exposures(e), NEW c, NEW n \in Nat
  PROVE  Exposures(ApplyFill(e, c, n))
<1>1. CASE c \notin DOMAIN e
  BY <1>1 DEF ApplyFill
<1>2. CASE c \in DOMAIN e
  <2>1. e[c].pending \in Nat /\ e[c].filled \in Nat
    BY <1>2 DEF Exposures, ContractExposure
  <2>2. Minus(e[c].pending, n) \in Nat
    BY <2>1 DEF Minus
  <2>3. [pending |-> Minus(e[c].pending, n), filled |-> e[c].filled + n] \in ContractExposure
    BY <2>1, <2>2 DEF ContractExposure
  <2> QED
    BY <1>2, <2>3 DEF ApplyFill, Exposures
<1> QED
  BY <1>1, <1>2

\* add_pending changes the entry of its contract, and there only what is pending.
LEMMA AddPendingEntry ==
  ASSUME NEW e, Exposures(e), NEW c \in Contract, NEW n \in Nat
  PROVE  /\ EntryOf(AddPending(e, c, n), c).filled = EntryOf(e, c).filled
         /\ EntryOf(AddPending(e, c, n), c).pending = EntryOf(e, c).pending + n
         /\ \A d : d # c => EntryOf(AddPending(e, c, n), d) = EntryOf(e, d)
<1>1. EntryOf(e, c) \in ContractExposure
  BY EntryType
<1> QED
  BY <1>1 DEF AddPending, Put, EntryOf, ContractExposure

\* So does remove_pending, also when the entry goes.
LEMMA RemovePendingEntry ==
  ASSUME NEW e, Exposures(e), NEW c, NEW n \in Int
  PROVE  /\ EntryOf(RemovePending(e, c, n), c).filled = EntryOf(e, c).filled
         /\ c \in DOMAIN e => EntryOf(RemovePending(e, c, n), c).pending
                                = Minus(EntryOf(e, c).pending, n)
         /\ \A d : d # c => EntryOf(RemovePending(e, c, n), d) = EntryOf(e, d)
<1>1. CASE c \notin DOMAIN e
  BY <1>1 DEF RemovePending
<1>2. CASE c \in DOMAIN e
  <2>1. e[c] \in ContractExposure
    BY <1>2 DEF Exposures
  <2> DEFINE left == Minus(e[c].pending, n)
  <2>2. CASE left = 0 /\ e[c].filled = 0
    BY <1>2, <2>1, <2>2 DEF RemovePending, Without, Restrict, EntryOf, ContractExposure
  <2>3. CASE ~(left = 0 /\ e[c].filled = 0)
    <3>1. RemovePending(e, c, n) = [e EXCEPT ![c].pending = left]
      BY <1>2, <2>3 DEF RemovePending
    <3> HIDE DEF left
    <3> QED
      BY <1>2, <2>1, <3>1 DEF EntryOf, ContractExposure, Exposures, left
  <2> QED
    BY <2>2, <2>3
<1> QED
  BY <1>1, <1>2

\* apply_fill moves what is pending to what is filled; without an entry the
\* fill is lost. The two together never become less.
LEMMA ApplyFillEntry ==
  ASSUME NEW e, Exposures(e), NEW c, NEW n \in Nat
  PROVE  /\ c \in DOMAIN e =>
              /\ EntryOf(ApplyFill(e, c, n), c).filled = EntryOf(e, c).filled + n
              /\ EntryOf(ApplyFill(e, c, n), c).pending = Minus(EntryOf(e, c).pending, n)
         /\ c \notin DOMAIN e => ApplyFill(e, c, n) = e
         /\ \A d : d # c => EntryOf(ApplyFill(e, c, n), d) = EntryOf(e, d)
<1>1. CASE c \notin DOMAIN e
  BY <1>1 DEF ApplyFill
<1>2. CASE c \in DOMAIN e
  <2>1. e[c] \in ContractExposure
    BY <1>2 DEF Exposures
  <2> QED
    BY <1>2, <2>1 DEF ApplyFill, EntryOf, ContractExposure
<1> QED
  BY <1>1, <1>2

-----------------------------------------------------------------------------
(* The tracker.                                                            *)

LEMMA RegisterType ==
  ASSUME TrackerTypeOK, NEW o \in OrderId, NEW r \in OrderRecord, Register(o, r)
  PROVE  TrackerTypeOK'
  BY DEF TrackerTypeOK, Register, Put, OrderRecord

\* update_state keeps both maps of the tracker well-formed.
LEMMA UpdateStateType ==
  ASSUME TrackerTypeOK, NEW o, NEW s \in OrderState, UpdateState(o, s)
  PROVE  TrackerTypeOK'
<1>1. CASE o \notin DOMAIN orders
  BY <1>1 DEF UpdateState, TrackerTypeOK, trackerVars
<1>2. CASE o \in DOMAIN orders
  <2>1. [orders EXCEPT ![o].state = s] \in [DOMAIN orders -> OrderRecord]
    BY <1>2 DEF TrackerTypeOK, OrderRecord
  <2>2. IndexAfter(orders[o].contract, s) \in
          [DOMAIN IndexAfter(orders[o].contract, s) -> OrderId]
    BY DEF IndexAfter, Without, Restrict, TrackerTypeOK
  <2>3. DOMAIN IndexAfter(orders[o].contract, s) \subseteq Contract
    BY DEF IndexAfter, Without, Restrict, TrackerTypeOK
  <2> QED
    BY <1>2, <2>1, <2>2, <2>3 DEF UpdateState, TrackerTypeOK
<1> QED
  BY <1>1, <1>2

\* apply_fill keeps both maps of the tracker well-formed.
LEMMA TrackFillType ==
  ASSUME TrackerTypeOK, NEW o, NEW n \in Nat, NEW s \in OrderState, TrackFill(o, n, s)
  PROVE  TrackerTypeOK'
<1>1. CASE o \notin DOMAIN orders
  BY <1>1 DEF TrackFill, TrackerTypeOK, trackerVars
<1>2. CASE o \in DOMAIN orders
  <2>1. [orders EXCEPT ![o].filled = n, ![o].state = s] \in [DOMAIN orders -> OrderRecord]
    BY <1>2 DEF TrackerTypeOK, OrderRecord
  <2>2. /\ DOMAIN pendingContracts' \subseteq Contract
        /\ pendingContracts' \in [DOMAIN pendingContracts' -> OrderId]
    BY <1>2 DEF TrackFill, Without, Restrict, TrackerTypeOK
  <2> QED
    BY <1>2, <2>1, <2>2 DEF TrackFill, TrackerTypeOK
<1> QED
  BY <1>1, <1>2

\* An event or an answer changes an order's progress, not what it is.
LEMMA SameOrders ==
  ASSUME TrackerTypeOK,
         \/ \E o \in OrderId, s \in OrderState : UpdateState(o, s)
         \/ \E o \in OrderId, n \in Nat, s \in OrderState : TrackFill(o, n, s)
         \/ UNCHANGED orders
  PROVE  /\ DOMAIN orders' = DOMAIN orders
         /\ \A q \in DOMAIN orders : orders'[q].contract = orders[q].contract
<1>1. \/ UNCHANGED orders
      \/ \E o \in DOMAIN orders, s \in OrderState : orders' = [orders EXCEPT ![o].state = s]
      \/ \E o \in DOMAIN orders, n \in Nat, s \in OrderState :
           orders' = [orders EXCEPT ![o].filled = n, ![o].state = s]
  BY DEF UpdateState, TrackFill, trackerVars
<1>2. ASSUME NEW o \in DOMAIN orders, NEW s \in OrderState,
             orders' = [orders EXCEPT ![o].state = s]
      PROVE  \A q \in DOMAIN orders : orders'[q].contract = orders[q].contract
  BY <1>2 DEF TrackerTypeOK, OrderRecord
<1>3. ASSUME NEW o \in DOMAIN orders, NEW n \in Nat, NEW s \in OrderState,
             orders' = [orders EXCEPT ![o].filled = n, ![o].state = s]
      PROVE  \A q \in DOMAIN orders : orders'[q].contract = orders[q].contract
  BY <1>3 DEF TrackerTypeOK, OrderRecord
<1>4. DOMAIN orders' = DOMAIN orders
  BY <1>1 DEF TrackerTypeOK
<1> QED
  BY <1>1, <1>2, <1>3, <1>4

\* The step moves order o, if it is known, to state s and no other order.
Moves(o, s) ==
  /\ DOMAIN orders' = DOMAIN orders
  /\ \A q \in DOMAIN orders : q # o => orders'[q] = orders[q]
  /\ o \in DOMAIN orders => orders'[o].state = s

\* update_state and apply_fill move the order they are given and no other.
LEMMA OneOrderMoves ==
  ASSUME TrackerTypeOK, NEW o, NEW s,
         UpdateState(o, s) \/ \E n \in Nat : TrackFill(o, n, s)
  PROVE  Moves(o, s)
<1>1. CASE o \notin DOMAIN orders
  BY <1>1 DEF UpdateState, TrackFill, trackerVars, Moves
<1>2. CASE o \in DOMAIN orders
  <2>1. orders[o] \in OrderRecord
    BY <1>2 DEF TrackerTypeOK
  <2>2. CASE UpdateState(o, s)
    BY <1>2, <2>1, <2>2 DEF UpdateState, TrackerTypeOK, OrderRecord, Moves
  <2>3. CASE \E n \in Nat : TrackFill(o, n, s)
    <3>1. PICK n \in Nat : orders' = [orders EXCEPT ![o].filled = n, ![o].state = s]
      BY <1>2, <2>3 DEF TrackFill
    <3>2. orders'[o].state = s
      BY <1>2, <2>1, <3>1 DEF OrderRecord
    <3>3. DOMAIN orders' = DOMAIN orders /\ \A q \in DOMAIN orders : q # o => orders'[q] = orders[q]
      BY <3>1 DEF TrackerTypeOK
    <3> QED
      BY <3>2, <3>3 DEF Moves
  <2> QED
    BY <2>2, <2>3
<1> QED
  BY <1>1, <1>2

-----------------------------------------------------------------------------
(* The elements of a queue after one was added, or the first was taken.    *)

LEMMA AppendElements ==
  ASSUME NEW S, NEW q \in Seq(S), NEW m \in S
  PROVE  \A i \in DOMAIN Append(q, m) :
           Append(q, m)[i] = m \/ (i \in DOMAIN q /\ Append(q, m)[i] = q[i])
  OBVIOUS

\* What is left of a queue once its head is taken.
LEMMA TailElements ==
  ASSUME NEW S, NEW q \in Seq(S), q # << >>
  PROVE  /\ Head(q) \in S /\ Head(q) = q[1] /\ 1 \in DOMAIN q
         /\ \A i \in DOMAIN Tail(q) : /\ i \in Nat /\ i + 1 # 1
                                      /\ i + 1 \in DOMAIN q
                                      /\ Tail(q)[i] = q[i + 1]
  OBVIOUS

-----------------------------------------------------------------------------
(* The venue.                                                              *)

\* What the venue sends are messages.
LEMMA MessageTypes ==
  /\ \A o \in OrderId : AckEvent(o) \in VenueMessage
  /\ \A o \in OrderId, s \in {"Canceled", "Rejected"} : StateChangeEvent(o, s) \in VenueMessage
  /\ \A o \in OrderId, c \in Contract, n, p, left \in Nat :
       FillEvent(o, c, n, p, left) \in VenueMessage
  BY DEF AckEvent, StateChangeEvent, FillEvent, VenueMessage

\* A request keeps the venue well-formed.
LEMMA RequestType ==
  ASSUME VenueTypeOK, NEW o \in OrderId, NEW c \in Contract, NEW p \in Nat, NEW n \in Nat,
         Request(o, c, p, n)
  PROVE  VenueTypeOK'
  BY DEF VenueTypeOK, Request, Put, VenueOrder

\* The venue's own acts keep it well-formed: no order is filled beyond its size.
LEMMA VenueActsType ==
  ASSUME VenueTypeOK, VenueActs PROVE VenueTypeOK'
<1> USE VenueAssumption
<1>1. ASSUME NEW o \in DOMAIN venue, Accept(o) \/ Reject(o) \/ Cancel(o)
      PROVE  /\ venue' \in [DOMAIN venue -> VenueOrder]
             /\ wire' \in Seq(VenueMessage)
  <2>1. o \in OrderId
    BY DEF VenueTypeOK
  <2>2. PICK s \in {"Open", "Rejected", "Canceled"} :
          venue' = [venue EXCEPT ![o].status = s]
    BY <1>1 DEF Accept, Reject, Cancel
  <2>3. PICK m \in VenueMessage : wire' = Append(wire, m)
    BY <1>1, <2>1, MessageTypes DEF Accept, Reject, Cancel
  <2>4. venue' \in [DOMAIN venue -> VenueOrder]
    <3>0. venue[o] \in VenueOrder
      BY DEF VenueTypeOK
    <3>1. [venue[o] EXCEPT !.status = s] \in VenueOrder
      BY <3>0, s \in {"Open", "Filled", "Canceled", "Rejected"} DEF VenueOrder
    <3>2. venue' = [venue EXCEPT ![o] = [venue[o] EXCEPT !.status = s]]
      BY <2>2
    <3> QED
      BY <3>1, <3>2 DEF VenueTypeOK
  <2> QED
    BY <2>3, <2>4 DEF VenueTypeOK
<1>2. ASSUME NEW o \in DOMAIN venue, NEW n \in 1..venue[o].size, NEW p \in FillPrices,
             Fill(o, n, p)
      PROVE  /\ venue' \in [DOMAIN venue -> VenueOrder]
             /\ wire' \in Seq(VenueMessage)
  <2> DEFINE r == venue[o]
  <2>1. o \in OrderId /\ r \in VenueOrder
    BY DEF VenueTypeOK
  <2>2. /\ r.filled \in Nat /\ r.size \in Nat /\ r.cost \in Nat /\ r.price \in Nat
        /\ r.contract \in Contract
    BY <2>1 DEF VenueOrder
  <2>3. n \in Nat /\ p \in Nat
    BY <2>2
  <2>4. r.filled + n <= r.size
    BY <1>2 DEF Fill
  <2>5. n * p \in Nat
    BY <2>3
  <2>6. /\ r.filled + n \in Nat /\ r.cost + n * p \in Nat
        /\ r.size - (r.filled + n) \in Nat
    BY <2>2, <2>3, <2>4, <2>5
  <2> DEFINE new == [r EXCEPT !.filled = r.filled + n, !.cost = r.cost + n * p,
                              !.status = IF r.filled + n = r.size THEN "Filled" ELSE "Open"]
  <2>7. new \in VenueOrder
    BY <2>1, <2>6 DEF VenueOrder
  <2>8. venue' \in [DOMAIN venue -> VenueOrder]
    <3>1. venue' = [venue EXCEPT ![o] = new]
      BY <1>2 DEF Fill
    <3> QED
      BY <2>7, <3>1 DEF VenueTypeOK
  <2>9. FillEvent(o, venue[o].contract, n, p, venue[o].size - (venue[o].filled + n))
          \in VenueMessage
    BY <2>1, <2>2, <2>3, <2>6, MessageTypes
  <2> QED
    BY <1>2, <2>8, <2>9 DEF Fill, VenueTypeOK
<1>3. ASSUME ExchangeActs
      PROVE  venue' \in [DOMAIN venue -> VenueOrder] /\ wire' \in Seq(VenueMessage)
  BY <1>1, <1>2, <1>3 DEF ExchangeActs
<1>4. ASSUME SimulationActs
      PROVE  venue' \in [DOMAIN venue -> VenueOrder] /\ wire' \in Seq(VenueMessage)
  <2>1. PICK o \in DOMAIN venue : FillAtOnce(o)
    BY <1>4 DEF SimulationActs
  <2> DEFINE r == venue[o]
             new == [r EXCEPT !.filled = r.size, !.cost = r.size * r.price, !.status = "Filled"]
  <2>2. r \in VenueOrder
    BY DEF VenueTypeOK
  <2>3. r.size * r.price \in Nat
    BY <2>2 DEF VenueOrder
  <2>4. new \in VenueOrder
    BY <2>2, <2>3 DEF VenueOrder
  <2>5. venue' = [venue EXCEPT ![o] = new] /\ wire' = wire
    BY <2>1 DEF FillAtOnce
  <2> HIDE DEF new
  <2> QED
    BY <2>4, <2>5 DEF VenueTypeOK
<1> QED
  BY <1>3, <1>4 DEF VenueTypeOK, VenueActs

\* So do a lost and a repeated message.
LEMMA WireType ==
  ASSUME VenueTypeOK, WireLoses \/ WireRepeats PROVE VenueTypeOK'
<1>1. faults' \in 0..MaxFaults
  BY VenueAssumption DEF VenueTypeOK, WireLoses, WireRepeats
<1>2. wire' \in Seq(VenueMessage)
  BY DEF VenueTypeOK, WireLoses, WireRepeats
<1> QED
  BY <1>1, <1>2 DEF VenueTypeOK, WireLoses, WireRepeats

\* Message m is the last about its order: nothing is left to fill, or it ends.
Ends(m) == IF m.type = "Fill" THEN m.remaining = 0 ELSE m.type = "OrderStateChange"

\* The exchange's acts concern one order, which stays what it is, and are
\* reported in one message: a fill with what was filled and paid, or none of
\* both. An order whose last message is sent is finished.
LEMMA ExchangeDoes ==
  ASSUME VenueTypeOK, ExchangeActs
  PROVE  \E o \in DOMAIN venue, m \in VenueMessage :
           LET v == venue[o]
               w == venue'[o]
           IN /\ DOMAIN venue' = DOMAIN venue
              /\ \A q \in DOMAIN venue : q # o => venue'[q] = venue[q]
              /\ wire' = Append(wire, m) /\ m.order = o
              /\ w.contract = v.contract /\ w.size = v.size /\ w.price = v.price
              /\ v.status \in {"Requested", "Open"}
              /\ w.status # "Requested" /\ (Ends(m) => w.status # "Open")
              /\ \/ m.type # "Fill" /\ w.filled = v.filled /\ w.cost = v.cost
                 \/ /\ m.type = "Fill" /\ m.contract = v.contract /\ m.price <= v.price
                    /\ w.filled = v.filled + m.size /\ w.filled <= w.size
                    /\ w.cost = v.cost + m.size * m.price
<1>1. PICK o \in DOMAIN venue :
        \/ Accept(o) \/ Reject(o) \/ Cancel(o)
        \/ \E n \in 1..venue[o].size, p \in FillPrices : Fill(o, n, p)
  BY DEF ExchangeActs
<1> DEFINE v == venue[o]
<1>2. o \in OrderId /\ v \in VenueOrder
  BY DEF VenueTypeOK
<1>3. ASSUME NEW s \in {"Open", "Canceled", "Rejected"}, NEW m \in VenueMessage,
             v.status \in {"Requested", "Open"},
             venue' = [venue EXCEPT ![o].status = s], wire' = Append(wire, m),
             m.type # "Fill", m.order = o, m.type = "OrderStateChange" => s # "Open"
      PROVE  /\ DOMAIN venue' = DOMAIN venue /\ venue'[o].status # "Requested"
             /\ (Ends(m) => venue'[o].status # "Open")
             /\ \A q \in DOMAIN venue : q # o => venue'[q] = venue[q]
             /\ venue'[o].contract = v.contract /\ venue'[o].size = v.size
             /\ venue'[o].price = v.price /\ venue'[o].filled = v.filled
             /\ venue'[o].cost = v.cost
  BY <1>2, <1>3 DEF VenueTypeOK, VenueOrder, Ends
<1>4. CASE Accept(o)
  <2>1. AckEvent(o) \in VenueMessage
    BY <1>2, MessageTypes
  <2> QED
    BY <1>3, <1>4, <2>1 DEF Accept, AckEvent
<1>5. CASE Reject(o)
  <2>1. StateChangeEvent(o, "Rejected") \in VenueMessage
    BY <1>2, MessageTypes
  <2> QED
    BY <1>3, <1>5, <2>1 DEF Reject, StateChangeEvent
<1>6. CASE Cancel(o)
  <2>1. StateChangeEvent(o, "Canceled") \in VenueMessage
    BY <1>2, MessageTypes
  <2> QED
    BY <1>3, <1>6, <2>1 DEF Cancel, StateChangeEvent
<1>7. ASSUME NEW n \in 1..v.size, NEW p \in FillPrices, Fill(o, n, p)
      PROVE  LET m == FillEvent(o, v.contract, n, p, v.size - (v.filled + n))
             IN /\ m \in VenueMessage /\ venue'[o].status # "Requested"
                /\ (Ends(m) => venue'[o].status # "Open")
                /\ DOMAIN venue' = DOMAIN venue
                /\ \A q \in DOMAIN venue : q # o => venue'[q] = venue[q]
                /\ wire' = Append(wire, m) /\ v.status = "Open" /\ p <= v.price
                /\ venue'[o].contract = v.contract /\ venue'[o].size = v.size
                /\ venue'[o].price = v.price /\ v.filled + n <= v.size
                /\ venue'[o].filled = v.filled + n /\ venue'[o].cost = v.cost + n * p
  <2>1. /\ v.filled \in Nat /\ v.size \in Nat /\ v.contract \in Contract
        /\ n \in Nat /\ p \in Nat
    BY <1>2, VenueAssumption DEF VenueOrder
  <2>2. /\ v.status = "Open" /\ p <= v.price /\ v.filled + n <= v.size
        /\ venue' = [venue EXCEPT
                       ![o] = [v EXCEPT !.filled = @ + n, !.cost = @ + n * p,
                                        !.status = IF v.filled + n = v.size
                                                   THEN "Filled" ELSE "Open"]]
        /\ wire' = Append(wire, FillEvent(o, v.contract, n, p, v.size - (v.filled + n)))
    BY <1>7 DEF Fill
  <2>3. FillEvent(o, v.contract, n, p, v.size - (v.filled + n)) \in VenueMessage
    <3>1. v.size - (v.filled + n) \in Nat
      BY <2>1, <2>2
    <3> QED
      BY <1>2, <2>1, <3>1, MessageTypes
  <2>4. /\ DOMAIN venue' = DOMAIN venue
        /\ \A q \in DOMAIN venue : q # o => venue'[q] = venue[q]
        /\ venue'[o] = [v EXCEPT !.filled = @ + n, !.cost = @ + n * p,
                                 !.status = IF v.filled + n = v.size
                                            THEN "Filled" ELSE "Open"]
    BY <2>2 DEF VenueTypeOK
  <2>5. LET m == FillEvent(o, v.contract, n, p, v.size - (v.filled + n))
        IN Ends(m) => venue'[o].status # "Open"
    <3>1. v.size - (v.filled + n) = 0 => v.filled + n = v.size
      BY <2>1
    <3> QED
      BY <1>2, <2>4, <3>1 DEF Ends, FillEvent, VenueOrder
  <2> QED
    BY <1>2, <2>2, <2>3, <2>4, <2>5 DEF VenueOrder
<1>8. CASE \E n \in 1..v.size, p \in FillPrices : Fill(o, n, p)
  <2>1. PICK n \in 1..v.size, p \in FillPrices : Fill(o, n, p)
    BY <1>8
  <2> DEFINE m == FillEvent(o, v.contract, n, p, v.size - (v.filled + n))
  <2>2. m.type = "Fill" /\ m.order = o /\ m.contract = v.contract /\ m.size = n /\ m.price = p
    BY DEF FillEvent
  <2>3. /\ m \in VenueMessage /\ venue'[o].status # "Requested"
        /\ (Ends(m) => venue'[o].status # "Open")
        /\ DOMAIN venue' = DOMAIN venue
        /\ \A q \in DOMAIN venue : q # o => venue'[q] = venue[q]
        /\ wire' = Append(wire, m) /\ v.status = "Open" /\ p <= v.price
        /\ venue'[o].contract = v.contract /\ venue'[o].size = v.size
        /\ venue'[o].price = v.price /\ v.filled + n <= v.size
        /\ venue'[o].filled = v.filled + n /\ venue'[o].cost = v.cost + n * p
    BY <1>7, <2>1
  <2> HIDE DEF m
  <2> QED
    BY <2>2, <2>3
<1> QED
  BY <1>1, <1>4, <1>5, <1>6, <1>8

\* The simulation fills an order it was just asked for, all of it at its
\* price, and reports nothing.
LEMMA SimulationDoes ==
  ASSUME VenueTypeOK, SimulationActs
  PROVE  \E o \in DOMAIN venue :
           LET v == venue[o]
               w == venue'[o]
           IN /\ DOMAIN venue' = DOMAIN venue /\ wire' = wire
              /\ \A q \in DOMAIN venue : q # o => venue'[q] = venue[q]
              /\ w.contract = v.contract /\ w.size = v.size /\ w.price = v.price
              /\ v.status = "Requested" /\ w.status = "Filled"
              /\ w.filled = v.size /\ w.cost = v.size * v.price
<1>1. PICK o \in DOMAIN venue : FillAtOnce(o)
  BY DEF SimulationActs
<1> DEFINE v == venue[o]
           new == [v EXCEPT !.filled = v.size, !.cost = v.size * v.price, !.status = "Filled"]
<1>2. v \in VenueOrder
  BY DEF VenueTypeOK
<1>3. venue' = [venue EXCEPT ![o] = new] /\ wire' = wire /\ v.status = "Requested"
  BY <1>1 DEF FillAtOnce
<1>4. venue'[o] = new
  BY <1>3 DEF VenueTypeOK
<1> QED
  BY <1>2, <1>3, <1>4 DEF VenueTypeOK, VenueOrder

-----------------------------------------------------------------------------
(* What the messages of a queue have still to say about a contract, and    *)
(* how much of it comes before a cancel or a reject.                        *)

\* What message m adds to the filled exposure of contract c.
Amount(m, c) ==
  IF m.type = "Fill" THEN IF m.contract = c THEN m.size * m.price ELSE 0 ELSE 0

Amounts(q, c) == [i \in DOMAIN q |-> Amount(q[i], c)]

\* What the messages of queue q add to it together.
Flow(q, c) == SumFunction(Amounts(q, c))

\* Message m ends order o without filling it.
Concerns(m, o) == m.type = "OrderStateChange" /\ m.order = o

\* With `base` to begin with, contract c has reached n whenever a message of
\* q that ends order o is taken.
Reached(base, q, o, c, n) ==
  \A i \in DOMAIN q : Concerns(q[i], o) => base + Flow(SubSeq(q, 1, i - 1), c) >= n

\* What a message adds is no negative number.
LEMMA AmountType ==
  ASSUME NEW m \in VenueMessage, NEW c PROVE Amount(m, c) \in Nat
<1>1. m.type = "Fill" => m.size \in Nat /\ m.price \in Nat
  BY DEF VenueMessage
<1>2. ASSUME NEW a \in Nat, NEW b \in Nat PROVE a * b \in Nat
  OBVIOUS
<1> QED
  BY <1>1, <1>2 DEF Amount

\* The amounts of a queue are a sequence of its length.
LEMMA AmountsType ==
  ASSUME NEW S, NEW c, \A m \in S : Amount(m, c) \in Nat, NEW q \in Seq(S)
  PROVE  /\ Amounts(q, c) \in Seq(Int) /\ Amounts(q, c) \in Seq(Nat)
         /\ Len(Amounts(q, c)) = Len(q) /\ Flow(q, c) \in Nat
<1>1. DOMAIN q = 1..Len(q) /\ Len(q) \in Nat /\ \A i \in DOMAIN q : q[i] \in S
  OBVIOUS
<1>2. Amounts(q, c) \in [1..Len(q) -> Nat]
  BY <1>1 DEF Amounts
<1>3. Amounts(q, c) \in Seq(Nat)
  <2>1. Seq(Nat) = UNION {[1..n -> Nat] : n \in Nat}
    BY SeqDef
  <2> QED
    BY <1>1, <1>2, <2>1
<1>4. Len(Amounts(q, c)) = Len(q) /\ DOMAIN Amounts(q, c) = 1..Len(q)
  BY <1>1, <1>2, <1>3
<1>5. Amounts(q, c) \in Seq(Int)
  BY <1>3, SeqMonotonic, Nat \subseteq Int
<1>6. Flow(q, c) \in Nat
  <2>1. Summable(Amounts(q, c))
    BY <1>5, SumAppends
  <2> QED
    BY <1>2, <1>4, <2>1, SumNat DEF Flow
<1> QED
  BY <1>3, <1>4, <1>5, <1>6

\* An empty queue adds nothing.
LEMMA FlowOfNone == \A c : Flow(<< >>, c) = 0
<1>1. \A c : Amounts(<< >>, c) = << >>
  BY DEF Amounts
<1> QED
  BY <1>1, SumOfNone DEF Flow

\* One message more adds its amount.
LEMMA FlowAppend ==
  ASSUME NEW S, NEW c, \A m \in S : Amount(m, c) \in Nat, NEW q \in Seq(S), NEW e \in S
  PROVE  Flow(Append(q, e), c) = Flow(q, c) + Amount(e, c)
<1> DEFINE f == Amounts(q, c)
           g == Amounts(Append(q, e), c)
<1>1. /\ f \in Seq(Int) /\ g \in Seq(Int) /\ Amount(e, c) \in Int
      /\ Len(f) = Len(q) /\ Len(g) = Len(q) + 1 /\ Len(q) \in Nat
  <2>1. Append(q, e) \in Seq(S) /\ Len(Append(q, e)) = Len(q) + 1 /\ Len(q) \in Nat
    BY AppendProperties, LenProperties
  <2>2. f \in Seq(Int) /\ Len(f) = Len(q)
    BY AmountsType
  <2>3. g \in Seq(Int) /\ Len(g) = Len(Append(q, e))
    BY <2>1, AmountsType
  <2>4. Amount(e, c) \in Int
    OBVIOUS
  <2> HIDE DEF f, g
  <2> QED
    BY <2>1, <2>2, <2>3, <2>4
<1>2. \A i \in 1..Len(q) : g[i] = f[i]
  BY <1>1, AppendProperties DEF Amounts
<1>3. g[Len(q) + 1] = Amount(e, c)
  BY <1>1, AppendProperties DEF Amounts
<1>4. g = Append(f, Amount(e, c))
  <2> DEFINE h == Append(f, Amount(e, c))
  <2> HIDE DEF f, g
  <2>1. /\ h \in Seq(Int) /\ Len(h) = Len(q) + 1
        /\ \A i \in 1..Len(q) : h[i] = f[i]
        /\ h[Len(q) + 1] = Amount(e, c)
    BY <1>1, AppendProperties
  <2> HIDE DEF h
  <2>2. \A i \in 1..Len(q) + 1 : g[i] = h[i]
    <3>1. \A i \in 1..Len(q) + 1 : i \in 1..Len(q) \/ i = Len(q) + 1
      BY <1>1
    <3> QED
      BY <1>2, <1>3, <2>1, <3>1
  <2>3. g = h
    BY <1>1, <2>1, <2>2, SeqEqual
  <2> QED
    BY <2>3 DEF h
<1> HIDE DEF f, g
<1>5. SumFunction(g) = SumFunction(f) + Amount(e, c)
  BY <1>1, <1>4, SumAppends
<1> QED
  BY <1>5 DEF Flow, f, g

\* The message taken is what the queue has less to add.
LEMMA FlowTakes ==
  ASSUME NEW S, NEW c, \A m \in S : Amount(m, c) \in Nat, NEW q \in Seq(S), q # << >>
  PROVE  Flow(q, c) = Amount(Head(q), c) + Flow(Tail(q), c)
<1> DEFINE f == Amounts(q, c)
           g == Amounts(Tail(q), c)
<1>1. /\ Tail(q) \in Seq(S) /\ Len(Tail(q)) = Len(q) - 1 /\ Len(q) \in Nat \ {0}
      /\ \A i \in 1..Len(Tail(q)) : Tail(q)[i] = q[i + 1]
  BY HeadTailProperties, EmptySeq
<1>2. f \in Seq(Int) /\ g \in Seq(Int) /\ Len(f) = Len(q) /\ Len(g) = Len(q) - 1
  <2>1. f \in Seq(Int) /\ Len(f) = Len(q)
    BY AmountsType
  <2>2. \A t \in Seq(S) : Amounts(t, c) \in Seq(Int) /\ Len(Amounts(t, c)) = Len(t)
    BY AmountsType
  <2>3. g \in Seq(Int) /\ Len(g) = Len(Tail(q))
    <3>1. Tail(q) \in Seq(S)
      BY <1>1
    <3> QED
      BY <2>2, <3>1, Zenon
  <2> QED
    BY <1>1, <2>1, <2>3
<1>3. Head(f) = Amount(Head(q), c)
  BY <1>1, <1>2 DEF Amounts
<1>4. \A i \in 1..Len(q) - 1 : g[i] = f[i + 1]
  BY <1>1, <1>2 DEF Amounts
<1> HIDE DEF f, g
<1>5. f # << >>
  <2>1. Len(f) # 0
    BY <1>1, <1>2
  <2> QED
    BY <2>1, EmptySeq
<1>6. g = Tail(f)
  <2>1. /\ Tail(f) \in Seq(Int) /\ Len(Tail(f)) = Len(q) - 1
        /\ \A i \in 1..Len(q) - 1 : Tail(f)[i] = f[i + 1]
    BY <1>2, <1>5, HeadTailProperties
  <2>2. \A i \in 1..Len(g) : g[i] = Tail(f)[i]
    BY <1>2, <1>4, <2>1
  <2> QED
    BY <1>2, <2>1, <2>2, SeqEqual
<1>7. SumFunction(f) = Head(f) + SumFunction(Tail(f))
  BY <1>2, <1>5, SumTakes
<1> QED
  BY <1>3, <1>6, <1>7 DEF Flow, f, g

\* Messages none of which adds anything add nothing together.
LEMMA FlowOfOthers ==
  ASSUME NEW S, NEW c, \A m \in S : Amount(m, c) \in Nat, NEW q \in Seq(S),
         \A i \in DOMAIN q : Amount(q[i], c) = 0
  PROVE  Flow(q, c) = 0
<1> DEFINE P == {n \in Nat : \A r \in Seq(S) :
                   Len(r) = n /\ (\A i \in DOMAIN r : Amount(r[i], c) = 0) => Flow(r, c) = 0}
<1>1. 0 \in P
  BY FlowOfNone, EmptySeq
<1>2. ASSUME NEW n \in Nat, n \in P PROVE n + 1 \in P
  <2> SUFFICES ASSUME NEW r \in Seq(S), Len(r) = n + 1,
                      \A i \in DOMAIN r : Amount(r[i], c) = 0
               PROVE  Flow(r, c) = 0
    OBVIOUS
  <2>1. r # << >>
    <3>1. Len(r) # 0
      OBVIOUS
    <3> QED
      BY <3>1, EmptySeq
  <2>2. /\ Tail(r) \in Seq(S) /\ Len(Tail(r)) = n /\ Amount(Head(r), c) = 0
        /\ \A i \in DOMAIN Tail(r) : Amount(Tail(r)[i], c) = 0
    BY <2>1, TailElements
  <2>3. Flow(Tail(r), c) = 0
    BY <1>2, <2>2
  <2>4. Flow(r, c) = Amount(Head(r), c) + Flow(Tail(r), c)
    BY <2>1, FlowTakes
  <2> QED
    BY <2>2, <2>3, <2>4
<1>3. Nat \subseteq P
  <2> HIDE DEF P
  <2> QED
    BY <1>1, <1>2, Induction
<1>4. Len(q) \in Nat
  BY LenProperties
<1> QED
  BY <1>3, <1>4

-----------------------------------------------------------------------------
\* Nothing is reached from the start.
LEMMA NothingReached ==
  ASSUME NEW S, NEW c, \A m \in S : Amount(m, c) \in Nat, NEW q \in Seq(S),
         NEW o, NEW a \in Nat
  PROVE  Reached(a, q, o, c, 0)
<1> SUFFICES ASSUME NEW i \in DOMAIN q
             PROVE  a + Flow(SubSeq(q, 1, i - 1), c) >= 0
  BY DEF Reached
<1>1. SubSeq(q, 1, i - 1) \in Seq(S)
  BY PrefixType
<1>2. Flow(SubSeq(q, 1, i - 1), c) \in Nat
  BY <1>1, AmountsType
<1> QED
  BY <1>2

\* A message added must keep to it only if it ends the order.
LEMMA ReachedAppend ==
  ASSUME NEW S, NEW c, \A m \in S : Amount(m, c) \in Nat, NEW q \in Seq(S), NEW e \in S,
         NEW o, NEW n \in Nat, NEW a \in Nat, Reached(a, q, o, c, n),
         Concerns(e, o) => a + Flow(q, c) >= n
  PROVE  Reached(a, Append(q, e), o, c, n)
<1> DEFINE t == Append(q, e)
<1> SUFFICES ASSUME NEW i \in DOMAIN t, Concerns(t[i], o)
             PROVE  a + Flow(SubSeq(t, 1, i - 1), c) >= n
  BY DEF Reached
<1>1. /\ DOMAIN t = 1..Len(q) + 1 /\ Len(q) \in Nat /\ t[Len(q) + 1] = e
      /\ DOMAIN q = 1..Len(q) /\ \A j \in 1..Len(q) : t[j] = q[j]
  BY AppendProperties, LenProperties
<1>2. CASE i = Len(q) + 1
  <2>1. SubSeq(t, 1, i - 1) = q
    BY <1>1, <1>2, PrefixOfAppend, SubSeqFull
  <2> QED
    BY <1>1, <1>2, <2>1
<1>3. CASE i # Len(q) + 1
  <2>1. i \in DOMAIN q /\ t[i] = q[i]
    BY <1>1, <1>3
  <2>2. SubSeq(t, 1, i - 1) = SubSeq(q, 1, i - 1)
    BY <1>1, <2>1, PrefixOfAppend
  <2> QED
    BY <2>1, <2>2 DEF Reached
<1> QED
  BY <1>2, <1>3

\* When the first message is taken, what it adds counts as there already; if
\* it ends the order, all must have been there.
LEMMA ReachedTakes ==
  ASSUME NEW S, NEW c, \A m \in S : Amount(m, c) \in Nat, NEW q \in Seq(S), q # << >>,
         NEW o, NEW n \in Nat, NEW a \in Nat, Reached(a, q, o, c, n)
  PROVE  /\ Reached(a + Amount(Head(q), c), Tail(q), o, c, n)
         /\ Concerns(Head(q), o) => a >= n
<1>1. /\ Len(q) \in Nat \ {0} /\ DOMAIN q = 1..Len(q) /\ Head(q) = q[1] /\ q[1] \in S
      /\ Tail(q) \in Seq(S) /\ DOMAIN Tail(q) = 1..Len(q) - 1
      /\ \A j \in 1..Len(q) - 1 : Tail(q)[j] = q[j + 1]
  BY HeadTailProperties, EmptySeq, LenProperties
<1>2. ASSUME Concerns(Head(q), o) PROVE a >= n
  <2>1. a + Flow(SubSeq(q, 1, 0), c) >= n
    BY <1>1, <1>2 DEF Reached
  <2>2. SubSeq(q, 1, 0) = << >>
    BY SubSeqEmpty
  <2>3. Flow(SubSeq(q, 1, 0), c) = 0
    BY <2>2, FlowOfNone, Zenon
  <2> QED
    BY <2>1, <2>3
<1>3. ASSUME NEW i \in DOMAIN Tail(q), Concerns(Tail(q)[i], o)
      PROVE  a + Amount(Head(q), c) + Flow(SubSeq(Tail(q), 1, i - 1), c) >= n
  <2>1. i + 1 \in DOMAIN q /\ Concerns(q[i + 1], o) /\ i \in 1..Len(q) - 1
    BY <1>1, <1>3
  <2> DEFINE t == SubSeq(q, 1, i)
  <2>2. a + Flow(t, c) >= n
    BY <2>1 DEF Reached
  <2>3. t \in Seq(S) /\ t # << >> /\ Head(t) = Head(q) /\ Tail(t) = SubSeq(Tail(q), 1, i - 1)
    <3>1. i \in 1..Len(q)
      BY <1>1, <2>1
    <3> QED
      BY <3>1, PrefixOfTail, Zenon
  <2>4. Flow(t, c) = Amount(Head(t), c) + Flow(Tail(t), c)
    <3> HIDE DEF t
    <3> QED
      BY <2>3, FlowTakes
  <2>5. SubSeq(Tail(q), 1, i - 1) \in Seq(S)
    BY <1>1, <1>3, PrefixType
  <2>6. Flow(SubSeq(Tail(q), 1, i - 1), c) \in Nat /\ Amount(Head(q), c) \in Nat
    BY <1>1, <2>5, AmountsType
  <2>7. Flow(t, c) = Amount(Head(q), c) + Flow(SubSeq(Tail(q), 1, i - 1), c)
    BY <2>3, <2>4, Zenon
  <2> HIDE DEF t
  <2> QED
    BY <2>2, <2>6, <2>7
<1> QED
  BY <1>2, <1>3 DEF Reached

-----------------------------------------------------------------------------
\* With f to begin with and the messages of q and then of w to come, contract c
\* reaches k, and has done so when order o is ended.
Coming(f, q, w, o, c, k) ==
  /\ f + Flow(q, c) + Flow(w, c) >= k
  /\ Reached(f, q, o, c, k)
  /\ Reached(f + Flow(q, c), w, o, c, k)

\* Zero is reached by any messages.
LEMMA ComingNothing ==
  ASSUME NEW S, NEW c, \A m \in S : Amount(m, c) \in Nat,
         NEW q \in Seq(S), NEW w \in Seq(S), NEW o, NEW f \in Nat
  PROVE  Coming(f, q, w, o, c, 0)
<1>1. Flow(q, c) \in Nat /\ Flow(w, c) \in Nat
  BY AmountsType
<1>2. f + Flow(q, c) \in Nat
  BY <1>1
<1>3. Reached(f, q, o, c, 0) /\ Reached(f + Flow(q, c), w, o, c, 0)
  BY <1>2, NothingReached
<1> QED
  BY <1>1, <1>3 DEF Coming

\* What the first message of q adds may be counted when it is taken; if it ends
\* the order, nothing is missing by then.
LEMMA ComingTaken ==
  ASSUME NEW S, NEW c, \A m \in S : Amount(m, c) \in Nat,
         NEW q \in Seq(S), NEW w \in Seq(S), NEW o, NEW f \in Nat, NEW k \in Nat,
         Coming(f, q, w, o, c, k), q # << >>
  PROVE  /\ Coming(f + Amount(Head(q), c), Tail(q), w, o, c, k)
         /\ Concerns(Head(q), o) => f >= k
<1> DEFINE a == Amount(Head(q), c)
           b == Flow(Tail(q), c)
<1>1. Head(q) \in S /\ Tail(q) \in Seq(S)
  BY HeadTailProperties
<1>2. a \in Nat /\ b \in Nat /\ Flow(w, c) \in Nat
  BY <1>1, AmountsType
<1>3. Flow(q, c) = a + b
  BY FlowTakes
<1>4. Reached(f + a, Tail(q), o, c, k) /\ (Concerns(Head(q), o) => f >= k)
  BY ReachedTakes DEF Coming
<1> HIDE DEF a, b
<1>5. f + Flow(q, c) = (f + a) + b
  BY <1>2, <1>3
<1>6. Reached((f + a) + b, w, o, c, k) /\ (f + a) + b + Flow(w, c) >= k
  BY <1>5 DEF Coming
<1> QED
  BY <1>4, <1>6 DEF Coming, a, b

\* A message that adds nothing and does not end the order changes nothing.
LEMMA ComingPut ==
  ASSUME NEW S, NEW c, \A m \in S : Amount(m, c) \in Nat,
         NEW q \in Seq(S), NEW w \in Seq(S), NEW o, NEW f \in Nat, NEW k \in Nat,
         Coming(f, q, w, o, c, k), NEW e \in S, Amount(e, c) = 0, ~Concerns(e, o)
  PROVE  Coming(f, Append(q, e), w, o, c, k)
<1>1. Flow(q, c) \in Nat
  BY AmountsType
<1>2. Flow(Append(q, e), c) = Flow(q, c)
  <2>1. Flow(Append(q, e), c) = Flow(q, c) + Amount(e, c)
    BY FlowAppend
  <2> QED
    BY <1>1, <2>1
<1>3. Reached(f, Append(q, e), o, c, k)
  BY ReachedAppend DEF Coming
<1> QED
  BY <1>2, <1>3 DEF Coming

\* Nor does it change anything when a message passes from w to q.
LEMMA ComingMoved ==
  ASSUME NEW S, NEW c, \A m \in S : Amount(m, c) \in Nat,
         NEW q \in Seq(S), NEW w \in Seq(S), NEW o, NEW f \in Nat, NEW k \in Nat,
         Coming(f, q, w, o, c, k), w # << >>
  PROVE  Coming(f, Append(q, Head(w)), Tail(w), o, c, k)
<1> DEFINE e == Head(w)
           b == Flow(q, c)
           d == Flow(Tail(w), c)
<1>1. e \in S /\ Tail(w) \in Seq(S)
  BY HeadTailProperties
<1>2. Amount(e, c) \in Nat /\ b \in Nat /\ d \in Nat
  BY <1>1, AmountsType
<1>3. Flow(Append(q, e), c) = b + Amount(e, c)
  BY <1>1, FlowAppend
<1>4. Flow(w, c) = Amount(e, c) + d
  BY FlowTakes
<1>5. f + b \in Nat /\ Reached(f + b, w, o, c, k)
  BY <1>2 DEF Coming
<1>6. Reached((f + b) + Amount(e, c), Tail(w), o, c, k) /\ (Concerns(e, o) => f + b >= k)
  <2> HIDE DEF b
  <2> QED
    BY <1>5, ReachedTakes
<1>7. Reached(f, Append(q, e), o, c, k)
  BY <1>1, <1>6, ReachedAppend DEF Coming
<1>8. f + b + Flow(w, c) >= k
  BY DEF Coming
<1> HIDE DEF e, b, d
<1>9. f + Flow(Append(q, e), c) = (f + b) + Amount(e, c)
  BY <1>2, <1>3
<1>10. f + Flow(Append(q, e), c) + d >= k
  BY <1>2, <1>3, <1>4, <1>8
<1> QED
  BY <1>6, <1>7, <1>9, <1>10 DEF Coming, d, e

\* A message more on its way adds to what is reached, and may end the order:
\* all is on its way before it.
LEMMA ComingSent ==
  ASSUME NEW S, NEW c, \A m \in S : Amount(m, c) \in Nat,
         NEW q \in Seq(S), NEW w \in Seq(S), NEW o, NEW f \in Nat, NEW k \in Nat,
         Coming(f, q, w, o, c, k), NEW e \in S
  PROVE  Coming(f, q, Append(w, e), o, c, k)
<1>1. Flow(q, c) \in Nat /\ Flow(w, c) \in Nat /\ Amount(e, c) \in Nat
  BY AmountsType
<1> DEFINE g == f + Flow(q, c)
<1>2. g \in Nat /\ Reached(g, w, o, c, k) /\ g + Flow(w, c) >= k
  BY <1>1 DEF Coming
<1>3. Flow(Append(w, e), c) = Flow(w, c) + Amount(e, c)
  BY FlowAppend
<1>4. Reached(g, Append(w, e), o, c, k)
  <2> HIDE DEF g
  <2> QED
    BY <1>2, ReachedAppend
<1>5. g + Flow(Append(w, e), c) >= k
  <2> HIDE DEF g
  <2> QED
    BY <1>1, <1>2, <1>3
<1> QED
  BY <1>4, <1>5 DEF Coming

\* Messages that do not end the order are joined by one that does not.
LEMMA NoneConcerns ==
  ASSUME NEW S, NEW w \in Seq(S), NEW o, NEW e \in S, ~Concerns(e, o),
         \A i \in DOMAIN w : ~Concerns(w[i], o)
  PROVE  \A i \in DOMAIN Append(w, e) : ~Concerns(Append(w, e)[i], o)
  BY AppendElements

\* As long as no message ends the order, what is filled is reported.
LEMMA ComingFilled ==
  ASSUME NEW S, NEW c, \A m \in S : Amount(m, c) \in Nat,
         NEW q \in Seq(S), NEW w \in Seq(S), NEW o, NEW f \in Nat, NEW k \in Nat,
         Coming(f, q, w, o, c, k), NEW e \in S,
         \A i \in DOMAIN q : ~Concerns(q[i], o), \A i \in DOMAIN w : ~Concerns(w[i], o),
         ~Concerns(e, o)
  PROVE  Coming(f, q, Append(w, e), o, c, k + Amount(e, c))
<1>1. Flow(q, c) \in Nat /\ Flow(w, c) \in Nat /\ Amount(e, c) \in Nat
  BY AmountsType
<1>2. Flow(Append(w, e), c) = Flow(w, c) + Amount(e, c)
  BY FlowAppend
<1>3. f + Flow(q, c) + Flow(Append(w, e), c) >= k + Amount(e, c)
  BY <1>1, <1>2 DEF Coming
<1>4. \A i \in DOMAIN Append(w, e) : ~Concerns(Append(w, e)[i], o)
  BY NoneConcerns, Zenon
<1> QED
  BY <1>3, <1>4 DEF Coming, Reached
=============================================================================
