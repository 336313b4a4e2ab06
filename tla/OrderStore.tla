----------------------------- MODULE OrderStore -----------------------------
(***************************************************************************)
(* The in-memory order store (app/internal/order/store.go): the primary    *)
(* map of orders and the four indexes derived from it.  Every method runs  *)
(* under the store's one mutex, so each is one action.  A method that      *)
(* returns an error changes nothing; its answer is the operator            *)
(* <Method>Result, which the HTTP handlers of Marketplace branch on.       *)
(*                                                                         *)
(* Time is a counter of clock readings: 0 is Go's zero time, a reading is  *)
(* at least 1 and several operations may read the same instant.            *)
(***************************************************************************)
EXTENDS Naturals, Sequences, SequencesExt

CONSTANTS
  OrderIds,      \* the uuids an order can get
  Buyers, Sellers, Shippers,
  ItemLists,     \* what an order may hold (its lines; never changed by the store)
  ReadyDelays,   \* what the readyDelay option may return
  MaxTime        \* bound: the clock stops there

ASSUME NoShipperAssumption == "" \notin Shippers
ASSUME TimeAssumption == MaxTime \in Nat /\ ReadyDelays \subseteq Nat

VARIABLES
  orders,           \* id -> order, for the ids created so far
  ordersByBuyer,    \* buyer -> ids, in order of creation
  ordersBySeller,   \* seller -> ids, in order of creation
  ordersByShipper,  \* shipper -> ids, in order of pickup
  ordersByStatus,   \* status -> ids, in order of arrival in that status
  now               \* what s.clock() returns

indexes == <<ordersByBuyer, ordersBySeller, ordersByShipper, ordersByStatus>>
storeVars == <<orders, indexes, now>>

-----------------------------------------------------------------------------
Statuses == {"checkout", "confirmed", "picked", "delivered"}

\* PickedBy of an order nobody picked, and a timestamp not stamped yet.
NoShipper == ""
ZeroTime == 0

\* An order as Checkout builds it, with the zero values of the other fields.
NewOrder(buyer, seller, items) ==
  [buyer |-> buyer, seller |-> seller, items |-> items, status |-> "checkout",
   pickedBy |-> NoShipper, createdAt |-> now, confirmedAt |-> ZeroTime,
   pickedAt |-> ZeroTime, readyAt |-> ZeroTime, deliveredAt |-> ZeroTime]

Order ==
  [buyer : Buyers, seller : Sellers, items : ItemLists, status : Statuses,
   pickedBy : Shippers \cup {NoShipper}, createdAt : Nat, confirmedAt : Nat,
   pickedAt : Nat, readyAt : Nat, deliveredAt : Nat]

\* Mutants: bugs the operators below could plausibly have.
UpdateStatusAppendOnly(id, status) ==
  ordersByStatus' = [ordersByStatus EXCEPT ![status] = Append(@, id)]
ConfirmUnguarded(id, seller) ==
  IF id \notin DOMAIN orders THEN "notFound"
  ELSE IF orders[id].seller # seller THEN "wrongSeller" ELSE "ok"
PickUnguarded(id) ==
  IF id \notin DOMAIN orders THEN "notFound"
  ELSE IF orders[id].status \in {"checkout", "delivered"} THEN "invalidTransition"
  ELSE "ok"
DeliverEarly(id, shipper) ==
  IF id \notin DOMAIN orders THEN "notFound"
  ELSE IF orders[id].status # "picked" THEN "invalidTransition"
  ELSE IF orders[id].pickedBy # shipper THEN "wrongShipper"
  ELSE IF now < orders[id].pickedAt THEN "notReady" ELSE "ok"

-----------------------------------------------------------------------------
(* The answers of the guarded methods, in the order the code tests them.   *)

ConfirmResult(id, seller) ==
  IF id \notin DOMAIN orders THEN "notFound"
  ELSE IF orders[id].seller # seller THEN "wrongSeller"
  ELSE IF orders[id].status # "checkout" THEN "invalidTransition"
  ELSE "ok"

PickResult(id) ==
  IF id \notin DOMAIN orders THEN "notFound"
  ELSE IF orders[id].status # "confirmed" THEN "invalidTransition"
  ELSE "ok"

DeliverResult(id, shipper) ==
  IF id \notin DOMAIN orders THEN "notFound"
  ELSE IF orders[id].status # "picked" THEN "invalidTransition"
  ELSE IF orders[id].pickedBy # shipper THEN "wrongShipper"
  ELSE IF now < orders[id].readyAt THEN "notReady"
  ELSE "ok"

\* Move id from the index of its present status to that of the new one.
UpdateStatus(id, status) ==
  ordersByStatus' =
    [ordersByStatus EXCEPT ![orders[id].status] = RemoveFirst(@, id),
                           ![status] = Append(@, id)]

-----------------------------------------------------------------------------
(* The methods that change state.                                          *)

Init ==
  /\ orders = <<>>
  /\ ordersByBuyer = [b \in Buyers |-> <<>>]
  /\ ordersBySeller = [s \in Sellers |-> <<>>]
  /\ ordersByShipper = [s \in Shippers |-> <<>>]
  /\ ordersByStatus = [s \in Statuses |-> <<>>]
  /\ now = 1

\* Store a new order and append it to the buyer, seller and status indexes.
Create(id, o) ==
  /\ orders' = [i \in DOMAIN orders \cup {id} |-> IF i = id THEN o ELSE orders[i]]
  /\ ordersByBuyer' = [ordersByBuyer EXCEPT ![o.buyer] = Append(@, id)]
  /\ ordersBySeller' = [ordersBySeller EXCEPT ![o.seller] = Append(@, id)]
  /\ ordersByStatus' = [ordersByStatus EXCEPT ![o.status] = Append(@, id)]
  /\ UNCHANGED <<ordersByShipper, now>>

\* checkout -> confirmed, by the order's seller.
Confirm(id, seller) ==
  /\ ConfirmResult(id, seller) = "ok"
  /\ UpdateStatus(id, "confirmed")
  /\ orders' = [orders EXCEPT ![id].status = "confirmed", ![id].confirmedAt = now]
  /\ UNCHANGED <<ordersByBuyer, ordersBySeller, ordersByShipper, now>>

\* confirmed -> picked: the shipper becomes the holder and the server draws
\* the delay after which the order may be delivered.
Pick(id, shipper) ==
  /\ PickResult(id) = "ok"
  /\ UpdateStatus(id, "picked")
  /\ \E delay \in ReadyDelays :
       orders' = [orders EXCEPT ![id].status = "picked",
                                ![id].pickedBy = shipper,
                                ![id].pickedAt = now,
                                ![id].readyAt = now + delay]
  /\ ordersByShipper' = [ordersByShipper EXCEPT ![shipper] = Append(@, id)]
  /\ UNCHANGED <<ordersByBuyer, ordersBySeller, now>>

\* picked -> delivered, by the holder, once the readiness time has come.
Deliver(id, shipper) ==
  /\ DeliverResult(id, shipper) = "ok"
  /\ UpdateStatus(id, "delivered")
  /\ orders' = [orders EXCEPT ![id].status = "delivered", ![id].deliveredAt = now]
  /\ UNCHANGED <<ordersByBuyer, ordersBySeller, ordersByShipper, now>>

\* External: the wall clock advances.
Tick ==
  /\ now < MaxTime
  /\ now' = now + 1
  /\ UNCHANGED <<orders, indexes>>

\* Ids are fresh uuids: a checkout never reuses one.
Next ==
  \/ \E id \in OrderIds \ DOMAIN orders, b \in Buyers, s \in Sellers, l \in ItemLists :
       Create(id, NewOrder(b, s, l))
  \/ \E id \in OrderIds, s \in Sellers : Confirm(id, s)
  \/ \E id \in OrderIds, s \in Shippers : Pick(id, s)
  \/ \E id \in OrderIds, s \in Shippers : Deliver(id, s)
  \/ Tick

Spec == Init /\ [][Next]_storeVars

-----------------------------------------------------------------------------
(* The lists the store serves, as the sets of ids in them; the newest-     *)
(* first order of a shipper's lists is left out.                           *)

ListedUnder(ids) == ToSet(ids) \cap DOMAIN orders

ByBuyer(buyer) == ListedUnder(ordersByBuyer[buyer])
BySeller(seller) == ListedUnder(ordersBySeller[seller])
ByStatus(status) == ListedUnder(ordersByStatus[status])

ByShipper(shipper) ==
  LET ids == ListedUnder(ordersByShipper[shipper])
  IN  [active  |-> {id \in ids : orders[id].status = "picked"},
       history |-> {id \in ids : orders[id].status = "delivered"}]

-----------------------------------------------------------------------------
(* Properties.                                                             *)

\* Every variable has the type the Go declarations give it; in particular an
\* order has one of the four statuses.
TypeOK ==
  /\ DOMAIN orders \subseteq OrderIds
  /\ orders \in [DOMAIN orders -> Order]
  /\ ordersByBuyer \in [Buyers -> Seq(DOMAIN orders)]
  /\ ordersBySeller \in [Sellers -> Seq(DOMAIN orders)]
  /\ ordersByShipper \in [Shippers -> Seq(DOMAIN orders)]
  /\ ordersByStatus \in [Statuses -> Seq(DOMAIN orders)]
  /\ now \in Nat \ {0}

\* ids lists, without repetition, exactly the orders that satisfy P.
Lists(ids, wanted) == IsInjective(ids) /\ ToSet(ids) = wanted

\* The design's update rule: every mutation leaves the primary map and all
\* its indexes in agreement.  Each order is listed once under its buyer, its
\* seller, its status and, from pickup on, its shipper, and nowhere else.
IndexesAgree ==
  /\ \A b \in Buyers :
       Lists(ordersByBuyer[b], {id \in DOMAIN orders : orders[id].buyer = b})
  /\ \A s \in Sellers :
       Lists(ordersBySeller[s], {id \in DOMAIN orders : orders[id].seller = s})
  /\ \A s \in Shippers :
       Lists(ordersByShipper[s], {id \in DOMAIN orders : orders[id].pickedBy = s})
  /\ \A t \in Statuses :
       Lists(ordersByStatus[t], {id \in DOMAIN orders : orders[id].status = t})

\* The stamps of an order tell its history: they are set exactly for the
\* statuses it went through, in order, and no order is delivered before the
\* readiness time the server drew at pickup.  t is the present instant.
Timeline(o, t) ==
  LET confirmed == o.status # "checkout"
      picked    == o.status \in {"picked", "delivered"}
      delivered == o.status = "delivered"
  IN  /\ 1 <= o.createdAt /\ o.createdAt <= t
      /\ IF confirmed THEN o.createdAt <= o.confirmedAt /\ o.confirmedAt <= t
         ELSE o.confirmedAt = ZeroTime
      /\ IF picked THEN /\ o.pickedBy # NoShipper
                        /\ o.confirmedAt <= o.pickedAt /\ o.pickedAt <= t
                        /\ o.pickedAt <= o.readyAt
         ELSE o.pickedBy = NoShipper /\ o.pickedAt = ZeroTime /\ o.readyAt = ZeroTime
      /\ IF delivered THEN o.readyAt <= o.deliveredAt /\ o.deliveredAt <= t
         ELSE o.deliveredAt = ZeroTime

TimelineOK == \A id \in DOMAIN orders : Timeline(orders[id], now)

\* A stamp, a holder and the parties of an order are written once: a second
\* click on confirm, pick or deliver, by anyone, never rewrites history.
WrittenOnceStep ==
  \A id \in DOMAIN orders :
    LET old == orders[id]
        new == orders'[id]
    IN  /\ id \in DOMAIN orders'
        /\ new.buyer = old.buyer /\ new.seller = old.seller
        /\ new.items = old.items /\ new.createdAt = old.createdAt
        /\ old.confirmedAt # ZeroTime => new.confirmedAt = old.confirmedAt
        /\ old.pickedBy # NoShipper =>
             /\ new.pickedBy = old.pickedBy
             /\ new.pickedAt = old.pickedAt /\ new.readyAt = old.readyAt
        /\ old.deliveredAt # ZeroTime => new = old

WrittenOnce == [][WrittenOnceStep]_storeVars

\* The lists the REST reads serve implement the abstract board: seen through
\* the indexes, an order waits, hangs on the board, is carried by one shipper
\* and then is in that shipper's history, never in two places or in none.
Board == INSTANCE OrderBoard WITH
  Orders   <- OrderIds,
  awaiting <- ByStatus("checkout"),
  board    <- ByStatus("confirmed"),
  carrying <- [s \in Shippers |-> ByShipper(s).active],
  history  <- [s \in Shippers |-> ByShipper(s).history]

ImplementsBoard == Board!Spec

=============================================================================
