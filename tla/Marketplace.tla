----------------------------- MODULE Marketplace -----------------------------
(***************************************************************************)
(* The HTTP handlers of buyers, sellers and shippers over the two stores.  *)
(* Every request runs in a goroutine of its own.  The stores are locked    *)
(* only inside a method, so a handler is a sequence of steps, one per call *)
(* of a store or of the Kafka producer, and the steps of concurrent        *)
(* requests interleave.  A slot stands for one request and its goroutine.  *)
(*                                                                         *)
(* written collects what handlers passed to the producer.  The producer is *)
(* asynchronous and never makes a handler fail or wait; what becomes of an *)
(* event after that is not modelled here.                                  *)
(***************************************************************************)
EXTENDS Integers, Sequences, FiniteSets, SequencesExt

CONSTANTS
  Slots,       \* requests in flight
  May,         \* slot -> the operations its request may ask for
  Carts,       \* the item lists a checkout may send, <<>> for an empty one
  Offers,      \* product -> [seller, price, quantity] its seller will list
  OrderIds, Buyers, Sellers, Shippers, ReadyDelays, MaxTime

VARIABLES
  call,        \* slot -> the goroutine: operation, place pc, request and locals
  written,     \* events passed to the producer, each with the slot it came from
  products, productsBySeller,
  orders, ordersByBuyer, ordersBySeller, ordersByShipper, ordersByStatus, now

Products == DOMAIN Offers
Line == [product : Products, quantity : Int]

ASSUME MarketAssumption ==
  /\ IsFiniteSet(Slots)
  /\ Offers \in [Products -> [seller : Sellers, price : Int, quantity : Int]]
  /\ Carts \subseteq Seq(Line)
  /\ "" \notin Shippers
  /\ MaxTime \in Nat /\ ReadyDelays \subseteq Nat

O == INSTANCE OrderStore WITH ItemLists <- Seq(Line)
P == INSTANCE ProductStore

productVars == <<products, productsBySeller>>
orderVars ==
  <<orders, ordersByBuyer, ordersBySeller, ordersByShipper, ordersByStatus, now>>
vars == <<call, written, productVars, orderVars>>

OrderOps == {"confirm", "pick", "deliver"}

-----------------------------------------------------------------------------
Idle == [op |-> "none", pc |-> "idle", answer |-> 0]

Init ==
  /\ call = [s \in Slots |-> Idle]
  /\ written = {}
  /\ P!InitProducts(Sellers)
  /\ O!Init

\* The goroutine of slot s goes on with these locals.
Continue(s, next) == call' = [call EXCEPT ![s] = next]

\* The goroutine of slot s answers with an HTTP status and ends.
Answer(s, code) == Continue(s, [call[s] EXCEPT !.pc = "done", !.answer = code])

\* Pass an event to the producer: fire and forget.
Write(s, event) == written' = written \cup {[slot |-> s, event |-> event]}

At(s, op, pc) == call[s].op = op /\ call[s].pc = pc

\* The request of slot s asks for op.
Asks(s, op) == call[s] = Idle /\ op \in May[s]

-----------------------------------------------------------------------------
(* A request arrives, already authenticated for the role the route needs.  *)

ArriveList(s) ==
  /\ Asks(s, "list")
  /\ \E p \in {q \in Products : \A t \in Slots :  \* every listing gets its own uuid
                   call[t].op = "list" => call[t].product # q} :
       Continue(s, [op |-> "list", pc |-> "validate", answer |-> 0,
                    by |-> Offers[p].seller, product |-> p])
  /\ UNCHANGED <<written, productVars, orderVars>>

ArriveAdd(s) ==
  /\ Asks(s, "add")
  /\ \E b \in Buyers, p \in Products :
       Continue(s, [op |-> "add", pc |-> "get", answer |-> 0, by |-> b, product |-> p])
  /\ UNCHANGED <<written, productVars, orderVars>>

ArriveCheckout(s) ==
  /\ Asks(s, "checkout")
  /\ \E b \in Buyers, c \in Carts :
       Continue(s, [op |-> "checkout", pc |-> "check", answer |-> 0, by |-> b,
                    cart |-> c, line |-> 1, groups |-> <<>>, id |-> "", seller |-> "", items |-> <<>>])
  /\ UNCHANGED <<written, productVars, orderVars>>

ArriveOrderOp(s) ==
  /\ \E op \in OrderOps, id \in OrderIds :
       /\ Asks(s, op)
       /\ \E by \in IF op = "confirm" THEN Sellers ELSE Shippers :
            Continue(s, [op |-> op, pc |-> "get", answer |-> 0, by |-> by, id |-> id,
                         seen |-> <<>>])
  /\ UNCHANGED <<written, productVars, orderVars>>

-----------------------------------------------------------------------------
(* Seller: AddProduct.  The quantity is stored as it comes.                *)

ListProduct(s) ==
  /\ At(s, "list", "validate")
  /\ LET p == call[s].product IN
       IF Offers[p].price <= 0
       THEN Answer(s, 400) /\ UNCHANGED <<written, productVars, orderVars>>
       ELSE /\ P!Add(p, call[s].by, Offers[p].quantity)
            /\ Continue(s, [call[s] EXCEPT !.pc = "write"])
            /\ UNCHANGED <<written, orderVars>>

WriteListed(s) ==
  /\ At(s, "list", "write")
  /\ Write(s, [type |-> "product.listed", product |-> call[s].product,
               seller |-> call[s].by, quantity |-> Offers[call[s].product].quantity])
  /\ Answer(s, 201)
  /\ UNCHANGED <<productVars, orderVars>>

-----------------------------------------------------------------------------
(* Buyer: AddToCart only looks the product up and writes an event.         *)

AddToCart(s) ==
  /\ At(s, "add", "get")
  /\ IF P!Listed(call[s].product)
     THEN Continue(s, [call[s] EXCEPT !.pc = "write"])
     ELSE Answer(s, 404)
  /\ UNCHANGED <<written, productVars, orderVars>>

WriteAdded(s) ==
  /\ At(s, "add", "write")
  /\ Write(s, [type |-> "cart.item.added", product |-> call[s].product,
               seller |-> products[call[s].product].seller, buyer |-> call[s].by])
  /\ Answer(s, 200)
  /\ UNCHANGED <<productVars, orderVars>>

-----------------------------------------------------------------------------
(* Buyer: Checkout.  The lines are checked one by one, each against the    *)
(* stock of that moment, and grouped by seller.                            *)

Acceptable(line) ==
  /\ P!Listed(line.product)
  /\ line.quantity > 0
  /\ line.quantity <= products[line.product].quantity

\* Mutant: a seller's group is replaced where it should grow.
GroupedLastLine(groups, line) ==
  LET seller == products[line.product].seller
  IN  [x \in DOMAIN groups \cup {seller} |-> IF x = seller THEN <<line>> ELSE groups[x]]

\* The lines grouped so far with one more line in its seller's group.
Grouped(groups, line) ==
  LET seller == products[line.product].seller
  IN  [x \in DOMAIN groups \cup {seller} |->
         (IF x \in DOMAIN groups THEN groups[x] ELSE <<>>)
           \o (IF x = seller THEN <<line>> ELSE <<>>)]

CheckLine(s) ==
  /\ At(s, "checkout", "check")
  /\ LET c == call[s] IN
       IF c.cart = <<>> \/ ~ Acceptable(c.cart[c.line])
       THEN Answer(s, 400)
       ELSE Continue(s, [c EXCEPT !.groups = Grouped(@, c.cart[c.line]),
                                  !.line = @ + 1,
                                  !.pc = IF c.line = Len(c.cart) THEN "create" ELSE "check"])
  /\ UNCHANGED <<written, productVars, orderVars>>

\* The groups are a Go map: they are taken in any order.  Which unused uuid
\* the order gets makes no difference, and there always is one.
CreateOrder(s) ==
  /\ At(s, "checkout", "create")
  /\ OrderIds \ DOMAIN orders # {}
  /\ \E seller \in DOMAIN call[s].groups :
       LET groups == call[s].groups
           id == CHOOSE i \in OrderIds : i \notin DOMAIN orders IN
       /\ O!Create(id, O!NewOrder(call[s].by, seller, groups[seller]))
       /\ Continue(s, [call[s] EXCEPT !.pc = "decrement", !.line = 1, !.id = id,
                                      !.seller = seller, !.items = groups[seller],
                                      !.groups = [x \in DOMAIN groups \ {seller} |-> groups[x]]])
  /\ UNCHANGED <<written, productVars>>

\* Mutant: wait for the stock to suffice.
DecrementUntilTaken(s) ==
  /\ At(s, "checkout", "decrement")
  /\ LET c == call[s]
         l == c.items[c.line] IN
       /\ P!Has(l.product, l.quantity)
       /\ P!DecrementQuantity(l.product, l.quantity)
       /\ Continue(s, [c EXCEPT !.line = @ + 1,
                                !.pc = IF c.line = Len(c.items) THEN "write" ELSE "decrement"])
  /\ UNCHANGED <<written, orderVars>>

\* Mutant: a line that was sold out meanwhile starts the order over.
DecrementStartsOver(s) ==
  /\ At(s, "checkout", "decrement")
  /\ LET c == call[s]
         l == c.items[c.line] IN
       /\ P!DecrementQuantity(l.product, l.quantity)
       /\ Continue(s, IF ~ P!Has(l.product, l.quantity) THEN [c EXCEPT !.line = 1]
                      ELSE [c EXCEPT !.line = @ + 1,
                                     !.pc = IF c.line = Len(c.items) THEN "write" ELSE "decrement"])
  /\ UNCHANGED <<written, orderVars>>

\* What DecrementQuantity answers is ignored.
DecrementLine(s) ==
  /\ At(s, "checkout", "decrement")
  /\ LET c == call[s]
         l == c.items[c.line] IN
       /\ P!DecrementQuantity(l.product, l.quantity)
       /\ Continue(s, [c EXCEPT !.line = @ + 1,
                                !.pc = IF c.line = Len(c.items) THEN "write" ELSE "decrement"])
  /\ UNCHANGED <<written, orderVars>>

WriteCheckout(s) ==
  /\ At(s, "checkout", "write")
  /\ LET c == call[s] IN
       /\ Write(s, [type |-> "cart.checkout", id |-> c.id, buyer |-> c.by,
                    seller |-> c.seller, items |-> c.items])
       /\ IF DOMAIN c.groups = {} THEN Answer(s, 201)
          ELSE Continue(s, [c EXCEPT !.pc = "create"])
  /\ UNCHANGED <<productVars, orderVars>>

-----------------------------------------------------------------------------
(* Seller: ConfirmOrder.  Shipper: PickJob, DeliverJob.  Look the order up, *)
(* ask the store for the transition, write the event.                      *)

GetOrder(s) ==
  /\ call[s].op \in OrderOps
  /\ call[s].pc = "get"
  /\ IF call[s].id \in DOMAIN orders
     THEN Continue(s, [call[s] EXCEPT !.pc = "transition", !.seen = orders[call[s].id]])
     ELSE Answer(s, 404)
  /\ UNCHANGED <<written, productVars, orderVars>>

\* What the store answers to the transition this request asks for.
Result(s) ==
  CASE call[s].op = "confirm" -> O!ConfirmResult(call[s].id, call[s].by)
    [] call[s].op = "pick"    -> O!PickResult(call[s].id)
    [] call[s].op = "deliver" -> O!DeliverResult(call[s].id, call[s].by)
    [] OTHER             -> "notAsked"

\* Mutants: a conflict answered with the default status; events built from
\* the order as it was before the transition; a deliver that returns early.
CodeConflictMissed(result) ==
  CASE result \in {"wrongSeller", "wrongShipper"} -> 403
    [] result = "notReady"                        -> 409
    [] OTHER                                      -> 200
AlwaysFromSnapshot(op) == "write"
DeliverUnannounced(op) ==
  CASE op = "confirm" -> "write" [] op = "pick" -> "reread" [] op = "deliver" -> "done"

\* HTTP status of a refusal.
Code(result) ==
  CASE result \in {"wrongSeller", "wrongShipper"}   -> 403
    [] result \in {"invalidTransition", "notReady"} -> 409
    [] OTHER                                        -> 500

\* The shippers' events are built from the order as it is after the
\* transition, the seller's from the one looked up before it.
AfterTransition(op) == IF op = "confirm" THEN "write" ELSE "reread"

Transition(s) ==
  /\ call[s].pc = "transition"
  /\ \/ At(s, "confirm", "transition") /\ O!Confirm(call[s].id, call[s].by)
     \/ At(s, "pick", "transition")    /\ O!Pick(call[s].id, call[s].by)
     \/ At(s, "deliver", "transition") /\ O!Deliver(call[s].id, call[s].by)
  /\ Continue(s, [call[s] EXCEPT !.pc = AfterTransition(call[s].op)])
  /\ UNCHANGED <<written, productVars>>

Refuse(s) ==
  /\ call[s].pc = "transition"
  /\ Result(s) # "ok"
  /\ Answer(s, Code(Result(s)))
  /\ UNCHANGED <<written, productVars, orderVars>>

Reread(s) ==
  /\ call[s].pc = "reread"
  /\ Continue(s, [call[s] EXCEPT !.pc = "write", !.seen = orders[call[s].id]])
  /\ UNCHANGED <<written, productVars, orderVars>>

EventOf(op) ==
  CASE op = "confirm" -> "order.confirmed"
    [] op = "pick"    -> "shipment.picked"
    [] op = "deliver" -> "shipment.delivered"

\* order.confirmed carries the parties, shipment events also the holder and
\* the readiness time.
Payload(op, id, order) ==
  IF op = "confirm"
  THEN [type |-> EventOf(op), id |-> id, buyer |-> order.buyer, seller |-> order.seller]
  ELSE [type |-> EventOf(op), id |-> id, buyer |-> order.buyer, seller |-> order.seller,
        shipper |-> order.pickedBy, readyAt |-> order.readyAt]

WriteOrderEvent(s) ==
  /\ call[s].op \in OrderOps
  /\ call[s].pc = "write"
  /\ Write(s, Payload(call[s].op, call[s].id, call[s].seen))
  /\ Answer(s, 200)
  /\ UNCHANGED <<productVars, orderVars>>

-----------------------------------------------------------------------------
Tick == O!Tick /\ UNCHANGED <<call, written, productVars>>

Arrive(s) == ArriveList(s) \/ ArriveAdd(s) \/ ArriveCheckout(s) \/ ArriveOrderOp(s)

Step(s) ==
  \/ ListProduct(s) \/ WriteListed(s) \/ AddToCart(s) \/ WriteAdded(s)
  \/ CheckLine(s) \/ CreateOrder(s) \/ DecrementLine(s) \/ WriteCheckout(s)
  \/ GetOrder(s) \/ Transition(s) \/ Refuse(s) \/ Reread(s) \/ WriteOrderEvent(s)

Next == (\E s \in Slots : Arrive(s) \/ Step(s)) \/ Tick

\* Every goroutine that can run is scheduled; nobody has to send a request
\* and nothing depends on the clock advancing.
Spec == Init /\ [][Next]_vars /\ \A s \in Slots : WF_vars(Step(s))

-----------------------------------------------------------------------------
(* Properties.                                                             *)

Events == {w.event : w \in written}
EventsOfType(type) == {e \in Events : e.type = type}

\* Units of product p in a list of lines, and in all orders together.
Units(items, p) ==
  SumFunction([i \in DOMAIN items |-> IF items[i].product = p THEN items[i].quantity ELSE 0])
OrderedUnits(p) == SumFunction([id \in DOMAIN orders |-> Units(orders[id].items, p)])

\* The places of a handler, besides its end.
Places ==
  [none |-> {"idle"}, list |-> {"validate", "write"}, add |-> {"get", "write"},
   checkout |-> {"check", "create", "decrement", "write"},
   confirm |-> {"get", "transition", "write"},
   pick |-> {"get", "transition", "reread", "write"},
   deliver |-> {"get", "transition", "reread", "write"}]

\* Both stores are well typed and every goroutine is at a place of its handler.
TypeOK ==
  /\ O!TypeOK
  /\ DOMAIN products \subseteq Products
  /\ \A p \in DOMAIN products : products[p].seller \in Sellers /\ products[p].quantity \in Int
  /\ productsBySeller \in [Sellers -> Seq(DOMAIN products)]
  /\ \A s \in Slots :
       /\ call[s].op \in May[s] \cup {"none"}
       /\ call[s].pc \in {"done"} \cup Places[call[s].op]
       /\ call[s].pc = "done" <=> call[s].answer # 0
  /\ \A w \in written : w.slot \in Slots

\* Stock is only ever taken for an order that exists: what left a product's
\* stock is covered by ordered units, and stock that was not negative when it
\* was listed never becomes negative, whatever checkouts race for it.
StockCovered ==
  \A p \in DOMAIN products :
    LET taken == Offers[p].quantity - products[p].quantity
    IN  /\ 0 <= taken /\ taken <= OrderedUnits(p)
        /\ taken > 0 => products[p].quantity >= 0

\* An accepted checkout turns its cart into one order per seller, every line
\* in the order of its own seller and none lost or doubled; a refused one
\* leaves nothing behind.
SplitExact ==
  \A s \in {t \in Slots : call[t].op = "checkout" /\ call[t].pc = "done"} :
    LET mine == {w.event : w \in {v \in written : v.slot = s}} IN
    IF call[s].answer # 201 THEN mine = {}
    ELSE /\ \A p \in Products :
              Units(call[s].cart, p) = SumFunction([e \in mine |-> Units(e.items, p)])
         /\ \A e \in mine : /\ \A i \in DOMAIN e.items :
                                 products[e.items[i].product].seller = e.seller
                            /\ \A f \in mine : f.seller = e.seller => f = e

\* The design's critical point: no event is about a state that was not
\* committed first, and each tells the truth about the order's parties, its
\* holder and its readiness time.
StatusRank == [checkout |-> 0, confirmed |-> 1, picked |-> 2, delivered |-> 3]
EventRank ==
  [type \in {"cart.checkout", "order.confirmed", "shipment.picked", "shipment.delivered"} |->
     CASE type = "cart.checkout" -> 0
       [] type = "order.confirmed" -> 1
       [] type = "shipment.picked" -> 2
       [] type = "shipment.delivered" -> 3]

EventsFollowCommits ==
  \A e \in {f \in Events : f.type \in DOMAIN EventRank} :
    /\ e.id \in DOMAIN orders
    /\ LET o == orders[e.id] IN
         /\ EventRank[e.type] <= StatusRank[o.status]
         /\ e.buyer = o.buyer /\ e.seller = o.seller
         /\ e.type = "cart.checkout" => e.items = o.items
         /\ EventRank[e.type] >= 2 => e.shipper = o.pickedBy /\ e.readyAt = o.readyAt

\* A transition is announced once, however many requests race for it, and an
\* order is never in a later status without its handler having announced it
\* or being about to: double clicks and two shippers never make a second event.
OneEventPerTransition ==
  \A id \in DOMAIN orders, type \in DOMAIN EventRank :
    LET told == {w \in written : w.event.type = type /\ w.event.id = id}
        onTheWay == {s \in Slots : /\ IF type = "cart.checkout" THEN call[s].op = "checkout"
                                      ELSE call[s].op \in OrderOps /\ EventOf(call[s].op) = type
                                   /\ call[s].pc \in {"decrement", "reread", "write"}
                                   /\ call[s].id = id}
    IN  Cardinality(told) + Cardinality(onTheWay)
          = IF EventRank[type] <= StatusRank[orders[id].status] THEN 1 ELSE 0

\* The order is with the party that asked for the transition.
InHandsOf(c) ==
  LET o == orders[c.id] IN
  /\ c.op = "confirm" => o.seller = c.by /\ StatusRank[o.status] >= 1
  /\ c.op = "pick" => o.pickedBy = c.by
  /\ c.op = "deliver" => o.pickedBy = c.by /\ o.status = "delivered"

\* A request told 200 made the transition: the event of it is its own, no other
\* request for the same transition is told 200, be it the same caller's, and the
\* order is in that caller's hands from then on.  Whoever lost the race is told
\* so and has announced nothing.
AnswersTruthful ==
  \A s \in {t \in Slots : call[t].op \in OrderOps /\ call[t].pc = "done"} :
    LET c == call[s]
        own == {w.event : w \in {v \in written : v.slot = s}} IN
    IF c.answer = 200
    THEN /\ \E e \in own : e.type = EventOf(c.op) /\ e.id = c.id
         /\ \A t \in Slots \ {s} :
              call[t].op = c.op /\ call[t].id = c.id => call[t].answer # 200
         /\ InHandsOf(c)
    ELSE c.answer \in {403, 404, 409} /\ own = {}

\* How many steps a goroutine can take at most: two and its lines for each order
\* still to be stored; a line still to be checked may open one more.
StepsFor(groups) == SumFunction([x \in DOMAIN groups |-> 2 + Len(groups[x])])
StepsLeft(c) ==
  CASE c.pc \in {"idle", "done"} -> 0
    [] c.pc = "get" -> 4
    [] c.pc = "transition" -> 3
    [] c.pc \in {"validate", "reread"} -> 2
    [] c.pc = "write" -> 1 + IF c.op = "checkout" THEN StepsFor(c.groups) ELSE 0
    [] c.pc = "check" -> 4 * (Len(c.cart) - c.line + 1) + 1 + StepsFor(c.groups)
    [] c.pc = "create" -> StepsFor(c.groups)
    [] c.pc = "decrement" -> Len(c.items) - c.line + 2 + StepsFor(c.groups)

\* No request keeps its goroutine for ever: whoever else takes from the stock or
\* moves the order, each step it takes brings it nearer to its answer.
NearerItsEnd ==
  [][\A s \in Slots : call[s] # Idle /\ call'[s] # call[s] =>
       0 <= StepsLeft(call'[s]) /\ StepsLeft(call'[s]) < StepsLeft(call[s])]_vars

\* Every request is answered, whatever the others do.
EveryRequestAnswered ==
  \A s \in Slots : call[s].pc # "idle" ~> call[s].pc = "done"

\* Every committed transition is announced in the end: no goroutine stops
\* between the store and the producer.  (Once the finitely many requests of
\* the instance are served, nothing is left unannounced for good.)
Announced ==
  \A id \in DOMAIN orders, type \in DOMAIN EventRank :
    EventRank[type] <= StatusRank[orders[id].status] =>
      \E e \in EventsOfType(type) : e.id = id

EveryTransitionAnnounced == []<>Announced

\* Units of p in the carts of the checkouts answered 201.
SoldUnits(p) ==
  SumFunction([s \in {t \in Slots : call[t].op = "checkout" /\ call[t].answer = 201} |->
                 Units(call[s].cart, p)])

\* What "insufficient stock" and TestCheckoutInsufficientStock promise: the
\* checkouts that are accepted never take more units together than were listed.
\* Concurrent checkouts break it.
NeverOversold ==
  \A p \in DOMAIN products : SoldUnits(p) <= Offers[p].quantity

=============================================================================
