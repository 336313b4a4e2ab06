-------------------------- MODULE MarketplaceProofs --------------------------
(***************************************************************************)
(* Machine-checked proofs about Marketplace: whatever requests are in      *)
(* flight together and however their goroutines interleave, every event    *)
(* tells of a committed state, each transition is announced exactly once   *)
(* and the caller told 200 is the one who did it.                          *)
(***************************************************************************)
EXTENDS Marketplace, TLAPS, FiniteSetTheorems, SequenceTheorems, WellFoundedInduction

-----------------------------------------------------------------------------
(* The order store stays well typed.                                       *)

Below == {p \in Nat \X Nat : p[1] < p[2]}

\* A set of numbers has a least element.
LEMMA LeastNumber ==
  ASSUME NEW S \in SUBSET Nat, S # {}
  PROVE  O!Min(S) \in S
<1>1. IsWellFoundedOn(Below, Nat)
  BY NatLessThanWellFounded DEF OpToRel, Below
<1>2. PICK x \in S : \A y \in S : <<y, x>> \notin Below
  BY <1>1, WFMin
<1>3. \A y \in S : ~ (y < x)
  BY <1>2 DEF Below
<1>4. \A y \in S : x <= y
  BY <1>3
<1>5. QED
  BY <1>4 DEF O!Min

\* A list of ids with an id removed is a list of those ids.
LEMMA RemovedList ==
  ASSUME NEW S, NEW list \in Seq(S), NEW id
  PROVE  O!RemoveFirst(list, id) \in Seq(S)
<1> DEFINE hits == {i \in 1 .. Len(list) : list[i] = id}
           k == O!Min(hits)
<1>1. CASE hits = {}
  BY <1>1 DEF O!RemoveFirst
<1>2. CASE hits # {}
  <2>1. k \in hits
    <3>1. hits \in SUBSET Nat
      OBVIOUS
    <3>2. QED
      BY ONLY <1>2, <3>1, LeastNumber
  <2>2. k \in 1 .. Len(list)
    BY <2>1
  <2>3. O!SelectInSeq(list, LAMBDA v : v = id) = k
    <3>1. O!SelectInSeq(list, LAMBDA v : v = id) = IF hits # {} THEN O!Min(hits) ELSE 0
      BY DEF O!SelectInSeq
    <3>2. QED
      BY <1>2, <3>1
  <2> HIDE DEF k
  <2>4. O!RemoveFirst(list, id) = SubSeq(list, 1, k - 1) \o SubSeq(list, k + 1, Len(list))
    BY <1>2, <2>3 DEF O!RemoveFirst, O!RemoveAt
  <2>5. /\ \A i \in 1 .. k - 1 : list[i] \in S
        /\ \A i \in k + 1 .. Len(list) : list[i] \in S
    BY <2>2
  <2>6. SubSeq(list, 1, k - 1) \in Seq(S)
    BY <2>2, <2>5, SubSeqProperties
  <2>7. SubSeq(list, k + 1, Len(list)) \in Seq(S)
    BY <2>2, <2>5, SubSeqProperties
  <2>8. QED
    BY <2>4, <2>6, <2>7
<1>3. QED
  BY <1>1, <1>2

\* Moving an order to another status keeps the status index typed.
LEMMA MovedTyped ==
  ASSUME O!TypeOK, NEW id \in DOMAIN orders, NEW status \in O!Statuses,
         status # orders[id].status, O!UpdateStatus(id, status)
  PROVE  ordersByStatus' \in [O!Statuses -> Seq(DOMAIN orders)]
<1> DEFINE old == orders[id].status
           removed == O!RemoveFirst(ordersByStatus[old], id)
           step == [ordersByStatus EXCEPT ![old] = removed]
<1>1. old \in O!Statuses
  BY DEF O!TypeOK, O!Order
<1>2. removed \in Seq(DOMAIN orders)
  <2>1. ordersByStatus[old] \in Seq(DOMAIN orders)
    BY <1>1 DEF O!TypeOK
  <2>2. QED
    BY <2>1, RemovedList
<1>3. ordersByStatus' = [step EXCEPT ![status] = Append(ordersByStatus[status], id)]
  BY DEF O!UpdateStatus
<1>a. ordersByStatus[status] \in Seq(DOMAIN orders)
  BY DEF O!TypeOK
<1> HIDE DEF removed, old
<1>4. step \in [O!Statuses -> Seq(DOMAIN orders)]
  BY <1>2 DEF O!TypeOK
<1> HIDE DEF step
<1>5. Append(ordersByStatus[status], id) \in Seq(DOMAIN orders)
  BY <1>a
<1>6. QED
  BY <1>3, <1>4, <1>5

\* Storing a new order keeps the store typed.
LEMMA CreateTyped ==
  ASSUME O!TypeOK, NEW id \in OrderIds, NEW buyer \in Buyers, NEW seller \in Sellers,
         NEW items \in Seq(Line), O!Create(id, O!NewOrder(buyer, seller, items))
  PROVE  /\ O!TypeOK'
         /\ DOMAIN orders' = DOMAIN orders \cup {id}
         /\ \A i \in DOMAIN orders \ {id} : orders'[i] = orders[i]
         /\ orders'[id] = O!NewOrder(buyer, seller, items)
<1> DEFINE o == O!NewOrder(buyer, seller, items)
<1>1. /\ o \in O!Order
      /\ o.buyer = buyer /\ o.seller = seller /\ o.status = "checkout"
  BY DEF O!TypeOK, O!NewOrder, O!Order, O!Statuses, O!NoShipper, O!ZeroTime
<1> HIDE DEF o
<1>2. /\ DOMAIN orders' = DOMAIN orders \cup {id}
      /\ \A i \in DOMAIN orders \ {id} : orders'[i] = orders[i]
      /\ orders'[id] = o
  BY DEF O!Create, o
<1>3. orders' \in [DOMAIN orders' -> O!Order]
  <2>1. orders' = [i \in DOMAIN orders \cup {id} |-> IF i = id THEN o ELSE orders[i]]
    BY DEF O!Create, o
  <2>2. \A i \in DOMAIN orders : orders[i] \in O!Order
    BY DEF O!TypeOK
  <2>3. QED
    BY <1>1, <2>1, <2>2
<1> DEFINE ids == DOMAIN orders
           ids2 == DOMAIN orders'
<1>4. ids \subseteq ids2 /\ id \in ids2
  BY <1>2
<1>5. ordersByBuyer' = [ordersByBuyer EXCEPT ![buyer] = Append(@, id)]
  BY <1>1 DEF O!Create, o
<1>6. ordersBySeller' = [ordersBySeller EXCEPT ![seller] = Append(@, id)]
  BY <1>1 DEF O!Create, o
<1>7. ordersByStatus' = [ordersByStatus EXCEPT !["checkout"] = Append(@, id)]
  BY <1>1 DEF O!Create, o
<1>8. ordersByShipper' = ordersByShipper /\ now' = now
  BY DEF O!Create
<1>9. /\ ordersByBuyer \in [Buyers -> Seq(ids)]
      /\ ordersBySeller \in [Sellers -> Seq(ids)]
      /\ ordersByShipper \in [Shippers -> Seq(ids)]
      /\ ordersByStatus \in [O!Statuses -> Seq(ids)]
      /\ now \in Nat \ {0} /\ ids \subseteq OrderIds
  BY DEF O!TypeOK
<1>10. "checkout" \in O!Statuses
  BY DEF O!Statuses
<1> HIDE DEF ids, ids2
<1>11. \A list \in Seq(ids) : list \in Seq(ids2) /\ Append(list, id) \in Seq(ids2)
  BY <1>4
<1>12. /\ ordersByBuyer' \in [Buyers -> Seq(ids2)]
       /\ ordersBySeller' \in [Sellers -> Seq(ids2)]
       /\ ordersByShipper' \in [Shippers -> Seq(ids2)]
       /\ ordersByStatus' \in [O!Statuses -> Seq(ids2)]
  BY <1>5, <1>6, <1>7, <1>8, <1>9, <1>10, <1>11
<1>13. DOMAIN orders' \subseteq OrderIds
  BY <1>2, <1>9 DEF ids
<1>14. QED
  BY <1>2, <1>3, <1>8, <1>9, <1>12, <1>13 DEF O!TypeOK, ids2, o

\* What the three transitions do to the order, and that the store stays typed.
LEMMA ConfirmTyped ==
  ASSUME O!TypeOK, NEW id, NEW by, O!Confirm(id, by)
  PROVE  /\ O!TypeOK'
         /\ id \in DOMAIN orders /\ orders[id].status = "checkout" /\ orders[id].seller = by
         /\ DOMAIN orders' = DOMAIN orders
         /\ \A i \in DOMAIN orders \ {id} : orders'[i] = orders[i]
         /\ orders'[id] = [orders[id] EXCEPT !.status = "confirmed", !.confirmedAt = now]
<1>1. id \in DOMAIN orders /\ orders[id].status = "checkout" /\ orders[id].seller = by
  BY DEF O!Confirm, O!ConfirmResult
<1>2. /\ DOMAIN orders' = DOMAIN orders
      /\ \A i \in DOMAIN orders \ {id} : orders'[i] = orders[i]
      /\ orders'[id] = [orders[id] EXCEPT !.status = "confirmed", !.confirmedAt = now]
  BY <1>1 DEF O!Confirm
<1>3. orders' \in [DOMAIN orders -> O!Order]
  <2>1. orders \in [DOMAIN orders -> O!Order] /\ now \in Nat
    BY DEF O!TypeOK
  <2>2. orders'[id] \in O!Order
    BY <1>1, <1>2, <2>1 DEF O!Order, O!Statuses
  <2>3. orders' = [i \in DOMAIN orders |-> orders'[i]]
    BY <2>1 DEF O!Confirm
  <2>4. QED
    BY <1>2, <2>1, <2>2, <2>3
<1>4. ordersByStatus' \in [O!Statuses -> Seq(DOMAIN orders)]
  BY <1>1, MovedTyped DEF O!Confirm, O!Statuses
<1>5. QED
  BY <1>1, <1>2, <1>3, <1>4 DEF O!TypeOK, O!Confirm

\* A pickup keeps the store well typed: the holder is a shipper and the
\* readiness time a number.
LEMMA PickTyped ==
  ASSUME O!TypeOK, NEW id, NEW by \in Shippers, O!Pick(id, by)
  PROVE  /\ O!TypeOK'
         /\ id \in DOMAIN orders /\ orders[id].status = "confirmed"
         /\ DOMAIN orders' = DOMAIN orders
         /\ \A i \in DOMAIN orders \ {id} : orders'[i] = orders[i]
         /\ \E delay \in ReadyDelays :
              orders'[id] = [orders[id] EXCEPT !.status = "picked", !.pickedBy = by,
                                               !.pickedAt = now, !.readyAt = now + delay]
<1>1. id \in DOMAIN orders /\ orders[id].status = "confirmed"
  BY DEF O!Pick, O!PickResult
<1>2. PICK delay \in ReadyDelays :
        orders' = [orders EXCEPT ![id].status = "picked", ![id].pickedBy = by,
                                 ![id].pickedAt = now, ![id].readyAt = now + delay]
  BY DEF O!Pick
<1>3. /\ DOMAIN orders' = DOMAIN orders
      /\ \A i \in DOMAIN orders \ {id} : orders'[i] = orders[i]
      /\ orders'[id] = [orders[id] EXCEPT !.status = "picked", !.pickedBy = by,
                                          !.pickedAt = now, !.readyAt = now + delay]
  BY <1>1, <1>2
<1>4. orders' \in [DOMAIN orders -> O!Order]
  <2>1. orders \in [DOMAIN orders -> O!Order] /\ now \in Nat
    BY DEF O!TypeOK
  <2>2. orders'[id] \in O!Order
    <3>1. orders[id] \in O!Order
      BY <1>1, <2>1
    <3>2. now + delay \in Nat
      <4>1. ReadyDelays \subseteq Nat
        BY MarketAssumption
      <4>2. delay \in Nat
        BY <1>2, <4>1
      <4>3. QED
        BY <2>1, <4>2
    <3>3. QED
      BY <1>3, <2>1, <3>1, <3>2 DEF O!Order, O!Statuses
  <2>3. orders' = [i \in DOMAIN orders |-> orders'[i]]
    BY <1>2, <2>1
  <2>4. QED
    BY <1>3, <2>1, <2>2, <2>3
<1>5. ordersByStatus' \in [O!Statuses -> Seq(DOMAIN orders)]
  BY <1>1, MovedTyped DEF O!Pick, O!Statuses
<1>6. ordersByShipper' \in [Shippers -> Seq(DOMAIN orders)]
  <2>1. ordersByShipper' = [ordersByShipper EXCEPT ![by] = Append(@, id)]
    BY DEF O!Pick
  <2>2. ordersByShipper \in [Shippers -> Seq(DOMAIN orders)]
    BY DEF O!TypeOK
  <2>3. Append(ordersByShipper[by], id) \in Seq(DOMAIN orders)
    BY <1>1, <2>2
  <2>4. QED
    BY <2>1, <2>2, <2>3
<1>7. QED
  BY <1>1, <1>3, <1>4, <1>5, <1>6 DEF O!TypeOK, O!Pick

\* So does a delivery.
LEMMA DeliverTyped ==
  ASSUME O!TypeOK, NEW id, NEW by, O!Deliver(id, by)
  PROVE  /\ O!TypeOK'
         /\ id \in DOMAIN orders /\ orders[id].status = "picked" /\ orders[id].pickedBy = by
         /\ DOMAIN orders' = DOMAIN orders
         /\ \A i \in DOMAIN orders \ {id} : orders'[i] = orders[i]
         /\ orders'[id] = [orders[id] EXCEPT !.status = "delivered", !.deliveredAt = now]
<1>1. id \in DOMAIN orders /\ orders[id].status = "picked" /\ orders[id].pickedBy = by
  BY DEF O!Deliver, O!DeliverResult
<1>2. /\ DOMAIN orders' = DOMAIN orders
      /\ \A i \in DOMAIN orders \ {id} : orders'[i] = orders[i]
      /\ orders'[id] = [orders[id] EXCEPT !.status = "delivered", !.deliveredAt = now]
  BY <1>1 DEF O!Deliver
<1>3. orders' \in [DOMAIN orders -> O!Order]
  <2>1. orders \in [DOMAIN orders -> O!Order] /\ now \in Nat
    BY DEF O!TypeOK
  <2>2. orders'[id] \in O!Order
    BY <1>1, <1>2, <2>1 DEF O!Order, O!Statuses
  <2>3. orders' = [i \in DOMAIN orders |-> orders'[i]]
    BY <2>1 DEF O!Deliver
  <2>4. QED
    BY <1>2, <2>1, <2>2, <2>3
<1>4. ordersByStatus' \in [O!Statuses -> Seq(DOMAIN orders)]
  BY <1>1, MovedTyped DEF O!Deliver, O!Statuses
<1>5. QED
  BY <1>1, <1>2, <1>3, <1>4 DEF O!TypeOK, O!Deliver

\* So does the clock, which touches no order.
LEMMA TickTyped == O!TypeOK /\ O!Tick => O!TypeOK' /\ UNCHANGED orders
  BY DEF O!TypeOK, O!Tick, O!indexes

-----------------------------------------------------------------------------
(* Types: the stores, and what a goroutine holds at each place.            *)

\* A cart line that passed the check, and the lines grouped so far.
Wanted == [product : Products, quantity : Nat \ {0}]
Groups == UNION {[S -> Seq(Wanted)] : S \in SUBSET Sellers}

ListCall ==
  [op : {"list"}, pc : {"validate", "write", "done"}, answer : Nat,
   by : Sellers, product : Products]
AddCall ==
  [op : {"add"}, pc : {"get", "write", "done"}, answer : Nat,
   by : Buyers, product : Products]
CheckoutCall ==
  [op : {"checkout"}, pc : {"check", "create", "decrement", "write", "done"},
   answer : Nat, by : Buyers, cart : Carts, line : Nat, groups : Groups,
   id : OrderIds \cup {""}, seller : Sellers \cup {""}, items : Seq(Wanted)]
OrderCall ==
  [op : OrderOps, pc : {"get", "transition", "reread", "write", "done"},
   answer : Nat, by : Sellers \cup Shippers, id : OrderIds,
   seen : {<<>>} \cup O!Order]

CallTyped(s, c) ==
  /\ c \in {Idle} \cup ListCall \cup AddCall \cup CheckoutCall \cup OrderCall
  /\ c.op \in May[s] \cup {"none"}
  /\ c.pc = "done" <=> c.answer # 0
  /\ c.op = "list" => c.by = Offers[c.product].seller
  /\ c.op = "confirm" => c.by \in Sellers /\ c.pc # "reread"
  /\ c.op \in {"pick", "deliver"} => c.by \in Shippers
  /\ c.op \in OrderOps /\ c.pc \in {"transition", "reread", "write"} => c.seen \in O!Order
  /\ c.op = "checkout" =>
       /\ c.pc = "check" => (c.cart = <<>> /\ c.line = 1) \/ c.line \in 1 .. Len(c.cart)
       /\ c.pc = "decrement" => c.line \in 1 .. Len(c.items)
       /\ c.pc \in {"decrement", "write"} => c.id \in OrderIds /\ c.seller \in Sellers
       /\ \A x \in DOMAIN c.groups : c.groups[x] # <<>>

CallsTyped == DOMAIN call = Slots /\ \A s \in Slots : CallTyped(s, call[s])

WrittenTyped == \A w \in written : w.slot \in Slots

ProductsTyped ==
  /\ DOMAIN products \subseteq Products
  /\ products \in [DOMAIN products -> [seller : Sellers, quantity : Int]]
  /\ productsBySeller \in [Sellers -> Seq(DOMAIN products)]

TInv == O!TypeOK /\ ProductsTyped /\ CallsTyped /\ WrittenTyped

\* The invariant says at least what the type invariant of the runs says.
LEMMA TInvTypeOK == TInv => TypeOK
<1> SUFFICES ASSUME TInv PROVE TypeOK
  OBVIOUS
<1>1. O!TypeOK
  BY DEF TInv
<1>2. /\ DOMAIN products \subseteq Products
      /\ \A p \in DOMAIN products : products[p].seller \in Sellers /\ products[p].quantity \in Int
      /\ productsBySeller \in [Sellers -> Seq(DOMAIN products)]
  BY DEF TInv, ProductsTyped
<1>3. ASSUME NEW s \in Slots
      PROVE  /\ call[s].op \in May[s] \cup {"none"}
             /\ call[s].pc \in {"done"} \cup Places[call[s].op]
             /\ call[s].pc = "done" <=> call[s].answer # 0
  <2>1. CallTyped(s, call[s])
    BY DEF TInv, CallsTyped
  <2>2. CASE call[s] = Idle
    BY <2>1, <2>2 DEF CallTyped, Idle, Places
  <2>3. CASE call[s] \in ListCall \cup AddCall
    BY <2>1, <2>3 DEF CallTyped, ListCall, AddCall, Places
  <2>4. CASE call[s] \in CheckoutCall
    <3>1. /\ call[s].op = "checkout"
          /\ call[s].pc \in {"check", "create", "decrement", "write", "done"}
      BY <2>4 DEF CheckoutCall
    <3>2. Places["checkout"] = {"check", "create", "decrement", "write"}
      BY DEF Places
    <3>3. QED
      BY <2>1, <3>1, <3>2 DEF CallTyped
  <2>5. CASE call[s] \in OrderCall
    <3>1. call[s].op \in {"confirm", "pick", "deliver"}
      BY <2>5 DEF OrderCall, OrderOps
    <3>2. /\ Places["confirm"] = {"get", "transition", "write"}
          /\ Places["pick"] = {"get", "transition", "reread", "write"}
          /\ Places["deliver"] = {"get", "transition", "reread", "write"}
      BY DEF Places
    <3>3. call[s].pc \in {"get", "transition", "reread", "write", "done"}
      BY <2>5 DEF OrderCall
    <3>4. call[s].op = "confirm" => call[s].pc # "reread"
      BY <2>1 DEF CallTyped
    <3>5. call[s].pc \in {"done"} \cup Places[call[s].op]
      BY <3>1, <3>2, <3>3, <3>4
    <3>6. QED
      BY <2>1, <3>5 DEF CallTyped
  <2>6. QED
    BY <2>1, <2>2, <2>3, <2>4, <2>5 DEF CallTyped
<1>4. \A w \in written : w.slot \in Slots
  BY DEF TInv, WrittenTyped
<1>5. QED
  BY <1>1, <1>2, <1>3, <1>4 DEF TypeOK

\* Empty stores and idle goroutines are well typed.
LEMMA InitTInv == Init => TInv
<1> SUFFICES ASSUME Init PROVE TInv
  OBVIOUS
<1>1. O!TypeOK
  <2>1. O!Init
    BY DEF Init
  <2>2. DOMAIN orders = {} /\ orders \in [{} -> O!Order]
    BY <2>1 DEF O!Init
  <2>3. /\ ordersByBuyer \in [Buyers -> Seq(DOMAIN orders)]
        /\ ordersBySeller \in [Sellers -> Seq(DOMAIN orders)]
        /\ ordersByShipper \in [Shippers -> Seq(DOMAIN orders)]
        /\ ordersByStatus \in [O!Statuses -> Seq(DOMAIN orders)]
    BY <2>1 DEF O!Init
  <2>4. QED
    BY <2>1, <2>2, <2>3 DEF O!Init, O!TypeOK
<1>2. ProductsTyped
  <2>1. products = <<>> /\ productsBySeller = [s \in Sellers |-> <<>>]
    BY DEF Init, P!InitProducts
  <2>2. DOMAIN products = {} /\ products \in [{} -> [seller : Sellers, quantity : Int]]
    BY <2>1
  <2>3. productsBySeller \in [Sellers -> Seq(DOMAIN products)]
    BY <2>1
  <2>4. QED
    BY <2>2, <2>3 DEF ProductsTyped
<1>3. ASSUME NEW s \in Slots PROVE CallTyped(s, call[s])
  BY DEF Init, Idle, CallTyped, OrderOps
<1>4. QED
  BY <1>1, <1>2, <1>3 DEF Init, TInv, CallsTyped, WrittenTyped

\* Only the goroutine that goes on changes its locals.
LEMMA Continued ==
  ASSUME CallsTyped, NEW s \in Slots, NEW next, Continue(s, next)
  PROVE  /\ DOMAIN call' = Slots /\ call'[s] = next
         /\ \A t \in Slots \ {s} : call'[t] = call[t]
         /\ CallTyped(s, next) => CallsTyped'
<1>1. /\ DOMAIN call' = Slots /\ call'[s] = next
      /\ \A t \in Slots \ {s} : call'[t] = call[t]
  BY DEF Continue, CallsTyped
<1>2. ASSUME CallTyped(s, next) PROVE CallsTyped'
  <2>1. \A t \in Slots : CallTyped(t, call'[t])
    BY <1>1, <1>2 DEF CallsTyped
  <2>2. QED
    BY <1>1, <2>1 DEF CallsTyped
<1>3. QED
  BY <1>1, <1>2

\* An answer is a status and ends the goroutine.
LEMMA Answered ==
  ASSUME CallsTyped, NEW s \in Slots, NEW code \in Nat \ {0}, Answer(s, code), call[s] # Idle
  PROVE  CallsTyped'
<1>1. CallTyped(s, call[s])
  BY DEF CallsTyped
<1> SUFFICES ASSUME NEW next, next = [call[s] EXCEPT !.pc = "done", !.answer = code]
             PROVE  CallTyped(s, next)
  BY Continued DEF Answer
<1>2. CASE call[s] \in ListCall
  <2>1. next \in ListCall
    BY <1>2 DEF ListCall
  <2>2. /\ next.pc = "done" /\ next.answer # 0 /\ next.op = "list" /\ call[s].op = "list"
        /\ next.by = call[s].by /\ next.product = call[s].product
    BY <1>2 DEF ListCall
  <2>3. QED
    BY <1>1, <2>1, <2>2 DEF CallTyped, OrderOps
<1>3. CASE call[s] \in AddCall
  <2>1. next \in AddCall
    BY <1>3 DEF AddCall
  <2>2. next.pc = "done" /\ next.answer # 0 /\ next.op = "add" /\ call[s].op = "add"
    BY <1>3 DEF AddCall
  <2>3. QED
    BY <1>1, <2>1, <2>2 DEF CallTyped, OrderOps
<1>4. CASE call[s] \in CheckoutCall
  <2>1. next \in CheckoutCall
    BY <1>4 DEF CheckoutCall
  <2>2. /\ next.pc = "done" /\ next.answer # 0 /\ next.op = "checkout"
        /\ call[s].op = "checkout" /\ next.groups = call[s].groups
    BY <1>4 DEF CheckoutCall
  <2>3. QED
    BY <1>1, <2>1, <2>2 DEF CallTyped, OrderOps
<1>5. CASE call[s] \in OrderCall
  <2>1. next \in OrderCall
    BY <1>5 DEF OrderCall
  <2>2. /\ next.pc = "done" /\ next.answer # 0 /\ next.op = call[s].op /\ next.op \in OrderOps
        /\ next.by = call[s].by
    BY <1>5 DEF OrderCall
  <2>3. QED
    BY <1>1, <2>1, <2>2 DEF CallTyped, OrderOps
<1>6. QED
  BY <1>1, <1>2, <1>3, <1>4, <1>5 DEF CallTyped

\* The stores stay typed where nobody touches them, and so do the events.
LEMMA Untouched ==
  /\ O!TypeOK /\ UNCHANGED orderVars => O!TypeOK'
  /\ ProductsTyped /\ UNCHANGED productVars => ProductsTyped'
  /\ WrittenTyped /\ UNCHANGED written => WrittenTyped'
  /\ \A s \in Slots : \A e : WrittenTyped /\ Write(s, e) => WrittenTyped'
<1>1. O!TypeOK /\ UNCHANGED orderVars => O!TypeOK'
  BY DEF O!TypeOK, orderVars
<1>2. ProductsTyped /\ UNCHANGED productVars => ProductsTyped'
  BY DEF ProductsTyped, productVars
<1>3. WrittenTyped /\ UNCHANGED written => WrittenTyped'
  BY DEF WrittenTyped
<1>4. \A s \in Slots : \A e : WrittenTyped /\ Write(s, e) => WrittenTyped'
  BY DEF WrittenTyped, Write
<1>5. QED
  BY <1>1, <1>2, <1>3, <1>4

-----------------------------------------------------------------------------
(* Every step keeps the types.                                             *)

\* A goroutine at a place of an operation holds that operation's locals.
LEMMA Held ==
  ASSUME CallsTyped, NEW s \in Slots
  PROVE  /\ CallTyped(s, call[s])
         /\ call[s].op = "list" => call[s] \in ListCall
         /\ call[s].op = "add" => call[s] \in AddCall
         /\ call[s].op = "checkout" => call[s] \in CheckoutCall
         /\ call[s].op \in OrderOps => call[s] \in OrderCall
         /\ call[s].op # "none" => call[s] # Idle
<1>1. CallTyped(s, call[s])
  BY DEF CallsTyped
<1>2. CASE call[s] = Idle
  BY <1>1, <1>2 DEF Idle, OrderOps
<1>3. CASE call[s] \in ListCall
  BY <1>1, <1>3 DEF ListCall, OrderOps, Idle
<1>4. CASE call[s] \in AddCall
  BY <1>1, <1>4 DEF AddCall, OrderOps, Idle
<1>5. CASE call[s] \in CheckoutCall
  <2>1. call[s].op = "checkout"
    BY <1>5 DEF CheckoutCall
  <2>2. QED
    BY <1>1, <1>5, <2>1 DEF OrderOps, Idle
<1>6. CASE call[s] \in OrderCall
  <2>1. call[s].op \in OrderOps
    BY <1>6 DEF OrderCall
  <2>2. QED
    BY <1>1, <1>6, <2>1 DEF OrderOps, Idle
<1>7. QED
  BY <1>1, <1>2, <1>3, <1>4, <1>5, <1>6 DEF CallTyped

\* The groups of a checkout are lists of wanted lines, by seller.
LEMMA GroupsTyped ==
  /\ \A g \in Groups : /\ DOMAIN g \subseteq Sellers
                       /\ \A x \in DOMAIN g : g[x] \in Seq(Wanted)
  /\ \A S \in SUBSET Sellers : \A g \in [S -> Seq(Wanted)] : g \in Groups
  BY DEF Groups

\* A request that arrives is one of its operation's calls.
LEMMA ArriveTyped ==
  ASSUME TInv, NEW s \in Slots, Arrive(s)
  PROVE  TInv'
<1> USE DEF TInv
<1>1. UNCHANGED <<written, productVars, orderVars>>
  BY DEF Arrive, ArriveList, ArriveAdd, ArriveCheckout, ArriveOrderOp
<1>2. CASE ArriveList(s)
  <2>1. PICK p \in Products :
          Continue(s, [op |-> "list", pc |-> "validate", answer |-> 0,
                       by |-> Offers[p].seller, product |-> p])
    BY <1>2 DEF ArriveList
  <2>2. "list" \in May[s]
    BY <1>2 DEF ArriveList, Asks
  <2>3. Offers[p].seller \in Sellers
    BY MarketAssumption
  <2>4. CallTyped(s, [op |-> "list", pc |-> "validate", answer |-> 0,
                      by |-> Offers[p].seller, product |-> p])
    BY <2>2, <2>3 DEF CallTyped, ListCall, OrderOps
  <2>5. QED
    BY <1>1, <2>1, <2>4, Continued, Untouched
<1>3. CASE ArriveAdd(s)
  <2>1. PICK b \in Buyers, p \in Products :
          Continue(s, [op |-> "add", pc |-> "get", answer |-> 0, by |-> b, product |-> p])
    BY <1>3 DEF ArriveAdd
  <2>2. "add" \in May[s]
    BY <1>3 DEF ArriveAdd, Asks
  <2>3. CallTyped(s, [op |-> "add", pc |-> "get", answer |-> 0, by |-> b, product |-> p])
    BY <2>2 DEF CallTyped, AddCall, OrderOps
  <2>4. QED
    BY <1>1, <2>1, <2>3, Continued, Untouched
<1>4. CASE ArriveCheckout(s)
  <2>1. PICK b \in Buyers, c \in Carts :
          Continue(s, [op |-> "checkout", pc |-> "check", answer |-> 0, by |-> b,
                       cart |-> c, line |-> 1, groups |-> <<>>, id |-> "", seller |-> "",
                       items |-> <<>>])
    BY <1>4 DEF ArriveCheckout
  <2>2. "checkout" \in May[s]
    BY <1>4 DEF ArriveCheckout, Asks
  <2> DEFINE next == [op |-> "checkout", pc |-> "check", answer |-> 0, by |-> b,
                      cart |-> c, line |-> 1, groups |-> <<>>, id |-> "", seller |-> "",
                      items |-> <<>>]
  <2>3. <<>> \in Groups
    <3>1. <<>> \in [{} -> Seq(Wanted)]
      OBVIOUS
    <3>2. QED
      BY <3>1, GroupsTyped
  <2>4. next \in CheckoutCall
    BY <2>3 DEF CheckoutCall
  <2>5. c = <<>> \/ 1 \in 1 .. Len(c)
    <3>1. c \in Seq(Line)
      BY MarketAssumption
    <3>2. QED
      BY <3>1
  <2>6. /\ next.op = "checkout" /\ next.pc = "check" /\ next.answer = 0
        /\ next.cart = c /\ next.line = 1 /\ DOMAIN next.groups = {}
    OBVIOUS
  <2>7. Continue(s, next)
    BY <2>1
  <2> HIDE DEF next
  <2>8. CallTyped(s, next)
    BY <2>2, <2>4, <2>5, <2>6 DEF CallTyped, OrderOps
  <2>9. QED
    BY <1>1, <2>7, <2>8, Continued, Untouched
<1>5. CASE ArriveOrderOp(s)
  <2>1. PICK op \in OrderOps, id \in OrderIds :
          /\ Asks(s, op)
          /\ \E by \in IF op = "confirm" THEN Sellers ELSE Shippers :
               Continue(s, [op |-> op, pc |-> "get", answer |-> 0, by |-> by, id |-> id,
                            seen |-> <<>>])
    BY <1>5 DEF ArriveOrderOp
  <2>2. PICK by \in IF op = "confirm" THEN Sellers ELSE Shippers :
          Continue(s, [op |-> op, pc |-> "get", answer |-> 0, by |-> by, id |-> id,
                       seen |-> <<>>])
    BY <2>1
  <2>3. op \in May[s] /\ op \in {"confirm", "pick", "deliver"}
    BY <2>1 DEF Asks, OrderOps
  <2>4. CallTyped(s, [op |-> op, pc |-> "get", answer |-> 0, by |-> by, id |-> id,
                      seen |-> <<>>])
    BY <2>2, <2>3 DEF CallTyped, OrderCall, OrderOps
  <2>5. QED
    BY <1>1, <2>2, <2>4, Continued, Untouched
<1>6. QED
  BY <1>2, <1>3, <1>4, <1>5 DEF Arrive

\* Listing and carting.
LEMMA ShelfTyped ==
  ASSUME TInv, NEW s \in Slots, ListProduct(s) \/ WriteListed(s) \/ AddToCart(s) \/ WriteAdded(s)
  PROVE  TInv'
<1> USE DEF TInv
<1>1. CASE ListProduct(s) /\ Answer(s, 400) /\ UNCHANGED <<written, productVars, orderVars>>
  <2>1. call[s] # Idle
    BY <1>1, Held DEF ListProduct, At
  <2>2. CallsTyped'
    BY <1>1, <2>1, Answered
  <2>3. QED
    BY <1>1, <2>2, Untouched
<1>2. CASE /\ ListProduct(s) /\ P!Add(call[s].product, call[s].by, Offers[call[s].product].quantity)
           /\ Continue(s, [call[s] EXCEPT !.pc = "write"]) /\ UNCHANGED <<written, orderVars>>
  <2> DEFINE p == call[s].product
             seller == call[s].by
             quantity == Offers[p].quantity
  <2>1. call[s] \in ListCall /\ call[s].op = "list"
    BY <1>2, Held DEF ListProduct, At
  <2>2. p \in Products /\ seller \in Sellers /\ quantity \in Int
    BY <2>1, MarketAssumption DEF ListCall
  <2>3. /\ products' = [i \in DOMAIN products \cup {p} |->
                          IF i = p THEN [seller |-> seller, quantity |-> quantity]
                          ELSE products[i]]
        /\ productsBySeller' = [productsBySeller EXCEPT ![seller] = Append(@, p)]
    BY <1>2 DEF P!Add
  <2> DEFINE known == DOMAIN products
             known2 == DOMAIN products'
  <2>4. /\ known \subseteq Products /\ products \in [known -> [seller : Sellers, quantity : Int]]
        /\ productsBySeller \in [Sellers -> Seq(known)]
    BY DEF ProductsTyped
  <2>5. known2 = known \cup {p}
    BY <2>3
  <2> HIDE DEF p, seller, quantity
  <2>6. products' \in [known2 -> [seller : Sellers, quantity : Int]]
    BY <2>2, <2>3, <2>4
  <2> HIDE DEF known, known2
  <2>7. \A list \in Seq(known) : list \in Seq(known2) /\ Append(list, p) \in Seq(known2)
    BY <2>5
  <2>8. productsBySeller' \in [Sellers -> Seq(known2)]
    BY <2>2, <2>3, <2>4, <2>7
  <2>9. ProductsTyped'
    BY <2>2, <2>4, <2>5, <2>6, <2>8 DEF ProductsTyped, known2
  <2>10. CallsTyped'
    <3> SUFFICES ASSUME NEW next, next = [call[s] EXCEPT !.pc = "write"] PROVE CallTyped(s, next)
      BY <1>2, Continued
    <3>1. /\ next \in ListCall /\ next.op = "list" /\ next.pc = "write" /\ next.by = call[s].by
          /\ next.product = call[s].product /\ next.answer = call[s].answer /\ call[s].pc = "validate"
      BY <1>2, <2>1 DEF ListCall, ListProduct, At
    <3>2. QED
      BY <2>1, <3>1, Held DEF CallTyped, OrderOps
  <2>11. QED
    BY <1>2, <2>9, <2>10, Untouched
<1>3. CASE WriteListed(s)
  <2>1. call[s] # Idle
    BY <1>3, Held DEF WriteListed, At
  <2>2. CallsTyped'
    BY <1>3, <2>1, Answered DEF WriteListed
  <2>3. WrittenTyped'
    BY <1>3, Untouched DEF WriteListed
  <2>4. QED
    BY <1>3, <2>2, <2>3, Untouched DEF WriteListed
<1>4. CASE AddToCart(s)
  <2>1. call[s] # Idle /\ call[s] \in AddCall /\ CallTyped(s, call[s])
    BY <1>4, Held DEF AddToCart, At
  <2>2. CASE Answer(s, 404)
    BY <1>4, <2>1, <2>2, Answered, Untouched DEF AddToCart
  <2>3. CASE Continue(s, [call[s] EXCEPT !.pc = "write"])
    <3> DEFINE next == [call[s] EXCEPT !.pc = "write"]
    <3>1. /\ next \in AddCall /\ next.op = "add" /\ next.pc = "write" /\ call[s].op = "add"
          /\ next.answer = call[s].answer /\ call[s].pc = "get"
      BY <1>4, <2>1 DEF AddCall, AddToCart, At
    <3> HIDE DEF next
    <3>2. CallTyped(s, next)
      BY <2>1, <3>1 DEF CallTyped, OrderOps
    <3>3. CallsTyped'
      BY <2>3, <3>2, Continued DEF next
    <3>4. QED
      BY <1>4, <3>3, Untouched DEF AddToCart
  <2>4. QED
    BY <1>4, <2>2, <2>3 DEF AddToCart
<1>5. CASE WriteAdded(s)
  <2>1. call[s] # Idle
    BY <1>5, Held DEF WriteAdded, At
  <2>2. CallsTyped'
    BY <1>5, <2>1, Answered DEF WriteAdded
  <2>3. WrittenTyped'
    BY <1>5, Untouched DEF WriteAdded
  <2>4. QED
    BY <1>5, <2>2, <2>3, Untouched DEF WriteAdded
<1>6. QED
  BY <1>1, <1>2, <1>3, <1>4, <1>5 DEF ListProduct

\* Checking a line of a cart, and grouping it.
LEMMA CheckTyped ==
  ASSUME TInv, NEW s \in Slots, CheckLine(s)
  PROVE  TInv'
<1> USE DEF TInv
<1>1. /\ call[s] \in CheckoutCall /\ call[s] # Idle /\ CallTyped(s, call[s])
      /\ call[s].op = "checkout" /\ call[s].pc = "check"
  BY Held DEF CheckLine, At
<1>2. UNCHANGED <<written, productVars, orderVars>>
  BY DEF CheckLine
<1>3. CASE Answer(s, 400)
  <2>1. CallsTyped'
    BY <1>1, <1>3, Answered
  <2>2. QED
    BY <1>2, <2>1, Untouched
<1>4. CASE ~ Answer(s, 400)
  <2> DEFINE c == call[s]
             line == c.cart[c.line]
  <2>1. c.cart # <<>> /\ Acceptable(line)
    BY <1>4 DEF CheckLine
  <2>2. /\ c.cart \in Seq(Line) /\ c.line \in 1 .. Len(c.cart)
    <3>1. c.cart \in Carts
      BY <1>1 DEF CheckoutCall
    <3>2. QED
      BY <1>1, <2>1, <3>1, MarketAssumption DEF CallTyped
  <2>3. line \in Line
    BY <2>2
  <2>4. line \in Wanted /\ line.product \in DOMAIN products
    BY <2>1, <2>3 DEF Acceptable, P!Listed, Line, Wanted
  <2> DEFINE groups2 == Grouped(c.groups, line)
  <2>5. groups2 \in Groups /\ \A x \in DOMAIN groups2 : groups2[x] # <<>>
    <3> DEFINE seller == products[line.product].seller
               S == DOMAIN c.groups \cup {seller}
    <3>1. c.groups \in Groups /\ \A x \in DOMAIN c.groups : c.groups[x] # <<>>
      BY <1>1 DEF CallTyped, CheckoutCall
    <3>2. /\ DOMAIN c.groups \subseteq Sellers
          /\ \A x \in DOMAIN c.groups : c.groups[x] \in Seq(Wanted)
      BY <3>1, GroupsTyped
    <3>3. seller \in Sellers
      BY <2>4 DEF ProductsTyped
    <3>4. groups2 = [x \in S |-> (IF x \in DOMAIN c.groups THEN c.groups[x] ELSE <<>>)
                                   \o (IF x = seller THEN <<line>> ELSE <<>>)]
      BY DEF Grouped
    <3> HIDE DEF groups2, seller, line, c
    <3>5. ASSUME NEW x \in S PROVE groups2[x] \in Seq(Wanted) /\ groups2[x] # <<>>
      <4>1. CASE x \in DOMAIN c.groups /\ x = seller
        <5>1. groups2[x] = c.groups[x] \o <<line>>
          BY <3>4, <4>1
        <5>2. c.groups[x] \in Seq(Wanted) /\ <<line>> \in Seq(Wanted)
          BY <2>4, <3>2, <4>1
        <5>3. Len(c.groups[x] \o <<line>>) = Len(c.groups[x]) + 1 /\ Len(c.groups[x]) \in Nat
          BY <5>2
        <5>4. QED
          BY <5>1, <5>2, <5>3
      <4>2. CASE x \in DOMAIN c.groups /\ x # seller
        <5>1. groups2[x] = c.groups[x] \o <<>>
          BY <3>4, <4>2
        <5>2. c.groups[x] \in Seq(Wanted) /\ c.groups[x] # <<>>
          BY <3>1, <3>2, <4>2
        <5>3. groups2[x] = c.groups[x]
          BY <5>1, <5>2
        <5>4. QED
          BY <5>2, <5>3
      <4>3. CASE x \notin DOMAIN c.groups
        <5>1. groups2[x] = <<>> \o <<line>>
          BY <3>4, <4>3 DEF S
        <5>2. <<line>> \in Seq(Wanted) /\ groups2[x] = <<line>>
          BY <2>4, <5>1
        <5>3. QED
          BY <5>2
      <4>4. QED
        BY <4>1, <4>2, <4>3
    <3>6. S \in SUBSET Sellers /\ groups2 \in [S -> Seq(Wanted)] /\ DOMAIN groups2 = S
      BY <3>2, <3>3, <3>4, <3>5
    <3>7. groups2 \in Groups
      BY <3>6, GroupsTyped
    <3>8. QED
      BY <3>5, <3>6, <3>7
  <2> SUFFICES ASSUME NEW next,
                      next = [c EXCEPT !.groups = groups2, !.line = @ + 1,
                                       !.pc = IF c.line = Len(c.cart) THEN "create" ELSE "check"]
               PROVE  CallTyped(s, next)
    <3>1. Continue(s, [c EXCEPT !.groups = groups2, !.line = @ + 1,
                                !.pc = IF c.line = Len(c.cart) THEN "create" ELSE "check"])
      BY <1>4 DEF CheckLine
    <3>2. \A next : next = [c EXCEPT !.groups = groups2, !.line = @ + 1,
                                     !.pc = IF c.line = Len(c.cart) THEN "create" ELSE "check"]
                      => CallTyped(s, next)
      OBVIOUS
    <3>3. CallsTyped'
      BY <3>1, <3>2, Continued
    <3>4. QED
      BY <1>2, <3>3, Untouched
  <2> HIDE DEF groups2, line
  <2>6. next \in CheckoutCall
    <3> DEFINE line2 == c.line + 1
               pc2 == IF c.line = Len(c.cart) THEN "create" ELSE "check"
    <3>1. line2 \in Nat /\ pc2 \in {"create", "check"}
      BY <2>2
    <3>2. next = [c EXCEPT !.groups = groups2, !.line = line2, !.pc = pc2]
      OBVIOUS
    <3> HIDE DEF line2, pc2
    <3>3. QED
      BY <1>1, <2>5, <3>1, <3>2 DEF CheckoutCall
  <2>7. /\ next.op = "checkout" /\ next.groups = groups2 /\ next.line = c.line + 1
        /\ next.cart = c.cart /\ next.answer = c.answer
        /\ next.pc = IF c.line = Len(c.cart) THEN "create" ELSE "check"
    BY <1>1 DEF CheckoutCall
  <2>8. c.answer = 0 /\ c.op \in May[s] \cup {"none"}
    BY <1>1 DEF CallTyped
  <2>9. next.pc = "check" => next.line \in 1 .. Len(next.cart)
    BY <2>2, <2>7
  <2>10. QED
    BY <1>1, <2>5, <2>6, <2>7, <2>8, <2>9 DEF CallTyped, OrderOps
<1>5. QED
  BY <1>3, <1>4

\* Storing the order of one group.
LEMMA CreateOrderTyped ==
  ASSUME TInv, NEW s \in Slots, NEW seller \in DOMAIN call[s].groups, NEW id,
         At(s, "checkout", "create"),
         id \in OrderIds \ DOMAIN orders,
         O!Create(id, O!NewOrder(call[s].by, seller, call[s].groups[seller])),
         Continue(s, [call[s] EXCEPT !.pc = "decrement", !.line = 1, !.id = id,
                        !.seller = seller, !.items = call[s].groups[seller],
                        !.groups = [x \in DOMAIN call[s].groups \ {seller} |-> call[s].groups[x]]]),
         UNCHANGED <<written, productVars>>
  PROVE  TInv'
<1> USE DEF TInv
<1> DEFINE c == call[s]
           items == c.groups[seller]
           rest == [x \in DOMAIN c.groups \ {seller} |-> c.groups[x]]
<1>1. /\ c \in CheckoutCall /\ CallTyped(s, c) /\ c.op = "checkout" /\ c.pc = "create"
  BY Held DEF At
<1>2. c.groups \in Groups /\ c.by \in Buyers
  BY <1>1 DEF CheckoutCall
<1>3. /\ DOMAIN c.groups \subseteq Sellers
      /\ \A x \in DOMAIN c.groups : c.groups[x] \in Seq(Wanted)
  BY <1>2, GroupsTyped
<1>4. seller \in Sellers /\ items \in Seq(Wanted) /\ items # <<>>
  BY <1>1, <1>3 DEF CallTyped
<1>5. items \in Seq(Line)
  <2>1. \A l \in Wanted : l \in Line
    BY DEF Wanted, Line
  <2> HIDE DEF items
  <2>2. QED
    BY <1>4, <2>1
<1>6. O!TypeOK'
  BY <1>2, <1>4, <1>5, CreateTyped
<1>7. rest \in Groups /\ DOMAIN rest \subseteq DOMAIN c.groups
      /\ \A x \in DOMAIN rest : rest[x] # <<>>
  <2>1. DOMAIN rest \in SUBSET Sellers /\ rest \in [DOMAIN rest -> Seq(Wanted)]
    BY <1>3
  <2>2. rest \in Groups
    BY <2>1, GroupsTyped
  <2>3. QED
    BY <1>1, <2>2 DEF CallTyped
<1>8. Len(items) \in Nat /\ Len(items) # 0
  BY <1>4
<1> HIDE DEF items, rest
<1>9. ASSUME NEW next,
             next = [c EXCEPT !.pc = "decrement", !.line = 1, !.id = id, !.seller = seller,
                              !.items = items, !.groups = rest]
      PROVE  CallTyped(s, next)
  <2>1. next \in CheckoutCall
    BY <1>1, <1>4, <1>7, <1>9 DEF CheckoutCall
  <2>2. /\ next.op = "checkout" /\ next.groups = rest /\ next.line = 1 /\ next.items = items
        /\ next.pc = "decrement" /\ next.id = id /\ next.seller = seller /\ next.answer = c.answer
    BY <1>1, <1>9 DEF CheckoutCall
  <2>3. c.answer = 0 /\ c.op \in May[s] \cup {"none"}
    BY <1>1 DEF CallTyped
  <2>4. QED
    BY <1>1, <1>4, <1>7, <1>8, <2>1, <2>2, <2>3 DEF CallTyped, OrderOps
<1>10. CallsTyped'
  <2>1. Continue(s, [c EXCEPT !.pc = "decrement", !.line = 1, !.id = id, !.seller = seller,
                              !.items = items, !.groups = rest])
    BY DEF items, rest
  <2>2. QED
    BY <1>9, <2>1, Continued
<1>11. QED
  BY <1>6, <1>10, Untouched

\* Taking a line out of the stock, or not, and writing the checkout event.
LEMMA CheckoutTailTyped ==
  ASSUME TInv, NEW s \in Slots, DecrementLine(s) \/ WriteCheckout(s)
  PROVE  TInv'
<1> USE DEF TInv
<1> DEFINE c == call[s]
<1>1. c \in CheckoutCall /\ c # Idle /\ CallTyped(s, c) /\ c.op = "checkout"
  BY Held DEF DecrementLine, WriteCheckout, At
<1>2. CASE DecrementLine(s)
  <2> DEFINE l == c.items[c.line]
  <2>1. /\ c.items \in Seq(Wanted) /\ c.line \in 1 .. Len(c.items) /\ c.pc = "decrement"
    BY <1>1, <1>2 DEF CheckoutCall, CallTyped, DecrementLine, At
  <2>2. l \in Wanted
    BY <2>1
  <2>3. l.product \in Products /\ l.quantity \in Int
    BY <2>2 DEF Wanted
  <2>4. P!DecrementQuantity(l.product, l.quantity)
    BY <1>2 DEF DecrementLine
  <2> HIDE DEF l
  <2>5. ProductsTyped'
    <3>1. CASE ~ P!Has(l.product, l.quantity)
      BY <2>4, <3>1 DEF P!DecrementQuantity, ProductsTyped
    <3>2. CASE P!Has(l.product, l.quantity)
      <4>1. products' = [products EXCEPT ![l.product].quantity = @ - l.quantity]
            /\ productsBySeller' = productsBySeller
        BY <2>4, <3>2 DEF P!DecrementQuantity
      <4>2. products \in [DOMAIN products -> [seller : Sellers, quantity : Int]]
        BY DEF ProductsTyped
      <4>3. products' \in [DOMAIN products -> [seller : Sellers, quantity : Int]]
        <5>1. l.product \in DOMAIN products
          BY <3>2 DEF P!Has, P!Listed
        <5>2. products[l.product].quantity - l.quantity \in Int
          BY <2>3, <4>2, <5>1
        <5> DEFINE left == products[l.product].quantity - l.quantity
        <5> HIDE DEF left
        <5>3. products' = [products EXCEPT ![l.product] = [products[l.product] EXCEPT !.quantity = left]]
          BY <4>1 DEF left
        <5>4. [products[l.product] EXCEPT !.quantity = left] \in [seller : Sellers, quantity : Int]
          BY <4>2, <5>1, <5>2 DEF left
        <5>5. QED
          BY <4>2, <5>3, <5>4
      <4>4. QED
        BY <4>1, <4>3 DEF ProductsTyped
    <3>3. QED
      BY <3>1, <3>2
  <2>6. ASSUME NEW next,
               next = [c EXCEPT !.line = @ + 1,
                                !.pc = IF c.line = Len(c.items) THEN "write" ELSE "decrement"]
        PROVE  CallTyped(s, next)
    <3>1. next \in CheckoutCall
      <4> DEFINE line2 == c.line + 1
                 pc2 == IF c.line = Len(c.items) THEN "write" ELSE "decrement"
      <4>1. line2 \in Nat /\ pc2 \in {"write", "decrement"}
        BY <2>1
      <4>2. next = [c EXCEPT !.line = line2, !.pc = pc2]
        BY <2>6
      <4> HIDE DEF line2, pc2
      <4>3. QED
        BY <1>1, <4>1, <4>2 DEF CheckoutCall
    <3>2. /\ next.op = "checkout" /\ next.groups = c.groups /\ next.line = c.line + 1
          /\ next.items = c.items /\ next.id = c.id /\ next.seller = c.seller
          /\ next.answer = c.answer
          /\ next.pc = IF c.line = Len(c.items) THEN "write" ELSE "decrement"
      BY <1>1, <2>6 DEF CheckoutCall
    <3>3. next.pc = "decrement" => next.line \in 1 .. Len(next.items)
      BY <2>1, <3>2
    <3>4. QED
      BY <1>1, <2>1, <3>1, <3>2, <3>3 DEF CallTyped, OrderOps
  <2>7. Continue(s, [c EXCEPT !.line = @ + 1,
                              !.pc = IF c.line = Len(c.items) THEN "write" ELSE "decrement"])
    BY <1>2 DEF DecrementLine
  <2>8. CallsTyped'
    BY <2>6, <2>7, Continued
  <2>9. QED
    BY <1>2, <2>5, <2>8, Untouched DEF DecrementLine
<1>3. CASE WriteCheckout(s)
  <2>1. CallsTyped'
    <3>1. CASE Answer(s, 201)
      BY <1>1, <3>1, Answered
    <3>2. CASE Continue(s, [c EXCEPT !.pc = "create"])
      <4>1. ASSUME NEW next, next = [c EXCEPT !.pc = "create"] PROVE CallTyped(s, next)
        <5>1. next \in CheckoutCall
          BY <1>1, <4>1 DEF CheckoutCall
        <5>2. /\ next.op = "checkout" /\ next.groups = c.groups /\ next.pc = "create"
              /\ next.answer = c.answer /\ c.pc = "write"
          BY <1>1, <1>3, <4>1 DEF CheckoutCall, WriteCheckout, At
        <5>3. QED
          BY <1>1, <5>1, <5>2 DEF CallTyped, OrderOps
      <4>2. QED
        BY <3>2, <4>1, Continued
    <3>3. QED
      BY <1>3, <3>1, <3>2 DEF WriteCheckout
  <2>2. WrittenTyped'
    BY <1>3, Untouched DEF WriteCheckout
  <2>3. QED
    BY <1>3, <2>1, <2>2, Untouched DEF WriteCheckout
<1>4. QED
  BY <1>2, <1>3

\* Looking an order up, before or after the transition.
LEMMA LookupTyped ==
  ASSUME TInv, NEW s \in Slots, GetOrder(s) \/ (Reread(s) /\ call[s].id \in DOMAIN orders)
  PROVE  TInv'
<1> USE DEF TInv
<1> DEFINE c == call[s]
<1>1. /\ c \in OrderCall /\ c # Idle /\ CallTyped(s, c) /\ c.op \in OrderOps
      /\ UNCHANGED <<written, productVars, orderVars>>
  <2>1. UNCHANGED <<written, productVars, orderVars>>
    BY DEF GetOrder, Reread
  <2>2. c.op \in OrderOps
    <3>1. CASE GetOrder(s)
      BY <3>1 DEF GetOrder
    <3>2. CASE Reread(s)
      <4>1. c.pc = "reread"
        BY <3>2 DEF Reread
      <4>2. c \notin CheckoutCall
        BY <4>1 DEF CheckoutCall
      <4>3. c \notin ListCall /\ c \notin AddCall /\ c # Idle
        BY <4>1 DEF ListCall, AddCall, Idle
      <4>4. c \in OrderCall
        BY <4>2, <4>3, Held DEF CallTyped
      <4>5. QED
        BY <4>4 DEF OrderCall
    <3>3. QED
      BY <3>1, <3>2
  <2>3. c.op # "none"
    BY <2>2 DEF OrderOps
  <2>4. QED
    BY <2>1, <2>2, <2>3, Held
<1>2. CASE Answer(s, 404)
  <2>1. CallsTyped'
    BY <1>1, <1>2, Answered
  <2>2. QED
    BY <1>1, <2>1, Untouched
<1>3. ASSUME NEW pc \in {"transition", "write"}, c.id \in DOMAIN orders,
             c.op = "confirm" => pc # "reread", c.answer = 0,
             Continue(s, [c EXCEPT !.pc = pc, !.seen = orders[c.id]])
      PROVE  TInv'
  <2>1. ASSUME NEW next, next = [c EXCEPT !.pc = pc, !.seen = orders[c.id]]
        PROVE  CallTyped(s, next)
    <3>1. orders[c.id] \in O!Order
      BY <1>3 DEF O!TypeOK
    <3> DEFINE seen == orders[c.id]
    <3> HIDE DEF seen
    <3>2. next = [c EXCEPT !.pc = pc, !.seen = seen] /\ seen \in O!Order
      BY <2>1, <3>1 DEF seen
    <3>3. next \in OrderCall
      BY <1>1, <3>2 DEF OrderCall
    <3>4. /\ next.op = c.op /\ next.pc = pc /\ next.by = c.by /\ next.answer = c.answer
          /\ next.seen = seen
      BY <1>1, <3>2 DEF OrderCall
    <3>5. QED
      BY <1>1, <1>3, <3>2, <3>3, <3>4 DEF CallTyped, OrderOps
  <2>2. CallsTyped'
    BY <1>3, <2>1, Continued
  <2>3. QED
    BY <1>1, <2>2, Untouched
<1>4. CASE GetOrder(s) /\ ~ Answer(s, 404)
  <2>1. /\ c.id \in DOMAIN orders /\ c.pc = "get"
        /\ Continue(s, [c EXCEPT !.pc = "transition", !.seen = orders[c.id]])
    BY <1>4 DEF GetOrder
  <2>2. c.answer = 0
    BY <1>1, <2>1 DEF CallTyped
  <2>3. QED
    BY <1>3, <2>1, <2>2
<1>5. CASE Reread(s) /\ call[s].id \in DOMAIN orders
  <2>1. c.pc = "reread" /\ Continue(s, [c EXCEPT !.pc = "write", !.seen = orders[c.id]])
    BY <1>5 DEF Reread
  <2>2. c.answer = 0
    BY <1>1, <2>1 DEF CallTyped
  <2>3. QED
    BY <1>3, <1>5, <2>1, <2>2
<1>6. QED
  BY <1>2, <1>4, <1>5

\* What the store answers to a refused request is told as a status.
LEMMA RefuseTyped ==
  ASSUME TInv, NEW s \in Slots, Refuse(s)
  PROVE  TInv'
<1> USE DEF TInv
<1>1. call[s] # Idle
  BY DEF Refuse, Idle
<1>2. Code(Result(s)) \in Nat \ {0}
  BY DEF Code
<1>3. Answer(s, Code(Result(s))) /\ UNCHANGED <<written, productVars, orderVars>>
  BY DEF Refuse
<1>4. CallsTyped'
  BY <1>1, <1>2, <1>3, Answered
<1>5. QED
  BY <1>3, <1>4, Untouched

\* The request goes on with the event of the transition it made.
LEMMA TransitionTyped ==
  ASSUME TInv, NEW s \in Slots, Transition(s)
  PROVE  TInv'
<1> USE DEF TInv
<1> DEFINE c == call[s]
<1>1. /\ c \in OrderCall /\ CallTyped(s, c) /\ c.op \in OrderOps /\ c.pc = "transition"
      /\ c.op = "confirm" => O!Confirm(c.id, c.by)
      /\ c.op = "pick" => O!Pick(c.id, c.by)
      /\ c.op = "deliver" => O!Deliver(c.id, c.by)
  BY Held DEF Transition, At, OrderOps
<1>2. O!TypeOK'
  <2>1. c.op \in {"confirm", "pick", "deliver"}
    BY <1>1 DEF OrderOps
  <2>2. c.op = "pick" => c.by \in Shippers
    BY <1>1 DEF CallTyped
  <2>3. QED
    BY <1>1, <2>1, <2>2, ConfirmTyped, PickTyped, DeliverTyped
<1>3. CallsTyped'
  <2> DEFINE pc == AfterTransition(c.op)
  <2>1. pc \in {"reread", "write"} /\ (c.op = "confirm" => pc # "reread")
    BY DEF AfterTransition
  <2>2. Continue(s, [c EXCEPT !.pc = pc])
    BY DEF Transition
  <2> HIDE DEF pc
  <2>3. ASSUME NEW next, next = [c EXCEPT !.pc = pc] PROVE CallTyped(s, next)
    <3>1. next \in OrderCall
      BY <1>1, <2>1, <2>3 DEF OrderCall
    <3>2. /\ next.op = c.op /\ next.pc = pc /\ next.by = c.by /\ next.answer = c.answer
          /\ next.seen = c.seen
      BY <1>1, <2>3 DEF OrderCall
    <3>3. c.answer = 0 /\ c.seen \in O!Order
      BY <1>1 DEF CallTyped
    <3>4. QED
      BY <1>1, <2>1, <3>1, <3>2, <3>3 DEF CallTyped, OrderOps
  <2>4. QED
    BY <2>2, <2>3, Continued
<1>4. QED
  BY <1>2, <1>3, Untouched DEF Transition

\* Writing the event of a transition ends the request.
LEMMA AnnounceTyped ==
  ASSUME TInv, NEW s \in Slots, WriteOrderEvent(s)
  PROVE  TInv'
<1> USE DEF TInv
<1>1. call[s] # Idle
  BY DEF WriteOrderEvent, Idle
<1>2. CallsTyped'
  BY <1>1, Answered DEF WriteOrderEvent
<1>3. WrittenTyped'
  BY Untouched DEF WriteOrderEvent
<1>4. QED
  BY <1>2, <1>3, Untouched DEF WriteOrderEvent

-----------------------------------------------------------------------------
(* What a goroutine holds agrees with the order it holds it about.         *)

Rank(id) == StatusRank[orders[id].status]
OpRank == [confirm |-> 1, pick |-> 2, deliver |-> 3]

\* Who made the transition: the seller of the order, or its holder.
DoneBy(c) ==
  /\ c.id \in DOMAIN orders
  /\ OpRank[c.op] <= Rank(c.id)
  /\ c.op = "confirm" => orders[c.id].seller = c.by
  /\ c.op \in {"pick", "deliver"} => orders[c.id].pickedBy = c.by

\* The order looked up is still of these parties and, once picked, of this holder.
SeenHolds(c) ==
  /\ c.id \in DOMAIN orders
  /\ c.seen.buyer = orders[c.id].buyer /\ c.seen.seller = orders[c.id].seller
  /\ c.op \in {"pick", "deliver"} /\ c.pc = "write" =>
       c.seen.pickedBy = orders[c.id].pickedBy /\ c.seen.readyAt = orders[c.id].readyAt

\* The order just stored is the one of this group.
Stored(c) ==
  /\ c.id \in DOMAIN orders
  /\ orders[c.id].buyer = c.by /\ orders[c.id].seller = c.seller /\ orders[c.id].items = c.items

CallLinked(c) ==
  /\ c.op = "checkout" /\ c.pc \in {"decrement", "write"} => Stored(c)
  /\ c.op \in OrderOps /\ c.pc \in {"transition", "reread", "write"} => SeenHolds(c)
  /\ c.op \in OrderOps /\ (c.pc \in {"reread", "write"} \/ c.answer = 200) => DoneBy(c)

EventTrue(e) ==
  /\ e.id \in DOMAIN orders
  /\ EventRank[e.type] <= Rank(e.id)
  /\ e.buyer = orders[e.id].buyer /\ e.seller = orders[e.id].seller
  /\ e.type = "cart.checkout" => e.items = orders[e.id].items
  /\ EventRank[e.type] >= 2 =>
       e.shipper = orders[e.id].pickedBy /\ e.readyAt = orders[e.id].readyAt

EventsTrue == \A w \in written : w.event.type \in DOMAIN EventRank => EventTrue(w.event)

LInv == TInv /\ (\A s \in Slots : CallLinked(call[s])) /\ EventsTrue

\* The order of the statuses and of the events about them.
LEMMA Ranks ==
  /\ StatusRank["checkout"] = 0 /\ StatusRank["confirmed"] = 1
  /\ StatusRank["picked"] = 2 /\ StatusRank["delivered"] = 3
  /\ EventRank["cart.checkout"] = 0 /\ EventRank["order.confirmed"] = 1
  /\ EventRank["shipment.picked"] = 2 /\ EventRank["shipment.delivered"] = 3
  /\ DOMAIN EventRank = {"cart.checkout", "order.confirmed", "shipment.picked",
                         "shipment.delivered"}
  /\ OpRank["confirm"] = 1 /\ OpRank["pick"] = 2 /\ OpRank["deliver"] = 3
  BY DEF StatusRank, EventRank, OpRank

\* An order never loses its parties, its items or its rank, nor its holder.
Kept ==
  \A i \in DOMAIN orders :
    /\ i \in DOMAIN orders'
    /\ orders'[i].buyer = orders[i].buyer /\ orders'[i].seller = orders[i].seller
    /\ orders'[i].items = orders[i].items
    /\ Rank(i) \in 0 .. 3 /\ Rank(i)' \in 0 .. 3 /\ Rank(i) <= Rank(i)'
    /\ Rank(i) >= 2 => /\ orders'[i].pickedBy = orders[i].pickedBy
                       /\ orders'[i].readyAt = orders[i].readyAt

\* Every order has a rank.
LEMMA Ranked == O!TypeOK => \A i \in DOMAIN orders : Rank(i) \in 0 .. 3
<1> SUFFICES ASSUME O!TypeOK, NEW i \in DOMAIN orders PROVE Rank(i) \in 0 .. 3
  OBVIOUS
<1>1. orders[i].status \in {"checkout", "confirmed", "picked", "delivered"}
  BY DEF O!TypeOK, O!Order, O!Statuses
<1>2. QED
  BY <1>1, Ranks DEF Rank

\* A step that leaves the orders alone rewrites none.
LEMMA QuietKept == O!TypeOK /\ UNCHANGED orders => Kept
  BY Ranked DEF Kept, Rank

\* A new order rewrites no other.
LEMMA CreateKept ==
  ASSUME O!TypeOK, NEW id \in OrderIds \ DOMAIN orders, NEW buyer \in Buyers,
         NEW seller \in Sellers, NEW items \in Seq(Line),
         O!Create(id, O!NewOrder(buyer, seller, items))
  PROVE  Kept /\ id \in DOMAIN orders' /\ Rank(id)' = 0 /\ \A i \in DOMAIN orders : Rank(i)' = Rank(i)
<1>1. /\ DOMAIN orders' = DOMAIN orders \cup {id}
      /\ \A i \in DOMAIN orders \ {id} : orders'[i] = orders[i]
      /\ orders'[id] = O!NewOrder(buyer, seller, items)
  BY CreateTyped
<1>2. orders'[id].status = "checkout"
  BY <1>1 DEF O!NewOrder
<1>3. \A i \in DOMAIN orders : orders'[i] = orders[i] /\ Rank(i)' = Rank(i)
  BY <1>1 DEF Rank
<1>4. Rank(id)' = 0
  BY <1>2, Ranks DEF Rank
<1>5. QED
  BY <1>1, <1>3, <1>4, Ranked DEF Kept

\* A transition raises one order by one rank.
Raised(id, rank) ==
  /\ id \in DOMAIN orders /\ DOMAIN orders' = DOMAIN orders
  /\ StatusRank[orders[id].status] = rank - 1 /\ StatusRank[orders'[id].status] = rank
  /\ \A i \in DOMAIN orders \ {id} : Rank(i)' = Rank(i)

\* One order changes, keeps what it must and moves up by one.
LEMMA RaisedKept ==
  ASSUME O!TypeOK, NEW id \in DOMAIN orders, DOMAIN orders' = DOMAIN orders,
         \A i \in DOMAIN orders \ {id} : orders'[i] = orders[i],
         orders'[id].buyer = orders[id].buyer, orders'[id].seller = orders[id].seller,
         orders'[id].items = orders[id].items,
         NEW rank \in 1 .. 3, Rank(id) = rank - 1, Rank(id)' = rank,
         rank = 3 => /\ orders'[id].pickedBy = orders[id].pickedBy
                     /\ orders'[id].readyAt = orders[id].readyAt
  PROVE  Kept /\ Raised(id, rank)
<1>1. ASSUME NEW i \in DOMAIN orders, i # id
      PROVE  orders'[i] = orders[i] /\ Rank(i)' = Rank(i)
  BY <1>1 DEF Rank
<1>2. \A i \in DOMAIN orders : Rank(i) \in 0 .. 3 /\ Rank(i)' \in 0 .. 3 /\ Rank(i) <= Rank(i)'
  BY <1>1, Ranked
<1>3. ASSUME NEW i \in DOMAIN orders, Rank(i) >= 2
      PROVE  /\ orders'[i].pickedBy = orders[i].pickedBy
             /\ orders'[i].readyAt = orders[i].readyAt
  <2>1. i = id => rank = 3
    BY <1>3
  <2>2. QED
    BY <1>1, <2>1
<1>4. \A i \in DOMAIN orders : /\ orders'[i].buyer = orders[i].buyer
                               /\ orders'[i].seller = orders[i].seller
                               /\ orders'[i].items = orders[i].items
  BY <1>1
<1>5. Kept
  BY <1>2, <1>3, <1>4 DEF Kept
<1>6. QED
  BY <1>1, <1>5 DEF Raised, Rank

\* A confirmation raises one order from checkout to confirmed and keeps what
\* its events told.
LEMMA ConfirmKept ==
  ASSUME O!TypeOK, NEW id, NEW by, O!Confirm(id, by)
  PROVE  Kept /\ Raised(id, 1) /\ orders'[id].seller = by
<1>1. /\ id \in DOMAIN orders /\ orders[id].status = "checkout" /\ orders[id].seller = by
      /\ DOMAIN orders' = DOMAIN orders
      /\ \A i \in DOMAIN orders \ {id} : orders'[i] = orders[i]
  BY ConfirmTyped
<1>a. orders'[id] = [orders[id] EXCEPT !.status = "confirmed", !.confirmedAt = now]
  BY ConfirmTyped
<1>2. orders[id] \in O!Order
  BY <1>1 DEF O!TypeOK
<1>3. /\ orders'[id].status = "confirmed" /\ orders'[id].buyer = orders[id].buyer
      /\ orders'[id].seller = orders[id].seller /\ orders'[id].items = orders[id].items
  BY <1>2, <1>a DEF O!Order
<1>4. Rank(id) = 1 - 1 /\ Rank(id)' = 1
  BY <1>1, <1>3, Ranks DEF Rank
<1>5. Kept /\ Raised(id, 1)
  BY <1>1, <1>3, <1>4, RaisedKept
<1>6. QED
  BY <1>1, <1>3, <1>5

\* A pickup raises one order from confirmed to picked; nobody had told its holder.
LEMMA PickKept ==
  ASSUME O!TypeOK, NEW id, NEW by \in Shippers, O!Pick(id, by)
  PROVE  Kept /\ Raised(id, 2) /\ orders'[id].pickedBy = by
<1>1. /\ id \in DOMAIN orders /\ orders[id].status = "confirmed"
      /\ DOMAIN orders' = DOMAIN orders
      /\ \A i \in DOMAIN orders \ {id} : orders'[i] = orders[i]
  BY PickTyped
<1>2. orders[id] \in O!Order
  BY <1>1 DEF O!TypeOK
<1>3. PICK delay \in ReadyDelays :
        orders'[id] = [orders[id] EXCEPT !.status = "picked", !.pickedBy = by,
                                         !.pickedAt = now, !.readyAt = now + delay]
  BY PickTyped
<1>4. /\ orders'[id].status = "picked" /\ orders'[id].buyer = orders[id].buyer
      /\ orders'[id].seller = orders[id].seller /\ orders'[id].items = orders[id].items
      /\ orders'[id].pickedBy = by
  BY <1>2, <1>3 DEF O!Order
<1>5. Rank(id) = 2 - 1 /\ Rank(id)' = 2
  BY <1>1, <1>4, Ranks DEF Rank
<1>6. Kept /\ Raised(id, 2)
  BY <1>1, <1>4, <1>5, RaisedKept
<1>7. QED
  BY <1>1, <1>4, <1>6

\* A delivery raises one order from picked to delivered.
LEMMA DeliverKept ==
  ASSUME O!TypeOK, NEW id, NEW by, O!Deliver(id, by)
  PROVE  Kept /\ Raised(id, 3) /\ orders'[id].pickedBy = by
<1>1. /\ id \in DOMAIN orders /\ orders[id].status = "picked" /\ orders[id].pickedBy = by
      /\ DOMAIN orders' = DOMAIN orders
      /\ \A i \in DOMAIN orders \ {id} : orders'[i] = orders[i]
  BY DeliverTyped
<1>a. orders'[id] = [orders[id] EXCEPT !.status = "delivered", !.deliveredAt = now]
  BY DeliverTyped
<1>2. orders[id] \in O!Order
  BY <1>1 DEF O!TypeOK
<1>3. /\ orders'[id].status = "delivered" /\ orders'[id].buyer = orders[id].buyer
      /\ orders'[id].seller = orders[id].seller /\ orders'[id].items = orders[id].items
      /\ orders'[id].pickedBy = orders[id].pickedBy /\ orders'[id].readyAt = orders[id].readyAt
  BY <1>2, <1>a DEF O!Order
<1>4. Rank(id) = 3 - 1 /\ Rank(id)' = 3
  BY <1>1, <1>3, Ranks DEF Rank
<1>5. Kept /\ Raised(id, 3)
  BY <1>1, <1>3, <1>4, RaisedKept
<1>6. QED
  BY <1>1, <1>3, <1>5

\* What holds of a goroutine's locals and of a written event goes on holding.
LEMMA StillLinked ==
  ASSUME Kept, NEW s \in Slots, CallTyped(s, call[s]), CallLinked(call[s]), call'[s] = call[s]
  PROVE  CallLinked(call[s])'
<1> DEFINE c == call[s]
<1>1. ASSUME Stored(c) PROVE Stored(c)'
  BY <1>1 DEF Stored, Kept
<1>2. ASSUME DoneBy(c), c.op \in OrderOps PROVE DoneBy(c)'
  <2>1. c.op \in {"confirm", "pick", "deliver"} /\ OpRank[c.op] \in Nat
    BY <1>2, Ranks DEF OrderOps
  <2>2. c.op \in {"pick", "deliver"} => OpRank[c.op] >= 2
    BY Ranks
  <2>3. OpRank[c.op] <= Rank(c.id)' /\ c.id \in DOMAIN orders'
    BY <1>2, <2>1 DEF DoneBy, Kept
  <2>4. c.op \in {"pick", "deliver"} => Rank(c.id) >= 2
    BY <1>2, <2>1, <2>2 DEF DoneBy, Kept
  <2>5. QED
    BY <1>2, <2>3, <2>4 DEF DoneBy, Kept
<1>3. ASSUME SeenHolds(c), DoneBy(c) \/ c.pc # "write" PROVE SeenHolds(c)'
  <2>1. c.op \in {"pick", "deliver"} => OpRank[c.op] \in {2, 3}
    BY Ranks
  <2>2. c.op \in {"pick", "deliver"} /\ c.pc = "write" => Rank(c.id) >= 2
    BY <1>3, <2>1 DEF DoneBy, Kept
  <2>3. QED
    BY <1>3, <2>2 DEF SeenHolds, Kept
<1>4. QED
  BY <1>1, <1>2, <1>3 DEF CallLinked

\* What was true of orders that are only raised stays true.
LEMMA StillTrue ==
  ASSUME Kept, EventsTrue, NEW w \in written, w.event.type \in DOMAIN EventRank
  PROVE  EventTrue(w.event)'
<1> DEFINE e == w.event
<1>1. EventTrue(e)
  BY DEF EventsTrue
<1>2. EventRank[e.type] \in 0 .. 3
  BY Ranks
<1> HIDE DEF e
<1>3. EventRank[e.type] >= 2 => Rank(e.id) >= 2
  BY <1>1, <1>2 DEF EventTrue, Kept
<1>4. QED
  BY <1>1, <1>2, <1>3 DEF EventTrue, Kept, e

\* A step of one goroutine keeps the agreement if its own part agrees.
LEMMA LinkedFrom ==
  ASSUME LInv, Kept, NEW s \in Slots, NEW next, Continue(s, next), CallLinked(call[s])',
         \A w \in written' \ written : w.event.type \in DOMAIN EventRank => EventTrue(w.event)'
  PROVE  (\A t \in Slots : CallLinked(call[t]))' /\ EventsTrue'
<1>1. ASSUME NEW t \in Slots, t # s PROVE CallLinked(call[t])'
  <2>1. call'[t] = call[t]
    BY <1>1, Continued DEF LInv, TInv
  <2>2. CallTyped(t, call[t]) /\ CallLinked(call[t])
    BY DEF LInv, TInv, CallsTyped
  <2>3. QED
    BY <2>1, <2>2, StillLinked
<1>2. \A t \in Slots : CallLinked(call[t])'
  BY <1>1
<1>3. ASSUME NEW w \in written', w.event.type \in DOMAIN EventRank PROVE EventTrue(w.event)'
  <2>1. CASE w \in written
    BY <1>3, <2>1, StillTrue DEF LInv
  <2>2. CASE w \notin written
    BY <1>3, <2>2
  <2>3. QED
    BY <2>1, <2>2
<1>4. EventsTrue'
  BY <1>3 DEF EventsTrue
<1>5. QED
  BY <1>2, <1>4

\* The same for a step that stores and writes nothing about an order and
\* leaves its goroutine with nothing to agree about.
LEMMA LinkedAside ==
  ASSUME LInv, NEW s \in Slots, NEW next, Continue(s, next), UNCHANGED orderVars,
         next.op = "checkout" => next.pc \notin {"decrement", "write"},
         next.op \in OrderOps => next.pc \notin {"transition", "reread", "write"} /\ next.answer # 200,
         \A w \in written' \ written : w.event.type \notin DOMAIN EventRank
  PROVE  (\A t \in Slots : CallLinked(call[t]))' /\ EventsTrue'
<1>1. Kept
  BY QuietKept DEF LInv, TInv, orderVars
<1>2. call'[s] = next
  BY Continued DEF LInv, TInv
<1>3. CallLinked(call[s])'
  BY <1>2 DEF CallLinked
<1>4. QED
  BY <1>1, <1>3, LinkedFrom

\* What an answer leaves of a goroutine.
LEMMA AnswerLeaves ==
  ASSUME CallsTyped, NEW s \in Slots, NEW code, Answer(s, code)
  PROVE  call'[s].op = call[s].op /\ call'[s].pc = "done" /\ call'[s].answer = code
<1>1. call'[s] = [call[s] EXCEPT !.pc = "done", !.answer = code]
  BY Continued DEF Answer
<1>2. {"op", "pc", "answer"} \subseteq DOMAIN call[s]
  <2>1. CallTyped(s, call[s])
    BY DEF CallsTyped
  <2>2. call[s] \in CheckoutCall => {"op", "pc", "answer"} \subseteq DOMAIN call[s]
    BY DEF CheckoutCall
  <2>3. call[s] \in OrderCall => {"op", "pc", "answer"} \subseteq DOMAIN call[s]
    BY DEF OrderCall
  <2>4. /\ call[s] \in ListCall => {"op", "pc", "answer"} \subseteq DOMAIN call[s]
        /\ call[s] \in AddCall => {"op", "pc", "answer"} \subseteq DOMAIN call[s]
        /\ call[s] = Idle => {"op", "pc", "answer"} \subseteq DOMAIN call[s]
    BY DEF ListCall, AddCall, Idle
  <2>5. QED
    BY <2>1, <2>2, <2>3, <2>4 DEF CallTyped
<1>3. QED
  BY <1>1, <1>2

\* A goroutine that answers ends, and the others stay where they are.
LEMMA AnswerEnds ==
  ASSUME LInv, NEW s \in Slots, NEW code, Answer(s, code)
  PROVE  call'[s].pc = "done" /\ \A t \in Slots \ {s} : call'[t] = call[t]
<1>1. CallsTyped
  BY DEF LInv, TInv
<1>2. call'[s].pc = "done"
  BY <1>1, AnswerLeaves
<1>3. \A t \in Slots \ {s} : call'[t] = call[t]
  BY <1>1, Continued DEF Answer
<1>4. QED
  BY <1>2, <1>3

\* An answer other than 200 to an order request has nothing to agree with.
LEMMA AnswerAside ==
  ASSUME LInv, NEW s \in Slots, NEW code, Answer(s, code), UNCHANGED orderVars,
         call[s].op \in OrderOps => code # 200,
         \A w \in written' \ written : w.event.type \notin DOMAIN EventRank
  PROVE  (\A t \in Slots : CallLinked(call[t]))' /\ EventsTrue'
<1>1. call'[s].op = call[s].op /\ call'[s].pc = "done" /\ call'[s].answer = code
  BY AnswerLeaves DEF LInv, TInv
<1>2. Kept
  BY QuietKept DEF LInv, TInv, orderVars
<1>3. CallLinked(call[s])'
  BY <1>1 DEF CallLinked
<1>4. QED
  BY <1>2, <1>3, LinkedFrom DEF Answer

\* A new request has done nothing yet.
LEMMA ArriveLinked ==
  ASSUME LInv, NEW s \in Slots, Arrive(s)
  PROVE  (\A t \in Slots : CallLinked(call[t]))' /\ EventsTrue'
<1>1. UNCHANGED <<written, productVars, orderVars>>
  BY DEF Arrive, ArriveList, ArriveAdd, ArriveCheckout, ArriveOrderOp
<1>2. PICK next : /\ Continue(s, next) /\ next.pc \in {"validate", "get", "check"} /\ next.answer = 0
  <2>1. CASE ArriveList(s)
    BY <2>1 DEF ArriveList
  <2>2. CASE ArriveAdd(s)
    BY <2>2 DEF ArriveAdd
  <2>3. CASE ArriveCheckout(s)
    <3>1. PICK b \in Buyers, c \in Carts :
            Continue(s, [op |-> "checkout", pc |-> "check", answer |-> 0, by |-> b,
                         cart |-> c, line |-> 1, groups |-> <<>>, id |-> "", seller |-> "",
                         items |-> <<>>])
      BY <2>3 DEF ArriveCheckout
    <3> DEFINE first == [op |-> "checkout", pc |-> "check", answer |-> 0, by |-> b,
                         cart |-> c, line |-> 1, groups |-> <<>>, id |-> "", seller |-> "",
                         items |-> <<>>]
    <3>2. Continue(s, first) /\ first.pc = "check" /\ first.answer = 0
      BY <3>1
    <3> HIDE DEF first
    <3>3. QED
      BY <3>2
  <2>4. CASE ArriveOrderOp(s)
    BY <2>4 DEF ArriveOrderOp
  <2>5. QED
    BY <2>1, <2>2, <2>3, <2>4 DEF Arrive
<1>3. QED
  BY <1>1, <1>2, LinkedAside

\* The handlers of products write no event of an order.
LEMMA ShelfLinked ==
  ASSUME LInv, NEW s \in Slots, ListProduct(s) \/ WriteListed(s) \/ AddToCart(s) \/ WriteAdded(s)
  PROVE  (\A t \in Slots : CallLinked(call[t]))' /\ EventsTrue'
<1>1. call[s].op \in {"list", "add"} /\ UNCHANGED orderVars
  BY DEF ListProduct, WriteListed, AddToCart, WriteAdded, At
<1>2. \A w \in written' \ written : w.event.type \notin DOMAIN EventRank
  BY Ranks DEF ListProduct, WriteListed, AddToCart, WriteAdded, Write
<1>3. CASE \E code : Answer(s, code)
  <2>1. PICK code : Answer(s, code)
    BY <1>3
  <2>2. call[s].op \notin OrderOps
    BY <1>1 DEF OrderOps
  <2>3. QED
    BY <1>1, <1>2, <2>1, <2>2, AnswerAside
<1>4. CASE Continue(s, [call[s] EXCEPT !.pc = "write"])
  <2>1. call[s] \in ListCall \cup AddCall
    BY <1>1, Held DEF LInv, TInv
  <2>2. [call[s] EXCEPT !.pc = "write"].op \in {"list", "add"}
    BY <2>1 DEF ListCall, AddCall
  <2>3. QED
    BY <1>1, <1>2, <1>4, <2>2, LinkedAside DEF OrderOps
<1>5. QED
  BY <1>3, <1>4 DEF ListProduct, WriteListed, AddToCart, WriteAdded

\* Checking a line creates no order.
LEMMA CheckLinked ==
  ASSUME LInv, NEW s \in Slots, CheckLine(s)
  PROVE  (\A t \in Slots : CallLinked(call[t]))' /\ EventsTrue'
<1>1. call[s] \in CheckoutCall /\ call[s].op = "checkout"
  BY Held DEF LInv, TInv, CheckLine, At
<1>2. UNCHANGED <<written, productVars, orderVars>>
  BY DEF CheckLine
<1>3. CASE Answer(s, 400)
  BY <1>2, <1>3, AnswerAside
<1>4. CASE ~ Answer(s, 400)
  <2> DEFINE c == call[s]
             groups2 == Grouped(c.groups, c.cart[c.line])
             pc2 == IF c.line = Len(c.cart) THEN "create" ELSE "check"
             line2 == c.line + 1
  <2>1. Continue(s, [c EXCEPT !.groups = groups2, !.line = line2, !.pc = pc2])
    BY <1>4 DEF CheckLine
  <2>2. pc2 \in {"check", "create"}
    OBVIOUS
  <2> HIDE DEF groups2, pc2, line2
  <2>3. /\ [c EXCEPT !.groups = groups2, !.line = line2, !.pc = pc2].op = "checkout"
        /\ [c EXCEPT !.groups = groups2, !.line = line2, !.pc = pc2].pc = pc2
    BY <1>1 DEF CheckoutCall
  <2> DEFINE next == [c EXCEPT !.groups = groups2, !.line = line2, !.pc = pc2]
  <2>4. Continue(s, next) /\ next.op = "checkout" /\ next.pc \in {"check", "create"}
    BY <2>1, <2>2, <2>3
  <2> HIDE DEF next
  <2>5. QED
    BY <1>2, <2>4, LinkedAside DEF OrderOps
<1>5. QED
  BY <1>3, <1>4

\* A created order is the one its goroutine remembers.
LEMMA CreateOrderLinked ==
  ASSUME LInv, NEW s \in Slots, NEW seller \in DOMAIN call[s].groups, NEW id,
         At(s, "checkout", "create"),
         id \in OrderIds \ DOMAIN orders,
         O!Create(id, O!NewOrder(call[s].by, seller, call[s].groups[seller])),
         Continue(s, [call[s] EXCEPT !.pc = "decrement", !.line = 1, !.id = id,
                        !.seller = seller, !.items = call[s].groups[seller],
                        !.groups = [x \in DOMAIN call[s].groups \ {seller} |-> call[s].groups[x]]]),
         UNCHANGED <<written, productVars>>
  PROVE  /\ (\A t \in Slots : CallLinked(call[t]))' /\ EventsTrue'
         /\ Kept /\ id \in DOMAIN orders' /\ Rank(id)' = 0
         /\ \A i \in DOMAIN orders : Rank(i)' = Rank(i)
         /\ DOMAIN orders' = DOMAIN orders \cup {id}
         /\ call'[s].op = "checkout" /\ call'[s].pc = "decrement" /\ call'[s].id = id
<1> DEFINE c == call[s]
           items == c.groups[seller]
           rest == [x \in DOMAIN c.groups \ {seller} |-> c.groups[x]]
<1>1. /\ c \in CheckoutCall /\ c.op = "checkout" /\ O!TypeOK
  BY Held DEF At, LInv, TInv
<1>2. c.groups \in Groups /\ c.by \in Buyers
  BY <1>1 DEF CheckoutCall
<1>3. seller \in Sellers /\ items \in Seq(Wanted)
  BY <1>2, GroupsTyped
<1>4. items \in Seq(Line)
  <2>1. \A l \in Wanted : l \in Line
    BY DEF Wanted, Line
  <2> HIDE DEF items
  <2>2. QED
    BY <1>3, <2>1
<1>5. /\ Kept /\ id \in DOMAIN orders' /\ Rank(id)' = 0
      /\ \A i \in DOMAIN orders : Rank(i)' = Rank(i)
  BY <1>1, <1>2, <1>3, <1>4, CreateKept
<1>6. DOMAIN orders' = DOMAIN orders \cup {id} /\ orders'[id] = O!NewOrder(c.by, seller, items)
  BY <1>1, <1>2, <1>3, <1>4, CreateTyped
<1>7. /\ orders'[id].buyer = c.by /\ orders'[id].seller = seller /\ orders'[id].items = items
  BY <1>6 DEF O!NewOrder
<1> HIDE DEF items, rest
<1> DEFINE next == [c EXCEPT !.pc = "decrement", !.line = 1, !.id = id, !.seller = seller,
                             !.items = items, !.groups = rest]
<1>8. Continue(s, next)
  BY DEF items, rest
<1>9. /\ next.op = "checkout" /\ next.pc = "decrement" /\ next.id = id /\ next.seller = seller
      /\ next.items = items /\ next.by = c.by
  BY <1>1 DEF CheckoutCall
<1> HIDE DEF next
<1>10. call'[s] = next
  BY <1>8, Continued DEF LInv, TInv
<1>11. CallLinked(call[s])'
  BY <1>5, <1>7, <1>9, <1>10 DEF CallLinked, Stored, OrderOps
<1>12. (\A t \in Slots : CallLinked(call[t]))' /\ EventsTrue'
  BY <1>5, <1>8, <1>11, LinkedFrom
<1>13. QED
  BY <1>5, <1>6, <1>9, <1>10, <1>12

\* Taking stock leaves the goroutine with the order it created.
LEMMA DecrementLinked ==
  ASSUME LInv, NEW s \in Slots, DecrementLine(s)
  PROVE  (\A t \in Slots : CallLinked(call[t]))' /\ EventsTrue'
<1> DEFINE c == call[s]
           line2 == c.line + 1
           pc2 == IF c.line = Len(c.items) THEN "write" ELSE "decrement"
           next == [c EXCEPT !.line = line2, !.pc = pc2]
<1>1. /\ c \in CheckoutCall /\ c.op = "checkout" /\ c.pc = "decrement" /\ Continue(s, next)
      /\ UNCHANGED <<written, orderVars>>
  BY Held DEF DecrementLine, At, LInv, TInv
<1>2. Stored(c)
  BY <1>1 DEF LInv, CallLinked
<1>3. Kept
  BY <1>1, QuietKept DEF LInv, TInv, orderVars
<1>4. pc2 \in {"write", "decrement"}
  OBVIOUS
<1> HIDE DEF line2, pc2
<1>5. /\ next.op = "checkout" /\ next.id = c.id /\ next.by = c.by
      /\ next.seller = c.seller /\ next.items = c.items
  BY <1>1 DEF CheckoutCall
<1> HIDE DEF next
<1>6. call'[s] = next
  BY <1>1, Continued DEF LInv, TInv
<1>7. CallLinked(call[s])'
  BY <1>2, <1>3, <1>5, <1>6 DEF CallLinked, Stored, Kept, OrderOps
<1>8. QED
  BY <1>1, <1>3, <1>7, LinkedFrom

\* cart.checkout tells the parties and the items of the order just created.
LEMMA WriteCheckoutLinked ==
  ASSUME LInv, NEW s \in Slots, WriteCheckout(s)
  PROVE  (\A t \in Slots : CallLinked(call[t]))' /\ EventsTrue'
<1> DEFINE c == call[s]
           e == [type |-> "cart.checkout", id |-> c.id, buyer |-> c.by, seller |-> c.seller,
                 items |-> c.items]
<1>1. /\ c \in CheckoutCall /\ c.op = "checkout" /\ c.pc = "write"
      /\ Write(s, e) /\ UNCHANGED orderVars
  BY Held DEF WriteCheckout, At, LInv, TInv
<1>2. Stored(c)
  BY <1>1 DEF LInv, CallLinked
<1>3. Kept /\ c.id \in DOMAIN orders'
  BY <1>1, <1>2, QuietKept DEF LInv, TInv, orderVars, Stored
<1>4. ASSUME NEW f, f = e PROVE EventTrue(f)'
  <2>1. /\ f.type = "cart.checkout" /\ f.id = c.id /\ f.buyer = c.by /\ f.seller = c.seller
        /\ f.items = c.items
    BY <1>4
  <2>2. f.id \in DOMAIN orders' /\ Rank(f.id)' \in 0 .. 3
    BY <1>2, <1>3, <2>1 DEF Kept, Stored
  <2>3. EventRank[f.type] = 0
    BY <2>1, Ranks
  <2>4. /\ f.buyer = orders'[f.id].buyer /\ f.seller = orders'[f.id].seller
        /\ f.items = orders'[f.id].items
    BY <1>2, <1>3, <2>1 DEF Kept, Stored
  <2>5. QED
    BY <2>2, <2>3, <2>4 DEF EventTrue
<1>5. \A w \in written' \ written : w.event = e
  BY <1>1 DEF Write
<1> HIDE DEF e
<1>6. \A w \in written' \ written : w.event.type \in DOMAIN EventRank => EventTrue(w.event)'
  BY <1>4, <1>5
<1>7. CASE Answer(s, 201)
  <2>1. call'[s].op = "checkout" /\ call'[s].pc = "done"
    BY <1>1, <1>7, AnswerLeaves DEF LInv, TInv
  <2>2. CallLinked(call[s])'
    BY <2>1 DEF CallLinked, OrderOps
  <2>3. QED
    BY <1>3, <1>6, <1>7, <2>2, LinkedFrom DEF Answer
<1>8. CASE Continue(s, [c EXCEPT !.pc = "create"])
  <2>1. call'[s] = [c EXCEPT !.pc = "create"]
    BY <1>8, Continued DEF LInv, TInv
  <2>2. call'[s].op = "checkout" /\ call'[s].pc = "create"
    BY <1>1, <2>1 DEF CheckoutCall
  <2>3. CallLinked(call[s])'
    BY <2>2 DEF CallLinked, OrderOps
  <2>4. QED
    BY <1>3, <1>6, <1>8, <2>3, LinkedFrom
<1>9. QED
  BY <1>7, <1>8 DEF WriteCheckout

\* Looking the order up before the transition.
LEMMA GetLinked ==
  ASSUME LInv, NEW s \in Slots, GetOrder(s)
  PROVE  (\A t \in Slots : CallLinked(call[t]))' /\ EventsTrue'
<1> DEFINE c == call[s]
<1>1. c.op \in OrderOps /\ c.pc = "get" /\ UNCHANGED <<written, orderVars>>
  BY DEF GetOrder
<1>2. CASE Answer(s, 404)
  BY <1>1, <1>2, AnswerAside
<1>3. CASE ~ Answer(s, 404)
  <2> DEFINE o == orders[c.id]
             next == [c EXCEPT !.pc = "transition", !.seen = o]
  <2>1. c.id \in DOMAIN orders /\ Continue(s, next)
    BY <1>3 DEF GetOrder
  <2>2. c \in OrderCall /\ c.answer = 0
    <3>1. c.op # "none"
      BY <1>1 DEF OrderOps
    <3>2. QED
      BY <1>1, <3>1, Held DEF LInv, TInv, CallTyped
  <2> HIDE DEF o
  <2>3. /\ next.op = c.op /\ next.pc = "transition" /\ next.id = c.id /\ next.answer = 0
        /\ next.seen = o
    BY <2>2 DEF OrderCall
  <2> HIDE DEF next
  <2>4. call'[s] = next /\ orders' = orders
    BY <1>1, <2>1, Continued DEF LInv, TInv, orderVars
  <2>5. SeenHolds(call[s])'
    BY <2>1, <2>3, <2>4 DEF SeenHolds, o
  <2>6. CallLinked(call[s])'
    BY <1>1, <2>3, <2>4, <2>5 DEF CallLinked, OrderOps
  <2>7. Kept
    BY <1>1, QuietKept DEF LInv, TInv, orderVars
  <2>8. QED
    BY <1>1, <2>1, <2>6, <2>7, LinkedFrom
<1>4. QED
  BY <1>2, <1>3

\* The transition itself: one order moves up by one, and the caller did it.
LEMMA TransitionLinked ==
  ASSUME LInv, NEW s \in Slots, Transition(s)
  PROVE  /\ (\A t \in Slots : CallLinked(call[t]))' /\ EventsTrue'
         /\ Kept /\ Raised(call[s].id, OpRank[call[s].op])
         /\ call[s].op \in OrderOps /\ call'[s].op = call[s].op /\ call'[s].id = call[s].id
         /\ call'[s].pc \in {"reread", "write"}
<1> DEFINE c == call[s]
           pc2 == AfterTransition(c.op)
           next == [c EXCEPT !.pc = pc2]
<1>1. /\ c \in OrderCall /\ CallTyped(s, c) /\ c.op \in OrderOps /\ c.pc = "transition"
      /\ c.op = "confirm" => O!Confirm(c.id, c.by)
      /\ c.op = "pick" => O!Pick(c.id, c.by)
      /\ c.op = "deliver" => O!Deliver(c.id, c.by)
      /\ Continue(s, next) /\ UNCHANGED written
  BY Held DEF Transition, At, OrderOps, LInv, TInv
<1>2. SeenHolds(c)
  BY <1>1 DEF LInv, CallLinked
<1>3. /\ c.op \in {"confirm", "pick", "deliver"} /\ pc2 \in {"reread", "write"}
      /\ c.op \in {"pick", "deliver"} => pc2 = "reread"
  BY <1>1 DEF OrderOps, AfterTransition
<1>4. c.op = "pick" => c.by \in Shippers
  BY <1>1 DEF CallTyped
<1>5. /\ Kept /\ Raised(c.id, OpRank[c.op])
      /\ c.op = "confirm" => orders'[c.id].seller = c.by
      /\ c.op \in {"pick", "deliver"} => orders'[c.id].pickedBy = c.by
  <2>1. O!TypeOK
    BY DEF LInv, TInv
  <2>2. CASE c.op = "confirm"
    BY <1>1, <2>1, <2>2, ConfirmKept, Ranks
  <2>3. CASE c.op = "pick"
    BY <1>1, <1>4, <2>1, <2>3, PickKept, Ranks
  <2>4. CASE c.op = "deliver"
    BY <1>1, <2>1, <2>4, DeliverKept, Ranks
  <2>5. QED
    BY <1>3, <2>2, <2>3, <2>4
<1>6. c.answer = 0
  BY <1>1 DEF CallTyped
<1> HIDE DEF pc2
<1>7. /\ next.op = c.op /\ next.id = c.id /\ next.by = c.by /\ next.seen = c.seen
      /\ next.pc = pc2 /\ next.answer = 0
  BY <1>1, <1>6 DEF OrderCall
<1> HIDE DEF next
<1>8. call'[s] = next
  BY <1>1, Continued DEF LInv, TInv
<1>9. SeenHolds(call[s])'
  BY <1>2, <1>3, <1>5, <1>7, <1>8 DEF SeenHolds, Kept
<1>10. DoneBy(call[s])'
  <2>1. ASSUME NEW id, id = c.id PROVE id \in DOMAIN orders' /\ Rank(id)' = OpRank[c.op]
    BY <1>5, <2>1 DEF Raised, Rank
  <2>2. Rank(call[s].id)' = OpRank[call'[s].op] /\ call'[s].id \in DOMAIN orders'
    BY <1>7, <1>8, <2>1
  <2>3. OpRank[c.op] \in Nat
    BY <1>3, Ranks
  <2>4. QED
    BY <1>5, <1>7, <1>8, <2>2, <2>3 DEF DoneBy
<1>11. CallLinked(call[s])'
  BY <1>7, <1>8, <1>9, <1>10, <1>3 DEF CallLinked
<1>12. (\A t \in Slots : CallLinked(call[t]))' /\ EventsTrue'
  BY <1>1, <1>5, <1>11, LinkedFrom
<1>13. QED
  BY <1>1, <1>3, <1>5, <1>7, <1>8, <1>12

\* A refusal answers something else than 200 and commits nothing.
LEMMA RefuseLinked ==
  ASSUME LInv, NEW s \in Slots, Refuse(s)
  PROVE  (\A t \in Slots : CallLinked(call[t]))' /\ EventsTrue'
<1>1. Answer(s, Code(Result(s))) /\ UNCHANGED <<written, orderVars>>
  BY DEF Refuse
<1>2. Code(Result(s)) # 200
  BY DEF Code
<1>3. QED
  BY <1>1, <1>2, AnswerAside

\* Looking the order up after the transition: a shipper's event is built from
\* what is committed, holder and readiness time included.
LEMMA RereadLinked ==
  ASSUME LInv, NEW s \in Slots, Reread(s)
  PROVE  /\ (\A t \in Slots : CallLinked(call[t]))' /\ EventsTrue'
         /\ call[s].op \in OrderOps /\ call'[s].op = call[s].op /\ call'[s].id = call[s].id
         /\ call'[s].pc = "write" /\ call[s].id \in DOMAIN orders
<1> DEFINE c == call[s]
           o == orders[c.id]
           next == [c EXCEPT !.pc = "write", !.seen = o]
<1>1. c.pc = "reread" /\ Continue(s, next) /\ UNCHANGED <<written, orderVars>>
  BY DEF Reread
<1>2. c \in OrderCall /\ CallTyped(s, c)
  <2>1. CallTyped(s, c)
    BY DEF LInv, TInv, CallsTyped
  <2>2. c \notin CheckoutCall
    BY <1>1 DEF CheckoutCall
  <2>3. c \notin ListCall /\ c \notin AddCall /\ c # Idle
    BY <1>1 DEF ListCall, AddCall, Idle
  <2>4. QED
    BY <2>1, <2>2, <2>3 DEF CallTyped
<1>3. c.op \in OrderOps
  BY <1>2 DEF OrderCall
<1>4. DoneBy(c) /\ SeenHolds(c) /\ CallLinked(c)
  BY <1>1, <1>3 DEF LInv, CallLinked
<1>5. c.answer = 0 /\ c.id \in DOMAIN orders
  BY <1>1, <1>2, <1>4 DEF CallTyped, DoneBy
<1> HIDE DEF o
<1>6. /\ next.op = c.op /\ next.id = c.id /\ next.by = c.by /\ next.seen = o
      /\ next.pc = "write" /\ next.answer = 0
  BY <1>2, <1>5 DEF OrderCall
<1> HIDE DEF next
<1>7. call'[s] = next /\ orders' = orders
  BY <1>1, Continued DEF LInv, TInv, orderVars
<1>8. SeenHolds(call[s])'
  BY <1>5, <1>6, <1>7 DEF SeenHolds, o
<1>9. DoneBy(call[s])'
  BY <1>4, <1>6, <1>7 DEF DoneBy, Rank
<1>10. CallLinked(call[s])'
  BY <1>3, <1>6, <1>7, <1>8, <1>9 DEF CallLinked, OrderOps
<1>11. Kept
  BY <1>7, QuietKept DEF LInv, TInv
<1>12. (\A t \in Slots : CallLinked(call[t]))' /\ EventsTrue'
  BY <1>1, <1>10, <1>11, LinkedFrom
<1>13. QED
  BY <1>3, <1>5, <1>6, <1>7, <1>12

\* The event of a transition is about a committed state and true of it.
LEMMA AnnounceLinked ==
  ASSUME LInv, NEW s \in Slots, WriteOrderEvent(s)
  PROVE  (\A t \in Slots : CallLinked(call[t]))' /\ EventsTrue'
<1> DEFINE c == call[s]
           e == Payload(c.op, c.id, c.seen)
<1>1. /\ c.op \in OrderOps /\ c.pc = "write" /\ Write(s, e) /\ Answer(s, 200)
      /\ UNCHANGED <<productVars, orderVars>>
  BY DEF WriteOrderEvent
<1>2. SeenHolds(c) /\ DoneBy(c)
  BY <1>1 DEF LInv, CallLinked
<1>3. c \in OrderCall /\ c.op \in {"confirm", "pick", "deliver"}
  <2>1. c.op # "none"
    BY <1>1 DEF OrderOps
  <2>2. QED
    BY <1>1, <2>1, Held DEF LInv, TInv, OrderOps
<1>4. Kept /\ orders' = orders
  BY <1>1, QuietKept DEF LInv, TInv, orderVars
<1>5. /\ e.type = EventOf(c.op) /\ e.id = c.id /\ e.buyer = c.seen.buyer /\ e.seller = c.seen.seller
      /\ c.op # "confirm" => e.shipper = c.seen.pickedBy /\ e.readyAt = c.seen.readyAt
  BY DEF Payload
<1>6. EventRank[EventOf(c.op)] = OpRank[c.op] /\ EventOf(c.op) # "cart.checkout"
      /\ (c.op = "confirm" => OpRank[c.op] = 1)
  BY <1>3, Ranks DEF EventOf
<1> HIDE DEF e
<1>7. EventTrue(e)
  BY <1>1, <1>2, <1>3, <1>5, <1>6 DEF EventTrue, SeenHolds, DoneBy
<1>8. ASSUME NEW f, f = e PROVE EventTrue(f)'
  <2>1. EventTrue(f)
    BY <1>7, <1>8
  <2>2. QED
    BY <1>4, <2>1 DEF EventTrue, Rank
<1>9. \A w \in written' \ written : EventTrue(w.event)'
  <2>1. \A w \in written' \ written : w.event = e
    BY <1>1 DEF Write
  <2>2. QED
    BY <1>8, <2>1
<1>10. CallLinked(call[s])'
  <2>1. call'[s] = [c EXCEPT !.pc = "done", !.answer = 200]
    BY <1>1, Continued DEF Answer, LInv, TInv
  <2>2. /\ call'[s].op = c.op /\ call'[s].pc = "done" /\ call'[s].id = c.id /\ call'[s].by = c.by
    BY <1>3, <2>1 DEF OrderCall
  <2>3. DoneBy(call[s])'
    BY <1>2, <1>4, <2>2 DEF DoneBy, Rank
  <2>4. QED
    BY <1>1, <2>2, <2>3 DEF CallLinked, OrderOps
<1>11. QED
  BY <1>1, <1>4, <1>9, <1>10, LinkedFrom DEF Answer

\* Every step keeps the agreement.
LEMMA NextLInv == LInv /\ [Next]_vars => LInv'
<1> SUFFICES ASSUME LInv, [Next]_vars PROVE LInv'
  OBVIOUS
<1>1. TInv
  BY DEF LInv
<1>2. ASSUME NEW s \in Slots, Step(s) PROVE LInv'
  <2>1. CASE ListProduct(s) \/ WriteListed(s) \/ AddToCart(s) \/ WriteAdded(s)
    BY <1>1, <2>1, ShelfTyped, ShelfLinked DEF LInv
  <2>2. CASE CheckLine(s)
    BY <1>1, <2>2, CheckTyped, CheckLinked DEF LInv
  <2>3. CASE CreateOrder(s)
    <3>1. PICK seller \in DOMAIN call[s].groups :
            LET groups == call[s].groups
                id == CHOOSE i \in OrderIds : i \notin DOMAIN orders IN
            /\ O!Create(id, O!NewOrder(call[s].by, seller, groups[seller]))
            /\ Continue(s, [call[s] EXCEPT !.pc = "decrement", !.line = 1, !.id = id,
                              !.seller = seller, !.items = groups[seller],
                              !.groups = [x \in DOMAIN groups \ {seller} |-> groups[x]]])
      BY <2>3 DEF CreateOrder
    <3>2. PICK id : id = CHOOSE i \in OrderIds : i \notin DOMAIN orders
      OBVIOUS
    <3>3. id \in OrderIds \ DOMAIN orders
      BY <2>3, <3>2 DEF CreateOrder
    <3>4. /\ O!Create(id, O!NewOrder(call[s].by, seller, call[s].groups[seller]))
          /\ Continue(s, [call[s] EXCEPT !.pc = "decrement", !.line = 1, !.id = id,
               !.seller = seller, !.items = call[s].groups[seller],
               !.groups = [x \in DOMAIN call[s].groups \ {seller} |-> call[s].groups[x]]])
          /\ At(s, "checkout", "create") /\ UNCHANGED <<written, productVars>>
      BY <2>3, <3>1, <3>2 DEF CreateOrder
    <3>5. QED
      BY <1>1, <3>3, <3>4, CreateOrderTyped, CreateOrderLinked DEF LInv
  <2>4. CASE DecrementLine(s)
    BY <1>1, <2>4, CheckoutTailTyped, DecrementLinked DEF LInv
  <2>5. CASE WriteCheckout(s)
    BY <1>1, <2>5, CheckoutTailTyped, WriteCheckoutLinked DEF LInv
  <2>6. CASE GetOrder(s)
    <3>1. TInv'
      BY <1>1, <2>6, LookupTyped
    <3>2. (\A t \in Slots : CallLinked(call[t]))' /\ EventsTrue'
      BY <2>6, GetLinked
    <3>3. QED
      BY <3>1, <3>2 DEF LInv
  <2>7. CASE Transition(s)
    BY <1>1, <2>7, TransitionTyped, TransitionLinked DEF LInv
  <2>8. CASE Refuse(s)
    BY <1>1, <2>8, RefuseTyped, RefuseLinked DEF LInv
  <2>9. CASE Reread(s)
    BY <1>1, <2>9, LookupTyped, RereadLinked DEF LInv
  <2>10. CASE WriteOrderEvent(s)
    BY <1>1, <2>10, AnnounceTyped, AnnounceLinked DEF LInv
  <2>11. QED
    BY <1>2, <2>1, <2>2, <2>3, <2>4, <2>5, <2>6, <2>7, <2>8, <2>9, <2>10 DEF Step
<1>3. ASSUME NEW s \in Slots, Arrive(s) PROVE LInv'
  BY <1>1, <1>3, ArriveTyped, ArriveLinked DEF LInv
<1>4. ASSUME UNCHANGED <<call, written, productVars, orders>>, O!TypeOK' PROVE LInv'
  <2>1. TInv'
    BY <1>1, <1>4 DEF TInv, ProductsTyped, CallsTyped, WrittenTyped, productVars
  <2>2. \A t \in Slots : CallLinked(call[t])'
    BY <1>4 DEF LInv, CallLinked, Stored, SeenHolds, DoneBy, Rank
  <2>3. EventsTrue'
    BY <1>4 DEF LInv, EventsTrue, EventTrue, Rank
  <2>4. QED
    BY <2>1, <2>2, <2>3 DEF LInv
<1>5. CASE Tick
  BY <1>1, <1>4, <1>5, TickTyped DEF Tick, TInv
<1>6. CASE UNCHANGED vars
  BY <1>1, <1>4, <1>6, Untouched DEF vars, TInv, orderVars
<1>7. QED
  BY <1>2, <1>3, <1>5, <1>6 DEF Next

\* At the start there is nothing to agree on.
LEMMA InitLInv == Init => LInv
  BY InitTInv DEF Init, LInv, CallLinked, EventsTrue, Idle, OrderOps

\* Hence events and goroutines always agree with the store.
LEMMA AlwaysLInv == Spec => []LInv
  BY InitLInv, NextLInv, PTL DEF Spec

-----------------------------------------------------------------------------
(* Each transition is announced once.                                      *)

\* The goroutine made the transition and has not written its event yet.
Announcing(c, id, type) ==
  /\ IF type = "cart.checkout" THEN c.op = "checkout"
     ELSE c.op \in OrderOps /\ EventOf(c.op) = type
  /\ c.pc \in {"decrement", "reread", "write"}
  /\ c.id = id

Told(id, type) == {w \in written : w.event.type = type /\ w.event.id = id}
OnTheWay(id, type) == {s \in Slots : Announcing(call[s], id, type)}

\* One event or one goroutine about to write it, never both, exactly when the
\* order has got that far.
Once(id, type) ==
  /\ \A v, w \in Told(id, type) : v = w
  /\ \A s, t \in OnTheWay(id, type) : s = t
  /\ Told(id, type) = {} \/ OnTheWay(id, type) = {}
  /\ EventRank[type] <= Rank(id) <=> Told(id, type) # {} \/ OnTheWay(id, type) # {}

OnceAll == \A id \in DOMAIN orders, type \in DOMAIN EventRank : Once(id, type)

OInv == LInv /\ OnceAll

\* Nothing is told of an order that does not exist, nor about to be.
LEMMA NoneUntold ==
  ASSUME LInv, NEW id, id \notin DOMAIN orders, NEW type \in DOMAIN EventRank
  PROVE  Told(id, type) = {} /\ OnTheWay(id, type) = {}
<1>1. Told(id, type) = {}
  BY DEF LInv, EventsTrue, EventTrue, Told
<1>2. ASSUME NEW s \in Slots, Announcing(call[s], id, type) PROVE FALSE
  <2>1. CASE call[s].op = "checkout"
    <3>1. call[s].pc \in {"decrement", "write"}
      <4>1. call[s] \in CheckoutCall
        BY <2>1, Held DEF LInv, TInv
      <4>2. call[s].pc # "reread"
        BY <4>1 DEF CheckoutCall
      <4>3. QED
        BY <1>2, <4>2 DEF Announcing
    <3>2. Stored(call[s])
      BY <2>1, <3>1 DEF LInv, CallLinked
    <3>3. QED
      BY <1>2, <3>2 DEF Announcing, Stored
  <2>2. CASE call[s].op \in OrderOps
    <3>1. call[s].pc \in {"reread", "write"}
      <4>1. call[s].op # "none"
        BY <2>2 DEF OrderOps
      <4>2. call[s] \in OrderCall
        BY <2>2, <4>1, Held DEF LInv, TInv
      <4>3. call[s].pc # "decrement"
        BY <4>2 DEF OrderCall
      <4>4. QED
        BY <1>2, <4>3 DEF Announcing
    <3>2. DoneBy(call[s])
      BY <2>2, <3>1 DEF LInv, CallLinked
    <3>3. QED
      BY <1>2, <3>2 DEF Announcing, DoneBy
  <2>3. QED
    BY <1>2, <2>1, <2>2 DEF Announcing
<1>3. QED
  BY <1>1, <1>2 DEF OnTheWay

\* A step that announces nothing and moves no order.
LEMMA Unmoved ==
  ASSUME OnceAll, NEW s \in Slots, \A t \in Slots \ {s} : call'[t] = call[t],
         \A id \in DOMAIN orders, type \in DOMAIN EventRank :
           Announcing(call'[s], id, type) <=> Announcing(call[s], id, type),
         written \subseteq written',
         \A w \in written' \ written : w.event.type \notin DOMAIN EventRank,
         UNCHANGED orders
  PROVE  OnceAll'
<1>1. ASSUME NEW id \in DOMAIN orders, NEW type \in DOMAIN EventRank PROVE Once(id, type)'
  <2>1. Told(id, type)' = Told(id, type)
    BY DEF Told
  <2>2. OnTheWay(id, type)' = OnTheWay(id, type)
    BY DEF OnTheWay
  <2>3. Rank(id)' = Rank(id)
    BY DEF Rank
  <2>4. Once(id, type)
    BY DEF OnceAll
  <2>5. QED
    BY <2>1, <2>2, <2>3, <2>4 DEF Once
<1>2. QED
  BY <1>1 DEF OnceAll

\* A goroutine writes the event it was about to write.
LEMMA WrittenOnce ==
  ASSUME OnceAll, NEW s \in Slots, \A t \in Slots \ {s} : call'[t] = call[t],
         NEW id0, NEW type0,
         \A id, type : Announcing(call[s], id, type) <=> id = id0 /\ type = type0,
         \A id, type : ~ Announcing(call'[s], id, type),
         NEW w0, written' = written \cup {w0}, w0.event.type = type0, w0.event.id = id0,
         UNCHANGED orders
  PROVE  OnceAll'
<1>1. ASSUME NEW id \in DOMAIN orders, NEW type \in DOMAIN EventRank PROVE Once(id, type)'
  <2>1. Once(id, type) /\ Rank(id)' = Rank(id)
    BY DEF OnceAll, Rank
  <2>2. CASE id = id0 /\ type = type0
    <3>1. s \in OnTheWay(id, type)
      BY <2>2 DEF OnTheWay
    <3>2. Told(id, type) = {} /\ \A t \in OnTheWay(id, type) : t = s
      BY <2>1, <3>1 DEF Once
    <3>3. Told(id, type)' = {w0}
      BY <2>2, <3>2 DEF Told
    <3>4. OnTheWay(id, type)' = {}
      BY <3>2 DEF OnTheWay
    <3>5. QED
      BY <2>1, <3>1, <3>3, <3>4 DEF Once
  <2>3. CASE ~ (id = id0 /\ type = type0)
    <3>1. Told(id, type)' = Told(id, type)
      BY <2>3 DEF Told
    <3>2. OnTheWay(id, type)' = OnTheWay(id, type)
      BY <2>3 DEF OnTheWay
    <3>3. QED
      BY <2>1, <3>1, <3>2 DEF Once
  <2>4. QED
    BY <2>2, <2>3
<1>2. QED
  BY <1>1 DEF OnceAll

\* An order moves up by one and its goroutine is to announce it.
LEMMA RaisedOnce ==
  ASSUME OInv, NEW s \in Slots, \A t \in Slots \ {s} : call'[t] = call[t],
         NEW id0, NEW type0 \in DOMAIN EventRank,
         \A id, type : ~ Announcing(call[s], id, type),
         \A id, type : type \in DOMAIN EventRank =>
           (Announcing(call'[s], id, type) <=> id = id0 /\ type = type0),
         UNCHANGED written,
         DOMAIN orders' = DOMAIN orders \cup {id0},
         \A id \in DOMAIN orders \ {id0} : Rank(id)' = Rank(id),
         Rank(id0)' = EventRank[type0],
         id0 \in DOMAIN orders => Rank(id0) = EventRank[type0] - 1,
         id0 \notin DOMAIN orders => EventRank[type0] = 0
  PROVE  OnceAll'
<1>1. ASSUME NEW id \in DOMAIN orders', NEW type \in DOMAIN EventRank PROVE Once(id, type)'
  <2>1. Told(id, type)' = Told(id, type)
    BY DEF Told
  <2>2. CASE id # id0
    <3>1. OnTheWay(id, type)' = OnTheWay(id, type)
      BY <2>2 DEF OnTheWay
    <3>2. Once(id, type) /\ Rank(id)' = Rank(id)
      BY <2>2 DEF OInv, OnceAll
    <3>3. QED
      BY <2>1, <3>1, <3>2 DEF Once
  <2>3. CASE id = id0 /\ type = type0
    <3>1. Told(id, type) = {} /\ OnTheWay(id, type) = {}
      <4>1. CASE id0 \in DOMAIN orders
        <5>1. Once(id, type) /\ ~ (EventRank[type] <= Rank(id))
          BY <2>3, <4>1, Ranks DEF OInv, OnceAll
        <5>2. QED
          BY <5>1 DEF Once
      <4>2. CASE id0 \notin DOMAIN orders
        BY <2>3, <4>2, NoneUntold DEF OInv
      <4>3. QED
        BY <4>1, <4>2
    <3>2. OnTheWay(id, type)' = {s}
      BY <2>3, <3>1 DEF OnTheWay
    <3>3. EventRank[type] <= Rank(id)'
      BY <2>3, Ranks
    <3>4. QED
      BY <2>1, <3>1, <3>2, <3>3 DEF Once
  <2>4. CASE id = id0 /\ type # type0
    <3>1. OnTheWay(id, type)' = OnTheWay(id, type)
      BY <2>4 DEF OnTheWay
    <3>2. EventRank[type] # EventRank[type0] /\ EventRank[type] \in Nat
          /\ EventRank[type0] \in Nat
      BY <2>4, Ranks
    <3>3. CASE id0 \in DOMAIN orders
      <4>1. Once(id, type)
        BY <2>4, <3>3 DEF OInv, OnceAll
      <4>2. EventRank[type] <= Rank(id)' <=> EventRank[type] <= Rank(id)
        BY <2>4, <3>2, <3>3
      <4>3. QED
        BY <2>1, <3>1, <4>1, <4>2 DEF Once
    <3>4. CASE id0 \notin DOMAIN orders
      <4>1. Told(id, type) = {} /\ OnTheWay(id, type) = {}
        BY <2>4, <3>4, NoneUntold DEF OInv
      <4>2. ~ (EventRank[type] <= Rank(id)')
        BY <2>4, <3>2, <3>4
      <4>3. QED
        BY <2>1, <3>1, <4>1, <4>2 DEF Once
    <3>5. QED
      BY <3>3, <3>4
  <2>5. QED
    BY <2>2, <2>3, <2>4
<1>2. QED
  BY <1>1 DEF OnceAll

\* Which steps announce: at which places a goroutine has an event to write.
LEMMA Silent ==
  ASSUME NEW c, c.pc \notin {"decrement", "reread", "write"}
  PROVE  \A id, type : ~ Announcing(c, id, type)
  BY DEF Announcing

\* The one event a goroutine between its commit and the producer is about to write.
LEMMA Voiced ==
  ASSUME NEW c, c.pc \in {"decrement", "reread", "write"}
  PROVE  /\ c.op = "checkout" =>
              \A id, type : Announcing(c, id, type) <=> id = c.id /\ type = "cart.checkout"
         /\ c.op \in OrderOps =>
              \A id, type : Announcing(c, id, type) <=> id = c.id /\ type = EventOf(c.op)
         /\ c.op \in {"list", "add"} => \A id, type : ~ Announcing(c, id, type)
<1>1. c.op \in OrderOps => EventOf(c.op) \in {"order.confirmed", "shipment.picked",
                                              "shipment.delivered"}
  BY DEF OrderOps, EventOf
<1>2. QED
  BY <1>1 DEF Announcing, OrderOps

\* An answer that writes no event about an order.
LEMMA AnswerOnce ==
  ASSUME OInv, NEW s \in Slots, NEW code, Answer(s, code), UNCHANGED orders,
         \A id, type : ~ Announcing(call[s], id, type),
         written \subseteq written',
         \A w \in written' \ written : w.event.type \notin DOMAIN EventRank
  PROVE  OnceAll'
<1>1. call'[s].pc = "done" /\ \A t \in Slots \ {s} : call'[t] = call[t]
  BY AnswerEnds DEF OInv
<1>2. \A id, type : ~ Announcing(call'[s], id, type)
  BY <1>1, Silent
<1>3. QED
  BY <1>1, <1>2, Unmoved DEF OInv

\* A step to a place with nothing to announce.
LEMMA SilentOnce ==
  ASSUME OInv, NEW s \in Slots, NEW next, Continue(s, next), UNCHANGED <<orders, written>>,
         next.pc \notin {"decrement", "reread", "write"},
         call[s].pc \notin {"decrement", "reread", "write"}
  PROVE  OnceAll'
<1>1. call'[s] = next /\ \A t \in Slots \ {s} : call'[t] = call[t]
  BY Continued DEF OInv, LInv, TInv
<1>2. \A id, type : ~ Announcing(call[s], id, type) /\ ~ Announcing(call'[s], id, type)
  BY <1>1, Silent
<1>3. QED
  BY <1>1, <1>2, Unmoved DEF OInv

\* A new request announces nothing.
LEMMA ArriveOnce ==
  ASSUME OInv, NEW s \in Slots, Arrive(s)
  PROVE  OnceAll'
<1>1. call[s] = Idle /\ UNCHANGED <<orders, written>>
  BY DEF Arrive, ArriveList, ArriveAdd, ArriveCheckout, ArriveOrderOp, Asks, orderVars
<1>2. call[s].pc \notin {"decrement", "reread", "write"}
  BY <1>1 DEF Idle
<1>3. CASE ArriveList(s)
  BY <1>1, <1>2, <1>3, SilentOnce DEF ArriveList
<1>4. CASE ArriveAdd(s)
  BY <1>1, <1>2, <1>4, SilentOnce DEF ArriveAdd
<1>5. CASE ArriveCheckout(s)
  <2>1. PICK b \in Buyers, c \in Carts :
          Continue(s, [op |-> "checkout", pc |-> "check", answer |-> 0, by |-> b,
                       cart |-> c, line |-> 1, groups |-> <<>>, id |-> "", seller |-> "",
                       items |-> <<>>])
    BY <1>5 DEF ArriveCheckout
  <2> DEFINE first == [op |-> "checkout", pc |-> "check", answer |-> 0, by |-> b,
                       cart |-> c, line |-> 1, groups |-> <<>>, id |-> "", seller |-> "",
                       items |-> <<>>]
  <2>2. Continue(s, first) /\ first.pc = "check"
    BY <2>1
  <2> HIDE DEF first
  <2>3. QED
    BY <1>1, <1>2, <2>2, SilentOnce
<1>6. CASE ArriveOrderOp(s)
  BY <1>1, <1>2, <1>6, SilentOnce DEF ArriveOrderOp
<1>7. QED
  BY <1>3, <1>4, <1>5, <1>6 DEF Arrive

\* The events of products announce no transition.
LEMMA ShelfOnce ==
  ASSUME OInv, NEW s \in Slots, ListProduct(s) \/ WriteListed(s) \/ AddToCart(s) \/ WriteAdded(s)
  PROVE  OnceAll'
<1>1. call[s].op \in {"list", "add"} /\ UNCHANGED orders
  BY DEF ListProduct, WriteListed, AddToCart, WriteAdded, At, orderVars
<1>2. /\ written \subseteq written'
      /\ \A w \in written' \ written : w.event.type \notin DOMAIN EventRank
  BY Ranks DEF ListProduct, WriteListed, AddToCart, WriteAdded, Write
<1>3. \A id, type : ~ Announcing(call[s], id, type)
  BY <1>1 DEF Announcing, OrderOps
<1>4. CASE \E code : Answer(s, code)
  BY <1>1, <1>2, <1>3, <1>4, AnswerOnce
<1>5. CASE Continue(s, [call[s] EXCEPT !.pc = "write"])
  <2>1. call[s] \in ListCall \cup AddCall
    BY <1>1, Held DEF OInv, LInv, TInv
  <2>2. /\ call'[s] = [call[s] EXCEPT !.pc = "write"]
        /\ \A t \in Slots \ {s} : call'[t] = call[t]
    BY <1>5, Continued DEF OInv, LInv, TInv
  <2>3. call'[s].op \in {"list", "add"}
    BY <2>1, <2>2 DEF ListCall, AddCall
  <2>4. \A id, type : ~ Announcing(call'[s], id, type)
    BY <2>3 DEF Announcing, OrderOps
  <2>5. QED
    BY <1>1, <1>2, <1>3, <2>2, <2>4, Unmoved DEF OInv
<1>6. QED
  BY <1>4, <1>5 DEF ListProduct, WriteListed, AddToCart, WriteAdded

\* Checking a line announces nothing.
LEMMA CheckOnce ==
  ASSUME OInv, NEW s \in Slots, CheckLine(s)
  PROVE  OnceAll'
<1>1. /\ call[s] \in CheckoutCall /\ call[s].pc = "check"
      /\ UNCHANGED <<orders, written>>
  BY Held DEF OInv, LInv, TInv, CheckLine, At, orderVars
<1>2. \A id, type : ~ Announcing(call[s], id, type)
  BY <1>1, Silent
<1>3. CASE Answer(s, 400)
  BY <1>1, <1>2, <1>3, AnswerOnce
<1>4. CASE ~ Answer(s, 400)
  <2> DEFINE c == call[s]
             groups2 == Grouped(c.groups, c.cart[c.line])
             pc2 == IF c.line = Len(c.cart) THEN "create" ELSE "check"
             line2 == c.line + 1
  <2>1. Continue(s, [c EXCEPT !.groups = groups2, !.line = line2, !.pc = pc2])
    BY <1>4 DEF CheckLine
  <2>2. pc2 \in {"check", "create"}
    OBVIOUS
  <2> HIDE DEF groups2, pc2, line2
  <2> DEFINE next == [c EXCEPT !.groups = groups2, !.line = line2, !.pc = pc2]
  <2>3. next.pc = pc2
    BY <1>1 DEF CheckoutCall
  <2>4. Continue(s, next) /\ next.pc \notin {"decrement", "reread", "write"}
    BY <2>1, <2>2, <2>3
  <2> HIDE DEF next
  <2>5. QED
    BY <1>1, <2>4, SilentOnce
<1>5. QED
  BY <1>3, <1>4

\* Taking stock leaves the announcement of the order due.
LEMMA DecrementOnce ==
  ASSUME OInv, NEW s \in Slots, DecrementLine(s)
  PROVE  OnceAll'
<1> DEFINE c == call[s]
           line2 == c.line + 1
           pc2 == IF c.line = Len(c.items) THEN "write" ELSE "decrement"
           next == [c EXCEPT !.line = line2, !.pc = pc2]
<1>1. /\ c \in CheckoutCall /\ c.op = "checkout" /\ c.pc = "decrement" /\ Continue(s, next)
      /\ UNCHANGED <<written, orders>>
  BY Held DEF DecrementLine, At, OInv, LInv, TInv, orderVars
<1>2. pc2 \in {"write", "decrement"}
  OBVIOUS
<1> HIDE DEF line2, pc2
<1>3. next.op = "checkout" /\ next.id = c.id /\ next.pc = pc2
  BY <1>1 DEF CheckoutCall
<1> HIDE DEF next
<1>4. call'[s] = next /\ \A t \in Slots \ {s} : call'[t] = call[t]
  BY <1>1, Continued DEF OInv, LInv, TInv
<1>5. \A id, type : Announcing(call'[s], id, type) <=> Announcing(call[s], id, type)
  BY <1>1, <1>2, <1>3, <1>4 DEF Announcing, OrderOps
<1>6. QED
  BY <1>1, <1>4, <1>5, Unmoved DEF OInv

\* The announcement due for a new order is made once.
LEMMA WriteCheckoutOnce ==
  ASSUME OInv, NEW s \in Slots, WriteCheckout(s)
  PROVE  OnceAll'
<1> DEFINE c == call[s]
           e == [type |-> "cart.checkout", id |-> c.id, buyer |-> c.by, seller |-> c.seller,
                 items |-> c.items]
           w0 == [slot |-> s, event |-> e]
<1>1. /\ c \in CheckoutCall /\ c.op = "checkout" /\ c.pc = "write"
      /\ Write(s, e) /\ UNCHANGED orders
  BY Held DEF WriteCheckout, At, OInv, LInv, TInv, orderVars
<1>2. \A id, type : Announcing(call[s], id, type) <=> id = c.id /\ type = "cart.checkout"
  BY <1>1, Voiced
<1>3. call'[s].pc \in {"create", "done"} /\ \A t \in Slots \ {s} : call'[t] = call[t]
  <2>1. CASE Answer(s, 201)
    BY <2>1, AnswerEnds DEF OInv
  <2>2. CASE Continue(s, [c EXCEPT !.pc = "create"])
    <3>1. call'[s] = [c EXCEPT !.pc = "create"] /\ \A t \in Slots \ {s} : call'[t] = call[t]
      BY <2>2, Continued DEF OInv, LInv, TInv
    <3>2. call'[s].pc = "create"
      BY <1>1, <3>1 DEF CheckoutCall
    <3>3. QED
      BY <3>1, <3>2
  <2>3. QED
    BY <2>1, <2>2 DEF WriteCheckout
<1>4. \A id, type : ~ Announcing(call'[s], id, type)
  BY <1>3, Silent
<1>5. written' = written \cup {w0} /\ w0.event.type = "cart.checkout" /\ w0.event.id = c.id
  BY <1>1 DEF Write
<1> HIDE DEF w0
<1>6. QED
  BY <1>1, <1>2, <1>3, <1>4, <1>5, WrittenOnce DEF OInv

\* Looking an order up announces nothing.
LEMMA GetOnce ==
  ASSUME OInv, NEW s \in Slots, GetOrder(s)
  PROVE  OnceAll'
<1> DEFINE c == call[s]
<1>1. c.op \in OrderOps /\ c.pc = "get" /\ UNCHANGED <<written, orders>>
  BY DEF GetOrder, orderVars
<1>2. \A id, type : ~ Announcing(call[s], id, type)
  BY <1>1, Silent
<1>3. CASE Answer(s, 404)
  BY <1>1, <1>2, <1>3, AnswerOnce
<1>4. CASE ~ Answer(s, 404)
  <2> DEFINE o == orders[c.id]
             next == [c EXCEPT !.pc = "transition", !.seen = o]
  <2>1. Continue(s, next)
    BY <1>4 DEF GetOrder
  <2>2. c \in OrderCall
    <3>1. c.op # "none"
      BY <1>1 DEF OrderOps
    <3>2. QED
      BY <1>1, <3>1, Held DEF OInv, LInv, TInv
  <2> HIDE DEF o
  <2>3. next.pc = "transition"
    BY <2>2 DEF OrderCall
  <2> HIDE DEF next
  <2>4. QED
    BY <1>1, <2>1, <2>3, SilentOnce
<1>5. QED
  BY <1>3, <1>4

\* A committed transition makes its own announcement due, and no other.
LEMMA TransitionOnce ==
  ASSUME OInv, NEW s \in Slots, Transition(s)
  PROVE  OnceAll'
<1>1. /\ Raised(call[s].id, OpRank[call[s].op])
      /\ call[s].op \in OrderOps /\ call'[s].op = call[s].op /\ call'[s].id = call[s].id
      /\ call'[s].pc \in {"reread", "write"}
  BY TransitionLinked DEF OInv
<1>2. PICK id0 : id0 = call[s].id
  OBVIOUS
<1>3. PICK type0 : type0 = EventOf(call[s].op)
  OBVIOUS
<1>4. type0 \in DOMAIN EventRank /\ EventRank[type0] = OpRank[call[s].op]
  BY <1>1, <1>3, Ranks DEF EventOf, OrderOps
<1>5. /\ id0 \in DOMAIN orders /\ DOMAIN orders' = DOMAIN orders
      /\ Rank(id0) = EventRank[type0] - 1 /\ Rank(id0)' = EventRank[type0]
      /\ \A i \in DOMAIN orders \ {id0} : Rank(i)' = Rank(i)
  BY <1>1, <1>2, <1>4 DEF Raised, Rank
<1>6. call[s].pc = "transition" /\ UNCHANGED written /\ \A t \in Slots \ {s} : call'[t] = call[t]
  BY Continued DEF Transition, OInv, LInv, TInv
<1>7. \A id, type : ~ Announcing(call[s], id, type)
  BY <1>6, Silent
<1>8. \A id, type : Announcing(call'[s], id, type) <=> id = id0 /\ type = type0
  BY <1>1, <1>2, <1>3, Voiced
<1>9. QED
  BY <1>4, <1>5, <1>6, <1>7, <1>8, RaisedOnce

\* Reading the order again leaves its announcement due.
LEMMA RereadOnce ==
  ASSUME OInv, NEW s \in Slots, Reread(s)
  PROVE  OnceAll'
<1>1. /\ call[s].op \in OrderOps /\ call'[s].op = call[s].op /\ call'[s].id = call[s].id
      /\ call'[s].pc = "write"
  BY RereadLinked DEF OInv
<1>2. call[s].pc = "reread" /\ UNCHANGED <<written, orders>> /\ \A t \in Slots \ {s} : call'[t] = call[t]
  BY Continued DEF Reread, OInv, LInv, TInv, orderVars
<1>3. \A id, type : Announcing(call'[s], id, type) <=> Announcing(call[s], id, type)
  BY <1>1, <1>2 DEF Announcing
<1>4. QED
  BY <1>2, <1>3, Unmoved DEF OInv

\* The announcement due for a transition is made once.
LEMMA AnnounceOnce ==
  ASSUME OInv, NEW s \in Slots, WriteOrderEvent(s)
  PROVE  OnceAll'
<1> DEFINE c == call[s]
           e == Payload(c.op, c.id, c.seen)
           w0 == [slot |-> s, event |-> e]
<1>1. /\ c.op \in OrderOps /\ c.pc = "write" /\ Write(s, e) /\ Answer(s, 200)
      /\ UNCHANGED orders
  BY DEF WriteOrderEvent, orderVars
<1>2. \A id, type : Announcing(call[s], id, type) <=> id = c.id /\ type = EventOf(c.op)
  BY <1>1, Voiced
<1>3. call'[s].pc = "done" /\ \A t \in Slots \ {s} : call'[t] = call[t]
  BY <1>1, AnswerEnds DEF OInv
<1>4. \A id, type : ~ Announcing(call'[s], id, type)
  BY <1>3, Silent
<1>5. e.type = EventOf(c.op) /\ e.id = c.id
  BY DEF Payload
<1> HIDE DEF e
<1>6. written' = written \cup {w0} /\ w0.event.type = EventOf(c.op) /\ w0.event.id = c.id
  BY <1>1, <1>5 DEF Write
<1> HIDE DEF w0
<1>7. QED
  BY <1>1, <1>2, <1>3, <1>4, <1>6, WrittenOnce DEF OInv

\* A created order makes its own announcement due: nobody had its id before.
LEMMA CreateOrderOnce ==
  ASSUME OInv, NEW s \in Slots, CreateOrder(s)
  PROVE  OnceAll'
<1>1. PICK seller \in DOMAIN call[s].groups :
        LET groups == call[s].groups
            id == CHOOSE i \in OrderIds : i \notin DOMAIN orders IN
        /\ O!Create(id, O!NewOrder(call[s].by, seller, groups[seller]))
        /\ Continue(s, [call[s] EXCEPT !.pc = "decrement", !.line = 1, !.id = id,
                          !.seller = seller, !.items = groups[seller],
                          !.groups = [x \in DOMAIN groups \ {seller} |-> groups[x]]])
  BY DEF CreateOrder
<1>2. PICK id : id = CHOOSE i \in OrderIds : i \notin DOMAIN orders
  OBVIOUS
<1>3. id \in OrderIds \ DOMAIN orders
  BY <1>2 DEF CreateOrder
<1>4. /\ O!Create(id, O!NewOrder(call[s].by, seller, call[s].groups[seller]))
      /\ Continue(s, [call[s] EXCEPT !.pc = "decrement", !.line = 1, !.id = id,
           !.seller = seller, !.items = call[s].groups[seller],
           !.groups = [x \in DOMAIN call[s].groups \ {seller} |-> call[s].groups[x]]])
      /\ At(s, "checkout", "create") /\ UNCHANGED <<written, productVars>>
  BY <1>1, <1>2 DEF CreateOrder
<1>5. /\ Rank(id)' = 0
      /\ \A i \in DOMAIN orders : Rank(i)' = Rank(i)
      /\ DOMAIN orders' = DOMAIN orders \cup {id}
      /\ call'[s].op = "checkout" /\ call'[s].pc = "decrement" /\ call'[s].id = id
  BY <1>3, <1>4, CreateOrderLinked DEF OInv
<1>6. /\ call[s].pc = "create" /\ UNCHANGED written
      /\ \A t \in Slots \ {s} : call'[t] = call[t]
  <2>1. \A t \in Slots \ {s} : call'[t] = call[t]
    BY <1>4, Continued DEF OInv, LInv, TInv
  <2>2. QED
    BY <1>4, <2>1 DEF At
<1>7. \A i, type : ~ Announcing(call[s], i, type)
  BY <1>6, Silent
<1>8. \A i, type : Announcing(call'[s], i, type) <=> i = id /\ type = "cart.checkout"
  BY <1>5, Voiced
<1>9. "cart.checkout" \in DOMAIN EventRank /\ EventRank["cart.checkout"] = 0
  BY Ranks
<1>10. QED
  BY <1>3, <1>5, <1>6, <1>7, <1>8, <1>9, RaisedOnce

\* Every step keeps it: no race of requests makes a second announcement.
LEMMA NextOInv == OInv /\ [Next]_vars => OInv'
<1> SUFFICES ASSUME OInv, [Next]_vars PROVE OInv'
  OBVIOUS
<1>1. LInv'
  BY NextLInv DEF OInv
<1>2. ASSUME NEW s \in Slots, Step(s) PROVE OnceAll'
  <2>1. CASE Refuse(s)
    <3>1. /\ call[s].pc = "transition" /\ Answer(s, Code(Result(s)))
          /\ UNCHANGED <<written, orders>>
      BY <2>1 DEF Refuse, orderVars
    <3>2. \A id, type : ~ Announcing(call[s], id, type)
      BY <3>1, Silent
    <3>3. QED
      BY <3>1, <3>2, AnswerOnce
  <2>2. QED
    BY <1>2, <2>1, ShelfOnce, CheckOnce, CreateOrderOnce, DecrementOnce, WriteCheckoutOnce,
       GetOnce, TransitionOnce, RereadOnce, AnnounceOnce DEF Step
<1>3. ASSUME NEW s \in Slots, Arrive(s) PROVE OnceAll'
  BY <1>3, ArriveOnce
<1>4. ASSUME UNCHANGED <<call, written, orders>> PROVE OnceAll'
  <2>1. ASSUME NEW id \in DOMAIN orders, NEW type \in DOMAIN EventRank PROVE Once(id, type)'
    <3>1. /\ Told(id, type)' = Told(id, type)
          /\ OnTheWay(id, type)' = OnTheWay(id, type)
          /\ Rank(id)' = Rank(id)
      BY <1>4 DEF Told, OnTheWay, Rank
    <3>2. Once(id, type)
      BY DEF OInv, OnceAll
    <3>3. QED
      BY <3>1, <3>2 DEF Once
  <2>2. QED
    BY <1>4, <2>1 DEF OnceAll
<1>5. Tick => UNCHANGED <<call, written, orders>>
  BY DEF Tick, O!Tick
<1>6. UNCHANGED vars => UNCHANGED <<call, written, orders>>
  BY DEF vars, orderVars
<1>7. OnceAll'
  <2>1. CASE Tick
    BY <1>4, <1>5, <2>1
  <2>2. CASE UNCHANGED vars
    BY <1>4, <1>6, <2>2
  <2>3. CASE \E s \in Slots : Arrive(s) \/ Step(s)
    <3>1. PICK s \in Slots : Arrive(s) \/ Step(s)
      BY <2>3
    <3>2. QED
      BY <1>2, <1>3, <3>1
  <2>4. QED
    BY <2>1, <2>2, <2>3 DEF Next
<1>8. QED
  BY <1>1, <1>7 DEF OInv

\* Hence there is always one announcement or one goroutine about to make it.
LEMMA AlwaysOInv == Spec => []OInv
<1>1. Init => OInv
  BY InitLInv DEF Init, O!Init, OInv, OnceAll
<1>2. QED
  BY <1>1, NextOInv, PTL DEF Spec

-----------------------------------------------------------------------------
(* A goroutine's answer and the events it wrote agree.                     *)

OwnEvents(s) == {w.event : w \in {v \in written : v.slot = s}}

\* The event that announces the transition this request asks for.
IsWord(e, c) == e.type = EventOf(c.op) /\ e.id = c.id

\* Whoever was told 200 wrote its event, and a request for a transition that
\* is not told 200 has written nothing; nor has a goroutine that never began.
KeepsItsWord(s) ==
  /\ call[s].op \in OrderOps =>
       /\ call[s].answer \in {0, 200, 403, 404, 409}
       /\ IF call[s].answer = 200 THEN \E e \in OwnEvents(s) : IsWord(e, call[s])
          ELSE OwnEvents(s) = {}
  /\ call[s] = Idle => OwnEvents(s) = {}

WInv == \A s \in Slots : KeepsItsWord(s)

\* A step of one goroutine leaves the words of the others as they are.
LEMMA WordsOf ==
  ASSUME LInv, WInv, NEW s \in Slots, \A t \in Slots \ {s} : call'[t] = call[t],
         UNCHANGED written \/ \E e : Write(s, e), KeepsItsWord(s)'
  PROVE  WInv'
<1>1. ASSUME NEW t \in Slots \ {s} PROVE KeepsItsWord(t)'
  <2>1. OwnEvents(t)' = OwnEvents(t)
    BY <1>1 DEF OwnEvents, Write
  <2>2. KeepsItsWord(t) /\ call'[t] = call[t]
    BY <1>1 DEF WInv
  <2>3. QED
    BY <2>1, <2>2 DEF KeepsItsWord
<1>2. QED
  BY <1>1 DEF WInv

\* A request that arrives has neither an answer nor an event yet.
LEMMA ArriveWord ==
  ASSUME LInv, WInv, NEW s \in Slots, Arrive(s)
  PROVE  WInv'
<1>1. call[s] = Idle /\ UNCHANGED written
  BY DEF Arrive, ArriveList, ArriveAdd, ArriveCheckout, ArriveOrderOp, Asks
<1>2. PICK next : Continue(s, next) /\ next.answer = 0
  <2>1. CASE ArriveList(s)
    BY <2>1 DEF ArriveList
  <2>2. CASE ArriveAdd(s)
    BY <2>2 DEF ArriveAdd
  <2>3. CASE ArriveCheckout(s)
    <3>1. PICK b \in Buyers, c \in Carts :
            Continue(s, [op |-> "checkout", pc |-> "check", answer |-> 0, by |-> b,
                         cart |-> c, line |-> 1, groups |-> <<>>, id |-> "", seller |-> "",
                         items |-> <<>>])
      BY <2>3 DEF ArriveCheckout
    <3> DEFINE first == [op |-> "checkout", pc |-> "check", answer |-> 0, by |-> b,
                         cart |-> c, line |-> 1, groups |-> <<>>, id |-> "", seller |-> "",
                         items |-> <<>>]
    <3>2. Continue(s, first) /\ first.answer = 0
      BY <3>1
    <3> HIDE DEF first
    <3>3. QED
      BY <3>2
  <2>4. CASE ArriveOrderOp(s)
    BY <2>4 DEF ArriveOrderOp
  <2>5. QED
    BY <2>1, <2>2, <2>3, <2>4 DEF Arrive
<1>3. call'[s].answer = 0 /\ \A t \in Slots \ {s} : call'[t] = call[t]
  BY <1>2, Continued DEF LInv, TInv
<1>4. OwnEvents(s)' = {}
  BY <1>1 DEF WInv, KeepsItsWord, OwnEvents
<1>5. KeepsItsWord(s)'
  BY <1>3, <1>4 DEF KeepsItsWord
<1>6. QED
  BY <1>1, <1>3, <1>5, WordsOf

\* The goroutines that ask for no transition are bound by no such word.
LEMMA AsideWord ==
  ASSUME LInv, WInv, NEW s \in Slots,
         \/ ListProduct(s) \/ WriteListed(s) \/ AddToCart(s) \/ WriteAdded(s) \/ CheckLine(s)
         \/ CreateOrder(s) \/ DecrementLine(s) \/ WriteCheckout(s)
  PROVE  WInv'
<1>1. /\ call[s].op \in {"list", "add", "checkout"}
      /\ UNCHANGED written \/ \E e : Write(s, e)
  BY DEF ListProduct, WriteListed, AddToCart, WriteAdded, CheckLine, CreateOrder,
     DecrementLine, WriteCheckout, At
<1>2. /\ CallsTyped /\ call[s] \in ListCall \cup AddCall \cup CheckoutCall
      /\ call[s].op = "checkout" => call[s] \in CheckoutCall
  BY <1>1, Held DEF LInv, TInv
<1>3. call'[s].op = call[s].op /\ \A t \in Slots \ {s} : call'[t] = call[t]
  <2>1. CASE \E code : Answer(s, code)
    BY <1>2, <2>1, AnswerLeaves, Continued DEF Answer
  <2>2. CASE \E pc : Continue(s, [call[s] EXCEPT !.pc = pc])
    <3>1. PICK pc : Continue(s, [call[s] EXCEPT !.pc = pc])
      BY <2>2
    <3>2. call'[s] = [call[s] EXCEPT !.pc = pc]
      BY <1>2, <3>1, Continued
    <3>3. call'[s].op = call[s].op
      <4>1. CASE call[s] \in ListCall
        BY <3>2, <4>1 DEF ListCall
      <4>2. CASE call[s] \in AddCall
        BY <3>2, <4>2 DEF AddCall
      <4>3. CASE call[s] \in CheckoutCall
        BY <3>2, <4>3 DEF CheckoutCall
      <4>4. QED
        BY <1>2, <4>1, <4>2, <4>3
    <3>4. QED
      BY <1>2, <3>1, <3>3, Continued
  <2>3. CASE /\ call[s].op = "checkout"
             /\ \E groups, line, pc :
                  Continue(s, [call[s] EXCEPT !.groups = groups, !.line = line, !.pc = pc])
    <3>1. PICK groups, line, pc :
            Continue(s, [call[s] EXCEPT !.groups = groups, !.line = line, !.pc = pc])
      BY <2>3
    <3>2. call'[s] = [call[s] EXCEPT !.groups = groups, !.line = line, !.pc = pc]
      BY <1>2, <3>1, Continued
    <3>3. call'[s].op = call[s].op
      BY <1>2, <2>3, <3>2 DEF CheckoutCall
    <3>4. QED
      BY <1>2, <3>1, <3>3, Continued
  <2>4. CASE CreateOrder(s)
    <3>1. PICK id, seller, items, groups :
            Continue(s, [call[s] EXCEPT !.pc = "decrement", !.line = 1, !.id = id,
                           !.seller = seller, !.items = items, !.groups = groups])
      BY <2>4 DEF CreateOrder
    <3>2. call[s] \in CheckoutCall
      BY <1>2, <2>4 DEF CreateOrder, At
    <3>3. call'[s] = [call[s] EXCEPT !.pc = "decrement", !.line = 1, !.id = id,
                        !.seller = seller, !.items = items, !.groups = groups]
      BY <1>2, <3>1, Continued
    <3>4. call'[s].op = call[s].op
      BY <3>2, <3>3 DEF CheckoutCall
    <3>5. QED
      BY <1>2, <3>1, <3>4, Continued
  <2>5. CASE /\ call[s].op = "checkout"
             /\ \E line, pc : Continue(s, [call[s] EXCEPT !.line = line, !.pc = pc])
    <3>1. PICK line, pc : Continue(s, [call[s] EXCEPT !.line = line, !.pc = pc])
      BY <2>5
    <3>2. call'[s] = [call[s] EXCEPT !.line = line, !.pc = pc]
      BY <1>2, <3>1, Continued
    <3>3. call'[s].op = call[s].op
      BY <1>2, <2>5, <3>2 DEF CheckoutCall
    <3>4. QED
      BY <1>2, <3>1, <3>3, Continued
  <2>6. ListProduct(s) \/ AddToCart(s) \/ WriteCheckout(s) =>
          \/ \E code : Answer(s, code)
          \/ \E pc : Continue(s, [call[s] EXCEPT !.pc = pc])
    BY DEF ListProduct, AddToCart, WriteCheckout
  <2>7. WriteListed(s) \/ WriteAdded(s) => \E code : Answer(s, code)
    BY DEF WriteListed, WriteAdded
  <2>8. CheckLine(s) =>
          \/ \E code : Answer(s, code)
          \/ /\ call[s].op = "checkout"
             /\ \E groups, line, pc :
                  Continue(s, [call[s] EXCEPT !.groups = groups, !.line = line, !.pc = pc])
    BY DEF CheckLine, At
  <2>9. DecrementLine(s) =>
          /\ call[s].op = "checkout"
          /\ \E line, pc : Continue(s, [call[s] EXCEPT !.line = line, !.pc = pc])
    BY DEF DecrementLine, At
  <2>10. QED
    BY <2>1, <2>2, <2>3, <2>4, <2>5, <2>6, <2>7, <2>8, <2>9
<1>4. KeepsItsWord(s)'
  BY <1>1, <1>3 DEF KeepsItsWord, OrderOps, Idle
<1>5. QED
  BY <1>1, <1>3, <1>4, WordsOf

\* A goroutine between its request and its answer has no answer and no event.
LEMMA NoWordYet ==
  ASSUME LInv, WInv, NEW s \in Slots, call[s].op \in OrderOps, call[s].pc # "done"
  PROVE  call[s].answer = 0 /\ OwnEvents(s) = {}
<1>1. call[s].answer = 0
  BY Held DEF LInv, TInv, CallTyped
<1>2. QED
  BY <1>1 DEF WInv, KeepsItsWord

\* Looking up, committing and looking up again neither answer nor write; an order
\* that is not found is answered 404.
LEMMA OnTheWayWord ==
  ASSUME LInv, WInv, NEW s \in Slots, GetOrder(s) \/ Transition(s) \/ Reread(s)
  PROVE  WInv'
<1>1. call[s].op \in OrderOps /\ call[s].pc # "done" /\ UNCHANGED written
  <2>1. Reread(s) => call[s].op \in OrderOps
    BY RereadLinked
  <2>2. QED
    BY <2>1 DEF GetOrder, Transition, Reread, At, OrderOps
<1>2. call[s].answer = 0 /\ OwnEvents(s) = {} /\ OwnEvents(s)' = {}
  BY <1>1, NoWordYet DEF OwnEvents
<1>3. call[s] \in OrderCall
  <2>1. call[s].op # "none"
    BY <1>1 DEF OrderOps
  <2>2. QED
    BY <1>1, <2>1, Held DEF LInv, TInv
<1>4. call'[s].answer \in {0, 404} /\ call'[s] # Idle /\ \A t \in Slots \ {s} : call'[t] = call[t]
  <2>1. CASE Answer(s, 404)
    <3>1. call'[s].answer = 404 /\ call'[s].pc = "done"
      BY <2>1, AnswerLeaves DEF LInv, TInv
    <3>2. QED
      BY <2>1, <3>1, Continued DEF LInv, TInv, Answer, Idle
  <2>2. CASE ~ Answer(s, 404)
    <3>1. PICK pc, seen : Continue(s, [call[s] EXCEPT !.pc = pc, !.seen = seen])
      <4>1. CASE GetOrder(s)
        BY <2>2, <4>1 DEF GetOrder
      <4>2. CASE Reread(s)
        BY <4>2 DEF Reread
      <4>3. CASE Transition(s)
        <5>1. [call[s] EXCEPT !.pc = AfterTransition(call[s].op)]
                = [call[s] EXCEPT !.pc = AfterTransition(call[s].op), !.seen = call[s].seen]
          BY <1>3 DEF OrderCall
        <5>2. QED
          BY <4>3, <5>1 DEF Transition
      <4>4. QED
        BY <4>1, <4>2, <4>3
    <3>2. call'[s] = [call[s] EXCEPT !.pc = pc, !.seen = seen]
      BY <3>1, Continued DEF LInv, TInv
    <3>3. call'[s].answer = 0 /\ call'[s].op = call[s].op
      BY <1>2, <1>3, <3>2 DEF OrderCall
    <3>4. QED
      BY <1>1, <3>1, <3>3, Continued DEF LInv, TInv, Idle, OrderOps
  <2>3. QED
    BY <2>1, <2>2
<1>5. KeepsItsWord(s)'
  BY <1>2, <1>4 DEF KeepsItsWord
<1>6. QED
  BY <1>1, <1>4, <1>5, WordsOf

\* A refusal is told as 403 or 409: the order was found, and orders never go.
LEMMA RefuseWord ==
  ASSUME LInv, WInv, NEW s \in Slots, Refuse(s)
  PROVE  WInv'
<1>1. /\ call[s].pc = "transition" /\ Result(s) # "ok" /\ Answer(s, Code(Result(s)))
      /\ UNCHANGED written
  BY DEF Refuse
<1>2. call[s].op \in {"confirm", "pick", "deliver"} /\ call[s].op \in OrderOps
  <2>1. CallTyped(s, call[s])
    BY DEF LInv, TInv, CallsTyped
  <2>2. call[s] \notin ListCall /\ call[s] \notin AddCall /\ call[s] # Idle
    BY <1>1 DEF ListCall, AddCall, Idle
  <2>3. call[s] \notin CheckoutCall
    BY <1>1 DEF CheckoutCall
  <2>4. call[s] \in OrderCall
    BY <2>1, <2>2, <2>3 DEF CallTyped
  <2>5. QED
    BY <2>4 DEF OrderCall, OrderOps
<1>3. call[s].id \in DOMAIN orders
  BY <1>1, <1>2 DEF LInv, CallLinked, SeenHolds
<1>4. Result(s) \in {"wrongSeller", "wrongShipper", "invalidTransition", "notReady"}
  BY <1>1, <1>2, <1>3 DEF Result, O!ConfirmResult, O!PickResult, O!DeliverResult
<1>5. Code(Result(s)) \in {403, 409}
  BY <1>4 DEF Code
<1>6. /\ call'[s].answer \in {403, 409} /\ call'[s].pc = "done"
      /\ \A t \in Slots \ {s} : call'[t] = call[t]
  <2>1. PICK code \in {403, 409} : Answer(s, code)
    BY <1>1, <1>5
  <2>2. call'[s].answer = code /\ call'[s].pc = "done"
    BY <2>1, AnswerLeaves DEF LInv, TInv
  <2>3. \A t \in Slots \ {s} : call'[t] = call[t]
    BY <2>1, AnswerEnds
  <2>4. QED
    BY <2>2, <2>3
<1>7. OwnEvents(s)' = {}
  BY <1>1, <1>2, NoWordYet DEF OwnEvents
<1>8. KeepsItsWord(s)'
  BY <1>6, <1>7 DEF KeepsItsWord, Idle
<1>9. QED
  BY <1>1, <1>6, <1>8, WordsOf

\* The event of a transition is written with the answer 200.
LEMMA AnnounceWord ==
  ASSUME LInv, WInv, NEW s \in Slots, WriteOrderEvent(s)
  PROVE  WInv'
<1> DEFINE c == call[s]
           e == Payload(c.op, c.id, c.seen)
<1>1. c.op \in OrderOps /\ c.pc = "write" /\ Write(s, e) /\ Answer(s, 200)
  BY DEF WriteOrderEvent
<1>2. c \in OrderCall
  <2>1. c.op # "none"
    BY <1>1 DEF OrderOps
  <2>2. QED
    BY <1>1, <2>1, Held DEF LInv, TInv
<1>3. e.type = EventOf(c.op) /\ e.id = c.id
  BY DEF Payload
<1> HIDE DEF e
<1>4. call'[s] = [c EXCEPT !.pc = "done", !.answer = 200] /\ \A t \in Slots \ {s} : call'[t] = call[t]
  BY <1>1, Continued DEF LInv, TInv, Answer
<1>5. call'[s].op = c.op /\ call'[s].id = c.id /\ call'[s].answer = 200 /\ call'[s].pc = "done"
  BY <1>2, <1>4 DEF OrderCall
<1>6. e \in OwnEvents(s)'
  <2>1. [slot |-> s, event |-> e] \in written'
    BY <1>1 DEF Write
  <2>2. [slot |-> s, event |-> e].slot = s /\ [slot |-> s, event |-> e].event = e
    OBVIOUS
  <2>3. QED
    BY <2>1, <2>2 DEF OwnEvents
<1>7. IsWord(e, call'[s])
  BY <1>3, <1>5 DEF IsWord
<1>8. KeepsItsWord(s)'
  BY <1>5, <1>6, <1>7 DEF KeepsItsWord, IsWord, Idle
<1>9. QED
  BY <1>1, <1>4, <1>8, WordsOf

\* Hence every step keeps the words, and there are none at the start.
LEMMA NextWInv == LInv /\ WInv /\ [Next]_vars => WInv'
<1> SUFFICES ASSUME LInv, WInv, [Next]_vars PROVE WInv'
  OBVIOUS
<1>1. ASSUME NEW s \in Slots, Step(s) PROVE WInv'
  BY <1>1, AsideWord, OnTheWayWord, RefuseWord, AnnounceWord DEF Step
<1>2. ASSUME NEW s \in Slots, Arrive(s) PROVE WInv'
  BY <1>2, ArriveWord
<1>3. CASE Tick \/ UNCHANGED vars
  <2>1. UNCHANGED <<call, written>>
    BY <1>3 DEF Tick, vars
  <2>2. QED
    BY <2>1 DEF WInv, KeepsItsWord, OwnEvents
<1>4. QED
  BY <1>1, <1>2, <1>3 DEF Next

\* So the answers and the events of a goroutine always agree.
LEMMA AlwaysWInv == Spec => []WInv
<1>1. Init => WInv
  BY DEF Init, WInv, KeepsItsWord, OwnEvents, Idle, OrderOps
<1>2. QED
  BY <1>1, NextWInv, AlwaysLInv, PTL DEF Spec

-----------------------------------------------------------------------------
(* The theorems about the handlers.                                        *)

\* Both stores stay well typed under any interleaving of the handlers, and
\* every goroutine is at a place of its operation's handler.
THEOREM SpecTypeOK == Spec => []TypeOK
<1>1. LInv => TypeOK
  BY TInvTypeOK DEF LInv
<1>2. QED
  BY <1>1, AlwaysLInv, PTL

\* No event is about a state that was not committed first, and each tells the
\* truth about the order's parties, its items, its holder and its readiness time.
THEOREM SpecEventsFollowCommits == Spec => []EventsFollowCommits
<1>1. LInv => EventsFollowCommits
  BY DEF LInv, EventsTrue, EventTrue, EventsFollowCommits, Events, Rank
<1>2. QED
  BY <1>1, AlwaysLInv, PTL

\* A request told 200 made the transition: its event is its own, no other request
\* for the same transition is told 200, and the order is in that caller's hands;
\* every other is told 403, 404 or 409 and has announced nothing.
THEOREM SpecAnswersTruthful == Spec => []AnswersTruthful
<1>1. OInv /\ WInv => AnswersTruthful
  <2> SUFFICES ASSUME OInv, WInv, NEW s \in Slots, call[s].op \in OrderOps, call[s].pc = "done"
               PROVE  IF call[s].answer = 200
                      THEN /\ \E e \in OwnEvents(s) : IsWord(e, call[s])
                           /\ \A t \in Slots \ {s} :
                                call[t].op = call[s].op /\ call[t].id = call[s].id
                                  => call[t].answer # 200
                           /\ InHandsOf(call[s])
                      ELSE call[s].answer \in {403, 404, 409} /\ OwnEvents(s) = {}
    BY DEF AnswersTruthful, OwnEvents, IsWord
  <2>1. KeepsItsWord(s)
    BY DEF WInv
  <2>2. CASE call[s].answer # 200
    <3>1. call[s].answer # 0
      BY Held DEF OInv, LInv, TInv, CallTyped
    <3>2. QED
      BY <2>1, <2>2, <3>1 DEF KeepsItsWord
  <2>3. CASE call[s].answer = 200
    <3>1. DoneBy(call[s])
      BY <2>3 DEF OInv, LInv, CallLinked
    <3>2. InHandsOf(call[s])
      <4>1. orders[call[s].id].status \in {"checkout", "confirmed", "picked", "delivered"}
        BY <3>1 DEF OInv, LInv, TInv, O!TypeOK, O!Order, O!Statuses, DoneBy
      <4>2. QED
        BY <3>1, <4>1, Ranks DEF DoneBy, Rank, InHandsOf
    <3>3. ASSUME NEW t \in Slots, call[t].op = call[s].op, call[t].id = call[s].id,
                 call[t].answer = 200
          PROVE  t = s
      <4>1. PICK v \in written : v.slot = s /\ IsWord(v.event, call[s])
        BY <2>1, <2>3 DEF KeepsItsWord, OwnEvents
      <4>2. PICK w \in written : w.slot = t /\ IsWord(w.event, call[t])
        BY <3>3 DEF WInv, KeepsItsWord, OwnEvents
      <4>3. EventOf(call[s].op) \in DOMAIN EventRank
        BY Ranks DEF EventOf, OrderOps
      <4>4. Once(call[s].id, EventOf(call[s].op))
        BY <3>1, <4>3 DEF OInv, OnceAll, DoneBy
      <4>5. v = w
        BY <3>3, <4>1, <4>2, <4>4 DEF Once, Told, IsWord
      <4>6. QED
        BY <4>1, <4>2, <4>5
    <3>4. QED
      BY <2>1, <2>3, <3>2, <3>3 DEF KeepsItsWord
  <2>4. QED
    BY <2>2, <2>3
<1>2. QED
  BY <1>1, AlwaysOInv, AlwaysWInv, PTL

\* Counting what Once says: one or none.
LEMMA Counted ==
  ASSUME NEW A, NEW B, \A v, w \in A : v = w, \A v, w \in B : v = w, A = {} \/ B = {}
  PROVE  Cardinality(A) + Cardinality(B) = IF A # {} \/ B # {} THEN 1 ELSE 0
<1>1. ASSUME NEW S, \A v, w \in S : v = w
      PROVE  Cardinality(S) = IF S # {} THEN 1 ELSE 0
  <2>1. CASE S = {}
    BY <2>1, FS_EmptySet
  <2>2. CASE S # {}
    <3>1. PICK v \in S : TRUE
      BY <2>2
    <3>2. S = {v}
      BY <1>1, <3>1
    <3>3. QED
      BY <2>2, <3>2, FS_Singleton
  <2>3. QED
    BY <2>1, <2>2
<1>2. /\ Cardinality(A) = IF A # {} THEN 1 ELSE 0
      /\ Cardinality(B) = IF B # {} THEN 1 ELSE 0
  BY <1>1
<1>3. QED
  BY <1>2

\* Each transition has one announcement, written or about to be, from the
\* moment it is committed, and none before: double clicks and two shippers
\* never make a second event.
THEOREM SpecOneEventPerTransition == Spec => []OneEventPerTransition
<1>1. OInv => OneEventPerTransition
  <2> SUFFICES ASSUME OInv, NEW id \in DOMAIN orders, NEW type \in DOMAIN EventRank
               PROVE  Cardinality(Told(id, type)) + Cardinality(OnTheWay(id, type))
                        = IF EventRank[type] <= Rank(id) THEN 1 ELSE 0
    BY DEF OneEventPerTransition, Told, OnTheWay, Announcing, Rank
  <2>1. Once(id, type)
    BY DEF OInv, OnceAll
  <2>2. PICK A, B : A = Told(id, type) /\ B = OnTheWay(id, type)
    OBVIOUS
  <2>3. \A v, w \in A : v = w
    BY <2>1, <2>2 DEF Once
  <2>4. \A v, w \in B : v = w
    BY <2>1, <2>2 DEF Once
  <2>5. A = {} \/ B = {}
    BY <2>1, <2>2 DEF Once
  <2>6. EventRank[type] <= Rank(id) <=> A # {} \/ B # {}
    BY <2>1, <2>2 DEF Once
  <2>7. Cardinality(A) + Cardinality(B) = IF A # {} \/ B # {} THEN 1 ELSE 0
    BY <2>3, <2>4, <2>5, Counted
  <2>8. QED
    BY <2>2, <2>6, <2>7
<1>2. QED
  BY <1>1, AlwaysOInv, PTL

\* When no goroutine is under way everything is announced: no handler ends, or
\* refuses, between the store and the producer and leaves a transition untold.
THEOREM AllToldWhenQuiet ==
  Spec => []((\A s \in Slots : call[s].pc \in {"idle", "done"}) => Announced)
<1>1. ASSUME OInv, \A s \in Slots : call[s].pc \in {"idle", "done"} PROVE Announced
  <2>1. SUFFICES ASSUME NEW id \in DOMAIN orders, NEW type \in DOMAIN EventRank,
                        EventRank[type] <= StatusRank[orders[id].status]
                 PROVE  \E e \in EventsOfType(type) : e.id = id
    BY DEF Announced
  <2>2. Once(id, type) /\ EventRank[type] <= Rank(id)
    BY <1>1, <2>1 DEF OInv, OnceAll, Rank
  <2>3. OnTheWay(id, type) = {}
    BY <1>1 DEF OnTheWay, Announcing
  <2>4. PICK w \in written : w.event.type = type /\ w.event.id = id
    BY <2>2, <2>3 DEF Once, Told
  <2>5. QED
    BY <2>4 DEF EventsOfType, Events
<1>2. OInv => ((\A s \in Slots : call[s].pc \in {"idle", "done"}) => Announced)
  BY <1>1
<1>3. QED
  BY <1>2, AlwaysOInv, PTL

-----------------------------------------------------------------------------
(* The handlers implement the order store.                                 *)

\* A goroutine asks the store for one of its methods, as the party its request
\* was authenticated for, and for an id no order has.
LEMMA StepOfStore ==
  ASSUME LInv, NEW s \in Slots, CreateOrder(s) \/ Transition(s)
  PROVE  O!Next
<1>1. CASE CreateOrder(s)
  <2>1. PICK seller \in DOMAIN call[s].groups :
          LET id == CHOOSE i \in OrderIds : i \notin DOMAIN orders IN
            O!Create(id, O!NewOrder(call[s].by, seller, call[s].groups[seller]))
    BY <1>1 DEF CreateOrder
  <2>2. PICK id : id = CHOOSE i \in OrderIds : i \notin DOMAIN orders
    OBVIOUS
  <2>3. id \in OrderIds \ DOMAIN orders
    BY <1>1, <2>2 DEF CreateOrder
  <2>4. O!Create(id, O!NewOrder(call[s].by, seller, call[s].groups[seller]))
    BY <2>1, <2>2
  <2>5. call[s] \in CheckoutCall
    BY <1>1, Held DEF CreateOrder, At, LInv, TInv
  <2>6. call[s].groups \in Groups /\ call[s].by \in Buyers
    BY <2>5 DEF CheckoutCall
  <2>7. seller \in Sellers /\ call[s].groups[seller] \in Seq(Wanted)
    BY <2>6, GroupsTyped
  <2>8. call[s].groups[seller] \in Seq(Line)
    <3>1. \A l \in Wanted : l \in Line
      BY DEF Wanted, Line
    <3>2. QED
      BY <2>7, <3>1
  <2>9. QED
    BY <2>3, <2>4, <2>6, <2>7, <2>8 DEF O!Next
<1>2. CASE Transition(s)
  <2>1. call[s].op \in OrderOps
    BY <1>2 DEF Transition, At, OrderOps
  <2>2. call[s] \in OrderCall /\ CallTyped(s, call[s])
    BY <2>1, Held DEF OrderOps, LInv, TInv, CallsTyped
  <2>3. /\ call[s].id \in OrderIds
        /\ call[s].by \in IF call[s].op = "confirm" THEN Sellers ELSE Shippers
    <3>1. call[s].op \in {"confirm", "pick", "deliver"}
      BY <2>1 DEF OrderOps
    <3>2. call[s].id \in OrderIds
      BY <2>2 DEF OrderCall
    <3>3. QED
      BY <2>2, <3>1, <3>2 DEF CallTyped
  <2>4. CASE At(s, "confirm", "transition") /\ O!Confirm(call[s].id, call[s].by)
    BY <2>3, <2>4 DEF At, O!Next
  <2>5. CASE At(s, "pick", "transition") /\ O!Pick(call[s].id, call[s].by)
    BY <2>3, <2>5 DEF At, O!Next
  <2>6. CASE At(s, "deliver", "transition") /\ O!Deliver(call[s].id, call[s].by)
    BY <2>3, <2>6 DEF At, O!Next
  <2>7. QED
    BY <1>2, <2>4, <2>5, <2>6 DEF Transition
<1>3. QED
  BY <1>1, <1>2

\* Every other step leaves the store alone.
LEMMA OtherSteps ==
  ASSUME [Next]_vars, \A s \in Slots : ~ CreateOrder(s) /\ ~ Transition(s), ~ Tick
  PROVE  UNCHANGED O!storeVars
<1>1. ASSUME NEW s \in Slots, Arrive(s) PROVE UNCHANGED orderVars
  BY <1>1 DEF Arrive, ArriveList, ArriveAdd, ArriveCheckout, ArriveOrderOp
<1>2. ASSUME NEW s \in Slots, Step(s), ~ CreateOrder(s), ~ Transition(s)
      PROVE  UNCHANGED orderVars
  BY <1>2 DEF Step, ListProduct, WriteListed, AddToCart, WriteAdded, CheckLine, DecrementLine,
     WriteCheckout, GetOrder, Refuse, Reread, WriteOrderEvent
<1>3. UNCHANGED vars => UNCHANGED orderVars
  BY DEF vars
<1>4. UNCHANGED orderVars => UNCHANGED O!storeVars
  BY DEF orderVars, O!storeVars, O!indexes
<1>5. QED
  BY <1>1, <1>2, <1>3, <1>4 DEF Next

\* Seen from the order store, concurrent handlers are callers of its methods:
\* each step of theirs is one method with arguments the store may get, or
\* touches nothing of it.  What OrderStore promises, its handlers may rely on.
THEOREM HandlersImplementStore == Spec => O!Spec
<1>1. Init => O!Init
  BY DEF Init
<1>2. LInv /\ [Next]_vars => [O!Next]_(O!storeVars)
  <2> SUFFICES ASSUME LInv, [Next]_vars PROVE [O!Next]_(O!storeVars)
    OBVIOUS
  <2>1. CASE \E s \in Slots : CreateOrder(s) \/ Transition(s)
    BY <2>1, StepOfStore
  <2>2. CASE Tick
    BY <2>2 DEF Tick, O!Next
  <2>3. CASE (\A s \in Slots : ~ CreateOrder(s) /\ ~ Transition(s)) /\ ~ Tick
    BY <2>3, OtherSteps
  <2>4. QED
    BY <2>1, <2>2, <2>3
<1>3. QED
  BY <1>1, <1>2, AlwaysLInv, PTL DEF Spec, O!Spec

=============================================================================
