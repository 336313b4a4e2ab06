----------------------------- MODULE RolePages -----------------------------
(***************************************************************************)
(* A role page between its server and its user.  The server is the order   *)
(* board of OrderBoard with the other participants at it.  It tells the    *)
(* page of each change that concerns it by a message, later and in any     *)
(* order or, while the page is disconnected, never.  React renders the     *)
(* messages that came since it last did in one go, and the page's effects  *)
(* then look at the newest message alone.                                  *)
(***************************************************************************)
EXTENDS BuyerPage, SellerPage, ShipperPage, Sequences

CONSTANTS
  PageRoles,   \* the pages looked at
  Orders,      \* the orders there can be
  Moved,       \* bound: role -> those the other participants confirm, pick and deliver
  MaxListed,   \* bound: role -> how often a product is listed
  MaxCalls,    \* bound: role -> all but the network rests while more loads are in flight
  MaxLoads,    \* bound: or once a list was loaded that often
  ReadyDelay,  \* ticks from a pickup until the order may be delivered
  MaxTime      \* bound: the clock stops there

ASSUME RolesAssumption ==
  /\ Lists = {"products", "orders", "shipments"}
  /\ Parts = {"products", "orders", "jobs", "deliveries"}
  /\ PartsOf = [l \in Lists |-> IF l = "shipments" THEN {"jobs", "deliveries"} ELSE {l}]
  /\ PageRoles \subseteq {"buyer", "seller", "shipper"}
  /\ \A r \in PageRoles : Moved[r] \subseteq Orders
  /\ ReadyDelay \in Nat

VARIABLES
  role,        \* whose page it is
  awaiting, board, carrying, history,  \* the server's orders, see OrderBoard
  readyAt,     \* order -> when it may be delivered, 0 before it was picked
  placed,      \* history: the orders made of carts: [cart, order], but for those
               \*   whose answer was lost
  listed,      \* how often a product was listed
  past,        \* part -> the orders in it, by version
  wire,        \* messages under way to the page: [type, about, by]
  missed,      \* history: list -> "no", or why no effect saw a message about it
               \*   since its latest load: "skipped" (not the newest) or "lost"
  now          \* the time

Us == "me"
Shippers == {Us, "other"}
Server == INSTANCE OrderBoard

serverVars == <<awaiting, board, carrying, history, readyAt, listed, past, version>>
feedVars == <<wire, missed>>
pageVars == <<buyerVars, sellerVars, shipperVars, loadVars>>
vars == <<role, serverVars, placed, feedVars, pageVars, now>>

-----------------------------------------------------------------------------
(* What each page loads and is sent.                                       *)

ListsOf(r) == IF r = "shipper" THEN {"shipments"} ELSE {"products", "orders"}
PartsHere == UNION {PartsOf[l] : l \in ListsOf(role)}

Reloads(e) ==
  CASE role = "buyer" -> BuyerReloads(e)
    [] role = "seller" -> SellerReloads(e)
    [] role = "shipper" -> ShipperReloads(e)

\* External: what the hub sends to this page (Hub!ShouldSend); the orders are
\* all this buyer's or this seller's.
Receives(e) ==
  \/ role = "buyer"
  \/ role = "seller" /\ e.type # "product.listed"
  \/ role = "shipper" /\ e.type \in {"order.confirmed", "shipment.picked"}
  \/ role = "shipper" /\ e.type = "shipment.delivered" /\ e.by = Us

\* The parts an event of this type is about (stock is not counted as content).
About(e) ==
  CASE e.type = "product.listed" -> {"products"}
    [] e.type = "cart.checkout" -> {"orders"}
    [] e.type = "order.confirmed" -> {"orders", "jobs"}
    [] e.type = "shipment.picked" -> {"orders", "jobs"} \cup (IF e.by = Us THEN {"deliveries"} ELSE {})
    [] e.type = "shipment.delivered" -> {"orders"} \cup (IF e.by = Us THEN {"deliveries"} ELSE {})

\* The orders the pages offer a button for.
Content(p) ==
  CASE p = "orders" -> awaiting
    [] p = "jobs" -> board
    [] p = "deliveries" -> carrying[Us]
    [] OTHER -> {}

OnScreen(p) == IF shown[p] = 0 THEN {} ELSE past[p][shown[p]]

\* A commit of the server and its event.
Commit(e) ==
  LET ps == About(e) \cap PartsHere IN
  /\ Change(ps)
  /\ past' = [p \in Parts |-> IF p \in ps THEN Append(past[p], Content(p)') ELSE past[p]]
  /\ wire' = IF Receives(e) THEN wire \cup {e} ELSE wire

Calm == Cardinality(calls) <= MaxCalls[role] /\ \A l \in Lists : latest[l] < MaxLoads

Event(type, o, by) == [type |-> type, about |-> o, by |-> by]

-----------------------------------------------------------------------------
Init ==
  /\ role \in PageRoles
  /\ Server!Init
  /\ readyAt = [o \in Orders |-> 0]
  /\ placed = {}
  /\ listed = 0
  /\ past = [p \in Parts |-> <<{}>>]
  /\ wire = {}
  /\ missed = [l \in Lists |-> "no"]
  /\ now = 1
  /\ InitRefresh(ListsOf(role))
  /\ InitBuyer /\ InitSeller /\ InitShipper

-----------------------------------------------------------------------------
(* External: the server and the other participants.                        *)

\* (Orders are numbered as they come.)
Place(o) ==
  /\ o = Cardinality(Server!Placed) + 1
  /\ Server!Place(o)
  /\ Commit(Event("cart.checkout", o, "buyer"))
  /\ UNCHANGED readyAt

Confirm(o) ==
  /\ Server!Confirm(o)
  /\ Commit(Event("order.confirmed", o, "seller"))
  /\ UNCHANGED readyAt

Pick(o, s) ==
  /\ Server!Pick(o, s)
  /\ readyAt' = [readyAt EXCEPT ![o] = now + ReadyDelay]
  /\ Commit(Event("shipment.picked", o, s))

Deliver(o, s) ==
  /\ Server!Deliver(o, s)
  /\ readyAt[o] <= now
  /\ Commit(Event("shipment.delivered", o, s))
  /\ UNCHANGED readyAt

ListProduct ==
  /\ listed < MaxListed[role]
  /\ listed' = listed + 1
  /\ UNCHANGED <<awaiting, board, carrying, history, readyAt>>
  /\ Commit(Event("product.listed", listed + 1, "seller"))

\* The others: whatever the role of this page leaves to them.
Others ==
  /\ Calm
  /\ \/ role = "buyer" /\ ListProduct
     \/ /\ \E o \in Moved[role] :
             \/ role # "buyer" /\ Place(o)
             \/ role # "seller" /\ Confirm(o)
             \/ Pick(o, "other") \/ Deliver(o, "other")
        /\ UNCHANGED listed
  /\ UNCHANGED <<role, placed, missed, pageVars, now>>

\* The server does what this page's user asked for.
ServeBuyer ==
  \/ /\ addingToCart.phase = "sent"
     /\ addingToCart' = [addingToCart EXCEPT !.phase = "done"]
     /\ UNCHANGED <<serverVars, placed, wire, cart, cartId, checkingOut, checkouts, waits, late>>
  \/ \E k \in checkouts, o \in Orders :
       /\ k.phase = "sent"
       /\ checkouts' = (checkouts \ {k}) \cup {[k EXCEPT !.phase = "done", !.order = o]}
       /\ Place(o)
       /\ placed' = placed \cup {[cart |-> k.cart, order |-> o]}
       /\ UNCHANGED <<listed, cart, cartId, addingToCart, checkingOut, waits, late>>

ServeSeller ==
  \/ /\ addingProduct.phase = "sent"
     /\ addingProduct' = [addingProduct EXCEPT !.phase = "done"]
     /\ ListProduct
     /\ UNCHANGED <<confirming, placed>>
  \/ /\ confirming.phase = "sent"
     /\ confirming' = [confirming EXCEPT !.phase = "done"]
     /\ Confirm(confirming.arg)
     /\ UNCHANGED <<addingProduct, placed, listed>>

ServeShipper ==
  \/ /\ picking.phase = "sent"
     /\ picking' = [picking EXCEPT !.phase = "done"]
     /\ Pick(picking.arg, Us)
     /\ UNCHANGED <<delivering, placed, listed>>
  \/ /\ delivering.phase = "sent"
     /\ delivering' = [delivering EXCEPT !.phase = "done"]
     /\ Deliver(delivering.arg, Us)
     /\ UNCHANGED <<picking, placed, listed>>

Serves ==
  /\ Calm
  /\ \/ ServeBuyer /\ UNCHANGED <<sellerVars, shipperVars>>
     \/ ServeSeller /\ UNCHANGED <<buyerVars, shipperVars>>
     \/ ServeShipper /\ UNCHANGED <<buyerVars, sellerVars>>
  /\ UNCHANGED <<role, missed, loadVars, now>>

-----------------------------------------------------------------------------
(* The page.                                                               *)

\* What is missed of a list does not matter once it is loaded again.
Note(ls, why) ==
  missed' = [l \in Lists |->
               IF latest'[l] # latest[l] THEN "no"
               ELSE IF l \in ls /\ missed[l] # "lost" THEN why ELSE missed[l]]

\* The page is disconnected, or its buffer in the hub full: a message is lost.
Lost(e) ==
  /\ e \in wire
  /\ wire' = wire \ {e}
  /\ UNCHANGED <<role, serverVars, placed, pageVars, now>>
  /\ Note(Reloads(e), "lost")

\* What the effects load: the lists events[0] is about.
Newest(es, e) == Reloads(e)

\* The messages es arrive, e as the last; appendUniqueEvent puts each before
\* the others, and one render follows.
Render(es, e) ==
  /\ e \in es /\ Calm
  /\ wire' = wire \ es
  /\ IF Newest(es, e) # {} THEN Load(Newest(es, e)) ELSE UNCHANGED loadVars
  /\ Note(UNION {Reloads(x) : x \in es}, "skipped")
  /\ UNCHANGED <<role, serverVars, placed, buyerVars, sellerVars, shipperVars, now>>

User ==
  /\ Calm
  /\ \/ role = "buyer" /\ BuyerUser /\ UNCHANGED <<sellerVars, shipperVars>>
     \/ /\ role = "seller"
        /\ \/ AddProduct
           \/ \E o \in OnScreen("orders") : ConfirmOrder(o)
        /\ UNCHANGED <<buyerVars, shipperVars>>
     \/ /\ role = "shipper"
        /\ \/ \E o \in OnScreen("jobs") : PickJob(o)
           \/ \E o \in OnScreen("deliveries") : DeliverJob(o, readyAt[o], now)
        /\ UNCHANGED <<buyerVars, sellerVars>>
  /\ UNCHANGED <<role, serverVars, placed, feedVars, now>>

\* An answer to a POST, after which the page may load a list.
PostEnds(A, others, why) ==
  /\ A
  /\ Note(why, "lost")
  /\ UNCHANGED <<role, serverVars, placed, wire, others, now>>

AddEnds == PostEnds(AddAnswered \/ AddFails, <<sellerVars, shipperVars>>, {})
OrderEnds ==
  /\ \E k \in checkouts :
       \/ CheckoutAnswered(k) /\ UNCHANGED placed
       \/ CheckoutFails(k) /\ placed' = placed \ {[cart |-> k.cart, order |-> k.order]}
  /\ Note({}, "lost")
  /\ UNCHANGED <<role, serverVars, wire, sellerVars, shipperVars, now>>
GuardEnds == PostEnds(CheckoutEnds, <<sellerVars, shipperVars>>, {})
\* No message tells a seller of its own listing: a lost answer is not made up for.
ListingEnds ==
  PostEnds(AddProductAnswered \/ AddProductFails, <<buyerVars, shipperVars>>,
           IF addingProduct.phase = "done" THEN {"products"} ELSE {})
ConfirmEnds == PostEnds(ConfirmAnswered \/ ConfirmFails, <<buyerVars, shipperVars>>, {})
PickingEnds == PostEnds(PickEnds, <<buyerVars, sellerVars>>, {})
DeliveringEnds == PostEnds(DeliverEnds, <<buyerVars, sellerVars>>, {})

PostsEnd ==
  AddEnds \/ OrderEnds \/ GuardEnds \/ ListingEnds \/ ConfirmEnds \/ PickingEnds \/ DeliveringEnds

AnswerOf(l) ==
  /\ \E c \in calls :
       /\ c.list = l
       /\ (\E p \in Parts : Serve(c, p)) \/ HeadsArrive(c) \/ BodiesArrive(c) \/ Fails(c)
  /\ UNCHANGED <<role, serverVars, placed, feedVars, buyerVars, sellerVars, shipperVars, now>>

Tick ==
  /\ role = "shipper" /\ now < MaxTime
  /\ now' = now + 1
  /\ UNCHANGED <<role, serverVars, placed, feedVars, pageVars>>

Next ==
  \/ Others \/ Serves
  \/ \E e \in wire : Lost(e)
  \/ \E es \in SUBSET wire : \E e \in es : Render(es, e)
  \/ User \/ PostsEnd
  \/ \E l \in Lists : AnswerOf(l)
  \/ Tick

\* A call ends, well or not; nothing is said of the user,
\* the other participants and the messages.
Spec ==
  /\ Init /\ [][Next]_vars
  /\ \A l \in Lists : WF_vars(AnswerOf(l))
  /\ WF_vars(AddEnds) /\ WF_vars(OrderEnds) /\ WF_vars(GuardEnds) /\ WF_vars(ListingEnds)
  /\ WF_vars(ConfirmEnds) /\ WF_vars(PickingEnds) /\ WF_vars(DeliveringEnds)

-----------------------------------------------------------------------------
(* Properties.                                                             *)

\* No load of list l is under way, nor a message that would start one, nor the
\* answer to a listing, of which no message tells.
Loaded(l) ==
  /\ latest[l] > 0 /\ ~ refreshError[l]
  /\ ~ \E c \in calls : c.list = l
  /\ \A e \in wire : l \notin Reloads(e)
  /\ l = "products" => addingProduct.phase # "done"

\* Nothing at all is under way, no banner is shown and no checkout's answer was lost.
AtRest ==
  /\ \A l \in Lists : ~ refreshError[l]
  /\ calls = {} /\ wire = {} /\ checkouts = {} /\ waits = {} /\ ~ checkingOut
  /\ Idle(addingToCart) /\ Idle(addingProduct) /\ Idle(confirming) /\ Idle(picking) /\ Idle(delivering)
  /\ role = "buyer" => Server!Placed = {x.order : x \in placed}

Current(l) == \A p \in PartsOf[l] : shown[p] = version[p]

\* A list that is loaded, with no banner and no message missed, is the server's:
\* the shipper's two parts, too, whatever fell between the two reads.
SettledCurrent == \A l \in Lists : Loaded(l) /\ missed[l] = "no" => Current(l)

\* As long as the connection lasts, new listings and orders appear by
\* themselves: a page at rest shows them (the claim of the page's empty state
\* and of the design).
AppearAutomatically == AtRest => \A l \in Lists : Loaded(l) /\ missed[l] # "lost" => Current(l)

\* A cart becomes one order; only an answer that was lost after the server
\* had placed the order lets the buyer place it again.
OneOrderPerCart == \A x, y \in placed : x.cart = y.cart => x = y

\* What the page offers to deliver, a server with the same clock accepts.
NeverTooEarly == delivering.phase = "sent" => readyAt[delivering.arg] <= now

\* No guard is held for ever: every button comes back.
Released ==
  /\ []<>Idle(addingToCart) /\ []<>(~ checkingOut)
  /\ []<>Idle(addingProduct) /\ []<>Idle(confirming)
  /\ []<>Idle(picking) /\ []<>Idle(delivering)

=============================================================================
