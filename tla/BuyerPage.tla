----------------------------- MODULE BuyerPage -----------------------------
(***************************************************************************)
(* What a buyer does on pages/Buyer.tsx and its cart sheet.  The cart is   *)
(* kept by the page alone; the server is told of each add and gets the     *)
(* whole cart with the checkout.  A call in flight holds its guard and     *)
(* nothing else: the rest of the page stays usable.                        *)
(***************************************************************************)
EXTENDS Refresh, FiniteSets

CONSTANTS
  Products,   \* what a buyer can put in the cart
  MaxAdds     \* bound: units of a product in the cart

VARIABLES
  cart,         \* product -> units in the cart
  cartId,       \* the cart's number, a new UUID in the code
  addingToCart, \* the POST that cartAddingId guards
  checkingOut,  \* the guard of the checkout
  checkouts,    \* its POSTs: [cart, items, phase, order], the order once it is done
  waits,        \* the loads a successful checkout waits for: [list, gen]
  late          \* history: product -> units in the cart that came during the checkout

buyerVars == <<cart, cartId, addingToCart, checkingOut, checkouts, waits, late>>

Empty == [p \in Products |-> 0]

InitBuyer ==
  /\ cart = Empty /\ cartId = 1
  /\ addingToCart = NoPost
  /\ checkingOut = FALSE /\ checkouts = {} /\ waits = {}
  /\ late = Empty

\* loadOrders and loadProducts, both at once.
LoadBuyerLists == Load({"orders", "products"})

-----------------------------------------------------------------------------
(* handleAddToCart.                                                        *)

AddToCart(p) ==
  /\ Idle(addingToCart)
  /\ cart[p] < MaxAdds
  /\ addingToCart' = Sent(p)
  /\ UNCHANGED <<loadVars, cart, cartId, checkingOut, checkouts, waits, late>>

AddAnswered ==
  /\ addingToCart.phase = "done"
  /\ addingToCart' = NoPost
  /\ cart' = [cart EXCEPT ![addingToCart.arg] = @ + 1]
  /\ late' = IF checkouts # {} THEN [late EXCEPT ![addingToCart.arg] = @ + 1] ELSE late
  /\ UNCHANGED <<loadVars, cartId, checkingOut, checkouts, waits>>

\* Refused, or the answer or the request was lost.
AddFails ==
  /\ ~ Idle(addingToCart)
  /\ addingToCart' = NoPost
  /\ UNCHANGED <<loadVars, cart, cartId, checkingOut, checkouts, waits, late>>

-----------------------------------------------------------------------------
(* The cart sheet, which opens and closes freely, can be edited while a     *)
(* checkout is in flight.                                                  *)

RemoveItem(p) ==
  /\ cart[p] > 0
  /\ cart' = [cart EXCEPT ![p] = 0]
  /\ late' = [late EXCEPT ![p] = 0]
  /\ UNCHANGED <<loadVars, cartId, addingToCart, checkingOut, checkouts, waits>>

-----------------------------------------------------------------------------
(* handleCheckout, once an address is typed.                               *)

\* Mutant: the guard forgotten.
MayCheckoutAgain == cart # Empty /\ Cardinality(checkouts) < 2

\* Place order is disabled for an empty cart and while it says Placing order.
MayCheckout == cart # Empty /\ ~ checkingOut

\* The POST of these items.
OrderOf(items) == [cart |-> cartId, items |-> items, phase |-> "sent", order |-> 0]

\* Mutant: one unit is ordered of each product, whatever its quantity.
CheckoutOneEach ==
  /\ MayCheckout
  /\ checkingOut' = TRUE
  /\ checkouts' = checkouts \cup {OrderOf([p \in Products |-> IF cart[p] > 0 THEN 1 ELSE 0])}
  /\ late' = Empty
  /\ UNCHANGED <<loadVars, cart, cartId, addingToCart, waits>>

Checkout ==
  /\ MayCheckout
  /\ checkingOut' = TRUE
  /\ checkouts' = checkouts \cup {OrderOf(cart)}
  /\ late' = Empty
  /\ UNCHANGED <<loadVars, cart, cartId, addingToCart, waits>>

\* Mutant: the guard stays held.
CheckoutFailsHeld(k) ==
  /\ k \in checkouts
  /\ checkouts' = checkouts \ {k} /\ late' = Empty
  /\ UNCHANGED <<loadVars, cart, cartId, addingToCart, checkingOut, waits>>

\* Refused, or lost on the way there or back: all stays as it is for a retry.
CheckoutFails(k) ==
  /\ k \in checkouts
  /\ checkouts' = checkouts \ {k} /\ late' = Empty
  /\ checkingOut' = FALSE
  /\ UNCHANGED <<loadVars, cart, cartId, addingToCart, waits>>

\* A new cart, and both lists are loaded before the guard is released.
CheckoutAnswered(k) ==
  /\ k \in checkouts /\ k.phase = "done"
  /\ checkouts' = checkouts \ {k}
  /\ cart' = Empty /\ cartId' = cartId + 1
  /\ late' = Empty
  /\ LoadBuyerLists
  /\ waits' = {[list |-> l, gen |-> latest'[l]] : l \in {"orders", "products"}}
  /\ UNCHANGED <<addingToCart, checkingOut>>

\* Both loads are over, well or not.
CheckoutEnds ==
  /\ waits # {}
  /\ \A w \in waits : ~ \E c \in calls : c.list = w.list /\ c.gen = w.gen
  /\ waits' = {}
  /\ checkingOut' = FALSE
  /\ UNCHANGED <<loadVars, cart, cartId, addingToCart, checkouts, late>>

-----------------------------------------------------------------------------
BuyerUser ==
  \/ \E p \in Products : AddToCart(p) \/ RemoveItem(p)
  \/ Checkout

\* The effects of the page: what it loads when this event is the newest.
OrderEvents == {"cart.checkout", "order.confirmed", "shipment.picked", "shipment.delivered"}

BuyerReloads(e) ==
  IF e.type = "product.listed" THEN {"products"}
  ELSE IF e.type \in OrderEvents THEN {"orders"}
  ELSE {}

-----------------------------------------------------------------------------
(* Properties.                                                             *)

\* The units of p in the cart are those that checkout k orders, or none of them
\* once the buyer removed p, and those that came since it was sent.
OrderedOrLate(k, p) == cart[p] \in {late[p], k.items[p] + late[p]}

\* What the server was told of leaves the cart only when the buyer removes it or
\* with the order that holds all of it.  The one exception is what was added while
\* that order was being placed: these units, no more, go with the old cart.
CartKept ==
  [][\A p \in Products : cart'[p] < cart[p] =>
       \/ cart' = [cart EXCEPT ![p] = 0] /\ UNCHANGED <<checkouts, cartId>>
       \/ \E k \in checkouts : k.phase = "done" /\ OrderedOrLate(k, p)]_buyerVars

=============================================================================
