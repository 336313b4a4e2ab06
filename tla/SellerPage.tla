----------------------------- MODULE SellerPage -----------------------------
(***************************************************************************)
(* What a seller does on pages/Seller.tsx: list products and confirm       *)
(* orders, one of each at a time.  What was typed is reloaded only after   *)
(* an answer that says ok.                                                 *)
(***************************************************************************)
EXTENDS Refresh

VARIABLES
  addingProduct,  \* the POST that the flag adding guards
  confirming      \* the POST that confirmingId guards

sellerVars == <<addingProduct, confirming>>

InitSeller == addingProduct = NoPost /\ confirming = NoPost

\* The page's loadProducts and loadOrders.
LoadSellerProducts == Load({"products"})
LoadSellerOrders == Load({"orders"})

\* handleAddProduct, with a name and a price above zero.
AddProduct ==
  /\ Idle(addingProduct)
  /\ addingProduct' = Sent("product")
  /\ UNCHANGED <<loadVars, confirming>>

AddProductAnswered ==
  /\ addingProduct.phase = "done"
  /\ addingProduct' = NoPost
  /\ LoadSellerProducts
  /\ UNCHANGED confirming

\* Refused or lost: the seller reads that it could not be added.
AddProductFails ==
  /\ ~ Idle(addingProduct)
  /\ addingProduct' = NoPost
  /\ UNCHANGED <<loadVars, confirming>>

\* handleConfirmOrder, of an order the page shows as one to confirm.
ConfirmOrder(o) ==
  /\ Idle(confirming)
  /\ confirming' = Sent(o)
  /\ UNCHANGED <<loadVars, addingProduct>>

ConfirmAnswered ==
  /\ confirming.phase = "done"
  /\ confirming' = NoPost
  /\ LoadSellerOrders
  /\ UNCHANGED addingProduct

ConfirmFails ==
  /\ ~ Idle(confirming)
  /\ confirming' = NoPost
  /\ UNCHANGED <<loadVars, addingProduct>>

\* Mutant: the seller's own confirmation is taken for known.
SellerReloadsOthers(e) ==
  IF e.type \in {"cart.checkout", "shipment.picked", "shipment.delivered"}
  THEN {"orders"} ELSE {}

\* The effect of the page: what it loads when this event is the newest.
SellerReloads(e) ==
  IF e.type \in {"cart.checkout", "order.confirmed", "shipment.picked", "shipment.delivered"}
  THEN {"orders"} ELSE {}

=============================================================================
