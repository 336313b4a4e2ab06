---------------------------- MODULE ProductStore ----------------------------
(***************************************************************************)
(* The in-memory product store (app/internal/product/store.go): the map of *)
(* listed products and its seller index.  Each method runs under the       *)
(* store's own mutex and is one step of the handlers in Marketplace.       *)
(* Names and prices never change once listed and are left out.             *)
(***************************************************************************)
EXTENDS Integers, Sequences

VARIABLES
  products,          \* id -> [seller, quantity], for the listed products
  productsBySeller   \* seller -> ids of its products, in order of listing

\* No product is listed and every seller's list is empty.
InitProducts(sellers) ==
  /\ products = <<>>
  /\ productsBySeller = [s \in sellers |-> <<>>]

\* List a product and append it to its seller's list.
Add(id, seller, quantity) ==
  /\ products' = [i \in DOMAIN products \cup {id} |->
                    IF i = id THEN [seller |-> seller, quantity |-> quantity]
                    ELSE products[i]]
  /\ productsBySeller' = [productsBySeller EXCEPT ![seller] = Append(@, id)]

Listed(id) == id \in DOMAIN products

\* Mutants: the stock test of DecrementQuantity forgotten or off by one.
HasNoTest(id, quantity) == Listed(id)

\* What DecrementQuantity answers.
Has(id, quantity) == Listed(id) /\ ~ (products[id].quantity < quantity)

\* Take quantity units of a product, or nothing at all.
DecrementQuantity(id, quantity) ==
  /\ products' = IF Has(id, quantity)
                 THEN [products EXCEPT ![id].quantity = @ - quantity]
                 ELSE products
  /\ UNCHANGED productsBySeller

=============================================================================
