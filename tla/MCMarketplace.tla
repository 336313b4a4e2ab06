--------------------------- MODULE MCMarketplace ---------------------------
(***************************************************************************)
(* TLC instances of Marketplace.  The cfg files choose which requests are  *)
(* in flight together:                                                     *)
(*   - Race: two checkouts over two sellers' products while they are       *)
(*     listed, carts that compete for the last units;                      *)
(*   - Life: one order and everything that can be asked of it at once.     *)
(***************************************************************************)
EXTENDS Marketplace

CONSTANTS s1, s2, p1, p2

Item(p, q) == [product |-> p, quantity |-> q]

\* Race: the scarce p1 of seller s1 and p2 of seller s2.
RaceMay == [l1 |-> {"list"}, l2 |-> {"list"}, c1 |-> {"checkout"}, c2 |-> {"checkout", "add"}]
RaceSlots == DOMAIN RaceMay
RaceOffers == (p1 :> [seller |-> s1, price |-> 1, quantity |-> 2])
                @@ (p2 :> [seller |-> s2, price |-> 1, quantity |-> 1])
RaceCarts == {<<>>, <<Item(p1, 2)>>, <<Item(p1, 1), Item(p2, 1)>>,
              <<Item(p1, 2), Item(p1, 1)>>, <<Item(p2, 0)>>}

\* Oversell: two buyers who both want all there is of p1.
OversellCarts == {<<Item(p1, 2)>>}

\* Life: one order, competing confirms, picks and deliveries (and a listing
\* refused for its price).
LifeMay == [l1 |-> {"list"}, c1 |-> {"checkout"}, k1 |-> {"confirm"},
            x1 |-> {"confirm", "pick"}, h1 |-> {"pick", "deliver"}]
LifeSlots == DOMAIN LifeMay
LifeOffers == (p1 :> [seller |-> s1, price |-> 1, quantity |-> 1])
                @@ (p2 :> [seller |-> s2, price |-> 0, quantity |-> 1])
LifeCarts == {<<Item(p1, 1)>>}

=============================================================================
