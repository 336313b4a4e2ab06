---------------------------- MODULE MCOrderStore ----------------------------
(***************************************************************************)
(* TLC instance of OrderStore: three orders of one buyer and two sellers,  *)
(* two shippers racing for them.  Ids, sellers and shippers are            *)
(* interchangeable.                                                        *)
(***************************************************************************)
EXTENDS OrderStore

MCItemLists == {<<>>}
MCSymmetry ==
  Permutations(OrderIds) \cup Permutations(Sellers) \cup Permutations(Shippers)

=============================================================================
