------------------------------- MODULE MCCep -------------------------------
(***************************************************************************)
(* A TLC instance of Cep: a cart or order with two first events and two    *)
(* last ones, an order with one of each, and a product that three buyers   *)
(* add.                                                                    *)
(***************************************************************************)
EXTENDS Cep

AllKinds == {"absence", "sequence", "three"}
First(id, actor) == [id |-> id, type |-> "first", key |-> "k", actor |-> actor]
LastOne(id) == [id |-> id, type |-> "last", key |-> "k", actor |-> "x"]

\* Of an absence two last ones, of which a restart can put one behind a wait it
\* then ends.
MayHappenDef ==
  [k \in AllKinds |->
     CASE k = "absence" -> {First(1, "x"), First(2, "x"), LastOne(3), LastOne(4)}
       [] k = "sequence" -> {First(1, "x"), LastOne(2)}
       [] k = "three" -> {First(1, "x"), First(2, "y"), First(3, "z")}]

\* Where there are few events one comes twice.
DuplicatesDef == [k \in AllKinds |-> IF k = "absence" THEN 0 ELSE 1]

=============================================================================
