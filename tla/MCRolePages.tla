---------------------------- MODULE MCRolePages ----------------------------
(***************************************************************************)
(* TLC instances of RolePages: each of the three pages with its server and *)
(* two orders (Pages), and a buyer's page alone (Missed).                  *)
(***************************************************************************)
EXTENDS RolePages

ListsDef == {"products", "orders", "shipments"}
PartsDef == {"products", "orders", "jobs", "deliveries"}
PartsOfDef == [l \in ListsDef |-> IF l = "shipments" THEN {"jobs", "deliveries"} ELSE {l}]
OneProduct == {"p1"}
AllRoles == {"buyer", "seller", "shipper"}
OnlyBuyer == {"buyer"}
MissedListed == [r \in OnlyBuyer |-> 1]
MissedMoved == [r \in OnlyBuyer |-> {}]
MissedCalls == [r \in OnlyBuyer |-> 0]
TwoOrders == {1, 2}
PagesMoved == [r \in AllRoles |-> IF r = "buyer" THEN {} ELSE {1}]
PagesListed == [r \in AllRoles |-> IF r = "buyer" THEN 0 ELSE 1]
PagesCalls == [r \in AllRoles |-> IF r = "buyer" THEN 0 ELSE 1]

=============================================================================
