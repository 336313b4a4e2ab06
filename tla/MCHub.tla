------------------------------- MODULE MCHub -------------------------------
(***************************************************************************)
(* TLC instances of Hub:                                                   *)
(*   - Replay: a dashboard connects among metrics and alerts and may leave,*)
(*     another client watches, buffers overflow;                           *)
(*   - Route: parties of one order hear of it beside a dashboard, one of   *)
(*     which may leave.                                                    *)
(***************************************************************************)
EXTENDS Hub

Metric(k, v) == [kind |-> "metric", key |-> k, value |-> v]
Alert(i, t) == [kind |-> "alert", id |-> i, at |-> t]
Event(type, shipper) == [kind |-> "event", type |-> type, order |-> "o1",
                         buyer |-> "b1", seller |-> "s1", shipper |-> shipper]

ReplayProfile == [d1 |-> [role |-> "dashboard", id |-> "d1"]]
ReplayClients == DOMAIN ReplayProfile
ReplayMessages == {Metric("tx", 1), Metric("tx", 2), Alert(1, 2), Alert(2, 1)}
ReplayLeavers == {"d1"}
ReplayKeys == <<"top", "tx">>

RouteProfile == [d1 |-> [role |-> "dashboard", id |-> "d1"],
                 s1 |-> [role |-> "seller", id |-> "s1"],
                 h2 |-> [role |-> "shipper", id |-> "h2"]]
RouteClients == DOMAIN RouteProfile
RouteMessages == {Event("order.confirmed", ""), Event("shipment.picked", "h1"),
                  Event("shipment.delivered", "h1")}

=============================================================================
