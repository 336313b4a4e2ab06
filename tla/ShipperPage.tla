---------------------------- MODULE ShipperPage ----------------------------
(***************************************************************************)
(* What a shipper does on pages/Shipper.tsx: pick jobs and deliver them,   *)
(* one of each at a time, and reload after every answer, good or bad.  A   *)
(* delivery can be reported once it is ready by the browser's clock        *)
(* (lib/deliveries.ts), which shows whole seconds.                         *)
(***************************************************************************)
EXTENDS Refresh

CONSTANT Second   \* the ticks of the clock in a second

ASSUME SecondAssumption == Second \in Nat \ {0}

VARIABLES
  picking,     \* the POST that pickingId guards
  delivering   \* the POST that deliveringId guards

shipperVars == <<picking, delivering>>

InitShipper == picking = NoPost /\ delivering = NoPost

\* Mutant: whole seconds, rounded down.
SecondsUntilReadyDown(readyAt, now) == IF readyAt > now THEN (readyAt - now) \div Second ELSE 0

\* The seconds left, rounded up.
SecondsUntilReady(readyAt, now) ==
  IF readyAt > now THEN (readyAt - now + Second - 1) \div Second ELSE 0

\* deliveryReadiness: unavailable without a time from the server.
DeliveryReadiness(readyAt, now) ==
  IF readyAt = 0 THEN "unavailable"
  ELSE IF SecondsUntilReady(readyAt, now) > 0 THEN "waiting"
  ELSE "ready"

LoadShipperState == Load({"shipments"})

\* handlePickJob, of a job the page shows.
PickJob(o) ==
  /\ Idle(picking)
  /\ picking' = Sent(o)
  /\ UNCHANGED <<loadVars, delivering>>

\* Answered, refused (another shipper was first: 409) or lost.
PickEnds ==
  /\ ~ Idle(picking)
  /\ picking' = NoPost
  /\ LoadShipperState
  /\ UNCHANGED delivering

\* handleDeliver, of an active delivery the page shows.
DeliverJob(o, readyAt, now) ==
  /\ Idle(delivering)
  /\ DeliveryReadiness(readyAt, now) = "ready"
  /\ delivering' = Sent(o)
  /\ UNCHANGED <<loadVars, picking>>

DeliverEnds ==
  /\ ~ Idle(delivering)
  /\ delivering' = NoPost
  /\ LoadShipperState
  /\ UNCHANGED picking

\* The effect of the page: what it loads when this event is the newest.
ShipperReloads(e) ==
  IF e.type \in {"order.confirmed", "shipment.picked"} \/ (e.type = "shipment.delivered" /\ e.by = "me")
  THEN {"shipments"} ELSE {}

=============================================================================
