-------------------------- MODULE DeliveryRefines ---------------------------
(***************************************************************************)
(* Delivery implements DeliveryAttempts: an attempt is a caller of         *)
(* sendDelivery that holds the claim, and a delivery is resolved when its  *)
(* row says SENT or SKIPPED and nobody is still sending it.                *)
(***************************************************************************)
EXTENDS Delivery

BeingSent(d) == \E p \in Callers : InFlight(p) /\ target[p] = d

StageOf ==
  [d \in Deliveries |->
     IF row[d].status = "ABSENT" THEN "absent"
     ELSE IF BeingSent(d) THEN "attempting"
     ELSE IF row[d].status \in {"SENT", "SKIPPED"} THEN "resolved"
     ELSE "waiting"]

NotYetPosted ==
  [d \in Deliveries |-> \E p \in Callers : at[p] = "post" /\ target[p] = d]

Attempts == INSTANCE DeliveryAttempts WITH stage <- StageOf, unsent <- NotYetPosted

(* Ticks, admin requests, the clock and the rows together do nothing that   *)
(* the abstract deliveries could not do.                                    *)
ImplementsAttempts == Attempts!Spec
=============================================================================
