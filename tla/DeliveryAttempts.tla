-------------------------- MODULE DeliveryAttempts --------------------------
(***************************************************************************)
(* What the delivery code promises about one cycle's messages, with rows,  *)
(* claims, clocks, ticks and requests abstracted away: a message is posted *)
(* only inside an attempt, an attempt posts at most once, a delivery has   *)
(* at most one attempt at a time, and a delivery that is resolved - sent,  *)
(* or given up - gets no further attempt and no further message.           *)
(***************************************************************************)
EXTENDS Naturals

CONSTANT Deliveries

VARIABLES
  stage,   \* absent, waiting for an attempt, under attempt, resolved
  unsent,  \* the attempt under way has not called Slack yet
  posted   \* messages the subscriber received

vars == <<stage, unsent, posted>>

Init ==
  /\ stage = [d \in Deliveries |-> "absent"]
  /\ unsent = [d \in Deliveries |-> FALSE]
  /\ posted = [d \in Deliveries |-> 0]

Reserve(d) ==
  /\ stage[d] = "absent"
  /\ stage' = [stage EXCEPT ![d] = "waiting"]
  /\ UNCHANGED <<unsent, posted>>

BeginAttempt(d) ==
  /\ stage[d] = "waiting"
  /\ stage' = [stage EXCEPT ![d] = "attempting"]
  /\ unsent' = [unsent EXCEPT ![d] = TRUE]
  /\ UNCHANGED posted

(* The one Slack call of the attempt; the message may not get through. *)
CallSlack(d) ==
  /\ stage[d] = "attempting"
  /\ unsent[d]
  /\ unsent' = [unsent EXCEPT ![d] = FALSE]
  /\ posted' \in {posted, [posted EXCEPT ![d] = @ + 1]}
  /\ UNCHANGED stage

(* The attempt's outcome is recorded, or the attempt is abandoned. *)
EndAttempt(d) ==
  /\ stage[d] = "attempting"
  /\ \E after \in {"waiting", "resolved"} : stage' = [stage EXCEPT ![d] = after]
  /\ unsent' = [unsent EXCEPT ![d] = FALSE]
  /\ UNCHANGED posted

GiveUp(d) ==
  /\ stage[d] = "waiting"
  /\ stage' = [stage EXCEPT ![d] = "resolved"]
  /\ UNCHANGED <<unsent, posted>>

(* A crash ends every attempt under way, and nothing else. *)
Crash ==
  /\ \E after \in [Deliveries -> {"waiting", "resolved"}] :
       stage' = [d \in Deliveries |->
                   IF stage[d] = "attempting" THEN after[d] ELSE stage[d]]
  /\ unsent' = [d \in Deliveries |-> FALSE]
  /\ UNCHANGED posted

Next ==
  \/ \E d \in Deliveries : \/ Reserve(d)
                           \/ BeginAttempt(d)
                           \/ CallSlack(d)
                           \/ EndAttempt(d)
                           \/ GiveUp(d)
  \/ Crash

Spec == Init /\ [][Next]_vars
=============================================================================
