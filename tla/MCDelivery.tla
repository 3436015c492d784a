----------------------------- MODULE MCDelivery -----------------------------
(* Instances of Delivery for TLC.                                           *)
EXTENDS DeliveryRefines, TLC

CONSTANTS d1, d2, t1, t2, a1, a2

(* A shorter clock than the code's: stale after 2, retries after 3 and 4.   *)
ShortBackoff == <<3, 4, 4, 4>>

(* The code's own values, in minutes. *)
CodeBackoff == <<5, 15, 45, 60>>

DeliverySymmetry == Permutations(Deliveries)
CallerSymmetry == Permutations(Ticks) \cup Permutations(Admins)
=============================================================================
