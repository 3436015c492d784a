------------------------- MODULE MCContentLifecycle -------------------------
(* Instances of ContentLifecycle for TLC.                                   *)
EXTENDS ContentLifecycle, TLC

CONSTANTS i1, i2, i3, a1, a2, p1, p2, sourced, unsourced

(* Either payload can be approved, if the item has its sources.             *)
WithSources == {<<p1, sourced>>, <<p2, sourced>>}

ContentSymmetry == Permutations(Items) \cup Permutations(Admins)
                     \cup Permutations(Payloads)

(* One request at a time, over MaxWrites, or two at once, over five.        *)
VARIABLE serial

Alone == \A a, b \in Admins : at'[a] # "idle" /\ at'[b] # "idle" => a = b

PacedInit == Init /\ serial \in BOOLEAN

PacedNext ==
  /\ Next
  /\ IF serial THEN Alone ELSE writes' <= 5
  /\ UNCHANGED serial

PacedSpec == PacedInit /\ [][PacedNext]_<<vars, serial>>
=============================================================================
