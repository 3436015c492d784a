---------------------------- MODULE MCDueWindow -----------------------------
(* Instances of DueWindow for TLC.                                          *)
EXTENDS DueWindow

(* A day of eight units, a week of two days.                                *)
WholeWeek == 0..1
DailyOrWeekly == {WholeWeek, {1}}

(* No daylight saving; an hour forward; an hour back; east and west.        *)
SomeZones ==
  {[before |-> 3, after |-> 3, shift |-> 0],
   [before |-> -3, after |-> -1, shift |-> 12],
   [before |-> 2, after |-> 0, shift |-> 9]}

(* The windows of 1 and 4, stretched by a shift, close on their day, that   *)
(* of 7 reaches into the next one.                                          *)
SomeTimes == {1, 4, 7}
=============================================================================
