---------------------------- MODULE MCSubscriptions ----------------------------
(* Instances of Subscriptions for TLC.                                        *)
EXTENDS Subscriptions, TLC

CONSTANTS u1, ayah, hadith

(* The API changes a flag, or other fields; the form posts the flag, the zone *)
(* and the language at once, as the page showed them.                         *)
SomePatches ==
  {[isActive |-> FALSE], [sendTime |-> 1, locale |-> 1],
   [isActive |-> TRUE, timezone |-> 0, locale |-> 1]}

(* /settings time sets and clears, /settings language sets; /settings         *)
(* timezone is as the latter.                                                 *)
SomeChoices == {<<"sendTime", 0>>, <<"sendTime", 1>>, <<"locale", 1>>}

(* The rows of streams and of subscribers meet in the tick only.  A behaviour *)
(* is about the commands, about the streams, or, shorter, about both.         *)
VARIABLE focus

FocusInit ==
  /\ Init
  /\ focus \in {"commands", "streams", "both"}
  /\ focus = "commands" => stream # None

FocusNext ==
  /\ Next
  /\ requests' <= CASE focus = "commands" -> 3 [] focus = "streams" -> 4 [] focus = "both" -> 2
  /\ focus = "commands" => \A a \in Admins : streamAt'[a] = "idle"
  /\ focus = "streams" => \A c \in Calls : at'[c] = "idle"
  /\ UNCHANGED focus

FocusSpec == FocusInit /\ [][FocusNext]_<<vars, focus>>
================================================================================
