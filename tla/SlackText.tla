------------------------------ MODULE SlackText ------------------------------
(***************************************************************************)
(* The text helpers of src/slack/renderers/slack-text.ts: escaping, the    *)
(* choice of a breakpoint for text that exceeds a Slack limit, and the     *)
(* calls of SlackMessageBuilder as records.  A text is a sequence of       *)
(* characters; absent is the empty one.                                    *)
(***************************************************************************)
EXTENDS Integers, FiniteSetsExt, SequencesExt

CONSTANT Characters  \* what texts are made of

Text == Seq(Characters)

MiddleDot == "·"

(* The characters the application adds to those of the items. *)
Literals ==
  {"&", "a", "m", "p", ";", "l", "t", "g", " ", "\n", "*", ",", "/", "-", MiddleDot, "|",
   "<", ">", "(", ")", "n", "s", "b", "H", "L"}

ASSUME LiteralAssumption == Literals \subseteq Characters

Whitespace == {" ", "\n"}

(* Stands for every combining character, which extends the one before it.  *)
Mark == "^"

(* Ends a sentence when whitespace follows. *)
Stops == {".", "!", "?"}

hasText(t) == \E i \in DOMAIN t : t[i] \notin Whitespace

Entity(ch) ==
  CASE ch = "&" -> <<"&", "a", "m", "p", ";">>
    [] ch = "<" -> <<"&", "l", "t", ";">>
    [] ch = ">" -> <<"&", "g", "t", ";">>
    [] OTHER -> <<ch>>

(* An ampersand is escaped once, whatever the other replacements add. *)
escapeSlackText(t) == FlattenSeq([i \in DOMAIN t |-> Entity(t[i])])

Join(parts, separator) ==
  FlattenSeq([i \in DOMAIN parts |->
                IF i = 1 THEN parts[i] ELSE separator \o parts[i]])

(* The parts that have text. *)
present(parts) ==
  FlattenSeq([i \in DOMAIN parts |-> IF hasText(parts[i]) THEN <<parts[i]>> ELSE <<>>])

joinParts(parts, separator) == Join(present(parts), separator)

-----------------------------------------------------------------------------
(* Splitting.                                                              *)

(* The end of the last whole grapheme within limit. *)
graphemeCut(t, limit) ==
  LET ends == {i \in DOMAIN t : i <= limit /\ (i = Len(t) \/ t[i + 1] # Mark)} IN
  IF ends = {} THEN limit ELSE Max(ends)

(* Mutant: a cut may fall inside an entity. *)
anyCut(t, cut) == cut

(* The cut, or the place before an entity that it would divide. *)
entitySafeCut(t, cut) ==
  LET divided == {i \in DOMAIN t : /\ cut - 5 < i /\ i <= cut
                                   /\ t[i] = "&"
                                   /\ \A j \in i..cut : t[j] # ";"} IN
  IF divided = {} THEN cut ELSE Max(divided) - 1

(* How good a place in window w it is to cut after its ith character: a    *)
(* paragraph's end, a line's, a sentence's, a word's, or none of these.    *)
(* No piece is only the whitespace at the start.                           *)
BreakKind(w, i) ==
  IF i > 2 /\ w[i] = "\n" /\ w[i - 1] = "\n" THEN 1
  ELSE IF i > 1 /\ w[i] = "\n" THEN 2
  ELSE IF i > 2 /\ w[i] \in Whitespace /\ w[i - 1] \in Stops THEN 3
  ELSE IF i > 1 /\ w[i] = " " THEN 4
  ELSE 5

(* Mutant: boundaries are not looked for. *)
anyBreakpoint(w) == entitySafeCut(w, graphemeCut(w, Len(w)))

(* The last place of the best kind there is; without any, inside a word.   *)
findBreakpoint(w) ==
  IF \A i \in DOMAIN w : BreakKind(w, i) = 5
  THEN entitySafeCut(w, graphemeCut(w, Len(w)))
  ELSE CHOOSE i \in DOMAIN w : \A j \in DOMAIN w \ {i} :
         \/ BreakKind(w, i) < BreakKind(w, j)
         \/ BreakKind(w, i) = BreakKind(w, j) /\ j < i

(* Mutant: what the search for a breakpoint found is taken as it is. *)
UnguardedCut(rest, limit) == findBreakpoint(SubSeq(rest, 1, limit))

(* The length of the next piece of rest, which exceeds limit. *)
SafeCut(rest, limit) ==
  LET cut == findBreakpoint(SubSeq(rest, 1, limit)) IN
  IF cut > 0 THEN cut ELSE limit

-----------------------------------------------------------------------------
(* The calls of SlackMessageBuilder.  A call without text does nothing, so *)
(* each is a sequence of at most one record.                               *)

Call(block, label, body, size) ==
  <<[block |-> block, label |-> label, body |-> body, size |-> size]>>

section(t) ==
  IF hasText(t) THEN Call("section", <<>>, escapeSlackText(t), Len(t)) ELSE <<>>

labelled(label, t) ==
  IF hasText(t) THEN Call("section", label, escapeSlackText(t), Len(label) + Len(t))
  ELSE <<>>

bullets(label, items) ==
  LET body == Join([i \in DOMAIN items |-> <<"*", " ">> \o escapeSlackText(items[i])],
                   <<"\n">>) IN
  IF items = <<>> THEN <<>>
  ELSE Call("section", label, body, Len(label) + Len(body))

context(t) ==
  IF hasText(t) THEN Call("context", <<>>, escapeSlackText(t), Len(t)) ELSE <<>>

(* http and https are the addresses that start with h. *)
isLinkableUrl(u) ==
  /\ u # <<>>
  /\ u[1] = "h"
  /\ \A i \in DOMAIN u : u[i] \notin {"<", ">", "|"}

(* The parts of a source; a blank title is shown where no part has text.   *)
Label(source) ==
  LET parts == joinParts(
        <<source.title, source.author,
          joinParts(<<source.volume, source.page>>, <<"/">>),
          IF hasText(source.referenceNumber) THEN <<"n", " ">> \o source.referenceNumber
          ELSE <<>>>>,
        <<",", " ">>)
  IN escapeSlackText(IF parts = <<>> THEN source.title ELSE parts)

Linked(source) ==
  isLinkableUrl(source.url) /\ "|" \notin Range(Label(source))

citation(source) ==
  IF Linked(source) THEN <<"<">> \o source.url \o <<"|">> \o Label(source) \o <<">">>
  ELSE Label(source)

sources(list) ==
  LET body == Join([i \in DOMAIN list |-> citation(list[i])], <<" ", MiddleDot, " ">>) IN
  IF list = <<>> THEN <<>> ELSE Call("context", <<>>, body, Len(body))

(* The bold line a label makes. *)
LabelLine(label) ==
  IF label = <<>> THEN <<>>
  ELSE <<"*">> \o escapeSlackText(label) \o <<"*", "\n">>
=============================================================================
