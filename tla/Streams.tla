-------------------------------- MODULE Streams --------------------------------
(***************************************************************************)
(* The schedule streams of a workspace (src/streams): StreamsService.      *)
(* create, update and setEnabled, as administrators call them at once.     *)
(* Each reads first and writes in a later transaction; update writes the   *)
(* days and the types it merged with what it read, whether or not the      *)
(* request named them.  One stream stands for all: they are independent.   *)
(*                                                                         *)
(* The fields that are written exactly as given (name, sendTime, timezone, *)
(* locale, maxAutomaticAttempts) are left out: an update without any of    *)
(* the others stands for an update of these.                               *)
(***************************************************************************)
EXTENDS Naturals, FiniteSets

CONSTANTS
  Admins,        \* calls of StreamsService in flight at once, numbered alike
  Days,          \* days of the week
  Types,         \* ContentType
  None,          \* null
  MaxRequests    \* bound: calls and commands, of every kind

StreamFields == {"frequency", "daysOfWeek", "selectionStrategy", "allowedContentTypes"}

FieldValues ==
  [frequency |-> {"DAILY", "WEEKLY"},
   daysOfWeek |-> SUBSET Days,
   selectionStrategy |-> {"ALTERNATE_BY_TYPE", "LEAST_RECENTLY_SENT"},
   allowedContentTypes |-> (SUBSET Types) \ {{}}]

StreamRow ==
  [isEnabled : BOOLEAN, frequency : FieldValues.frequency, daysOfWeek : SUBSET Days,
   selectionStrategy : FieldValues.selectionStrategy,
   allowedContentTypes : FieldValues.allowedContentTypes]

ASSUME StreamsAssumption ==
  /\ Admins \subseteq Nat
  /\ IsFiniteSet(Types) /\ Cardinality(Types) >= 2
  /\ None \notin StreamRow
  /\ MaxRequests \in Nat

(* What a request names: fields of the schedule, or of the selection, or   *)
(* neither.  (They are validated apart: both at once would add nothing.)   *)
StreamRequests ==
  {[f \in names |-> row[f]] : row \in StreamRow,
     names \in (SUBSET {"frequency", "daysOfWeek"})
             \cup (SUBSET {"selectionStrategy", "allowedContentTypes"})}

VARIABLES
  workspace,  \* the SlackWorkspace row: "active", "inactive" or "gone"
  stream,     \* the ScheduleStream row, or None
  streamAt,   \* what each call is about to do
  data,       \* what its transaction will write
  overtaken,  \* history: another update was written since this call read
  mixed,      \* history: an overtaken update was written
  requests    \* what counts against MaxRequests

streamVars == <<stream, streamAt, data, overtaken, mixed>>

NoData == [f \in {} |-> None]

(* A stream of the workspace: none yet, or the one an install provides.    *)
DefaultStream ==
  [isEnabled |-> TRUE, frequency |-> "DAILY", daysOfWeek |-> {},
   selectionStrategy |-> "ALTERNATE_BY_TYPE", allowedContentTypes |-> Types]

StreamInit ==
  /\ workspace = "active"
  /\ stream \in {None, DefaultStream}
  /\ streamAt = [a \in Admins |-> "idle"]
  /\ data = [a \in Admins |-> NoData]
  /\ overtaken = [a \in Admins |-> FALSE]
  /\ mixed = FALSE

(* prisma: an update writes the fields that are given.                     *)
Patched(row, patch) ==
  [f \in DOMAIN row |-> IF f \in DOMAIN patch THEN patch[f] ELSE row[f]]

-----------------------------------------------------------------------------
(* The rules a stream has to meet, on the merged values.                   *)

Valid(merged) ==
  /\ merged.frequency = "WEEKLY" => merged.daysOfWeek # {}
  /\ merged.selectionStrategy = "ALTERNATE_BY_TYPE" =>
       Cardinality(merged.allowedContentTypes) >= 2

validateAndNormalizeDaysOfWeek(frequency, daysOfWeek) ==
  IF frequency = "WEEKLY" THEN daysOfWeek ELSE {}

(* What the stream would be: the request, and what was read for the rest.  *)
Merged(old, request) ==
  [f \in StreamFields |-> IF f \in DOMAIN request THEN request[f] ELSE old[f]]

(* What update writes: the fields the request names, and always the days   *)
(* and the types.                                                          *)
Written(merged, request) ==
  [f \in DOMAIN request \cup {"daysOfWeek", "allowedContentTypes"} |->
     IF f = "daysOfWeek"
     THEN validateAndNormalizeDaysOfWeek(merged.frequency, merged.daysOfWeek)
     ELSE merged[f]]

-----------------------------------------------------------------------------
(* The calls.  A call that throws ends: nothing has been written.          *)

Free(a) == streamAt[a] = "idle" /\ \A b \in Admins : b < a => streamAt[b] # "idle"

Request ==
  /\ requests < MaxRequests
  /\ requests' = requests + 1

StreamGoto(a, step, what) ==
  /\ streamAt' = [streamAt EXCEPT ![a] = step]
  /\ data' = [data EXCEPT ![a] = what]
  /\ overtaken' = [overtaken EXCEPT ![a] = FALSE]

StreamEnd(a) ==
  /\ streamAt' = [streamAt EXCEPT ![a] = "idle"]
  /\ data' = [data EXCEPT ![a] = NoData]

(* create: the workspace exists and the values are valid; the transaction  *)
(* comes next.  Without a strategy it is LEAST_RECENTLY_SENT.              *)
CreateStream(a, request, isEnabled) ==
  LET base == [DefaultStream EXCEPT !.selectionStrategy = "LEAST_RECENTLY_SENT",
                                    !.isEnabled = isEnabled]
      wanted == Merged(base, request)
  IN /\ Free(a) /\ stream = None
     /\ Request
     /\ IF workspace # "gone" /\ Valid(wanted)
        THEN StreamGoto(a, "create", Patched(base, Written(wanted, wanted)))
        ELSE UNCHANGED <<streamAt, data, overtaken>>
     /\ UNCHANGED <<workspace, stream, mixed>>

WriteCreated(a) ==
  /\ streamAt[a] = "create"
  /\ stream' = IF workspace # "gone" /\ stream = None THEN data[a] ELSE stream
  /\ StreamEnd(a)
  /\ UNCHANGED <<workspace, overtaken, mixed, requests>>

(* Mutant: only what the request names is validated. *)
UpdateStreamUnmerged(a, request) ==
  /\ Free(a) /\ stream # None
  /\ Request
  /\ IF Valid(Merged(DefaultStream, request))
     THEN StreamGoto(a, "update", Written(Merged(stream, request), request))
     ELSE UNCHANGED <<streamAt, data, overtaken>>
  /\ UNCHANGED <<workspace, stream, mixed>>

(* update: the row is read, merged and validated.                          *)
UpdateStream(a, request) ==
  /\ Free(a) /\ stream # None
  /\ Request
  /\ LET merged == Merged(stream, request)
     IN IF Valid(merged)
        THEN StreamGoto(a, "update", Written(merged, request))
        ELSE UNCHANGED <<streamAt, data, overtaken>>
  /\ UNCHANGED <<workspace, stream, mixed>>

WriteUpdated(a) ==
  /\ streamAt[a] = "update"
  /\ IF stream = None
     THEN UNCHANGED <<stream, mixed, overtaken>>
     ELSE /\ stream' = Patched(stream, data[a])
          /\ mixed' = (mixed \/ overtaken[a])
          /\ overtaken' = [b \in Admins |-> b # a /\ (overtaken[b] \/ streamAt[b] = "update")]
  /\ StreamEnd(a)
  /\ UNCHANGED <<workspace, requests>>

(* setEnabled: the row is read for the audit, and isEnabled alone written. *)
SetEnabled(a, isEnabled) ==
  /\ Free(a) /\ stream # None
  /\ Request
  /\ StreamGoto(a, "switch", [isEnabled |-> isEnabled])
  /\ UNCHANGED <<workspace, stream, mixed>>

WriteEnabled(a) ==
  /\ streamAt[a] = "switch"
  /\ stream' = IF stream = None THEN stream ELSE Patched(stream, data[a])
  /\ StreamEnd(a)
  /\ UNCHANGED <<workspace, overtaken, mixed, requests>>

StreamCall(a) == WriteCreated(a) \/ WriteUpdated(a) \/ WriteEnabled(a)

StreamStep ==
  \E a \in Admins :
    \/ \E request \in StreamRequests : UpdateStream(a, request)
    \/ \E isEnabled \in BOOLEAN :
         \/ SetEnabled(a, isEnabled)
         \/ \E request \in StreamRequests : CreateStream(a, request, isEnabled)
    \/ StreamCall(a)

-----------------------------------------------------------------------------
StreamValue(f) == IF f = "isEnabled" THEN BOOLEAN ELSE FieldValues[f]

(* Some fields of a row. *)
IsPatch(d) ==
  /\ DOMAIN d \subseteq StreamFields \cup {"isEnabled"}
  /\ \A f \in DOMAIN d : d[f] \in StreamValue(f)

StreamTypeOK ==
  /\ workspace \in {"active", "inactive", "gone"}
  /\ stream \in StreamRow \cup {None}
  /\ streamAt \in [Admins -> {"idle", "create", "update", "switch"}]
  /\ DOMAIN data = Admins
  /\ \A a \in Admins : IsPatch(data[a]) /\ (streamAt[a] = "create" => data[a] \in StreamRow)
  /\ overtaken \in [Admins -> BOOLEAN]
  /\ mixed \in BOOLEAN
  /\ requests \in 0..MaxRequests

(* A weekly stream has its days, a daily one none, and an alternating one  *)
(* the types to alternate between.                                         *)
Consistent(s) == Valid(s) /\ (s.frequency = "DAILY" => s.daysOfWeek = {})

(* src/streams/streams.service.ts:51, 68: the rules hold of what is stored *)
(* though they were checked on what was read, unless an update that others *)
(* overtook was written.                                                   *)
StreamIsConsistent == ~mixed /\ stream # None => Consistent(stream)

(* The inductive invariant: each write under way keeps to the rules, an    *)
(* update unless it is overtaken, and none outlives its stream.            *)
StreamInv ==
  /\ StreamIsConsistent
  /\ \A a \in Admins :
       /\ streamAt[a] = "create" => Consistent(data[a])
       /\ streamAt[a] = "switch" => DOMAIN data[a] = {"isEnabled"}
       /\ streamAt[a] = "update" /\ stream # None /\ ~overtaken[a] =>
            Consistent(Patched(stream, data[a]))
       /\ streamAt[a] = "update" => stream # None \/ workspace = "gone"
================================================================================
