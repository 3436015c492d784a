------------------------- MODULE Subscriptions_proofs -------------------------
(***************************************************************************)
(* Proofs about Streams and Subscriptions, for any people, administrators, *)
(* days, types and bounds.                                                 *)
(***************************************************************************)
EXTENDS Subscriptions, FiniteSetTheorems, TLAPS

USE StreamsAssumption, SubscriptionsAssumption
    DEF StreamsAssumption, SubscriptionsAssumption

-----------------------------------------------------------------------------
(* The rows of streams.                                                    *)

LEMMA StreamShape ==
  ASSUME NEW s
  PROVE  s \in StreamRow <=>
           /\ s = [f \in StreamFields \cup {"isEnabled"} |-> s[f]]
           /\ \A f \in StreamFields \cup {"isEnabled"} : s[f] \in StreamValue(f)
BY DEF StreamRow, StreamFields, StreamValue, FieldValues

LEMMA DefaultIsConsistent == DefaultStream \in StreamRow /\ Consistent(DefaultStream)
<1>1. Types # {}
  BY FS_EmptySet
<1>2. DefaultStream \in StreamRow
  BY <1>1 DEF DefaultStream, StreamRow, FieldValues
<1>3. Consistent(DefaultStream)
  BY DEF DefaultStream, Consistent, Valid
<1> QED
  BY <1>2, <1>3

LEMMA NoDataIsPatch == IsPatch(NoData)
BY DEF IsPatch, NoData

(* A row stays one under any patch.                                        *)
LEMMA PatchedRow ==
  ASSUME NEW s \in StreamRow, NEW d, IsPatch(d)
  PROVE  Patched(s, d) \in StreamRow
BY StreamShape DEF Patched, IsPatch

(* What a request names is of the fields' types.                           *)
LEMMA RequestShape ==
  ASSUME NEW request \in StreamRequests
  PROVE  /\ DOMAIN request \subseteq StreamFields
         /\ \A f \in DOMAIN request : request[f] \in FieldValues[f]
<1>1. PICK row \in StreamRow,
           names \in (SUBSET {"frequency", "daysOfWeek"})
                       \cup (SUBSET {"selectionStrategy", "allowedContentTypes"}) :
        request = [f \in names |-> row[f]]
  BY DEF StreamRequests
<1>2. names \subseteq StreamFields
  BY DEF StreamFields
<1>3. \A f \in StreamFields : row[f] \in FieldValues[f]
  BY StreamShape DEF StreamValue, StreamFields
<1> QED
  BY <1>1, <1>2, <1>3

LEMMA MergedShape ==
  ASSUME NEW s \in StreamRow, NEW request \in StreamRequests
  PROVE  LET m == Merged(s, request) IN
         /\ m = [f \in StreamFields |-> m[f]]
         /\ \A f \in StreamFields :
              /\ m[f] \in FieldValues[f]
              /\ f \notin DOMAIN request => m[f] = s[f]
<1>1. \A f \in StreamFields : s[f] \in FieldValues[f]
  BY StreamShape DEF StreamValue, StreamFields
<1> QED
  BY <1>1, RequestShape DEF Merged

(* What is written keeps to the rules, if the row it is written over has   *)
(* what was read for the fields that are not written.                      *)
LEMMA WrittenConsistent ==
  ASSUME NEW s \in StreamRow, NEW m, NEW request,
         m = [f \in StreamFields |-> m[f]],
         \A f \in StreamFields : m[f] \in FieldValues[f],
         DOMAIN request \subseteq StreamFields,
         \A f \in StreamFields \ DOMAIN request : m[f] = s[f],
         Valid(m)
  PROVE  /\ IsPatch(Written(m, request))
         /\ Patched(s, Written(m, request)) \in StreamRow
         /\ Consistent(Patched(s, Written(m, request)))
<1> DEFINE w == Written(m, request)
           p == Patched(s, w)
<1>1. /\ DOMAIN w = DOMAIN request \cup {"daysOfWeek", "allowedContentTypes"}
      /\ \A f \in DOMAIN w :
           w[f] = IF f = "daysOfWeek"
                  THEN IF m["frequency"] = "WEEKLY" THEN m["daysOfWeek"] ELSE {}
                  ELSE m[f]
  BY DEF Written, validateAndNormalizeDaysOfWeek
<1>2. IsPatch(w)
  BY <1>1 DEF IsPatch, StreamValue, StreamFields, FieldValues
<1>3. p \in StreamRow
  BY <1>2, PatchedRow
<1>4. \A f \in StreamFields :
        p[f] = IF f = "daysOfWeek"
               THEN IF m["frequency"] = "WEEKLY" THEN m["daysOfWeek"] ELSE {}
               ELSE m[f]
  <2>1. DOMAIN s = StreamFields \cup {"isEnabled"}
    BY StreamShape
  <2>2. \A f \in StreamFields : p[f] = IF f \in DOMAIN w THEN w[f] ELSE s[f]
    BY <2>1 DEF Patched
  <2> HIDE DEF p, w
  <2> QED
    BY <1>1, <2>2
<1>5. /\ p["frequency"] = m["frequency"]
      /\ p["daysOfWeek"] = IF m["frequency"] = "WEEKLY" THEN m["daysOfWeek"] ELSE {}
      /\ p["selectionStrategy"] = m["selectionStrategy"]
      /\ p["allowedContentTypes"] = m["allowedContentTypes"]
  BY <1>4 DEF StreamFields
<1> HIDE DEF p, w
<1>6. Consistent(p)
  BY <1>5 DEF Consistent, Valid
<1> QED
  BY <1>2, <1>3, <1>6 DEF p, w

(* isEnabled has no part in the rules.                                     *)
LEMMA SwitchingIsHarmless ==
  ASSUME NEW s \in StreamRow, NEW e, IsPatch(e), DOMAIN e = {"isEnabled"}
  PROVE  /\ Consistent(s) => Consistent(Patched(s, e))
         /\ \A d : Consistent(Patched(s, d)) => Consistent(Patched(Patched(s, e), d))
<1>1. \A f \in StreamFields : Patched(s, e)[f] = s[f]
  BY StreamShape DEF Patched, StreamFields
<1>2. \A d : \A f \in StreamFields : Patched(Patched(s, e), d)[f] = Patched(s, d)[f]
  BY StreamShape DEF Patched, StreamFields
<1>3. \A x, y : (\A f \in StreamFields : x[f] = y[f]) => (Consistent(x) <=> Consistent(y))
  BY DEF Consistent, Valid, StreamFields
<1> QED
  BY <1>1, <1>2, <1>3

-----------------------------------------------------------------------------
(* Streams: types and rules.                                               *)

(* Commands and ticks leave the streams alone.                             *)
LEMMA NextStreams ==
  [Next]_vars => \/ StreamStep
                 \/ UNCHANGED <<workspace, streamVars>>
                 \/ Lost \/ Deactivate \/ Reactivate \/ Purge
BY DEF Next, Receive, Administer, Begin, CallStep, Lookup, ReadOwn, SelectRandom,
   CheckWorkspace, CheckUnique, Insert, GetById, Write, Reply, replyQuietly, ReplyFails,
   LookupFails, QueryFails, FindDue, Deliver, Restart, Rest, vars

LEMMA RequestsStep ==
  ASSUME requests \in 0..MaxRequests, [Next]_vars
  PROVE  requests' \in 0..MaxRequests
<1>1. Request \/ requests' = requests
  BY DEF Next, Receive, Administer, Begin, CallStep, Lookup, ReadOwn, SelectRandom,
     CheckWorkspace, CheckUnique, Insert, GetById, Write, Reply, replyQuietly, ReplyFails,
     LookupFails, QueryFails, FindDue, Deliver, Restart, Lost, Deactivate, Reactivate, Purge,
       Rest, vars,
     StreamStep, UpdateStream, SetEnabled, CreateStream, StreamCall, WriteCreated,
     WriteUpdated, WriteEnabled
<1> QED
  BY <1>1 DEF Request

(* What a call of the StreamsService leaves, when it begins or ends.       *)
LEMMA BegunTypes ==
  ASSUME StreamTypeOK, NEW a \in Admins, NEW step \in {"create", "update", "switch"},
         NEW d, IsPatch(d), step = "create" => d \in StreamRow,
         StreamGoto(a, step, d), UNCHANGED <<workspace, stream, mixed>>,
         requests' \in 0..MaxRequests
  PROVE  StreamTypeOK'
<1>1. /\ streamAt' = [streamAt EXCEPT ![a] = step]
      /\ data' = [data EXCEPT ![a] = d]
      /\ overtaken' = [overtaken EXCEPT ![a] = FALSE]
  BY DEF StreamGoto
<1>2. DOMAIN data' = Admins /\ \A b \in Admins : data'[b] = IF b = a THEN d ELSE data[b]
  BY <1>1 DEF StreamTypeOK
<1>3. \A b \in Admins : streamAt'[b] = IF b = a THEN step ELSE streamAt[b]
  BY <1>1 DEF StreamTypeOK
<1>4. \A b \in Admins : IsPatch(data'[b]) /\ (streamAt'[b] = "create" => data'[b] \in StreamRow)
  BY <1>2, <1>3 DEF StreamTypeOK
<1>5. streamAt' \in [Admins -> {"idle", "create", "update", "switch"}]
  BY <1>1 DEF StreamTypeOK
<1>6. overtaken' \in [Admins -> BOOLEAN]
  BY <1>1 DEF StreamTypeOK
<1> QED
  BY <1>2, <1>4, <1>5, <1>6 DEF StreamTypeOK

LEMMA EndedTypes ==
  ASSUME StreamTypeOK, NEW a \in Admins, StreamEnd(a),
         workspace' = workspace, requests' = requests,
         stream' \in StreamRow \cup {None}, overtaken' \in [Admins -> BOOLEAN],
         mixed' \in BOOLEAN
  PROVE  StreamTypeOK'
<1>1. streamAt' = [streamAt EXCEPT ![a] = "idle"] /\ data' = [data EXCEPT ![a] = NoData]
  BY DEF StreamEnd
<1>2. DOMAIN data' = Admins /\ \A b \in Admins : data'[b] = IF b = a THEN NoData ELSE data[b]
  BY <1>1 DEF StreamTypeOK
<1>3. \A b \in Admins : streamAt'[b] = IF b = a THEN "idle" ELSE streamAt[b]
  BY <1>1 DEF StreamTypeOK
<1>4. \A b \in Admins : IsPatch(data'[b]) /\ (streamAt'[b] = "create" => data'[b] \in StreamRow)
  BY <1>2, <1>3, NoDataIsPatch DEF StreamTypeOK
<1>5. streamAt' \in [Admins -> {"idle", "create", "update", "switch"}]
  BY <1>1 DEF StreamTypeOK
<1> QED
  BY <1>2, <1>4, <1>5 DEF StreamTypeOK

(* What CreateStream is about to write.                                    *)
LEMMA CreatedConsistent ==
  ASSUME StreamTypeOK, NEW a \in Admins, NEW request \in StreamRequests, NEW e \in BOOLEAN,
         CreateStream(a, request, e)
  PROVE  /\ Free(a) /\ stream = None /\ UNCHANGED <<workspace, stream, mixed>>
         /\ \/ UNCHANGED <<streamAt, data, overtaken>>
            \/ \E d \in StreamRow :
                 IsPatch(d) /\ Consistent(d) /\ StreamGoto(a, "create", d)
<1> DEFINE base == [DefaultStream EXCEPT !.selectionStrategy = "LEAST_RECENTLY_SENT",
                                         !.isEnabled = e]
           wanted == Merged(base, request)
           d == Patched(base, Written(wanted, wanted))
<1>1. base \in StreamRow
  BY DefaultIsConsistent DEF StreamRow, FieldValues
<1>2. /\ wanted = [f \in StreamFields |-> wanted[f]]
      /\ \A f \in StreamFields : wanted[f] \in FieldValues[f]
  BY <1>1, MergedShape
<1>3. Valid(wanted) => d \in StreamRow /\ Consistent(d)
  <2> HIDE DEF base, wanted
  <2> QED
    BY <1>1, <1>2, WrittenConsistent
<1>4. d \in StreamRow => IsPatch(d)
  BY StreamShape DEF IsPatch
<1>5. Free(a) /\ stream = None /\ UNCHANGED <<workspace, stream, mixed>>
  BY DEF CreateStream
<1>6. \/ Valid(wanted) /\ StreamGoto(a, "create", d)
      \/ UNCHANGED <<streamAt, data, overtaken>>
  BY DEF CreateStream
<1> HIDE DEF d, wanted
<1> QED
  BY <1>3, <1>4, <1>5, <1>6

(* What UpdateStream is about to write.                                    *)
LEMMA UpdatedConsistent ==
  ASSUME StreamTypeOK, NEW a \in Admins, NEW request \in StreamRequests,
         UpdateStream(a, request)
  PROVE  /\ Free(a) /\ stream # None /\ UNCHANGED <<workspace, stream, mixed>>
         /\ \/ UNCHANGED <<streamAt, data, overtaken>>
            \/ \E d : IsPatch(d) /\ Consistent(Patched(stream, d)) /\ StreamGoto(a, "update", d)
<1> DEFINE merged == Merged(stream, request)
           d == Written(merged, request)
<1>1. Free(a) /\ stream # None /\ UNCHANGED <<workspace, stream, mixed>>
  BY DEF UpdateStream
<1>2. stream \in StreamRow
  BY <1>1 DEF StreamTypeOK
<1>3. Valid(merged) => IsPatch(d) /\ Consistent(Patched(stream, d))
  <2>1. /\ merged = [f \in StreamFields |-> merged[f]]
        /\ \A f \in StreamFields :
             /\ merged[f] \in FieldValues[f]
             /\ f \notin DOMAIN request => merged[f] = stream[f]
    BY <1>2, MergedShape
  <2> HIDE DEF merged
  <2> QED
    BY <1>2, <2>1, RequestShape, WrittenConsistent
<1>4. \/ Valid(merged) /\ StreamGoto(a, "update", d)
      \/ UNCHANGED <<streamAt, data, overtaken>>
  BY DEF UpdateStream
<1> HIDE DEF d, merged
<1> QED
  BY <1>1, <1>3, <1>4

LEMMA StreamTypeStep == StreamTypeOK /\ [Next]_vars => StreamTypeOK'
<1> SUFFICES ASSUME StreamTypeOK, [Next]_vars PROVE StreamTypeOK'
  OBVIOUS
<1>r. requests' \in 0..MaxRequests
  BY RequestsStep DEF StreamTypeOK
<1>u. CASE UNCHANGED <<workspace, streamVars>>
  BY <1>r, <1>u DEF StreamTypeOK, streamVars
<1>1. ASSUME NEW a \in Admins, NEW request \in StreamRequests, UpdateStream(a, request)
      PROVE  StreamTypeOK'
  BY <1>r, <1>u, <1>1, UpdatedConsistent, BegunTypes DEF streamVars
<1>2. ASSUME NEW a \in Admins, NEW request \in StreamRequests, NEW e \in BOOLEAN,
             CreateStream(a, request, e)
      PROVE  StreamTypeOK'
  BY <1>r, <1>u, <1>2, CreatedConsistent, BegunTypes DEF streamVars
<1>3. ASSUME NEW a \in Admins, NEW e \in BOOLEAN, SetEnabled(a, e) PROVE StreamTypeOK'
  <2>1. IsPatch([isEnabled |-> e])
    BY DEF IsPatch, StreamValue
  <2> QED
    BY <1>r, <1>3, <2>1, BegunTypes DEF SetEnabled
<1>4. ASSUME NEW a \in Admins, WriteCreated(a) PROVE StreamTypeOK'
  BY <1>4, EndedTypes DEF WriteCreated, StreamTypeOK
<1>5. ASSUME NEW a \in Admins, WriteUpdated(a) PROVE StreamTypeOK'
  <2>1. stream' \in StreamRow \cup {None}
    BY <1>5, PatchedRow DEF WriteUpdated, StreamTypeOK
  <2>2. overtaken' \in [Admins -> BOOLEAN] /\ mixed' \in BOOLEAN
    BY <1>5 DEF WriteUpdated, StreamTypeOK
  <2> QED
    BY <1>5, <2>1, <2>2, EndedTypes DEF WriteUpdated
<1>6. ASSUME NEW a \in Admins, WriteEnabled(a) PROVE StreamTypeOK'
  <2>1. stream' \in StreamRow \cup {None}
    BY <1>6, PatchedRow DEF WriteEnabled, StreamTypeOK
  <2> QED
    BY <1>6, <2>1, EndedTypes DEF WriteEnabled, StreamTypeOK
<1>7. CASE Lost
  <2>1. /\ streamAt' = [a \in Admins |-> "idle"] /\ data' = [a \in Admins |-> NoData]
        /\ UNCHANGED <<workspace, stream, overtaken, mixed>>
    BY <1>7 DEF Lost
  <2> QED
    BY <1>r, <2>1, NoDataIsPatch DEF StreamTypeOK
<1>8. CASE Deactivate \/ Reactivate \/ Purge
  BY <1>r, <1>8 DEF Deactivate, Reactivate, Purge, StreamTypeOK, streamVars
<1> QED
  BY <1>u, <1>1, <1>2, <1>3, <1>4, <1>5, <1>6, <1>7, <1>8, NextStreams
  DEF StreamStep, StreamCall

(* A call that begins to write keeps the invariant.                        *)
LEMMA BegunKeeps ==
  ASSUME StreamTypeOK, StreamInv, NEW a \in Admins,
         NEW step \in {"create", "update", "switch"}, NEW d,
         step = "create" => Consistent(d),
         step = "switch" => DOMAIN d = {"isEnabled"},
         step = "update" => stream # None /\ Consistent(Patched(stream, d)),
         StreamGoto(a, step, d), UNCHANGED <<workspace, stream, mixed>>
  PROVE  StreamInv'
<1>1. /\ streamAt' = [streamAt EXCEPT ![a] = step]
      /\ data' = [data EXCEPT ![a] = d]
      /\ overtaken' = [overtaken EXCEPT ![a] = FALSE]
  BY DEF StreamGoto
<1>2. \A b \in Admins :
        /\ streamAt'[b] = IF b = a THEN step ELSE streamAt[b]
        /\ data'[b] = IF b = a THEN d ELSE data[b]
        /\ b # a => overtaken'[b] = overtaken[b]
  BY <1>1 DEF StreamTypeOK
<1>3. StreamIsConsistent'
  BY DEF StreamInv, StreamIsConsistent
<1>4. ASSUME NEW b \in Admins
      PROVE  /\ streamAt'[b] = "create" => Consistent(data'[b])
             /\ streamAt'[b] = "switch" => DOMAIN data'[b] = {"isEnabled"}
             /\ streamAt'[b] = "update" /\ stream' # None /\ ~overtaken'[b] =>
                  Consistent(Patched(stream', data'[b]))
             /\ streamAt'[b] = "update" => stream' # None \/ workspace' = "gone"
  <2>1. CASE b = a
    BY <1>2, <2>1
  <2>2. CASE b # a
    BY <1>2, <2>2 DEF StreamInv
  <2> QED
    BY <2>1, <2>2
<1> QED
  BY <1>3, <1>4 DEF StreamInv

(* So does one that ends, if the stream and the other updates do.          *)
LEMMA EndedKeeps ==
  ASSUME StreamTypeOK, StreamInv, NEW a \in Admins, StreamEnd(a), workspace' = workspace,
         StreamIsConsistent', stream # None => stream' # None,
         \A b \in Admins \ {a} : streamAt[b] = "update" /\ stream' # None /\ ~overtaken'[b] =>
           Consistent(Patched(stream', data[b]))
  PROVE  StreamInv'
<1>1. streamAt' = [streamAt EXCEPT ![a] = "idle"] /\ data' = [data EXCEPT ![a] = NoData]
  BY DEF StreamEnd
<1>2. \A b \in Admins :
        /\ streamAt'[b] = IF b = a THEN "idle" ELSE streamAt[b]
        /\ b # a => data'[b] = data[b]
  BY <1>1 DEF StreamTypeOK
<1>3. ASSUME NEW b \in Admins
      PROVE  /\ streamAt'[b] = "create" => Consistent(data'[b])
             /\ streamAt'[b] = "switch" => DOMAIN data'[b] = {"isEnabled"}
             /\ streamAt'[b] = "update" /\ stream' # None /\ ~overtaken'[b] =>
                  Consistent(Patched(stream', data'[b]))
             /\ streamAt'[b] = "update" => stream' # None \/ workspace' = "gone"
  <2>1. CASE b = a
    BY <1>2, <2>1
  <2>2. CASE b # a
    BY <1>2, <2>2 DEF StreamInv
  <2> QED
    BY <2>1, <2>2
<1> QED
  BY <1>3 DEF StreamInv

LEMMA StreamInvStep == StreamTypeOK /\ StreamInv /\ [Next]_vars => StreamInv'
<1> SUFFICES ASSUME StreamTypeOK, StreamInv, [Next]_vars PROVE StreamInv'
  OBVIOUS
<1>u. CASE UNCHANGED <<workspace, streamVars>>
  BY <1>u DEF StreamInv, StreamIsConsistent, streamVars
<1>1. ASSUME NEW a \in Admins, NEW request \in StreamRequests, UpdateStream(a, request)
      PROVE  StreamInv'
  BY <1>u, <1>1, UpdatedConsistent, BegunKeeps DEF streamVars
<1>2. ASSUME NEW a \in Admins, NEW request \in StreamRequests, NEW e \in BOOLEAN,
             CreateStream(a, request, e)
      PROVE  StreamInv'
  BY <1>u, <1>2, CreatedConsistent, BegunKeeps DEF streamVars
<1>3. ASSUME NEW a \in Admins, NEW e \in BOOLEAN, SetEnabled(a, e) PROVE StreamInv'
  <2>1. DOMAIN [isEnabled |-> e] = {"isEnabled"}
    OBVIOUS
  <2> QED
    BY <1>3, <2>1, BegunKeeps DEF SetEnabled
<1>4. ASSUME NEW a \in Admins, WriteCreated(a) PROVE StreamInv'
  <2>1. CASE workspace # "gone" /\ stream = None
    <3>1. stream' = data[a] /\ Consistent(data[a])
      BY <1>4, <2>1 DEF WriteCreated, StreamInv
    <3>2. \A b \in Admins : streamAt[b] # "update"
      BY <2>1 DEF StreamInv
    <3>3. StreamIsConsistent'
      BY <3>1 DEF StreamIsConsistent
    <3> QED
      BY <1>4, <2>1, <3>2, <3>3, EndedKeeps DEF WriteCreated
  <2>2. CASE ~(workspace # "gone" /\ stream = None)
    <3>1. UNCHANGED <<workspace, stream, overtaken, mixed>> /\ StreamEnd(a)
      BY <1>4, <2>2 DEF WriteCreated
    <3> QED
      BY <3>1, EndedKeeps DEF StreamInv, StreamIsConsistent
  <2> QED
    BY <2>1, <2>2
<1>5. ASSUME NEW a \in Admins, WriteUpdated(a) PROVE StreamInv'
  <2>1. CASE stream = None
    <3>1. UNCHANGED <<workspace, stream, overtaken, mixed>> /\ StreamEnd(a)
      BY <1>5, <2>1 DEF WriteUpdated
    <3> QED
      BY <3>1, EndedKeeps DEF StreamInv, StreamIsConsistent
  <2>2. CASE stream # None
    <3>1. /\ stream' = Patched(stream, data[a]) /\ mixed' = (mixed \/ overtaken[a])
          /\ overtaken' = [b \in Admins |-> b # a /\ (overtaken[b] \/ streamAt[b] = "update")]
          /\ StreamEnd(a) /\ workspace' = workspace /\ streamAt[a] = "update"
      BY <1>5, <2>2 DEF WriteUpdated
    <3>2. StreamIsConsistent'
      BY <2>2, <3>1 DEF StreamInv, StreamIsConsistent
    <3>3. \A b \in Admins \ {a} : streamAt[b] = "update" => overtaken'[b]
      BY <3>1
    <3>4. stream' # None
      BY <2>2, <3>1, PatchedRow DEF StreamTypeOK
    <3> QED
      BY <3>1, <3>2, <3>3, <3>4, EndedKeeps
  <2> QED
    BY <2>1, <2>2
<1>6. ASSUME NEW a \in Admins, WriteEnabled(a) PROVE StreamInv'
  <2>1. CASE stream = None
    <3>1. UNCHANGED <<workspace, stream, overtaken, mixed>> /\ StreamEnd(a)
      BY <1>6, <2>1 DEF WriteEnabled
    <3> QED
      BY <3>1, EndedKeeps DEF StreamInv, StreamIsConsistent
  <2>2. CASE stream # None
    <3>1. /\ stream' = Patched(stream, data[a]) /\ UNCHANGED <<workspace, overtaken, mixed>>
          /\ StreamEnd(a) /\ streamAt[a] = "switch"
      BY <1>6, <2>2 DEF WriteEnabled
    <3>2. stream \in StreamRow /\ IsPatch(data[a]) /\ DOMAIN data[a] = {"isEnabled"}
      BY <2>2, <3>1 DEF StreamTypeOK, StreamInv
    <3>3. StreamIsConsistent'
      BY <2>2, <3>1, <3>2, SwitchingIsHarmless DEF StreamInv, StreamIsConsistent
    <3>4. \A b \in Admins : streamAt[b] = "update" /\ ~overtaken[b] =>
            Consistent(Patched(stream', data[b]))
      BY <2>2, <3>1, <3>2, SwitchingIsHarmless DEF StreamInv
    <3>5. stream' # None
      BY <3>1, <3>2, PatchedRow
    <3> QED
      BY <3>1, <3>3, <3>4, <3>5, EndedKeeps
  <2> QED
    BY <2>1, <2>2
<1>7. CASE Lost
  <2>1. /\ \A a \in Admins : streamAt'[a] = "idle"
        /\ UNCHANGED <<workspace, stream, overtaken, mixed>>
    BY <1>7 DEF Lost
  <2> QED
    BY <2>1 DEF StreamInv, StreamIsConsistent
<1>8. CASE Deactivate \/ Reactivate
  BY <1>8 DEF Deactivate, Reactivate, StreamInv, StreamIsConsistent, streamVars
<1>9. CASE Purge
  <2>1. stream' = None /\ workspace' = "gone" /\ UNCHANGED <<streamAt, data, overtaken, mixed>>
    BY <1>9 DEF Purge
  <2> QED
    BY <2>1 DEF StreamInv, StreamIsConsistent
<1> QED
  BY <1>u, <1>1, <1>2, <1>3, <1>4, <1>5, <1>6, <1>7, <1>8, <1>9, NextStreams
  DEF StreamStep, StreamCall

-----------------------------------------------------------------------------
(* Commands.                                                               *)

LEMMA CommandParts ==
  \A k, u, set : /\ Command(k, u, set).kind = k
                 /\ Command(k, u, set).user = u
                 /\ Command(k, u, set).set = set
BY DEF Command

(* What a command may be about.                                            *)
AboutFields(set) ==
  /\ DOMAIN set \subseteq Fields
  /\ \A f \in DOMAIN set : set[f] \in FieldRange(f)

LEMMA OneField ==
  ASSUME NEW f \in Fields, NEW v \in FieldRange(f)
  PROVE  AboutFields(One(f, v)) /\ DOMAIN One(f, v) = {f}
BY DEF One, AboutFields

LEMMA NothingIsAbout == AboutFields(Nothing) /\ DOMAIN Nothing = {}
BY DEF Nothing, AboutFields

LEMMA UserCommandShape ==
  ASSUME NEW new \in UserCommands
  PROVE  /\ new.user \in Users /\ AboutFields(new.set)
         /\ new.kind \in {"toggle", "setting", "show", "hint", "instant"}
         /\ new.kind = "toggle" => DOMAIN new.set = {"isActive"}
         /\ new.kind = "setting" => "isActive" \notin DOMAIN new.set
         /\ new.kind \in {"show", "hint", "instant"} => DOMAIN new.set = {}
<1>1. ASSUME NEW u \in Users, NEW b \in BOOLEAN, new = Command("toggle", u, One("isActive", b))
      PROVE  /\ new.user \in Users /\ AboutFields(new.set)
             /\ new.kind = "toggle" /\ DOMAIN new.set = {"isActive"}
  <2>1. "isActive" \in Fields /\ b \in FieldRange("isActive")
    BY DEF Fields, FieldRange
  <2>2. AboutFields(One("isActive", b)) /\ DOMAIN One("isActive", b) = {"isActive"}
    BY <2>1, OneField
  <2> QED
    BY <1>1, <2>2, CommandParts
<1>2. ASSUME NEW u \in Users, NEW choice \in Choices,
             new = Command("setting", u, One(choice[1], choice[2]))
      PROVE  /\ new.user \in Users /\ AboutFields(new.set)
             /\ new.kind = "setting" /\ "isActive" \notin DOMAIN new.set
  <2>1. choice[1] \in Fields \ {"isActive"} /\ choice[2] \in FieldRange(choice[1])
    BY DEF FieldRange
  <2>2. /\ AboutFields(One(choice[1], choice[2]))
        /\ DOMAIN One(choice[1], choice[2]) = {choice[1]}
    BY <2>1, OneField
  <2> QED
    BY <1>2, <2>1, <2>2, CommandParts
<1>3. ASSUME NEW k \in {"show", "hint", "instant"}, NEW u \in Users,
             new = Command(k, u, Nothing)
      PROVE  /\ new.user \in Users /\ AboutFields(new.set)
             /\ new.kind = k /\ DOMAIN new.set = {}
  BY <1>3, CommandParts, NothingIsAbout
<1> QED
  BY <1>1, <1>2, <1>3 DEF UserCommands

LEMMA AdminCommandShape ==
  ASSUME NEW new \in AdminCommands
  PROVE  /\ new.user \in Users /\ AboutFields(new.set)
         /\ new.kind \in {"create", "update"}
         /\ new.kind = "create" => DOMAIN new.set = {"isActive"}
<1>1. ASSUME NEW u \in Users, NEW b \in BOOLEAN, new = Command("create", u, One("isActive", b))
      PROVE  /\ new.user \in Users /\ AboutFields(new.set)
             /\ new.kind = "create" /\ DOMAIN new.set = {"isActive"}
  <2>1. "isActive" \in Fields /\ b \in FieldRange("isActive")
    BY DEF Fields, FieldRange
  <2>2. AboutFields(One("isActive", b)) /\ DOMAIN One("isActive", b) = {"isActive"}
    BY <2>1, OneField
  <2> QED
    BY <1>1, <2>2, CommandParts
<1>2. ASSUME NEW u \in Users, NEW patch \in AdminPatches, new = Command("update", u, patch)
      PROVE  /\ new.user \in Users /\ AboutFields(new.set) /\ new.kind = "update"
  BY <1>2, CommandParts DEF AboutFields
<1> QED
  BY <1>1, <1>2 DEF AdminCommands

Commands == UserCommands \cup AdminCommands \cup {NoCommand}

LEMMA NoCommandShape ==
  /\ NoCommand \in Commands /\ NoCommand.kind = "none" /\ AboutFields(NoCommand.set)
  /\ DOMAIN NoCommand.set = {}
BY CommandParts, NothingIsAbout DEF NoCommand, Commands

(* What is known of a command from the step it is at.                      *)
LEMMA CommandAt ==
  ASSUME CommandTypeOK, NEW c \in Calls
  PROVE  /\ command[c] \in Commands
         /\ AboutFields(command[c].set)
         /\ command[c].kind \in {"none", "toggle", "setting", "show", "hint", "instant",
                                 "create", "update"}
         /\ command[c].kind \in {"toggle", "create"} => About(c) = {"isActive"}
         /\ command[c].kind = "setting" => "isActive" \notin About(c)
         /\ command[c].kind \in {"none", "show", "hint", "instant"} => About(c) = {}
         /\ at[c] \in Steps[command[c].kind]
         /\ at[c] # "idle" => command[c].user \in Users
<1>1. command[c] \in Commands /\ at[c] \in Steps[command[c].kind]
  BY DEF CommandTypeOK, Commands
<1>2. CASE command[c] \in UserCommands
  BY <1>1, <1>2, UserCommandShape DEF About
<1>3. CASE command[c] \in AdminCommands
  BY <1>1, <1>3, AdminCommandShape DEF About
<1>4. CASE command[c] = NoCommand
  <2>1. Steps["none"] = {"idle"}
    BY DEF Steps
  <2> QED
    BY <1>1, <1>4, <2>1, NoCommandShape DEF About
<1> QED
  BY <1>1, <1>2, <1>3, <1>4 DEF Commands

(* A step of a command to another step of its, or to its end.              *)
Moved(c) ==
  \E n \in Commands : \E s \in Steps[n.kind] :
    /\ at' = [at EXCEPT ![c] = s]
    /\ \/ command' = [command EXCEPT ![c] = n]
       \/ command' = command /\ n = command[c]

LEMMA MovedTypes ==
  ASSUME CommandTypeOK, NEW c \in Calls, Moved(c)
  PROVE  CommandTypeOK'
<1>1. PICK n \in Commands : \E s \in Steps[n.kind] :
        /\ at' = [at EXCEPT ![c] = s]
        /\ \/ command' = [command EXCEPT ![c] = n]
           \/ command' = command /\ n = command[c]
  BY DEF Moved
<1>s. PICK s \in Steps[n.kind] : at' = [at EXCEPT ![c] = s]
  BY <1>1
<1>2. command' \in [Calls -> Commands]
  BY <1>1 DEF CommandTypeOK, Commands
<1>3. \A d \in Calls : /\ at'[d] = IF d = c THEN s ELSE at[d]
                       /\ command'[d] = IF d = c THEN n ELSE command[d]
  BY <1>1, <1>s DEF CommandTypeOK
<1>4. DOMAIN at' = Calls
  BY <1>1 DEF CommandTypeOK
<1>5. \A d \in Calls : at'[d] \in Steps[command'[d].kind]
  BY <1>3 DEF CommandTypeOK
<1> QED
  BY <1>2, <1>4, <1>5 DEF CommandTypeOK, Commands

LEMMA EndMoves ==
  ASSUME NEW c \in Calls, End(c)
  PROVE  Moved(c)
<1>1. "idle" \in Steps[NoCommand.kind]
  BY NoCommandShape DEF Steps
<1> QED
  BY <1>1, NoCommandShape DEF End, Goto, Moved

LEMMA GotoMoves ==
  ASSUME CommandTypeOK, NEW c \in Calls, NEW s \in Steps[command[c].kind],
         Goto(c, s), command' = command
  PROVE  Moved(c)
BY CommandAt DEF Goto, Moved

LEMMA UserSteps ==
  \A k \in {"toggle", "setting", "show", "hint", "instant"} :
    "failure" \in Steps[k] /\ "reply" \in Steps[k]
BY DEF Steps

LEMMA ThrowMoves ==
  ASSUME CommandTypeOK, NEW c \in Calls, at[c] # "idle", Throw(c)
  PROVE  Moved(c)
<1>1. CASE Administered(c)
  BY <1>1, EndMoves DEF Throw
<1>2. CASE ~Administered(c)
  <2>1. command[c].kind \in {"toggle", "setting", "show", "hint", "instant"}
    <3>1. Steps["none"] = {"idle"}
      BY DEF Steps
    <3> QED
      BY <1>2, <3>1, CommandAt DEF Administered
  <2>2. Goto(c, "failure") /\ command' = command
    BY <1>2 DEF Throw, Proceed
  <2> QED
    BY <2>1, <2>2, UserSteps, GotoMoves
<1> QED
  BY <1>1, <1>2

LEMMA BeginMoves ==
  ASSUME CommandTypeOK, NEW c \in Calls, Receive(c) \/ Administer(c)
  PROVE  Moved(c)
<1>1. CASE Receive(c)
  <2>1. PICK new \in UserCommands : Begin(c, new, "lookup")
    BY <1>1 DEF Receive
  <2>2. "lookup" \in Steps[new.kind]
    BY UserCommandShape DEF Steps
  <2> QED
    BY <2>1, <2>2 DEF Begin, Goto, Moved, Commands
<1>2. CASE Administer(c)
  <2>1. PICK new \in AdminCommands :
          Begin(c, new, IF new.kind = "create" THEN "workspace" ELSE "existing")
    BY <1>2 DEF Administer
  <2>2. (IF new.kind = "create" THEN "workspace" ELSE "existing") \in Steps[new.kind]
    BY AdminCommandShape DEF Steps
  <2> QED
    BY <2>1, <2>2 DEF Begin, Goto, Moved, Commands
<1> QED
  BY <1>1, <1>2

LEMMA CallMoves ==
  ASSUME CommandTypeOK, NEW c \in Calls, CallStep(c) \/ ReplyFails(c) \/ QueryFails(c)
  PROVE  Moved(c)
<1> DEFINE k == command[c].kind
<1>k. k \in {"none", "toggle", "setting", "show", "hint", "instant", "create", "update"}
  BY CommandAt
<1>a. at[c] \in Steps[k]
  BY CommandAt
<1>1. CASE Lookup(c)
  <2>1. {"reply", "read"} \subseteq Steps[k] \/ (k = "hint" /\ "reply" \in Steps[k])
    BY <1>1, <1>k, <1>a DEF Lookup, Steps
  <2>2. End(c) \/ \E s \in Steps[k] : Goto(c, s) /\ command' = command
    BY <1>1, <2>1 DEF Lookup, Proceed
  <2> QED
    BY <2>2, EndMoves, GotoMoves
<1>2. CASE ReadOwn(c)
  <2>1. \/ k \in {"toggle", "setting"}
           /\ {"workspace", "existing", "reply"} \subseteq Steps[k]
        \/ k = "show" /\ "reply" \in Steps[k]
        \/ k = "instant" /\ "select" \in Steps[k]
    BY <1>2, <1>k, <1>a DEF ReadOwn, Steps
  <2>2. \E s \in Steps[k] : Goto(c, s) /\ command' = command
    BY <1>2, <2>1 DEF ReadOwn, applyToggle, getOrCreateSubscriber
  <2> QED
    BY <2>2, GotoMoves
<1>3. CASE SelectRandom(c)
  <2>1. "reply" \in Steps[k]
    BY <1>3, <1>k, <1>a DEF SelectRandom, Steps
  <2> QED
    BY <1>3, <2>1, GotoMoves DEF SelectRandom, Proceed
<1>4. CASE CheckWorkspace(c)
  <2>1. "unique" \in Steps[k]
    BY <1>4, <1>k, <1>a DEF CheckWorkspace, Steps
  <2> QED
    BY <1>4, <2>1, GotoMoves, ThrowMoves DEF CheckWorkspace, Proceed
<1>5. CASE CheckUnique(c)
  <2>1. "insert" \in Steps[k]
    BY <1>5, <1>k, <1>a DEF CheckUnique, Steps
  <2> QED
    BY <1>5, <2>1, GotoMoves, ThrowMoves DEF CheckUnique, Proceed
<1>6. CASE Insert(c)
  <2>1. k = "create" \/ {"existing", "reply"} \subseteq Steps[k]
    BY <1>6, <1>k, <1>a DEF Insert, Steps
  <2>2. \/ End(c) \/ Throw(c)
        \/ ~Administered(c) /\ \E s \in {"existing", "reply"} : Goto(c, s) /\ command' = command
    BY <1>6 DEF Insert
  <2>3. at[c] # "idle"
    BY <1>6 DEF Insert
  <2> QED
    BY <2>1, <2>2, <2>3, EndMoves, GotoMoves, ThrowMoves DEF Administered
<1>7. CASE GetById(c)
  <2>1. "write" \in Steps[k]
    BY <1>7, <1>k, <1>a DEF GetById, Steps
  <2> QED
    BY <1>7, <2>1, GotoMoves, ThrowMoves DEF GetById, Proceed
<1>8. CASE Write(c)
  <2>1. k = "update" \/ "reply" \in Steps[k]
    BY <1>8, <1>k, <1>a DEF Write, Steps
  <2>2. \/ End(c) \/ Throw(c)
        \/ ~Administered(c) /\ Goto(c, "reply") /\ command' = command
    BY <1>8 DEF Write
  <2>3. at[c] # "idle"
    BY <1>8 DEF Write
  <2> QED
    BY <2>1, <2>2, <2>3, EndMoves, GotoMoves, ThrowMoves DEF Administered
<1>9. CASE Reply(c)
  BY <1>9, EndMoves, ThrowMoves DEF Reply
<1>10. CASE replyQuietly(c)
  BY <1>10, EndMoves DEF replyQuietly
<1>11. CASE ReplyFails(c)
  <2>1. "failure" \in Steps[k]
    BY <1>11, <1>k, <1>a DEF ReplyFails, Steps
  <2> QED
    BY <1>11, <2>1, GotoMoves DEF ReplyFails
<1>12. CASE QueryFails(c)
  <2>1. Administered(c) \/ "failure" \in Steps[k]
    BY <1>12, <1>k, <1>a DEF QueryFails, Steps, Administered
  <2> QED
    BY <1>12, <2>1, EndMoves, GotoMoves DEF QueryFails
<1> QED
  BY <1>1, <1>2, <1>3, <1>4, <1>5, <1>6, <1>7, <1>8, <1>9, <1>10, <1>11, <1>12 DEF CallStep

LEMMA CommandTypeStep == CommandTypeOK /\ [Next]_vars => CommandTypeOK'
<1> SUFFICES ASSUME CommandTypeOK, [Next]_vars PROVE CommandTypeOK'
  OBVIOUS
<1>1. CASE Lost
  <2>1. at' = [c \in Calls |-> "idle"] /\ command' = [c \in Calls |-> NoCommand]
    BY <1>1 DEF Lost
  <2>2. "idle" \in Steps[NoCommand.kind]
    BY NoCommandShape DEF Steps
  <2> QED
    BY <2>1, <2>2 DEF CommandTypeOK
<1>2. CASE UNCHANGED calls
  BY <1>2 DEF CommandTypeOK, calls
<1> QED
  BY <1>1, <1>2, BeginMoves, CallMoves, MovedTypes
  DEF Next, LookupFails, FindDue, Deliver, Restart, Deactivate, Reactivate, Purge, vars

-----------------------------------------------------------------------------
(* The rows, and what is known of them.                                    *)

LEMMA CreatedRow ==
  ASSUME CommandTypeOK, NEW c \in Calls
  PROVE  /\ Created(c) \in Row
         /\ \A f \in Fields : Created(c)[f] =
              IF f = "isActive" THEN "isActive" \in About(c) /\ Wanted(c) ELSE 0
<1>1. ("isActive" \in About(c) /\ Wanted(c)) \in BOOLEAN
  OBVIOUS
<1> QED
  BY <1>1 DEF Created, Row, Fields

LEMMA RowShape ==
  ASSUME NEW r
  PROVE  r \in Row <=> r = [f \in Fields |-> r[f]] /\ \A f \in Fields : r[f] \in FieldRange(f)
BY DEF Row, Fields, FieldRange

LEMMA UpdatedRow ==
  ASSUME CommandTypeOK, NEW c \in Calls, RowOf(c) \in Row
  PROVE  /\ Updated(c) \in Row
         /\ \A f \in Fields :
              Updated(c)[f] = IF f \in About(c) THEN command[c].set[f] ELSE RowOf(c)[f]
<1>1. DOMAIN RowOf(c) = Fields
  BY RowShape
<1>2. AboutFields(command[c].set)
  BY CommandAt
<1>3. \A f \in Fields :
        Updated(c)[f] = IF f \in About(c) THEN command[c].set[f] ELSE RowOf(c)[f]
  BY <1>1 DEF Updated, Patched, About
<1>4. Updated(c) = [f \in Fields |-> Updated(c)[f]]
  BY <1>1 DEF Updated, Patched
<1>5. \A f \in Fields : Updated(c)[f] \in FieldRange(f)
  BY <1>2, <1>3, RowShape DEF AboutFields, About
<1> QED
  BY <1>3, <1>4, <1>5, RowShape

LEMMA RowsTypeStep == RowsTypeOK /\ CommandTypeOK /\ [Next]_vars => RowsTypeOK'
<1> SUFFICES ASSUME RowsTypeOK, CommandTypeOK, [Next]_vars PROVE RowsTypeOK'
  OBVIOUS
<1>1. faults' \in 0..MaxFaults
  <2>1. Fault \/ faults' = faults
    BY DEF Next, Receive, Administer, Begin, CallStep, Lookup, ReadOwn, SelectRandom,
       CheckWorkspace, CheckUnique, Insert, GetById, Write, Reply, replyQuietly, ReplyFails,
       LookupFails, QueryFails, FindDue, Deliver, Restart, Lost, Deactivate, Reactivate, Purge,
       Rest, vars
  <2> QED
    BY <2>1 DEF Fault, RowsTypeOK
<1>2. due' \subseteq Users
  <2>1. due' = due \/ FindDue \/ Deliver \/ due' = {}
    BY DEF Next, Receive, Administer, Begin, CallStep, Lookup, ReadOwn, SelectRandom,
       CheckWorkspace, CheckUnique, Insert, GetById, Write, Reply, replyQuietly, ReplyFails,
       LookupFails, QueryFails, Restart, Lost, Deactivate, Reactivate, Purge,
       Rest, vars
  <2> QED
    BY <2>1 DEF FindDue, Deliver, RowsTypeOK
<1>3. rows' \in [Users -> Row \cup {None}]
  <2>1. ASSUME NEW c \in Calls, Insert(c) PROVE rows' \in [Users -> Row \cup {None}]
    BY <2>1, CreatedRow DEF Insert, RowsTypeOK
  <2>2. ASSUME NEW c \in Calls, Write(c) PROVE rows' \in [Users -> Row \cup {None}]
    <3>1. CASE rows' = rows
      BY <3>1 DEF RowsTypeOK
    <3>2. CASE ~IsNew(c) /\ rows' = [rows EXCEPT ![command[c].user] = Updated(c)]
      <4>1. at[c] # "idle"
        BY <2>2 DEF Write
      <4>2. command[c].user \in Users
        BY <4>1, CommandAt
      <4>3. RowOf(c) \in Row
        BY <3>2, <4>2 DEF IsNew, RowOf, RowsTypeOK
      <4> QED
        BY <3>2, <4>3, UpdatedRow DEF RowsTypeOK
    <3> QED
      BY <2>2, <3>1, <3>2 DEF Write
  <2>3. CASE Purge
    BY <2>3 DEF Purge
  <2>4. CASE rows' = rows
    BY <2>4 DEF RowsTypeOK
  <2> QED
    BY <2>1, <2>2, <2>3, <2>4
    DEF Next, Receive, Administer, Begin, CallStep, Lookup, ReadOwn, SelectRandom,
       CheckWorkspace, CheckUnique, GetById, Reply, replyQuietly, ReplyFails,
       LookupFails, QueryFails, FindDue, Deliver, Restart, Lost, Deactivate, Reactivate, vars
<1> QED
  BY <1>1, <1>2, <1>3 DEF RowsTypeOK

(* confirmed, for some fields of one person.                               *)
ConfirmedTypeOK ==
  /\ DOMAIN confirmed = Users
  /\ \A u \in Users : /\ DOMAIN confirmed[u] = Fields
                      /\ \A f \in Fields : confirmed[u][f] \in FieldRange(f) \cup {None}

LEMMA TellTypes ==
  ASSUME HistoryTypeOK, CommandTypeOK, NEW c \in Calls, Tell(c)
  PROVE  ConfirmedTypeOK' /\ news' \in [Calls -> SUBSET Fields]
<1>0. ConfirmedTypeOK
  BY DEF HistoryTypeOK, ConfirmedTypeOK
<1>1. ConfirmedTypeOK'
  <2>1. confirmed' = [confirmed EXCEPT ![command[c].user] =
                       [f \in Fields |-> IF f \in About(c) THEN None
                                         ELSE confirmed[command[c].user][f]]]
    BY DEF Tell
  <2> QED
    BY <1>0, <2>1 DEF ConfirmedTypeOK
<1>2. \A d \in Calls : About(d) \subseteq Fields
  BY CommandAt DEF AboutFields, About
<1>3. news' \in [Calls -> SUBSET Fields]
  BY <1>2 DEF Tell, HistoryTypeOK
<1> QED
  BY <1>1, <1>3

LEMMA HistoryTypeStep == HistoryTypeOK /\ CommandTypeOK /\ [Next]_vars => HistoryTypeOK'
<1> SUFFICES ASSUME HistoryTypeOK, CommandTypeOK, [Next]_vars PROVE HistoryTypeOK'
  OBVIOUS
<1>0. ConfirmedTypeOK
  BY DEF HistoryTypeOK, ConfirmedTypeOK
<1>1. asked' \subseteq Users
  <2>1. ASSUME NEW c \in Calls, NEW new \in UserCommands \cup AdminCommands,
               NEW s, Begin(c, new, s)
        PROVE  asked' \subseteq Users
    BY <2>1, UserCommandShape, AdminCommandShape DEF Begin, HistoryTypeOK
  <2>2. CASE asked' \subseteq asked
    BY <2>2 DEF HistoryTypeOK
  <2> QED
    BY <2>1, <2>2 DEF Next, Receive, Administer, CallStep, Lookup, ReadOwn, SelectRandom,
       CheckWorkspace, CheckUnique, Insert, GetById, Write, Reply, replyQuietly, ReplyFails,
       LookupFails, QueryFails, FindDue, Deliver, Restart, Lost, Deactivate, Reactivate, Purge,
       Rest, history, vars
<1>2. unreported' \in BOOLEAN
  <2>1. unreported' \in {unreported, TRUE}
    BY DEF Next, Receive, Administer, Begin, CallStep, Lookup, ReadOwn, SelectRandom,
       CheckWorkspace, CheckUnique, Insert, GetById, Write, Reply, replyQuietly, ReplyFails,
       LookupFails, QueryFails, FindDue, Deliver, Restart, Lost, Deactivate, Reactivate, Purge,
       Rest, history, vars
  <2> QED
    BY <2>1 DEF HistoryTypeOK
<1>3. ConfirmedTypeOK'
  <2>1. ASSUME NEW c \in Calls, Reply(c) PROVE ConfirmedTypeOK'
    <3>1. CASE confirmed' = confirmed
      BY <1>0, <3>1 DEF ConfirmedTypeOK
    <3>2. CASE confirmed' = [confirmed EXCEPT ![command[c].user] =
                 [f \in Fields |-> IF f \in About(c) \ news[c]
                                   THEN command[c].set[f] ELSE confirmed[command[c].user][f]]]
      <4>1. AboutFields(command[c].set)
        BY CommandAt
      <4> QED
        BY <1>0, <3>2, <4>1 DEF ConfirmedTypeOK, AboutFields, About
    <3> QED
      BY <2>1, <3>1, <3>2 DEF Reply
  <2>2. ASSUME NEW c \in Calls, Tell(c) PROVE ConfirmedTypeOK'
    BY <2>2, TellTypes
  <2>3. CASE Purge
    BY <2>3 DEF Purge, ConfirmedTypeOK, Unheard
  <2>4. CASE confirmed' = confirmed
    BY <1>0, <2>4 DEF ConfirmedTypeOK
  <2> QED
    BY <2>1, <2>2, <2>3, <2>4
    DEF Next, Receive, Administer, Begin, CallStep, Lookup, ReadOwn, SelectRandom,
       CheckWorkspace, CheckUnique, Insert, GetById, Write, replyQuietly, ReplyFails,
       LookupFails, QueryFails, FindDue, Deliver, Restart, Lost, Deactivate, Reactivate, history, vars
<1>4. news' \in [Calls -> SUBSET Fields]
  <2>1. ASSUME NEW c \in Calls, Tell(c) PROVE news' \in [Calls -> SUBSET Fields]
    BY <2>1, TellTypes
  <2>2. ASSUME NEW c, news' = [news EXCEPT ![c] = {}] PROVE news' \in [Calls -> SUBSET Fields]
    BY <2>2 DEF HistoryTypeOK
  <2>3. CASE Purge
    <3>1. \A d \in Calls : About(d) \subseteq Fields
      BY CommandAt DEF AboutFields, About
    <3> QED
      BY <2>3, <3>1 DEF Purge
  <2>4. CASE Lost
    BY <2>4 DEF Lost
  <2>5. CASE news' = news
    BY <2>5 DEF HistoryTypeOK
  <2> QED
    BY <2>1, <2>2, <2>3, <2>4, <2>5
    DEF Next, Receive, Administer, Begin, CallStep, Lookup, ReadOwn, SelectRandom,
       CheckWorkspace, CheckUnique, Insert, GetById, Write, Reply, replyQuietly, ReplyFails,
       LookupFails, QueryFails, FindDue, Deliver, Restart, Deactivate, Reactivate, Throw, Proceed,
       Forget, history, vars
<1>5. excuse' \in [Calls -> BOOLEAN]
  <2>1. ASSUME NEW c, NEW b \in BOOLEAN, excuse' = [excuse EXCEPT ![c] = b]
        PROVE  excuse' \in [Calls -> BOOLEAN]
    BY <2>1 DEF HistoryTypeOK
  <2>2. ASSUME NEW c \in Calls, Insert(c) PROVE excuse' \in [Calls -> BOOLEAN]
    <3>1. CASE excuse' = [d \in Calls |->
                  IF d = c THEN excuse[c] /\ ~Administered(c)
                  ELSE excuse[d] \/ (command[d].user = command[c].user /\ ~Administered(d))]
      BY <3>1
    <3>2. CASE Throw(c)
      BY <2>1, <3>2 DEF Throw, Forget, Proceed, HistoryTypeOK
    <3> QED
      BY <2>2, <3>1, <3>2 DEF Insert
  <2>3. CASE Lost
    BY <2>3 DEF Lost
  <2>4. CASE Reactivate
    BY <2>4 DEF Reactivate, HistoryTypeOK
  <2>5. CASE excuse' = excuse
    BY <2>5 DEF HistoryTypeOK
  <2> QED
    BY <2>1, <2>2, <2>3, <2>4, <2>5
    DEF Next, Receive, Administer, Begin, CallStep, Lookup, ReadOwn, SelectRandom,
       CheckWorkspace, CheckUnique, GetById, Write, Reply, replyQuietly, ReplyFails,
       LookupFails, QueryFails, FindDue, Deliver, Restart, Deactivate, Purge, Throw, Proceed,
       Forget, history, vars
<1> QED
  BY <1>1, <1>2, <1>3, <1>4, <1>5 DEF HistoryTypeOK, ConfirmedTypeOK

-----------------------------------------------------------------------------
(* Type correctness.                                                       *)

LEMMA InitTypes == Init => TypeOK
<1> SUFFICES ASSUME Init PROVE TypeOK
  OBVIOUS
<1>1. StreamTypeOK
  <2>1. /\ stream \in StreamRow \cup {None}
        /\ \A a \in Admins :
             IsPatch(data[a]) /\ (streamAt[a] = "create" => data[a] \in StreamRow)
    BY DefaultIsConsistent, NoDataIsPatch DEF Init, StreamInit
  <2>2. /\ workspace \in {"active", "inactive", "gone"}
        /\ streamAt \in [Admins -> {"idle", "create", "update", "switch"}]
        /\ DOMAIN data = Admins
        /\ overtaken \in [Admins -> BOOLEAN]
    BY DEF Init, StreamInit
  <2>3. requests \in 0..MaxRequests
    BY DEF Init
  <2>4. mixed \in BOOLEAN
    BY DEF Init, StreamInit
  <2> QED
    BY <2>1, <2>2, <2>3, <2>4 DEF StreamTypeOK
<1>2. RowsTypeOK
  BY DEF Init, RowsTypeOK
<1>3. CommandTypeOK
  <2>1. "idle" \in Steps[NoCommand.kind]
    BY NoCommandShape DEF Steps
  <2> QED
    BY <2>1 DEF Init, CommandTypeOK
<1>4. HistoryTypeOK
  BY DEF Init, HistoryTypeOK, Unheard
<1> QED
  BY <1>1, <1>2, <1>3, <1>4 DEF TypeOK

LEMMA TypeStep == TypeOK /\ [Next]_vars => TypeOK'
BY StreamTypeStep, RowsTypeStep, CommandTypeStep, HistoryTypeStep DEF TypeOK

(* Every variable keeps to its type, and every call to the steps of its    *)
(* kind of command (src/slack-events/slack-events.service.ts,              *)
(* src/subscribers/subscribers.service.ts, src/streams/streams.service.ts). *)
THEOREM TypeCorrect == Spec => []TypeOK
BY InitTypes, TypeStep, PTL DEF Spec

-----------------------------------------------------------------------------
(* Streams.                                                                *)

LEMMA InitStreams == Init => StreamInv
BY DefaultIsConsistent DEF Init, StreamInit, StreamInv, StreamIsConsistent

LEMMA StreamInvStepTyped == TypeOK /\ StreamInv /\ [Next]_vars => StreamInv'
BY StreamInvStep DEF TypeOK

(* What is stored of a stream meets the rules of src/streams/              *)
(* streams.service.ts, unless an update others overtook was written.       *)
THEOREM StreamsConsistent == Spec => []StreamIsConsistent
<1>1. StreamInv => StreamIsConsistent
  BY DEF StreamInv
<1> QED
  BY <1>1, InitStreams, StreamInvStepTyped, TypeCorrect, PTL DEF Spec

-----------------------------------------------------------------------------
(* What people are told.                                                   *)

(* A step of one call: what it leaves of the others'.                      *)
OthersStay(c) ==
  \A d \in Calls \ {c} : at'[d] = at[d] /\ command'[d] = command[d] /\ news'[d] = news[d]

(* An insertion or update that takes place.                                *)
WritesRow(c) ==
  /\ \/ at[c] = "insert" /\ IsNew(c) /\ workspace # "gone"
        /\ rows' = [rows EXCEPT ![command[c].user] = Created(c)]
     \/ at[c] = "write" /\ ~IsNew(c)
        /\ rows' = [rows EXCEPT ![command[c].user] = Updated(c)]
  /\ workspace' = workspace /\ asked' = asked
  /\ Tell(c)
  /\ \/ End(c)
     \/ /\ UNCHANGED command
        /\ \/ Goto(c, "reply") /\ command[c].kind # "setting"
           \/ Goto(c, "existing") /\ command[c].kind = "setting"
           \/ Goto(c, "reply") /\ at[c] = "write"

LEMMA WritesOrThrows ==
  ASSUME NEW c \in Calls, Insert(c) \/ Write(c)
  PROVE  WritesRow(c) \/ (Throw(c) /\ UNCHANGED <<workspace, asked, rows, confirmed>>)
BY DEF Insert, Write, WritesRow, Rest

(* What a write makes of the fields it is about, and of the others.        *)
LEMMA WrittenHas ==
  ASSUME TypeOK, NEW c \in Calls, WritesRow(c), NEW u \in Users, NEW f \in Fields
  PROVE  /\ u # command[c].user \/ f \notin About(c) => Has(u, f)' = Has(u, f)
         /\ /\ u = command[c].user /\ f \in About(c)
            /\ at[c] = "write" \/ command[c].kind # "setting"
            => Has(u, f)' = command[c].set[f]
<1> USE DEF TypeOK, RowsTypeOK
<1>1. command[c].user \in Users /\ rows \in [Users -> Row \cup {None}]
  BY CommandAt DEF WritesRow
<1>2. CASE u # command[c].user
  BY <1>1, <1>2 DEF WritesRow, Has
<1>3. CASE u = command[c].user /\ at[c] = "insert" /\ IsNew(c) /\ rows'[u] = Created(c)
  <2>1. Created(c) \in Row /\ Created(c) # None
    BY CreatedRow
  <2>2. Has(u, f)' = Created(c)[f]
    BY <1>3, <2>1 DEF Has
  <2>3. Has(u, f) = IF f = "isActive" THEN FALSE ELSE 0
    BY <1>3 DEF Has, IsNew, RowOf
  <2>4. f \notin About(c) => Has(u, f)' = Has(u, f)
    BY <2>2, <2>3, CreatedRow
  <2>5. f \in About(c) /\ command[c].kind # "setting" =>
          f = "isActive" /\ Wanted(c) = command[c].set[f] /\ Wanted(c) \in BOOLEAN
    <3>0. /\ at[c] \in Steps[command[c].kind]
          /\ command[c].kind \in {"none", "toggle", "setting", "show", "hint", "instant",
                                  "create", "update"}
      BY CommandAt
    <3>1. command[c].kind \in {"toggle", "create", "setting"}
      BY <1>3, <3>0 DEF Steps
    <3>2. AboutFields(command[c].set)
      BY CommandAt
    <3>3. f \in About(c) /\ command[c].kind # "setting" => f = "isActive"
      BY <3>1, CommandAt
    <3> QED
      BY <3>2, <3>3 DEF Wanted, AboutFields, About, FieldRange
  <2>6. f \in About(c) /\ command[c].kind # "setting" => Has(u, f)' = command[c].set[f]
    BY <2>2, <2>5, CreatedRow
  <2> QED
    BY <1>3, <2>4, <2>6
<1>4. CASE u = command[c].user /\ at[c] = "write" /\ ~IsNew(c) /\ rows'[u] = Updated(c)
  <2>1. RowOf(c) \in Row
    BY <1>1, <1>4 DEF IsNew, RowOf
  <2>2. Updated(c) \in Row /\ Updated(c) # None
    BY <2>1, UpdatedRow
  <2>3. Has(u, f)' = Updated(c)[f]
    BY <1>4, <2>2 DEF Has
  <2>4. Has(u, f) = RowOf(c)[f]
    BY <1>4 DEF Has, IsNew, RowOf
  <2> QED
    BY <1>4, <2>1, <2>3, <2>4, UpdatedRow
<1>5. u = command[c].user =>
        \/ at[c] = "insert" /\ IsNew(c) /\ rows'[u] = Created(c)
        \/ at[c] = "write" /\ ~IsNew(c) /\ rows'[u] = Updated(c)
  BY <1>1 DEF WritesRow
<1> QED
  BY <1>2, <1>3, <1>4, <1>5

(* What a command says in its answer is true, as far as nobody interfered. *)
Truthful(c) ==
  at[c] = "reply" => \A f \in About(c) \ news[c] : Has(command[c].user, f) = command[c].set[f]

(* A step of one call that writes no row.                                  *)
LEMMA AsideKeeps ==
  ASSUME TypeOK, ConfirmInv, NEW c \in Calls, OthersStay(c), rows' = rows,
         ConfirmedStays', Truthful(c)'
  PROVE  ConfirmInv'
<1>1. ASSUME NEW d \in Calls \ {c} PROVE Truthful(d)'
  <2>1. Truthful(d)
    BY DEF ConfirmInv, Truthful
  <2>2. /\ at'[d] = at[d] /\ command'[d] = command[d] /\ news'[d] = news[d]
        /\ rows' = rows
    BY DEF OthersStay
  <2> QED
    BY <2>1, <2>2 DEF Truthful, Has, About
<1>2. \A d \in Calls : Truthful(d)'
  BY <1>1
<1> QED
  BY <1>2 DEF ConfirmInv, Truthful

LEMMA Aside ==
  ASSUME TypeOK, NEW c \in Calls,
         \/ Receive(c) \/ Administer(c) \/ ReplyFails(c) \/ QueryFails(c)
         \/ Lookup(c) \/ ReadOwn(c) \/ SelectRandom(c) \/ CheckWorkspace(c)
         \/ CheckUnique(c) \/ GetById(c) \/ Reply(c) \/ replyQuietly(c) \/ Throw(c)
  PROVE  OthersStay(c)
<1>1. /\ DOMAIN at = Calls /\ DOMAIN command = Calls /\ DOMAIN news = Calls
  BY DEF TypeOK, CommandTypeOK, HistoryTypeOK
<1>2. \E s : at' = [at EXCEPT ![c] = s]
  BY DEF Receive, Administer, Begin, ReplyFails, QueryFails, Lookup, ReadOwn, SelectRandom,
     CheckWorkspace, CheckUnique, GetById, Reply, replyQuietly, Throw, Proceed, End, Goto
<1>3. command' = command \/ \E n : command' = [command EXCEPT ![c] = n]
  BY DEF Receive, Administer, Begin, ReplyFails, QueryFails, Lookup, ReadOwn, SelectRandom,
     CheckWorkspace, CheckUnique, GetById, Reply, replyQuietly, Throw, Proceed, End
<1>4. news' = news \/ news' = [news EXCEPT ![c] = {}]
  BY DEF Receive, Administer, Begin, ReplyFails, QueryFails, Lookup, ReadOwn, SelectRandom,
     CheckWorkspace, CheckUnique, GetById, Reply, replyQuietly, Throw, Proceed, Forget
<1> QED
  BY <1>1, <1>2, <1>3, <1>4 DEF OthersStay

(* Where each step takes its call: to an answer only if it is true.        *)
LEMMA AsideTruthful ==
  ASSUME TypeOK, ConfirmInv, NEW c \in Calls,
         \/ Receive(c) \/ Administer(c) \/ ReplyFails(c) \/ QueryFails(c)
         \/ Lookup(c) \/ ReadOwn(c) \/ SelectRandom(c) \/ CheckWorkspace(c)
         \/ CheckUnique(c) \/ GetById(c) \/ Reply(c) \/ replyQuietly(c) \/ Throw(c)
  PROVE  Truthful(c)'
<1>0. DOMAIN at = Calls /\ DOMAIN command = Calls /\ DOMAIN news = Calls
  BY DEF TypeOK, CommandTypeOK, HistoryTypeOK
<1>k. /\ command[c].kind \in {"none", "toggle", "setting", "show", "hint", "instant",
                              "create", "update"}
      /\ at[c] \in Steps[command[c].kind]
  BY CommandAt DEF TypeOK
<1>1. CASE at'[c] # "reply"
  BY <1>1 DEF Truthful
<1>2. ASSUME About(c) = {}, command' = command PROVE Truthful(c)'
  BY <1>2 DEF Truthful, About
<1>3. CASE Lookup(c)
  <2>1. at'[c] # "reply" \/ (command[c].kind = "hint" /\ command' = command)
    BY <1>0, <1>3 DEF Lookup, End, Proceed, Goto
  <2> QED
    BY <1>1, <1>2, <2>1, CommandAt DEF TypeOK
<1>4. CASE SelectRandom(c)
  <2>1. command[c].kind = "instant" /\ command' = command
    BY <1>k, <1>4 DEF SelectRandom, Proceed, Steps
  <2> QED
    BY <1>2, <2>1, CommandAt DEF TypeOK
<1>5. CASE ReadOwn(c)
  <2>1. /\ command' = command /\ rows' = rows
        /\ command[c].kind \in {"toggle", "setting", "show", "instant"}
    BY <1>k, <1>5 DEF ReadOwn, Steps
  <2>2. CASE command[c].kind \in {"show", "instant"}
    BY <1>2, <2>1, <2>2, CommandAt DEF TypeOK
  <2>3. CASE command[c].kind = "setting"
    <3>1. at' = [at EXCEPT ![c] = getOrCreateSubscriber(c)]
      BY <1>5, <2>3 DEF ReadOwn, Goto
    <3>2. at'[c] # "reply"
      BY <1>0, <3>1 DEF getOrCreateSubscriber
    <3> QED
      BY <1>1, <3>2
  <2>4. CASE command[c].kind = "toggle"
    <3>1. at' = [at EXCEPT ![c] = applyToggle(c)]
      BY <1>5, <2>4 DEF ReadOwn, Goto
    <3>2. About(c) = {"isActive"}
      BY <2>4, CommandAt DEF TypeOK
    <3>3. Wanted(c) \in BOOLEAN
      BY <3>2, CommandAt DEF TypeOK, AboutFields, About, Wanted, FieldRange
    <3>4. RowOf(c) = None \/ RowOf(c).isActive \in BOOLEAN
      <4>1. command[c].user \in Users
        BY <1>5, CommandAt DEF TypeOK, ReadOwn
      <4> QED
        BY <4>1 DEF TypeOK, RowsTypeOK, RowOf, Row
    <3>5. at'[c] = "reply" => Has(command[c].user, "isActive") = Wanted(c)
      <4>1. at'[c] = applyToggle(c)
        BY <1>0, <3>1
      <4> QED
        BY <3>3, <3>4, <4>1 DEF applyToggle, IsNew, RowOf, Has
    <3> QED
      BY <2>1, <3>2, <3>5 DEF Truthful, About, Has, Wanted
  <2> QED
    BY <2>1, <2>2, <2>3, <2>4
<1>6. CASE ~(Lookup(c) \/ ReadOwn(c) \/ SelectRandom(c))
  <2>1. at'[c] # "reply"
    BY <1>0, <1>6 DEF Receive, Administer, Begin, ReplyFails, QueryFails,
       CheckWorkspace, CheckUnique, GetById, Reply, replyQuietly, Throw, Proceed, End, Goto
  <2> QED
    BY <1>1, <2>1
<1> QED
  BY <1>3, <1>4, <1>5, <1>6

LEMMA ConfirmedKept ==
  ASSUME ConfirmedStays, UNCHANGED <<rows, confirmed>>
  PROVE  ConfirmedStays'
BY DEF ConfirmedStays, Has

(* A call that writes a row.                                               *)
LEMMA WriteConfirms ==
  ASSUME TypeOK, ConfirmInv, NEW c \in Calls, WritesRow(c)
  PROVE  ConfirmInv'
<1>t. /\ DOMAIN at = Calls /\ DOMAIN command = Calls /\ DOMAIN confirmed = Users
      /\ command[c].user \in Users
  BY CommandAt DEF TypeOK, CommandTypeOK, HistoryTypeOK, WritesRow
<1>w. /\ confirmed' = [confirmed EXCEPT ![command[c].user] =
                        [f \in Fields |-> IF f \in About(c) THEN None
                                          ELSE confirmed[command[c].user][f]]]
      /\ news' = [d \in Calls |->
                   IF d = c THEN {}
                   ELSE IF command[d].user = command[c].user /\ ~Administered(d)
                   THEN news[d] \cup (About(c) \cap About(d))
                   ELSE news[d]]
  BY DEF WritesRow, Tell
<1>1. ConfirmedStays'
  <2> SUFFICES ASSUME NEW u \in Users, NEW f \in Fields, confirmed'[u][f] # None
               PROVE  Has(u, f)' = confirmed'[u][f]
    BY DEF ConfirmedStays
  <2>1. /\ u # command[c].user \/ f \notin About(c)
        /\ confirmed'[u][f] = confirmed[u][f]
    BY <1>t, <1>w
  <2>2. Has(u, f) = confirmed[u][f]
    BY <2>1 DEF ConfirmInv, ConfirmedStays
  <2> QED
    BY <2>1, <2>2, WrittenHas
<1>2. ASSUME NEW d \in Calls, d # c PROVE Truthful(d)'
  <2>1. at'[d] = at[d] /\ command'[d] = command[d]
    BY <1>2, <1>t DEF WritesRow, End, Goto
  <2>2. SUFFICES ASSUME at[d] = "reply", NEW f \in About(d) \ news'[d]
                 PROVE  Has(command[d].user, f)' = command[d].set[f]
    BY <2>1 DEF Truthful, About, Has
  <2>3. command[d].user \in Users /\ f \in Fields
    BY <2>2, CommandAt DEF TypeOK, AboutFields, About
  <2>4. ~Administered(d)
    <3>1. at[d] \in Steps[command[d].kind]
      BY CommandAt DEF TypeOK
    <3> QED
      BY <2>2, <3>1 DEF Administered, Steps
  <2>5. f \notin news[d] /\ (command[d].user # command[c].user \/ f \notin About(c))
    BY <1>2, <1>w, <2>2, <2>4
  <2>6. Has(command[d].user, f) = command[d].set[f]
    BY <2>2, <2>5 DEF ConfirmInv
  <2> QED
    BY <2>1, <2>3, <2>5, <2>6, WrittenHas
<1>3. Truthful(c)'
  <2> SUFFICES ASSUME at'[c] = "reply"
               PROVE  /\ command' = command
                      /\ \A f \in About(c) : Has(command[c].user, f)' = command[c].set[f]
    BY DEF Truthful, About, Has
  <2>1. /\ command' = command
        /\ at[c] = "write" \/ command[c].kind # "setting"
    BY <1>t DEF WritesRow, End, Goto
  <2>2. About(c) \subseteq Fields
    BY CommandAt DEF TypeOK, AboutFields, About
  <2> QED
    BY <1>t, <2>1, <2>2, WrittenHas
<1>4. \A d \in Calls : Truthful(d)'
  BY <1>2, <1>3
<1> QED
  BY <1>1, <1>4 DEF ConfirmInv, Truthful

(* The answer to a command.                                                *)
LEMMA ReplyConfirms ==
  ASSUME TypeOK, ConfirmInv, NEW c \in Calls, Reply(c)
  PROVE  ConfirmedStays'
<1>1. CASE confirmed' = confirmed
  BY <1>1, ConfirmedKept DEF ConfirmInv, Reply
<1>2. CASE confirmed' = [confirmed EXCEPT ![command[c].user] =
               [f \in Fields |-> IF f \in About(c) \ news[c]
                                 THEN command[c].set[f] ELSE confirmed[command[c].user][f]]]
  <2>1. rows' = rows /\ at[c] = "reply"
    BY DEF Reply
  <2>2. DOMAIN confirmed = Users /\ command[c].user \in Users
    BY <2>1, CommandAt DEF TypeOK, HistoryTypeOK
  <2>3. \A u \in Users, f \in Fields :
          \/ confirmed'[u][f] = confirmed[u][f]
          \/ /\ u = command[c].user /\ f \in About(c) \ news[c]
             /\ confirmed'[u][f] = command[c].set[f]
    BY <1>2, <2>2
  <2>4. ASSUME NEW u \in Users, NEW f \in Fields, confirmed'[u][f] # None
        PROVE  Has(u, f) = confirmed'[u][f]
    <3>1. CASE confirmed'[u][f] = confirmed[u][f]
      BY <2>4, <3>1 DEF ConfirmInv, ConfirmedStays
    <3>2. CASE /\ u = command[c].user /\ f \in About(c) \ news[c]
               /\ confirmed'[u][f] = command[c].set[f]
      BY <2>1, <3>2 DEF ConfirmInv
    <3> QED
      BY <2>3, <3>1, <3>2
  <2>5. \A u \in Users, f \in Fields : Has(u, f)' = Has(u, f)
    BY <2>1 DEF Has
  <2> QED
    BY <2>4, <2>5 DEF ConfirmedStays
<1> QED
  BY <1>1, <1>2 DEF Reply

LEMMA InitConfirms == Init => ConfirmInv
BY DEF Init, ConfirmInv, ConfirmedStays, Unheard

LEMMA ConfirmStep == TypeOK /\ ConfirmInv /\ [Next]_vars => ConfirmInv'
<1> SUFFICES ASSUME TypeOK, ConfirmInv, [Next]_vars PROVE ConfirmInv'
  OBVIOUS
<1>1. ASSUME NEW c \in Calls,
             \/ Receive(c) \/ Administer(c) \/ ReplyFails(c) \/ QueryFails(c)
             \/ Lookup(c) \/ ReadOwn(c) \/ SelectRandom(c) \/ CheckWorkspace(c)
             \/ CheckUnique(c) \/ GetById(c) \/ replyQuietly(c)
      PROVE  ConfirmInv'
  <2>1. UNCHANGED <<rows, confirmed>>
    BY <1>1 DEF Receive, Administer, Begin, ReplyFails, QueryFails, Lookup, ReadOwn,
       SelectRandom, CheckWorkspace, CheckUnique, GetById, replyQuietly
  <2>2. ConfirmedStays'
    BY <2>1, ConfirmedKept DEF ConfirmInv
  <2>3. OthersStay(c)
    BY <1>1, Aside
  <2>4. Truthful(c)'
    BY <1>1, AsideTruthful
  <2> QED
    BY <2>1, <2>2, <2>3, <2>4, AsideKeeps
<1>2. ASSUME NEW c \in Calls, Reply(c) PROVE ConfirmInv'
  <2>1. rows' = rows
    BY <1>2 DEF Reply
  <2> QED
    BY <1>2, <2>1, Aside, AsideTruthful, AsideKeeps, ReplyConfirms
<1>3. ASSUME NEW c \in Calls, Insert(c) \/ Write(c) PROVE ConfirmInv'
  <2>1. CASE WritesRow(c)
    BY <2>1, WriteConfirms
  <2>2. CASE Throw(c) /\ UNCHANGED <<rows, confirmed>>
    <3>1. ConfirmedStays'
      BY <2>2, ConfirmedKept DEF ConfirmInv
    <3> QED
      BY <2>2, <3>1, Aside, AsideTruthful, AsideKeeps
  <2> QED
    BY <1>3, <2>1, <2>2, WritesOrThrows
<1>4. CASE Lost
  <2>1. /\ UNCHANGED <<rows, confirmed>> /\ at' = [c \in Calls |-> "idle"]
    BY <1>4 DEF Lost
  <2>2. ConfirmedStays'
    BY <2>1, ConfirmedKept DEF ConfirmInv
  <2> QED
    BY <2>1, <2>2 DEF ConfirmInv
<1>5. CASE Purge
  <2>1. /\ confirmed' = [u \in Users |-> Unheard]
        /\ news' = [c \in Calls |-> IF Administered(c) THEN {} ELSE About(c)]
        /\ UNCHANGED calls
    BY <1>5 DEF Purge
  <2>2. ConfirmedStays'
    BY <2>1 DEF ConfirmedStays, Unheard
  <2>3. \A c \in Calls : at[c] = "reply" => ~Administered(c)
    BY CommandAt DEF TypeOK, Administered, Steps
  <2>4. \A c \in Calls : at'[c] = "reply" => About(c)' \ news'[c] = {}
    BY <2>1, <2>3 DEF calls, About
  <2> QED
    BY <2>2, <2>4 DEF ConfirmInv
<1>6. CASE UNCHANGED <<rows, confirmed, news, calls>>
  <2>1. ConfirmedStays'
    BY <1>6, ConfirmedKept DEF ConfirmInv
  <2>2. ASSUME NEW c \in Calls PROVE Truthful(c)'
    BY <1>6 DEF ConfirmInv, Truthful, Has, About, calls
  <2> QED
    BY <2>1, <2>2 DEF ConfirmInv, Truthful
<1> QED
  BY <1>1, <1>2, <1>3, <1>4, <1>5, <1>6
  DEF Next, CallStep, LookupFails, FindDue, Deliver, Restart, Deactivate, Reactivate, history, vars

(* What a person is told of a field is true, and stays so until somebody   *)
(* writes that field (src/slack-events/slack-events.service.ts,            *)
(* src/subscribers/subscribers.service.ts).                                *)
THEOREM ToldIsTrue == Spec => []ConfirmedStays
<1>1. ConfirmInv => ConfirmedStays
  BY DEF ConfirmInv
<1> QED
  BY <1>1, InitConfirms, ConfirmStep, TypeCorrect, PTL DEF Spec

-----------------------------------------------------------------------------
(* Who is due.                                                             *)

LEMMA InitAsked == Init => AskedInv
BY DEF Init, AskedInv, isDue, StreamInit, NoCommand, Command, Nothing, Activates

LEMMA NoCommandActivates == ~Activates(NoCommand)
BY NoCommandShape DEF Activates

(* A step that only begins or ends calls, or changes rows by one of them.  *)
LEMMA AskedKept ==
  ASSUME TypeOK, AskedInv, workspace' = workspace, asked \subseteq asked',
         \A u \in Users : rows'[u] = rows[u] \/ (workspace # "gone" /\ (isDue(u)' => u \in asked)),
         \A c \in Calls : Activates(command'[c]) =>
           command'[c] = command[c] \/ command'[c].user \in asked'
  PROVE  AskedInv'
<1>1. \A u \in Users : isDue(u)' => u \in asked'
  BY DEF AskedInv, isDue
<1>2. workspace' = "gone" => \A u \in Users : rows'[u] = None
  BY DEF AskedInv
<1>3. workspace' # "gone" => \A c \in Calls : Activates(command'[c]) => command'[c].user \in asked'
  BY DEF AskedInv
<1> QED
  BY <1>1, <1>2, <1>3 DEF AskedInv, Activates

LEMMA WriteAsked ==
  ASSUME TypeOK, AskedInv, NEW c \in Calls, WritesRow(c)
  PROVE  \A u \in Users : rows'[u] = rows[u] \/ (workspace # "gone" /\ (isDue(u)' => u \in asked))
<1>1. /\ command[c].user \in Users /\ rows \in [Users -> Row \cup {None}]
      /\ AboutFields(command[c].set)
  BY CommandAt DEF TypeOK, RowsTypeOK, WritesRow
<1>g. workspace # "gone"
  <2>1. CASE at[c] = "write"
    BY <1>1, <2>1 DEF WritesRow, AskedInv, IsNew, RowOf
  <2>2. CASE at[c] = "insert"
    BY <2>2 DEF WritesRow
  <2> QED
    BY <2>1, <2>2 DEF WritesRow
<1>2. Activates(command[c]) => command[c].user \in asked
  BY <1>g DEF AskedInv
<1>3. ASSUME NEW u \in Users, u = command[c].user, isDue(u)', at[c] = "insert", IsNew(c),
             rows'[u] = Created(c)
      PROVE  u \in asked
  <2>1. "isActive" \in About(c) /\ Wanted(c)
    <3>1. Created(c).isActive
      BY <1>3 DEF isDue
    <3> QED
      BY <3>1 DEF Created
  <2> QED
    BY <1>2, <1>3, <2>1 DEF About, Wanted, Activates
<1>4. ASSUME NEW u \in Users, u = command[c].user, isDue(u)', at[c] = "write", ~IsNew(c),
             rows'[u] = Updated(c)
      PROVE  u \in asked
  <2>1. RowOf(c) \in Row
    BY <1>1, <1>4 DEF IsNew, RowOf
  <2>2. Updated(c).isActive = IF "isActive" \in About(c) THEN command[c].set.isActive
                              ELSE RowOf(c).isActive
    BY <2>1, UpdatedRow DEF Fields, TypeOK
  <2>3. CASE "isActive" \in About(c)
    BY <1>2, <1>4, <2>2, <2>3 DEF About, Activates, isDue
  <2>4. CASE "isActive" \notin About(c)
    <3>1. isDue(u)
      BY <1>4, <2>2, <2>4 DEF isDue, RowOf, IsNew
    <3> QED
      BY <3>1 DEF AskedInv
  <2> QED
    BY <2>3, <2>4
<1>5. \A u \in Users :
        \/ rows'[u] = rows[u]
        \/ /\ u = command[c].user
           /\ \/ at[c] = "insert" /\ IsNew(c) /\ rows'[u] = Created(c)
              \/ at[c] = "write" /\ ~IsNew(c) /\ rows'[u] = Updated(c)
  BY <1>1 DEF WritesRow
<1> QED
  BY <1>g, <1>3, <1>4, <1>5

LEMMA BegunAsked ==
  ASSUME TypeOK, AskedInv, NEW c \in Calls,
         NEW new \in UserCommands \cup AdminCommands, NEW s, Begin(c, new, s)
  PROVE  AskedInv'
<1>1. /\ command' = [command EXCEPT ![c] = new] /\ UNCHANGED <<workspace, rows>>
      /\ asked' = IF Activates(new) THEN asked \cup {new.user} ELSE asked
  BY DEF Begin
<1>2. \A d \in Calls : command'[d] = IF d = c THEN new ELSE command[d]
  BY <1>1 DEF TypeOK, CommandTypeOK
<1>3. asked \subseteq asked' /\ (Activates(new) => new.user \in asked')
  BY <1>1
<1>4. \A d \in Calls : Activates(command'[d]) =>
        command'[d] = command[d] \/ command'[d].user \in asked'
  BY <1>2, <1>3
<1> QED
  BY <1>1, <1>3, <1>4, AskedKept

LEMMA AskedStep == TypeOK /\ AskedInv /\ [Next]_vars => AskedInv'
<1> SUFFICES ASSUME TypeOK, AskedInv, [Next]_vars PROVE AskedInv'
  OBVIOUS
<1>1. ASSUME NEW c \in Calls, Receive(c) \/ Administer(c) PROVE AskedInv'
  BY <1>1, BegunAsked DEF Receive, Administer
<1>e. ASSUME NEW c \in Calls, End(c)
      PROVE  \A d \in Calls : Activates(command'[d]) => command'[d] = command[d]
  <2>1. \A d \in Calls : command'[d] = IF d = c THEN NoCommand ELSE command[d]
    BY <1>e DEF End, TypeOK, CommandTypeOK
  <2> QED
    BY <2>1, NoCommandActivates
<1>2. ASSUME NEW c \in Calls,
             \/ ReplyFails(c) \/ QueryFails(c)
             \/ Lookup(c) \/ ReadOwn(c) \/ SelectRandom(c) \/ CheckWorkspace(c)
             \/ CheckUnique(c) \/ GetById(c) \/ Reply(c) \/ replyQuietly(c)
      PROVE  AskedInv'
  <2>1. UNCHANGED <<workspace, rows, asked>>
    BY <1>2 DEF ReplyFails, QueryFails, Lookup, ReadOwn, SelectRandom, CheckWorkspace,
       CheckUnique, GetById, Reply, replyQuietly, Rest
  <2>2. command' = command \/ End(c)
    BY <1>2 DEF ReplyFails, QueryFails, Lookup, ReadOwn, SelectRandom, CheckWorkspace,
       CheckUnique, GetById, Reply, replyQuietly, Throw, Proceed
  <2>3. \A d \in Calls : Activates(command'[d]) => command'[d] = command[d]
    BY <2>2, <1>e
  <2> QED
    BY <2>1, <2>3, AskedKept
<1>3. ASSUME NEW c \in Calls, Insert(c) \/ Write(c) PROVE AskedInv'
  <2>1. CASE WritesRow(c)
    <3>1. workspace' = workspace /\ asked' = asked /\ (End(c) \/ command' = command)
      BY <2>1 DEF WritesRow
    <3>2. \A d \in Calls : Activates(command'[d]) => command'[d] = command[d]
      BY <3>1, <1>e
    <3> QED
      BY <2>1, <3>1, <3>2, WriteAsked, AskedKept
  <2>2. CASE Throw(c) /\ UNCHANGED <<workspace, asked, rows, confirmed>>
    <3>1. command' = command \/ End(c)
      BY <2>2 DEF Throw, Proceed
    <3>2. \A d \in Calls : Activates(command'[d]) => command'[d] = command[d]
      BY <3>1, <1>e
    <3> QED
      BY <2>2, <3>2, AskedKept
  <2> QED
    BY <1>3, <2>1, <2>2, WritesOrThrows
<1>4. CASE Lost
  <2>1. /\ UNCHANGED <<workspace, rows, asked>>
        /\ command' = [c \in Calls |-> NoCommand]
    BY <1>4 DEF Lost
  <2>2. \A d \in Calls : ~Activates(command'[d])
    BY <2>1, NoCommandActivates
  <2> QED
    BY <2>1, <2>2, AskedKept
<1>5. CASE Purge
  <2>1. workspace' = "gone" /\ \A u \in Users : rows'[u] = None
    BY <1>5 DEF Purge
  <2> QED
    BY <2>1 DEF AskedInv, isDue
<1>6. CASE Deactivate \/ Reactivate
  BY <1>6 DEF Deactivate, Reactivate, AskedInv, isDue, calls, history
<1>7. CASE UNCHANGED <<workspace, rows, calls, asked>>
  BY <1>7, AskedKept DEF calls
<1>8. CASE StreamStep /\ UNCHANGED <<rows, due, calls, faults, history>>
  <2>1. UNCHANGED <<workspace, asked>>
    BY <1>8 DEF StreamStep, UpdateStream, CreateStream, SetEnabled, StreamCall,
       WriteCreated, WriteUpdated, WriteEnabled, history
  <2> QED
    BY <1>7, <1>8, <2>1
<1> QED
  BY <1>1, <1>2, <1>3, <1>4, <1>5, <1>6, <1>7, <1>8
  DEF Next, CallStep, LookupFails, FindDue, Deliver, Restart, history, vars

(* A tick finds due only who subscribed, or was activated by an            *)
(* administrator, and has not been told that he is unsubscribed            *)
(* (src/subscribers/subscribers.repository.ts, the query of the tick).     *)
LEMMA DueStep ==
  TypeOK /\ ConfirmInv /\ AskedInv /\ [Next]_vars =>
    [\A u \in due' \ due : u \in asked /\ confirmed[u].isActive # FALSE]_vars
<1> SUFFICES ASSUME TypeOK, ConfirmInv, AskedInv, [Next]_vars, NEW u \in due' \ due
             PROVE  u \in asked /\ confirmed[u].isActive # FALSE
  OBVIOUS
<1>1. CASE FindDue
  <2>1. isDue(u)
    BY <1>1 DEF FindDue
  <2>2. u \in Users
    BY <1>1 DEF FindDue
  <2>3. u \in asked
    BY <2>1, <2>2 DEF AskedInv
  <2>4. "isActive" \in Fields /\ FALSE # None
    BY DEF Fields, FieldRange
  <2>5. Has(u, "isActive") = TRUE
    BY <2>1, <2>2 DEF isDue, Has, TypeOK, RowsTypeOK, Row
  <2> QED
    BY <2>2, <2>3, <2>4, <2>5 DEF ConfirmInv, ConfirmedStays
<1>2. FindDue
  BY DEF Next, Receive, Administer, Begin, CallStep, Lookup, ReadOwn, SelectRandom,
     CheckWorkspace, CheckUnique, Insert, GetById, Write, Reply, replyQuietly, ReplyFails,
     LookupFails, QueryFails, Deliver, Restart, Lost, Deactivate, Reactivate, Purge,
       Rest, vars
<1> QED
  BY <1>1, <1>2

(* "/settings must never implicitly subscribe someone"                     *)
(* (src/slack-events/slack-events.service.ts:534): a tick finds nobody due *)
(* who has neither subscribed nor been activated by an administrator, and  *)
(* nobody who has been told that he is unsubscribed.                       *)
THEOREM NobodyElseIsDue == Spec => OnlyTheWillingAreDue
<1>1. TypeOK /\ ConfirmInv /\ AskedInv /\ [Next]_vars =>
        [\A u \in due' \ due : u \in asked /\ confirmed[u].isActive # FALSE]_vars
  BY DueStep
<1> QED
  BY <1>1, InitConfirms, ConfirmStep, InitAsked, AskedStep, TypeCorrect, PTL
  DEF Spec, OnlyTheWillingAreDue

-----------------------------------------------------------------------------
(* Why commands fail.                                                      *)

LEMMA StreamsStayPut == StreamStep => workspace' = workspace
<1>1. ASSUME NEW a \in Admins, NEW request, NEW e, CreateStream(a, request, e)
      PROVE  workspace' = workspace
  BY <1>1 DEF CreateStream
<1> QED
  BY <1>1 DEF StreamStep, UpdateStream, SetEnabled, StreamCall, WriteCreated, WriteUpdated,
     WriteEnabled

LEMMA GroundedKept ==
  ASSUME NEW d \in Calls, Grounded(d), at'[d] = at[d], command'[d] = command[d],
         Caused(d) => Caused(d)', Overturned(d) => Overturned(d)',
         (IsNew(d)' <=> IsNew(d)) \/ (~Administered(d) => Overturned(d)')
  PROVE  Grounded(d)'
<1>1. Administered(d)' <=> Administered(d)
  BY DEF Administered
<1> QED
  BY <1>1 DEF Grounded

(* A step of one call that writes no row leaves the others grounded.       *)
LEMMA OthersGrounded ==
  ASSUME CauseInv, NEW c \in Calls, OthersStay(c), UNCHANGED <<workspace, rows>>,
         \A d \in Calls \ {c} : excuse'[d] = excuse[d],
         Grounded(c)'
  PROVE  CauseInv'
<1>1. ASSUME NEW d \in Calls \ {c} PROVE Grounded(d)'
  <2>1. at'[d] = at[d] /\ command'[d] = command[d]
    BY DEF OthersStay
  <2>2. /\ Caused(d) => Caused(d)'
        /\ Overturned(d) => Overturned(d)'
        /\ IsNew(d)' <=> IsNew(d)
    BY <2>1 DEF Caused, Overturned, IsNew, RowOf
  <2> QED
    BY <2>1, <2>2, GroundedKept DEF CauseInv
<1> QED
  BY <1>1 DEF CauseInv

(* An exception in a call that is not an administrator's has a cause.      *)
LEMMA ThrowGrounded ==
  ASSUME TypeOK, CauseInv, NEW c \in Calls, Throw(c), UNCHANGED <<workspace, rows>>,
         ~Administered(c) => Caused(c)
  PROVE  CauseInv'
<1>0. /\ DOMAIN at = Calls /\ DOMAIN command = Calls /\ DOMAIN excuse = Calls
  BY DEF TypeOK, CommandTypeOK, HistoryTypeOK
<1>1. OthersStay(c)
  BY Aside
<1>2. \A d \in Calls \ {c} : excuse'[d] = excuse[d]
  BY <1>0 DEF Throw, Proceed, Forget
<1>3. Grounded(c)'
  <2>1. CASE Administered(c)
    BY <1>0, <2>1 DEF Throw, End, Goto, Grounded
  <2>2. CASE ~Administered(c)
    <3>1. at'[c] = "failure" /\ excuse' = excuse
      BY <1>0, <2>2 DEF Throw, Proceed, Goto
    <3> QED
      BY <2>2, <3>1 DEF Caused, Grounded
  <2> QED
    BY <2>1, <2>2
<1> QED
  BY <1>1, <1>2, <1>3, OthersGrounded

(* The steps that write no row.                                            *)
LEMMA AsideGrounded ==
  ASSUME TypeOK, CauseInv, NEW c \in Calls,
         \/ Receive(c) \/ Administer(c) \/ ReplyFails(c) \/ QueryFails(c)
         \/ Lookup(c) \/ ReadOwn(c) \/ SelectRandom(c) \/ CheckWorkspace(c)
         \/ CheckUnique(c) \/ GetById(c) \/ Reply(c) \/ replyQuietly(c)
  PROVE  CauseInv'
<1>0. /\ DOMAIN at = Calls /\ DOMAIN command = Calls /\ DOMAIN excuse = Calls
  BY DEF TypeOK, CommandTypeOK, HistoryTypeOK
<1>1. OthersStay(c)
  BY Aside
<1>2. UNCHANGED <<workspace, rows>>
  BY DEF Receive, Administer, Begin, ReplyFails, QueryFails, Lookup, ReadOwn, SelectRandom,
     CheckWorkspace, CheckUnique, GetById, Reply, replyQuietly, Rest
<1>3. \/ excuse' = excuse
      \/ \E b : excuse' = [excuse EXCEPT ![c] = b]
  BY DEF Receive, Administer, Begin, ReplyFails, QueryFails, Lookup, ReadOwn, SelectRandom,
     CheckWorkspace, CheckUnique, GetById, Reply, replyQuietly, Throw, Forget, Proceed
<1>4. \A d \in Calls \ {c} : excuse'[d] = excuse[d]
  BY <1>0, <1>3
<1>5. Grounded(c)'
  <2>1. CASE Receive(c)
    <3>1. at'[c] = "lookup"
      BY <1>0, <2>1 DEF Receive, Begin, Goto
    <3> QED
      BY <3>1 DEF Grounded
  <2>2. CASE Administer(c)
    <3>1. PICK new \in AdminCommands : command' = [command EXCEPT ![c] = new]
      BY <2>2 DEF Administer, Begin
    <3>2. command'[c] = new
      BY <1>0, <3>1
    <3> QED
      BY <3>2, AdminCommandShape DEF Grounded, Administered
  <2>3. CASE ReplyFails(c) \/ (QueryFails(c) /\ ~Administered(c))
    <3>1. at'[c] = "failure" /\ excuse'[c] = TRUE
      BY <1>0, <2>3 DEF ReplyFails, QueryFails, Goto
    <3> QED
      BY <3>1 DEF Grounded, Overturned, Caused
  <2>4. CASE ReadOwn(c)
    <3>1. command' = command
      BY <2>4 DEF ReadOwn
    <3>2. /\ at'[c] \in {"workspace", "unique", "insert"} => IsNew(c)
          /\ at'[c] \in {"existing", "write"} => ~IsNew(c)
          /\ at'[c] # "failure"
      <4>1. /\ command[c].kind \in {"toggle", "setting", "show", "hint", "instant", "none",
                                    "create", "update"}
            /\ at[c] = "read" /\ at[c] \in Steps[command[c].kind]
        BY <2>4, CommandAt DEF TypeOK, ReadOwn
      <4>2. command[c].kind \in {"toggle", "setting", "show", "instant"}
        BY <4>1 DEF Steps
      <4>3. \/ at'[c] = applyToggle(c) \/ at'[c] = getOrCreateSubscriber(c)
            \/ at'[c] = "reply" \/ at'[c] = "select"
        BY <1>0, <2>4, <4>2 DEF ReadOwn, Goto
      <4> QED
        BY <4>3 DEF applyToggle, getOrCreateSubscriber
    <3>3. IsNew(c)' <=> IsNew(c)
      BY <1>2, <3>1 DEF IsNew, RowOf
    <3> QED
      BY <3>2, <3>3 DEF Grounded
  <2>g. Grounded(c)
    BY DEF CauseInv
  <2>5. CASE CheckWorkspace(c) \/ CheckUnique(c) \/ GetById(c)
    <3>1. CASE /\ command' = command /\ excuse' = excuse
               /\ \/ at[c] = "workspace" /\ at'[c] = "unique"
                  \/ at[c] = "unique" /\ at'[c] = "insert" /\ IsNew(c)
                  \/ at[c] = "existing" /\ at'[c] = "write" /\ ~IsNew(c)
      <4>1. /\ IsNew(c)' <=> IsNew(c)
            /\ Caused(c)' <=> Caused(c)
            /\ Overturned(c)' <=> Overturned(c)
            /\ Administered(c)' <=> Administered(c)
        BY <1>2, <3>1 DEF IsNew, RowOf, Caused, Overturned, Administered
      <4> QED
        BY <3>1, <2>g, <4>1 DEF Grounded
    <3>2. CASE Throw(c)
      <4>1. \/ at[c] = "workspace" /\ workspace = "gone"
            \/ at[c] = "unique" /\ ~IsNew(c)
            \/ at[c] = "existing" /\ IsNew(c)
            \/ at'[c] # "failure"
        BY <1>0, <2>5 DEF CheckWorkspace, CheckUnique, GetById, Proceed, Goto
      <4>2. at'[c] = "failure" => Caused(c) \/ Administered(c)
        BY <2>g, <4>1 DEF Grounded, Overturned, Caused
      <4> QED
        BY <1>0, <1>1, <1>2, <3>2, <4>2 DEF Throw, Proceed, End, Goto, Grounded, Overturned, Caused
    <3> QED
      BY <1>0, <2>5, <3>1, <3>2 DEF CheckWorkspace, CheckUnique, GetById, Proceed, Goto
  <2>7. CASE Reply(c)
    <3>1. at'[c] = "idle" \/ (at'[c] = "failure" /\ workspace # "active")
      BY <1>0, <2>7 DEF Reply, Throw, Proceed, End, Goto
    <3> QED
      BY <1>2, <3>1 DEF Grounded, Overturned, Caused
  <2>6. CASE \/ Lookup(c) \/ SelectRandom(c) \/ replyQuietly(c)
             \/ (QueryFails(c) /\ Administered(c))
    <3>1. at'[c] \in {"idle", "reply", "read"}
      BY <1>0, <2>6 DEF Lookup, SelectRandom, replyQuietly, QueryFails, End, Proceed, Goto
    <3> QED
      BY <3>1 DEF Grounded
  <2> QED
    BY <2>1, <2>2, <2>3, <2>4, <2>5, <2>6, <2>7
<1> QED
  BY <1>1, <1>2, <1>4, <1>5, OthersGrounded

(* A call that writes a row: the others of this person have a cause now,   *)
(* or find the row they found.                                             *)
LEMMA WriteGrounded ==
  ASSUME TypeOK, CauseInv, NEW c \in Calls, Insert(c) \/ Write(c), WritesRow(c)
  PROVE  CauseInv'
<1>0. /\ DOMAIN at = Calls /\ DOMAIN command = Calls /\ DOMAIN excuse = Calls
      /\ command[c].user \in Users /\ rows \in [Users -> Row \cup {None}]
  BY CommandAt DEF TypeOK, CommandTypeOK, HistoryTypeOK, RowsTypeOK, WritesRow
<1>1. workspace' = workspace
  BY DEF WritesRow
<1>r. /\ rows'[command[c].user] # None
      /\ \A u \in Users \ {command[c].user} : rows'[u] = rows[u]
  <2>1. CASE at[c] = "insert" /\ rows' = [rows EXCEPT ![command[c].user] = Created(c)]
    BY <1>0, <2>1, CreatedRow DEF TypeOK
  <2>2. CASE ~IsNew(c) /\ rows' = [rows EXCEPT ![command[c].user] = Updated(c)]
    <3>1. RowOf(c) \in Row
      BY <1>0, <2>2 DEF IsNew, RowOf
    <3>2. Updated(c) \in Row
      BY <3>1, UpdatedRow DEF TypeOK
    <3> QED
      BY <1>0, <2>2, <3>2
  <2> QED
    BY <2>1, <2>2 DEF WritesRow
<1>2. ASSUME NEW d \in Calls, d # c PROVE Grounded(d)'
  <2>1. at'[d] = at[d] /\ command'[d] = command[d]
    BY <1>0, <1>2 DEF WritesRow, End, Goto
  <2>2. CASE at[d] = "idle"
    BY <2>1, <2>2 DEF Grounded
  <2>3. CASE at[d] # "idle"
    <3>1. command[d].user \in Users
      BY <2>3, CommandAt DEF TypeOK
    <3>2. excuse[d] => excuse'[d]
      BY <1>0, <1>2 DEF Insert, Write, Throw, Forget, Proceed
    <3>3. (Caused(d) => Caused(d)') /\ (Overturned(d) => Overturned(d)')
      BY <1>1, <3>2 DEF Caused, Overturned
    <3>4. (IsNew(d)' <=> IsNew(d)) \/ (~Administered(d) => excuse'[d])
      <4>1. CASE command[d].user # command[c].user
        BY <1>r, <2>1, <3>1, <4>1 DEF IsNew, RowOf
      <4>2. CASE command[d].user = command[c].user /\ Insert(c)
        BY <1>0, <1>2, <4>2 DEF Insert, WritesRow
      <4>3. CASE command[d].user = command[c].user /\ Write(c)
        BY <1>r, <2>1, <4>3 DEF IsNew, RowOf, Write
      <4> QED
        BY <4>1, <4>2, <4>3
    <3> QED
      BY <2>1, <3>3, <3>4, GroundedKept DEF CauseInv, Overturned
  <2> QED
    BY <2>2, <2>3
<1>3. Grounded(c)'
  <2>1. CASE at'[c] = "existing"
    <3>1. command' = command
      BY <1>0, <2>1 DEF WritesRow, End, Goto
    <3> QED
      BY <1>r, <2>1, <3>1 DEF Grounded, IsNew, RowOf
  <2>2. CASE at'[c] # "existing"
    <3>1. at'[c] \in {"idle", "reply"}
      BY <1>0, <2>2 DEF WritesRow, End, Goto
    <3> QED
      BY <3>1 DEF Grounded
  <2> QED
    BY <2>1, <2>2
<1> QED
  BY <1>2, <1>3 DEF CauseInv

LEMMA InitGrounded == Init => CauseInv
BY DEF Init, CauseInv, Grounded

LEMMA CauseStep == TypeOK /\ CauseInv /\ [Next]_vars => CauseInv'
<1> SUFFICES ASSUME TypeOK, CauseInv, [Next]_vars PROVE CauseInv'
  OBVIOUS
<1>1. ASSUME NEW c \in Calls,
             \/ Receive(c) \/ Administer(c) \/ ReplyFails(c) \/ QueryFails(c)
             \/ Lookup(c) \/ ReadOwn(c) \/ SelectRandom(c) \/ CheckWorkspace(c)
             \/ CheckUnique(c) \/ GetById(c) \/ Reply(c) \/ replyQuietly(c)
      PROVE  CauseInv'
  BY <1>1, AsideGrounded
<1>2. ASSUME NEW c \in Calls, Insert(c) \/ Write(c) PROVE CauseInv'
  <2>1. CASE WritesRow(c)
    BY <1>2, <2>1, WriteGrounded
  <2>2. CASE ~WritesRow(c)
    <3>1. Throw(c) /\ UNCHANGED <<workspace, rows>>
      BY <1>2, <2>2, WritesOrThrows
    <3>2. ~Administered(c) => Caused(c)
      <4>1. Grounded(c)
        BY DEF CauseInv
      <4>2. CASE Insert(c)
        <5>1. workspace = "gone" \/ ~IsNew(c)
          BY <2>2, <4>2 DEF Insert, WritesRow, Rest
        <5> QED
          BY <4>1, <4>2, <5>1 DEF Grounded, Insert, Overturned, Caused
      <4>3. CASE Write(c)
        <5>1. IsNew(c)
          BY <2>2, <4>3 DEF Write, WritesRow, Rest
        <5> QED
          BY <4>1, <4>3, <5>1 DEF Grounded, Write, Overturned, Caused
      <4> QED
        BY <1>2, <4>2, <4>3
    <3> QED
      BY <3>1, <3>2, ThrowGrounded
  <2> QED
    BY <2>1, <2>2
<1>3. CASE Lost
  BY <1>3 DEF Lost, CauseInv, Grounded
<1>4. CASE Deactivate \/ Purge
  <2>1. CASE Deactivate
    BY <2>1 DEF Deactivate, CauseInv, Grounded, Overturned, Caused, Administered, IsNew,
       RowOf, calls, history
  <2>2. CASE Purge
    BY <2>2 DEF Purge, CauseInv, Grounded, Overturned, Caused, Administered, calls
  <2> QED
    BY <1>4, <2>1, <2>2
<1>5. CASE Reactivate
  <2>1. excuse' = [c \in Calls |-> excuse[c] \/ at[c] = "failure"]
    BY <1>5 DEF Reactivate
  <2>2. workspace = "inactive" /\ UNCHANGED <<rows, at, command>>
    BY <1>5 DEF Reactivate, calls
  <2> QED
    BY <2>1, <2>2 DEF CauseInv, Grounded, Overturned, Caused, Administered, IsNew, RowOf
<1>6. ASSUME UNCHANGED <<workspace, rows, calls, excuse>> PROVE CauseInv'
  BY <1>6 DEF CauseInv, Grounded, Overturned, Caused, Administered, IsNew, RowOf, calls
<1>7. CASE StreamStep /\ UNCHANGED <<rows, due, calls, faults, history>>
  BY <1>6, <1>7, StreamsStayPut DEF history
<1> QED
  BY <1>1, <1>2, <1>3, <1>4, <1>5, <1>6, <1>7
  DEF Next, CallStep, LookupFails, FindDue, Deliver, Restart, history, vars

(* A command fails only if a query or message of it failed, another        *)
(* created the row it was to create, or the workspace was not active:      *)
(* two people's, or one person's, overlapping commands never make one      *)
(* another fail otherwise (src/slack-events/slack-events.service.ts).      *)
THEOREM FailuresHaveCauses == Spec => []FailureHasCause
<1>1. TypeOK /\ CauseInv => FailureHasCause
  <2> SUFFICES ASSUME TypeOK, CauseInv, NEW c \in Calls, at[c] = "failure"
               PROVE  excuse[c] \/ workspace # "active"
    BY DEF FailureHasCause
  <2>1. ~Administered(c)
    <3>1. at[c] \in Steps[command[c].kind]
      BY CommandAt DEF TypeOK
    <3> QED
      BY <3>1 DEF Administered, Steps
  <2> QED
    BY <2>1 DEF CauseInv, Grounded, Overturned, Caused
<1> QED
  BY <1>1, InitGrounded, CauseStep, TypeCorrect, PTL DEF Spec

-----------------------------------------------------------------------------
(* Repeated commands.                                                      *)

(* A step of one call that writes no row leaves the others something to do. *)
LEMMA OthersHaveTo ==
  ASSUME RepeatInv, NEW c \in Calls, OthersStay(c), rows' = rows, HasToToggle(c)'
  PROVE  RepeatInv'
<1>1. ASSUME NEW d \in Calls \ {c} PROVE HasToToggle(d)'
  <2>1. at'[d] = at[d] /\ command'[d] = command[d] /\ news'[d] = news[d]
    BY DEF OthersStay
  <2> QED
    BY <2>1 DEF RepeatInv, HasToToggle, IsNew, RowOf, Wanted
<1> QED
  BY <1>1 DEF RepeatInv

LEMMA AsideHasTo ==
  ASSUME TypeOK, RepeatInv, NEW c \in Calls,
         \/ Receive(c) \/ Administer(c) \/ ReplyFails(c) \/ QueryFails(c)
         \/ Lookup(c) \/ ReadOwn(c) \/ SelectRandom(c) \/ CheckWorkspace(c)
         \/ CheckUnique(c) \/ GetById(c) \/ Reply(c) \/ replyQuietly(c)
         \/ Throw(c),
         rows' = rows
  PROVE  HasToToggle(c)'
<1>0. /\ DOMAIN at = Calls /\ DOMAIN command = Calls /\ DOMAIN news = Calls
  BY DEF TypeOK, CommandTypeOK, HistoryTypeOK
<1>1. CASE Administer(c)
  <2>1. PICK new \in AdminCommands : command' = [command EXCEPT ![c] = new]
    BY <1>1 DEF Administer, Begin
  <2>2. command'[c] = new
    BY <1>0, <2>1
  <2> QED
    BY <2>2, AdminCommandShape DEF HasToToggle
<1>2. CASE ReadOwn(c)
  <2>1. command' = command /\ rows' = rows
    BY <1>2 DEF ReadOwn, Rest
  <2>2. CASE command[c].kind = "toggle"
    <3>1. at'[c] = applyToggle(c)
      BY <1>0, <1>2, <2>2 DEF ReadOwn, Goto
    <3>2. at'[c] \in {"existing", "write"} => ~IsNew(c) /\ RowOf(c).isActive # Wanted(c)
      BY <3>1 DEF applyToggle
    <3> QED
      BY <2>1, <3>2 DEF HasToToggle, IsNew, RowOf, Wanted
  <2>3. CASE command[c].kind # "toggle"
    BY <2>1, <2>3 DEF HasToToggle
  <2> QED
    BY <2>2, <2>3
<1>3. CASE GetById(c) /\ ~Throw(c)
  <2>1. /\ at[c] = "existing"
        /\ command' = command /\ news' = news /\ rows' = rows
    BY <1>3 DEF GetById, Proceed
  <2>2. HasToToggle(c)
    BY DEF RepeatInv
  <2> QED
    BY <2>1, <2>2 DEF HasToToggle, IsNew, RowOf, Wanted
<1>4. CASE \/ Receive(c) \/ ReplyFails(c) \/ QueryFails(c) \/ Lookup(c) \/ SelectRandom(c)
           \/ CheckWorkspace(c) \/ CheckUnique(c) \/ Reply(c) \/ replyQuietly(c) \/ Throw(c)
  <2>1. at'[c] \notin {"existing", "write"}
    BY <1>0, <1>4 DEF Receive, Begin, ReplyFails, QueryFails, Lookup, SelectRandom,
       CheckWorkspace, CheckUnique, Reply, replyQuietly, Throw, Proceed, End, Goto
  <2> QED
    BY <2>1 DEF HasToToggle
<1> QED
  BY <1>1, <1>2, <1>3, <1>4

(* A write of isActive is news to the others, and no other write is one to *)
(* a toggle's.                                                             *)
LEMMA WriteHasTo ==
  ASSUME TypeOK, RepeatInv, NEW c \in Calls, WritesRow(c)
  PROVE  RepeatInv'
<1>0. /\ DOMAIN at = Calls /\ DOMAIN command = Calls
      /\ command[c].user \in Users /\ rows \in [Users -> Row \cup {None}]
  BY CommandAt DEF TypeOK, CommandTypeOK, RowsTypeOK, WritesRow
<1>1. ASSUME NEW d \in Calls, d # c,
             at'[d] \in {"existing", "write"}, command'[d].kind = "toggle", news'[d] = {}
      PROVE  ~IsNew(d)' /\ (RowOf(d).isActive # Wanted(d))'
  <2>1. at'[d] = at[d] /\ command'[d] = command[d]
    BY <1>0, <1>1 DEF WritesRow, End, Goto
  <2>2. /\ command[d].user \in Users /\ About(d) = {"isActive"} /\ ~Administered(d)
    BY <1>1, <2>1, CommandAt DEF TypeOK, Administered
  <2>3. /\ news[d] = {}
        /\ command[d].user # command[c].user \/ "isActive" \notin About(c)
    BY <1>1, <2>2 DEF WritesRow, Tell
  <2>4. ~IsNew(d) /\ RowOf(d).isActive # Wanted(d)
    BY <1>1, <2>1, <2>3 DEF RepeatInv, HasToToggle
  <2>5. CASE command[d].user # command[c].user
    <3>1. rows'[command[d].user] = rows[command[d].user]
      BY <1>0, <2>2, <2>5 DEF WritesRow
    <3> QED
      BY <2>1, <2>4, <3>1 DEF IsNew, RowOf, Wanted
  <2>6. CASE command[d].user = command[c].user
    <3>1. ~IsNew(c) /\ RowOf(c) = RowOf(d)
      BY <2>4, <2>6 DEF IsNew, RowOf
    <3>2. RowOf(c) \in Row
      BY <1>0, <3>1 DEF IsNew, RowOf
    <3>3. rows'[command[d].user] = Updated(c)
      BY <1>0, <2>6, <3>1 DEF WritesRow
    <3>4. Updated(c) \in Row /\ Updated(c).isActive = RowOf(c).isActive
      BY <2>3, <2>6, <3>2, UpdatedRow DEF Fields, TypeOK
    <3> QED
      BY <2>1, <2>4, <3>1, <3>3, <3>4 DEF IsNew, RowOf, Wanted
  <2> QED
    BY <2>3, <2>5, <2>6
<1>2. HasToToggle(c)'
  <2>1. at'[c] \in {"idle", "reply"} \/ (command' = command /\ command[c].kind = "setting")
    BY <1>0 DEF WritesRow, End, Goto
  <2> QED
    BY <2>1 DEF HasToToggle
<1> QED
  BY <1>1, <1>2 DEF RepeatInv, HasToToggle

LEMMA InitRepeats == Init => RepeatInv
BY DEF Init, RepeatInv, HasToToggle

LEMMA RepeatStep == TypeOK /\ RepeatInv /\ [Next]_vars => RepeatInv'
<1> SUFFICES ASSUME TypeOK, RepeatInv, [Next]_vars PROVE RepeatInv'
  OBVIOUS
<1>1. ASSUME NEW c \in Calls,
             \/ Receive(c) \/ Administer(c) \/ ReplyFails(c) \/ QueryFails(c)
             \/ Lookup(c) \/ ReadOwn(c) \/ SelectRandom(c) \/ CheckWorkspace(c)
             \/ CheckUnique(c) \/ GetById(c) \/ Reply(c) \/ replyQuietly(c)
      PROVE  RepeatInv'
  <2>1. rows' = rows
    BY <1>1 DEF Receive, Administer, Begin, ReplyFails, QueryFails, Lookup, ReadOwn,
       SelectRandom, CheckWorkspace, CheckUnique, GetById, Reply, replyQuietly, Rest
  <2> QED
    BY <1>1, <2>1, Aside, AsideHasTo, OthersHaveTo
<1>2. ASSUME NEW c \in Calls, Insert(c) \/ Write(c) PROVE RepeatInv'
  BY <1>2, WritesOrThrows, WriteHasTo, Aside, AsideHasTo, OthersHaveTo
<1>3. CASE Lost
  BY <1>3 DEF Lost, RepeatInv, HasToToggle
<1>4. CASE Purge
  <2>1. /\ news' = [c \in Calls |-> IF Administered(c) THEN {} ELSE About(c)]
        /\ UNCHANGED calls
    BY <1>4 DEF Purge
  <2>2. ASSUME NEW c \in Calls PROVE HasToToggle(c)'
    <3>1. command[c].kind = "toggle" => About(c) = {"isActive"} /\ ~Administered(c)
      BY CommandAt DEF TypeOK, Administered
    <3>2. command[c].kind = "toggle" => news'[c] # {}
      BY <2>1, <3>1
    <3> QED
      BY <2>1, <3>2 DEF HasToToggle, calls
  <2> QED
    BY <2>2 DEF RepeatInv
<1>5. CASE UNCHANGED <<rows, calls, news>>
  BY <1>5 DEF RepeatInv, HasToToggle, IsNew, RowOf, Wanted, calls
<1> QED
  BY <1>1, <1>2, <1>3, <1>4, <1>5
  DEF Next, CallStep, LookupFails, FindDue, Deliver, Restart, Deactivate, Reactivate, history, vars

LEMMA RepeatAction ==
  TypeOK /\ RepeatInv /\ [Next]_vars =>
    [\A c \in Calls :
       at[c] = "write" /\ at'[c] = "reply" /\ command[c].kind = "toggle" /\ news[c] = {}
         => rows'[command[c].user].isActive # RowOf(c).isActive]_vars
<1> SUFFICES ASSUME TypeOK, RepeatInv, [Next]_vars, NEW c \in Calls,
                    at[c] = "write", at'[c] = "reply", command[c].kind = "toggle", news[c] = {}
             PROVE  rows'[command[c].user].isActive # RowOf(c).isActive
  OBVIOUS
<1>0. DOMAIN at = Calls /\ DOMAIN command = Calls
  BY DEF TypeOK, CommandTypeOK
<1>1. Write(c)
  <2>1. ASSUME NEW d \in Calls,
               \/ Receive(d) \/ Administer(d) \/ ReplyFails(d) \/ QueryFails(d)
               \/ Lookup(d) \/ ReadOwn(d) \/ SelectRandom(d) \/ CheckWorkspace(d)
               \/ CheckUnique(d) \/ GetById(d) \/ Reply(d) \/ replyQuietly(d)
        PROVE  FALSE
    <3>1. d = c
      BY <2>1, Aside DEF OthersStay
    <3>2. at'[c] # "reply"
      BY <1>0, <2>1, <3>1 DEF Receive, Administer, Begin, ReplyFails, QueryFails, Lookup,
         ReadOwn, SelectRandom, CheckWorkspace, CheckUnique, GetById, Reply, replyQuietly,
         Goto, End
    <3> QED
      BY <3>2
  <2>2. ASSUME NEW d \in Calls, Insert(d) \/ Write(d) PROVE d = c
    <3>1. CASE WritesRow(d)
      BY <1>0, <3>1 DEF WritesRow, End, Goto
    <3>2. CASE Throw(d)
      BY <3>2, Aside DEF OthersStay
    <3> QED
      BY <2>2, <3>1, <3>2, WritesOrThrows
  <2>3. ~Insert(c)
    BY DEF Insert
  <2>4. CASE Lost
    BY <2>4 DEF Lost
  <2>5. CASE UNCHANGED at
    BY <2>5
  <2> QED
    BY <2>1, <2>2, <2>3, <2>4, <2>5
    DEF Next, CallStep, LookupFails, FindDue, Deliver, Restart, Deactivate, Reactivate,
        Purge, calls, vars
<1>2. /\ command[c].user \in Users /\ About(c) = {"isActive"}
      /\ rows \in [Users -> Row \cup {None}]
  BY CommandAt DEF TypeOK, RowsTypeOK
<1>3. ~IsNew(c) /\ RowOf(c).isActive # Wanted(c)
  BY DEF RepeatInv, HasToToggle
<1>4. rows'[command[c].user] = Updated(c)
  BY <1>1, <1>2, <1>3 DEF Write
<1>5. RowOf(c) \in Row
  BY <1>2, <1>3 DEF IsNew, RowOf
<1>6. Updated(c).isActive = Wanted(c)
  BY <1>2, <1>5, UpdatedRow DEF Fields, TypeOK, Wanted
<1> QED
  BY <1>3, <1>4, <1>6

(* A /subscribe or /unsubscribe that finds what it asks for writes nothing *)
(* (src/slack-events/slack-events.service.ts:279), unless others wrote     *)
(* isActive between its read and its write.                                *)
THEOREM RepeatsWriteNothing == Spec => RepeatWritesNothing
<1>1. TypeOK /\ RepeatInv /\ [Next]_vars =>
        [\A c \in Calls :
           at[c] = "write" /\ at'[c] = "reply" /\ command[c].kind = "toggle" /\ news[c] = {}
             => rows'[command[c].user].isActive # RowOf(c).isActive]_vars
  BY RepeatAction
<1> QED
  BY <1>1, InitRepeats, RepeatStep, TypeCorrect, PTL DEF Spec, RepeatWritesNothing
===============================================================================
