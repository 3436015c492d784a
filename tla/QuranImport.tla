----------------------------- MODULE QuranImport -----------------------------
(***************************************************************************)
(* The import of verses from Quran.Foundation (src/quran-foundation): the  *)
(* loop of QuranImportService.importNext over a saved cursor, the requests *)
(* of QuranFoundationClient it makes, and the access token all of them     *)
(* share (QuranFoundationTokenService).                                    *)
(*                                                                         *)
(* A step is one database query or transaction, or the answer to one HTTP  *)
(* request, with the code up to the next await.                            *)
(***************************************************************************)
EXTENDS Integers, Sequences, FiniteSets

CONSTANTS
  Calls,       \* calls of importNext in flight at once, numbered
  ayahCounts,  \* SURAH_AYAH_COUNTS
  Invalid,     \* verses validateForApproval rejects
  batch,       \* the count each call is given
  WithTafsir,  \* effectiveTafsirId has text
  MaxEvents    \* bound: failed requests and queries, tokens and caches that
               \* expire, denials, restarts and archived items, together

ASSUME QuranAssumption ==
  /\ Calls \subseteq Nat
  /\ ayahCounts \in Seq(Nat \ {0}) /\ ayahCounts # <<>>
  /\ batch \in [Calls -> Nat \ {0}]
  /\ WithTafsir \in BOOLEAN
  /\ MaxEvents \in Nat

Verses == UNION {{s} \X (1..ayahCounts[s]) : s \in DOMAIN ayahCounts}

(* The cursor before the first import. *)
NoVerse == <<0, 0>>

VARIABLES
  saved,     \* QuranImportCursor
  live,      \* ContentItem: rows of each verse that are not ARCHIVED
  denied,    \* Quran.Foundation refuses every token
  token,     \* QuranFoundationTokenService.cached: "good", "dead" when it has
             \* been revoked, "none" when there is none or its expiresAt has
             \* passed
  tafsirs,   \* tafsirsCache holds a list that has not expired
  at,        \* what each call is about to do, or to wait for
  cursor,    \* cursor
  left,      \* count - i
  request,   \* the requests of each call
  events,    \* what counts against MaxEvents
  revoked,   \* history: how often tokens were revoked
  harmed,    \* history: a request or query has failed, or access was denied
  dealt,     \* history: verses ever created, or reported as an error
  raced      \* history: verses created while two calls meant to

caches == <<token, tafsirs>>
rows == <<saved, live>>
call == <<at, cursor, left>>
history == <<dealt, raced, revoked, harmed>>
vars == <<rows, denied, caches, call, request, events, history>>

(* A verse needs the list of tafsirs, its text and its tafsir.  The tafsir *)
(* of a verse that failed goes on, forgotten.                              *)
Kinds == {"list", "verse", "tafsir", "forgotten"}

NoRequest == [step |-> "none", token |-> "none", retry |-> FALSE]

Init ==
  /\ saved = NoVerse
  /\ live = [v \in Verses |-> 0]
  /\ denied = FALSE
  /\ token = "none" /\ tafsirs = FALSE
  /\ at = [c \in Calls |-> "idle"]
  /\ cursor = [c \in Calls |-> NoVerse]
  /\ left = [c \in Calls |-> 0]
  /\ request = [c \in Calls |-> [k \in Kinds |-> NoRequest]]
  /\ events = 0
  /\ dealt = {} /\ raced = {}
  /\ revoked = 0 /\ harmed = FALSE

Event ==
  /\ events < MaxEvents
  /\ events' = events + 1

Harm == Event /\ harmed' = TRUE

-----------------------------------------------------------------------------
(* The sequence of the verses.                                             *)

(* Mutant: the last surah is not the end. *)
nextVerseAfterEnd(v) ==
  IF v = NoVerse THEN <<1, 1>>
  ELSE IF v[2] < ayahCounts[v[1]] THEN <<v[1], v[2] + 1>>
  ELSE <<IF v[1] < Len(ayahCounts) THEN v[1] + 1 ELSE v[1], 1>>

(* The verse after v; after the last one, the first. *)
nextVerseAfter(v) ==
  IF v = NoVerse THEN <<1, 1>>
  ELSE IF v[2] < ayahCounts[v[1]] THEN <<v[1], v[2] + 1>>
  ELSE <<IF v[1] < Len(ayahCounts) THEN v[1] + 1 ELSE 1, 1>>

Upcoming(c) == nextVerseAfter(cursor[c])

-----------------------------------------------------------------------------
(* Access tokens and requests.                                             *)

(* getAccessToken up to its first await: with a cached token the request   *)
(* goes out at once, without one a token is asked for first.               *)
Sent(retry) ==
  [step |-> IF token = "none" THEN "minting" ELSE "sent", token |-> token, retry |-> retry]

Started == Sent(FALSE)

Waiting(c, k, step) == request[c][k].step = step

(* requestToken answers: the token is cached, whatever is there by now, and *)
(* the request goes out with it.                                           *)
Mint(c, k) ==
  /\ Waiting(c, k, "minting")
  /\ token' = "good"
  /\ request' = [request EXCEPT ![c][k] = [@ EXCEPT !.step = "sent", !.token = "good"]]
  /\ UNCHANGED <<rows, denied, tafsirs, call, events, history>>

Accepted(t) == ~denied /\ t = "good"

(* Mutant: the rejected token stays in the cache. *)
RefreshKeeping(c, k) ==
  /\ Waiting(c, k, "sent")
  /\ ~Accepted(request[c][k].token)
  /\ ~request[c][k].retry
  /\ request' = [request EXCEPT ![c][k] = Sent(TRUE)]
  /\ UNCHANGED <<rows, denied, caches, call, events, history>>

(* Mutant: a retry is retried. *)
RefreshAlways(c, k) ==
  /\ Waiting(c, k, "sent")
  /\ ~Accepted(request[c][k].token)
  /\ token' = "none"
  /\ request' = [request EXCEPT ![c][k] = [NoRequest EXCEPT !.step = "minting"]]
  /\ UNCHANGED <<rows, denied, tafsirs, call, events, history>>

(* The first 401: the cached token is dropped, be it the rejected one or   *)
(* a newer one, and another is asked for.                                  *)
Refresh(c, k) ==
  /\ Waiting(c, k, "sent")
  /\ ~Accepted(request[c][k].token)
  /\ ~request[c][k].retry
  /\ token' = "none"
  /\ request' = [request EXCEPT ![c][k] =
                   [step |-> "minting", token |-> "none", retry |-> TRUE]]
  /\ UNCHANGED <<rows, denied, tafsirs, call, events, history>>

-----------------------------------------------------------------------------
(* importNext.                                                             *)

Goto(c, place) == at' = [at EXCEPT ![c] = place]

(* The call ends; a forgotten request of its goes on. *)
Finish(c) ==
  /\ Goto(c, "idle")
  /\ cursor' = [cursor EXCEPT ![c] = NoVerse]
  /\ left' = [left EXCEPT ![c] = 0]

(* A request comes in; the first idle call takes it. *)
Begin(c) ==
  /\ at[c] = "idle"
  /\ \A d \in Calls : d < c => at[d] # "idle"
  /\ Goto(c, "load")
  /\ left' = [left EXCEPT ![c] = batch[c]]
  /\ UNCHANGED <<rows, denied, caches, cursor, request, events, history>>

loadCursor(c) ==
  /\ at[c] = "load"
  /\ Goto(c, "check")
  /\ cursor' = [cursor EXCEPT ![c] = saved]
  /\ UNCHANGED <<rows, denied, caches, left, request, events, history>>

(* The cursor cannot be read or written: importNext throws. *)
Throw(c) ==
  /\ at[c] \in {"load", "save"}
  /\ Harm
  /\ Finish(c)
  /\ UNCHANGED <<rows, denied, caches, request, dealt, raced, revoked>>

(* Mutant: nothing is ever found. *)
NeverImported(v) == FALSE

isAlreadyImported(v) == live[v] > 0

(* getVerse: both requests start at once. *)
Fetch(c) ==
  /\ Goto(c, "fetch")
  /\ request' = [request EXCEPT ![c].list = NoRequest, ![c].verse = Started,
                                ![c].tafsir = IF WithTafsir THEN Started ELSE NoRequest]

(* A verse that is there is skipped; else its fetching begins. *)
Check(c) ==
  /\ at[c] = "check"
  /\ \/ /\ isAlreadyImported(Upcoming(c))
        /\ Goto(c, "save")
        /\ UNCHANGED request
     \/ /\ ~isAlreadyImported(Upcoming(c))
        /\ tafsirs \/ ~WithTafsir
        /\ Fetch(c)
     \/ /\ ~isAlreadyImported(Upcoming(c))
        /\ WithTafsir /\ ~tafsirs
        /\ Goto(c, "list")
        /\ request' = [request EXCEPT ![c].list = Started]
  /\ UNCHANGED <<rows, denied, caches, cursor, left, events, history>>

(* An error ends the verse, not the batch. *)
Report(c) ==
  /\ Goto(c, "save")
  /\ dealt' = dealt \cup {Upcoming(c)}

(* isAlreadyImported throws inside the try. *)
CheckFailed(c) ==
  /\ at[c] = "check"
  /\ Harm
  /\ Report(c)
  /\ UNCHANGED <<rows, denied, caches, cursor, left, request, raced, revoked>>

Pending(r) == r.step \in {"minting", "sent"}

Drop(c, k) == request' = [request EXCEPT ![c][k] = NoRequest]

(* The verse's text and its tafsir, if asked for, are both settled. *)
Fetched(c, k) ==
  /\ Drop(c, k)
  /\ IF \E o \in {"verse", "tafsir"} \ {k} : Pending(request[c][o])
     THEN UNCHANGED at ELSE Goto(c, "create")

(* A request of kind k is answered well.  The list is kept for an hour. *)
Arrive(c, k) ==
  /\ CASE k = "list" -> Fetch(c)
       [] k \in {"verse", "tafsir"} -> Fetched(c, k)
       [] k = "forgotten" -> Drop(c, k) /\ UNCHANGED at
  /\ tafsirs' = (tafsirs \/ k = "list")
  /\ UNCHANGED dealt

(* Mutant: a verse that failed is passed over in silence. *)
LoseSilently(c, k) ==
  /\ CASE k = "list" -> Goto(c, "save") /\ Drop(c, k) /\ UNCHANGED dealt
       [] k = "verse" ->
            /\ Goto(c, "save")
            /\ UNCHANGED dealt
            /\ request' = [request EXCEPT ![c].verse = NoRequest, ![c].tafsir = NoRequest,
                                          ![c].forgotten = request[c].tafsir]
       [] k = "tafsir" -> Fetched(c, k) /\ UNCHANGED dealt
       [] k = "forgotten" -> Drop(c, k) /\ UNCHANGED <<at, dealt>>
  /\ UNCHANGED tafsirs

(* It fails.  Only the tafsir of a verse may: without the list of tafsirs, *)
(* or without its text, a verse is not imported.                           *)
Lose(c, k) ==
  /\ CASE k = "list" -> Report(c) /\ Drop(c, k)
       [] k = "verse" ->
            /\ Report(c)
            /\ request' = [request EXCEPT ![c].verse = NoRequest, ![c].tafsir = NoRequest,
                                          ![c].forgotten = request[c].tafsir]
       [] k = "tafsir" -> Fetched(c, k) /\ UNCHANGED dealt
       [] k = "forgotten" -> Drop(c, k) /\ UNCHANGED <<at, dealt>>
  /\ UNCHANGED tafsirs

Answered(c, k) ==
  /\ Waiting(c, k, "sent")
  /\ Accepted(request[c][k].token)
  /\ Arrive(c, k)
  /\ UNCHANGED <<rows, denied, token, cursor, left, events, raced, revoked, harmed>>

(* The second 401 of a request. *)
Refused(c, k) ==
  /\ Waiting(c, k, "sent")
  /\ ~Accepted(request[c][k].token)
  /\ request[c][k].retry
  /\ Lose(c, k)
  /\ UNCHANGED <<rows, denied, token, cursor, left, events, raced, revoked, harmed>>

(* The request, or that for its token, times out or meets a server error. *)
Failed(c, k) ==
  /\ Pending(request[c][k])
  /\ Harm
  /\ Lose(c, k)
  /\ UNCHANGED <<rows, denied, token, cursor, left, raced, revoked>>

(* A call has found its verse missing, and not created it yet. *)
Meant(c) == at[c] \in {"list", "fetch", "create"}

AlsoMeant(c, v) ==
  \E d \in Calls \ {c} : Meant(d) /\ Upcoming(d) = v

(* An APPROVED item, if validateForApproval lets the verse pass. *)
createApproved(c) ==
  LET v == Upcoming(c) IN
  /\ at[c] = "create"
  /\ v \notin Invalid
  /\ Goto(c, "save")
  /\ live' = [live EXCEPT ![v] = @ + 1]
  /\ dealt' = dealt \cup {v}
  /\ raced' = IF AlsoMeant(c, v) THEN raced \cup {v} ELSE raced
  /\ UNCHANGED <<saved, denied, caches, cursor, left, request, events, revoked, harmed>>

(* The verse is rejected, or the database fails. *)
CreateFailed(c) ==
  /\ at[c] = "create"
  /\ IF Upcoming(c) \in Invalid THEN UNCHANGED <<events, harmed>> ELSE Harm
  /\ Report(c)
  /\ UNCHANGED <<rows, denied, caches, cursor, left, request, raced, revoked>>

saveCursor(c) ==
  /\ at[c] = "save"
  /\ saved' = Upcoming(c)
  /\ IF left[c] = 1 THEN Finish(c)
     ELSE /\ Goto(c, "check")
          /\ cursor' = [cursor EXCEPT ![c] = Upcoming(c)]
          /\ left' = [left EXCEPT ![c] = @ - 1]
  /\ UNCHANGED <<live, denied, caches, request, events, history>>

RequestStep(c, k) == Mint(c, k) \/ Refresh(c, k) \/ Answered(c, k) \/ Refused(c, k) \/ Failed(c, k)

CallStep(c) ==
  \/ loadCursor(c) \/ Throw(c) \/ Check(c) \/ CheckFailed(c)
  \/ createApproved(c) \/ CreateFailed(c) \/ saveCursor(c)

-----------------------------------------------------------------------------
(* Around it.                                                              *)

(* The cached token's expiresAt passes, a minute before its lifetime ends: *)
(* no request that carries it is in flight that long.                      *)
TokenExpires ==
  /\ token # "none"
  /\ Event
  /\ token' = "none"
  /\ UNCHANGED <<rows, denied, tafsirs, call, request, history>>

(* The hour of the cached list is over. *)
TafsirsExpire ==
  /\ tafsirs
  /\ Event
  /\ tafsirs' = FALSE
  /\ UNCHANGED <<rows, denied, token, call, request, history>>

Dead(t) == IF t = "good" THEN "dead" ELSE t

(* Quran.Foundation revokes the tokens it has issued. *)
Revoke ==
  /\ Event
  /\ token' = Dead(token)
  /\ request' = [c \in Calls |-> [k \in Kinds |->
                   [request[c][k] EXCEPT !.token = Dead(@)]]]
  /\ revoked' = revoked + 1
  /\ UNCHANGED <<rows, denied, tafsirs, call, dealt, raced, harmed>>

(* It withdraws the client's access, or grants it again. *)
Deny ==
  /\ Harm
  /\ denied' = ~denied
  /\ UNCHANGED <<rows, caches, call, request, dealt, raced, revoked>>

(* The process stops: what is in memory is lost. *)
Restart ==
  /\ Event
  /\ \E c \in Calls : at[c] # "idle"
  /\ token' = "none" /\ tafsirs' = FALSE
  /\ at' = [c \in Calls |-> "idle"]
  /\ cursor' = [c \in Calls |-> NoVerse]
  /\ left' = [c \in Calls |-> 0]
  /\ request' = [c \in Calls |-> [k \in Kinds |-> NoRequest]]
  /\ UNCHANGED <<rows, denied, history>>

Archive(v) ==
  /\ live[v] > 0
  /\ Event
  /\ live' = [live EXCEPT ![v] = @ - 1]
  /\ UNCHANGED <<saved, denied, caches, call, request, history>>

Next ==
  \/ \E c \in Calls : Begin(c) \/ CallStep(c) \/ \E k \in Kinds : RequestStep(c, k)
  \/ TokenExpires \/ TafsirsExpire \/ Revoke \/ Deny \/ Restart
  \/ \E v \in Verses : Archive(v)

(* Requests time out and queries end, so a call never stops half-way.  No  *)
(* one has to call importNext.                                             *)
Spec ==
  /\ Init /\ [][Next]_vars
  /\ \A c \in Calls : WF_vars(CallStep(c) \/ \E k \in Kinds : RequestStep(c, k))

-----------------------------------------------------------------------------
(* Properties.                                                             *)

Tokens == {"none", "good", "dead"}
Requests == [step : {"none", "minting", "sent"}, token : Tokens, retry : BOOLEAN]

(* Every variable has its type; a call waits for the list, or for a verse, *)
(* exactly while it has such a request.                                    *)
RowsTypeOK ==
  /\ saved \in Verses \cup {NoVerse}
  /\ live \in [Verses -> Nat]
  /\ dealt \subseteq Verses /\ raced \subseteq Verses

TokenTypeOK ==
  /\ denied \in BOOLEAN /\ token \in Tokens /\ tafsirs \in BOOLEAN
  /\ events \in 0..MaxEvents
  /\ revoked \in Nat /\ harmed \in BOOLEAN

CallTypeOK ==
  /\ at \in [Calls -> {"idle", "load", "check", "list", "fetch", "create", "save"}]
  /\ cursor \in [Calls -> Verses \cup {NoVerse}]
  /\ left \in [Calls -> Nat]
  /\ \A c \in Calls : at[c] # "idle" => left[c] > 0
  /\ request \in [Calls -> [Kinds -> Requests]]

Waits(c) ==
  /\ Pending(request[c].list) <=> at[c] = "list"
  /\ Pending(request[c].verse) \/ Pending(request[c].tafsir) <=> at[c] = "fetch"

TypeOK == RowsTypeOK /\ TokenTypeOK /\ CallTypeOK /\ \A c \in Calls : Waits(c)

(* A verse met again - on a later lap, after a restart or a failure        *)
(* between its creation and the saving of the cursor, or because a slower  *)
(* call put the cursor back - has one live item, unless two calls both     *)
(* found it missing before either created it.                              *)
ImportedOnce == \A v \in Verses : live[v] > 1 => v \in raced

(* No verse up to the saved cursor was neither created nor reported as an  *)
(* error, however calls overwrite each other's cursor.                     *)
UpTo(p, v) == v[1] < p[1] \/ (v[1] = p[1] /\ v[2] <= p[2])

Covered(p) == \A v \in Verses : UpTo(p, v) => v \in dealt

NothingSkipped == Covered(saved)

(* Tokens that expire, or are revoked once, cost no verse: whichever of    *)
(* the requests in flight drops the token of another, every retry goes out *)
(* with a token that is accepted.                                          *)
RetryAccepted ==
  revoked <= 1 /\ ~harmed =>
    \A c \in Calls, k \in Kinds :
      Waiting(c, k, "sent") /\ request[c][k].retry => Accepted(request[c][k].token)

(* importNext always answers: unless new calls keep coming, all of them    *)
(* end, also when Quran.Foundation refuses every token it issues.          *)
CallsEnd ==
  []<>(\E c \in Calls : at[c] = "load") \/ <>[](\A c \in Calls : at[c] = "idle")

(* As long as somebody keeps importing and access is granted, every verse  *)
(* that passes validation is imported sooner or later and stays so: laps   *)
(* make up for errors, archived items and cursors put back.                *)
EverythingImported ==
  []<>(\E c \in Calls : at[c] = "load")
    => <>[](denied \/ \A v \in Verses \ Invalid : live[v] > 0)

(* The inductive invariants.  A call has dealt with what its cursor covers *)
(* and, before it saves, with the verse it is at.                          *)
CursorInv ==
  /\ NothingSkipped
  /\ \A c \in Calls : Covered(cursor[c])
  /\ \A c \in Calls : at[c] = "save" => Upcoming(c) \in dealt
  /\ \A v \in Verses : live[v] > 0 => v \in dealt

(* A call that means to create a verse found it missing, or raced.         *)
OnceInv ==
  /\ ImportedOnce
  /\ \A c \in Calls : Meant(c) /\ live[Upcoming(c)] > 0 => Upcoming(c) \in raced

(* Only revoked tokens are rejected, so nothing is retried before the      *)
(* first revocation, and what is retried after it has a newer token.       *)
Sound(r) ==
  /\ r.step = "sent" => r.token # "none"
  /\ revoked = 0 => r.token # "dead"
  /\ revoked = 0 /\ ~harmed => ~r.retry
  /\ revoked <= 1 /\ ~harmed /\ r.step = "sent" /\ r.retry => r.token = "good"

TokenInv ==
  /\ denied => harmed
  /\ revoked = 0 => token # "dead"
  /\ \A c \in Calls, k \in Kinds : Sound(request[c][k])
=============================================================================
