------------------------- MODULE QuranImport_proofs -------------------------
(***************************************************************************)
(* Proofs about QuranImport, for any surahs, calls, batches and bounds.    *)
(***************************************************************************)
EXTENDS QuranImport, TLAPS

USE QuranAssumption DEF QuranAssumption

-----------------------------------------------------------------------------
(* The sequence of the verses.                                             *)

LEMMA VerseShape ==
  /\ \A s, a : <<s, a>> \in Verses
                 <=> s \in 1..Len(ayahCounts) /\ a \in 1..ayahCounts[s]
  /\ \A v \in Verses : /\ v = <<v[1], v[2]>>
                       /\ v[1] \in 1..Len(ayahCounts)
                       /\ v[2] \in 1..ayahCounts[v[1]]
<1>1. DOMAIN ayahCounts = 1..Len(ayahCounts)
  OBVIOUS
<1>2. \A v : v \in Verses <=> \E s \in 1..Len(ayahCounts) : v \in {s} \X (1..ayahCounts[s])
  BY <1>1 DEF Verses
<1> QED
  BY <1>2

LEMMA CountsPositive ==
  /\ Len(ayahCounts) \in Nat /\ Len(ayahCounts) >= 1
  /\ \A s \in 1..Len(ayahCounts) : ayahCounts[s] \in Nat /\ ayahCounts[s] >= 1
  OBVIOUS

(* The verse after any verse, or before the first import, is a verse, ...   *)
LEMMA NextVerse == \A v \in Verses \cup {NoVerse} : nextVerseAfter(v) \in Verses
<1> SUFFICES ASSUME NEW v \in Verses \cup {NoVerse} PROVE nextVerseAfter(v) \in Verses
  OBVIOUS
<1>1. <<1, 1>> \in Verses
  BY VerseShape, CountsPositive
<1>2. CASE v = NoVerse
  BY <1>1, <1>2 DEF nextVerseAfter
<1>3. CASE v # NoVerse /\ v[2] < ayahCounts[v[1]]
  <2>1. v[1] \in 1..Len(ayahCounts) /\ v[2] \in 1..ayahCounts[v[1]]
    BY <1>3, VerseShape
  <2>2. v[2] + 1 \in 1..ayahCounts[v[1]]
    BY <1>3, <2>1, CountsPositive
  <2>3. <<v[1], v[2] + 1>> \in Verses
    BY <2>1, <2>2, VerseShape
  <2> QED
    BY <1>3, <2>3 DEF nextVerseAfter
<1>4. CASE v # NoVerse /\ ~(v[2] < ayahCounts[v[1]])
  <2>1. v[1] < Len(ayahCounts) => <<v[1] + 1, 1>> \in Verses
    <3>1. v[1] \in 1..Len(ayahCounts)
      BY <1>4, VerseShape
    <3>2. ASSUME v[1] < Len(ayahCounts)
          PROVE  v[1] + 1 \in 1..Len(ayahCounts)
      BY <3>1, <3>2, CountsPositive
    <3>3. \A s \in 1..Len(ayahCounts) : <<s, 1>> \in Verses
      BY VerseShape, CountsPositive
    <3> QED
      BY <3>2, <3>3
  <2> QED
    BY <1>1, <1>4, <2>1 DEF nextVerseAfter
<1> QED
  BY <1>2, <1>3, <1>4

(* ... and there is none between the two.                                   *)
LEMMA NextVerseIsNext ==
  \A v \in Verses \cup {NoVerse}, w \in Verses :
    UpTo(nextVerseAfter(v), w) => w = nextVerseAfter(v) \/ UpTo(v, w)
<1> SUFFICES ASSUME NEW v \in Verses \cup {NoVerse}, NEW w \in Verses,
                    UpTo(nextVerseAfter(v), w)
             PROVE  w = nextVerseAfter(v) \/ UpTo(v, w)
  OBVIOUS
<1>1. /\ w = <<w[1], w[2]>>
      /\ w[1] \in Nat /\ w[2] \in Nat /\ w[1] >= 1 /\ w[2] >= 1
      /\ w[1] \in 1..Len(ayahCounts) /\ w[2] \in 1..ayahCounts[w[1]]
  BY VerseShape, CountsPositive
<1>2. CASE nextVerseAfter(v) = <<1, 1>>
  BY <1>1, <1>2 DEF UpTo
<1>3. CASE nextVerseAfter(v) # <<1, 1>>
  <2>1. v \in Verses
    BY <1>3 DEF nextVerseAfter
  <2>2. /\ v[1] \in 1..Len(ayahCounts) /\ v[2] \in 1..ayahCounts[v[1]]
        /\ v[1] \in Nat /\ v[2] \in Nat /\ ayahCounts[v[1]] \in Nat
    BY <2>1, VerseShape, CountsPositive
  <2>3. v # NoVerse
    BY <2>2 DEF NoVerse
  <2>4. CASE v[2] < ayahCounts[v[1]]
    <3>1. nextVerseAfter(v) = <<v[1], v[2] + 1>>
      BY <2>3, <2>4 DEF nextVerseAfter
    <3> QED
      BY <1>1, <2>2, <3>1 DEF UpTo
  <2>5. CASE ~(v[2] < ayahCounts[v[1]])
    <3>1. nextVerseAfter(v) = <<v[1] + 1, 1>>
      BY <1>3, <2>3, <2>5 DEF nextVerseAfter
    <3>2. v[2] = ayahCounts[v[1]]
      BY <2>2, <2>5
    <3> QED
      BY <1>1, <2>2, <3>1, <3>2 DEF UpTo
  <2> QED
    BY <2>4, <2>5
<1> QED
  BY <1>2, <1>3

-----------------------------------------------------------------------------
(* Types.                                                                  *)

LEMMA InitTypeOK == Init => TypeOK
<1>1. Init => RowsTypeOK
  BY DEF Init, RowsTypeOK
<1>2. Init => events \in 0..MaxEvents /\ revoked \in Nat
  BY DEF Init
<1>3. Init => /\ denied \in BOOLEAN /\ token \in Tokens
              /\ tafsirs \in BOOLEAN /\ harmed \in BOOLEAN
  BY DEF Init, Tokens
<1>4. Init => CallTypeOK
  BY DEF Init, CallTypeOK, NoRequest, Requests, Tokens
<1>5. Init => \A c \in Calls : Waits(c)
  BY DEF Init, Waits, NoRequest, Pending, Kinds
<1> QED
  BY <1>1, <1>2, <1>3, <1>4, <1>5 DEF TypeOK, TokenTypeOK

LEMMA UpcomingIsVerse ==
  ASSUME CallTypeOK, NEW c \in Calls
  PROVE  Upcoming(c) \in Verses
BY NextVerse DEF CallTypeOK, Upcoming

LEMMA RequestTypes ==
  ASSUME TokenTypeOK
  PROVE  NoRequest \in Requests /\ Started \in Requests
BY DEF TokenTypeOK, NoRequest, Started, Sent, Requests, Tokens

(* The rows.                                                               *)
LEMMA RowsTypeStep == RowsTypeOK /\ CallTypeOK /\ [Next]_vars => RowsTypeOK'
<1> SUFFICES ASSUME RowsTypeOK, CallTypeOK, [Next]_vars
             PROVE  RowsTypeOK'
  OBVIOUS
<1>1. ASSUME NEW c \in Calls, NEW k \in Kinds, RequestStep(c, k)
      PROVE  RowsTypeOK'
  <2>1. UNCHANGED <<saved, live, raced>> /\ dealt' \in {dealt, dealt \cup {Upcoming(c)}}
    BY <1>1 DEF RequestStep, Mint, Refresh, Answered, Refused, Failed, Arrive, Lose,
       Report, rows, history, Kinds
  <2> QED
    BY <2>1, UpcomingIsVerse DEF RowsTypeOK
<1>2. ASSUME NEW c \in Calls, createApproved(c) PROVE RowsTypeOK'
  <2>1. Upcoming(c) \in Verses
    BY UpcomingIsVerse
  <2>2. /\ saved' = saved
        /\ live' = [live EXCEPT ![Upcoming(c)] = @ + 1]
        /\ dealt' = dealt \cup {Upcoming(c)}
        /\ raced' \in {raced, raced \cup {Upcoming(c)}}
    BY <1>2 DEF createApproved
  <2> QED
    BY <2>1, <2>2 DEF RowsTypeOK
<1>3. ASSUME NEW c \in Calls, CheckFailed(c) \/ CreateFailed(c) PROVE RowsTypeOK'
  <2>1. UNCHANGED <<saved, live, raced>> /\ dealt' = dealt \cup {Upcoming(c)}
    BY <1>3 DEF CheckFailed, CreateFailed, Report, rows
  <2> QED
    BY <2>1, UpcomingIsVerse DEF RowsTypeOK
<1>4. ASSUME NEW c \in Calls, saveCursor(c) PROVE RowsTypeOK'
  BY <1>4, UpcomingIsVerse DEF saveCursor, RowsTypeOK, history
<1>5. ASSUME NEW v \in Verses, Archive(v) PROVE RowsTypeOK'
  BY <1>5 DEF Archive, RowsTypeOK, history
<1>6. CASE UNCHANGED <<saved, live, dealt, raced>>
  BY <1>6 DEF RowsTypeOK
<1> QED
  BY <1>1, <1>2, <1>3, <1>4, <1>5, <1>6
  DEF Next, CallStep, Begin, loadCursor, Throw, Check, TokenExpires, TafsirsExpire,
      Revoke, Deny, Restart, vars, rows, history

(* The caches and the counts.                                              *)
LEMMA TokenTypeStep == TokenTypeOK /\ [Next]_vars => TokenTypeOK'
<1> SUFFICES ASSUME TokenTypeOK, [Next]_vars
             PROVE  TokenTypeOK'
  OBVIOUS
<1>1. events' \in 0..MaxEvents
  <2>1. Event => events' \in 0..MaxEvents
    BY DEF Event, TokenTypeOK
  <2>2. Event \/ events' = events
    BY DEF Next, CallStep, RequestStep, Begin, loadCursor, Throw, Check, CheckFailed,
       createApproved, CreateFailed, saveCursor, Mint, Refresh, Answered, Refused, Failed,
       TokenExpires, TafsirsExpire, Revoke, Deny, Restart, Archive, Harm, vars
  <2> QED
    BY <2>1, <2>2 DEF TokenTypeOK
<1>2. revoked' \in Nat
  <2>1. revoked' \in {revoked, revoked + 1}
    BY DEF Next, CallStep, RequestStep, Begin, loadCursor, Throw, Check, CheckFailed,
       createApproved, CreateFailed, saveCursor, Mint, Refresh, Answered, Refused, Failed,
       TokenExpires, TafsirsExpire, Revoke, Deny, Restart, Archive, history, vars
  <2> QED
    BY <2>1 DEF TokenTypeOK
<1>3. harmed' \in {harmed, TRUE}
  BY DEF Next, CallStep, RequestStep, Begin, loadCursor, Throw, Check, CheckFailed,
     createApproved, CreateFailed, saveCursor, Mint, Refresh, Answered, Refused, Failed,
     TokenExpires, TafsirsExpire, Revoke, Deny, Restart, Archive, Harm, history, vars
<1>4. denied' \in {denied, ~denied}
  BY DEF Next, CallStep, RequestStep, Begin, loadCursor, Throw, Check, CheckFailed,
     createApproved, CreateFailed, saveCursor, Mint, Refresh, Answered, Refused, Failed,
     TokenExpires, TafsirsExpire, Revoke, Deny, Restart, Archive, vars
<1>5. token' \in {token, "none", "good", Dead(token)}
  BY DEF Next, CallStep, RequestStep, Begin, loadCursor, Throw, Check, CheckFailed,
     createApproved, CreateFailed, saveCursor, Mint, Refresh, Answered, Refused, Failed,
     TokenExpires, TafsirsExpire, Revoke, Deny, Restart, Archive, caches, vars
<1>6. tafsirs' \in BOOLEAN
  <2>1. ASSUME NEW c \in Calls, NEW k \in Kinds, Arrive(c, k) PROVE tafsirs' \in BOOLEAN
    BY <2>1 DEF Arrive
  <2>2. ASSUME NEW c \in Calls, NEW k \in Kinds, Lose(c, k) PROVE tafsirs' = tafsirs
    BY <2>2 DEF Lose
  <2>3. CASE tafsirs' \in {tafsirs, FALSE}
    BY <2>3 DEF TokenTypeOK
  <2> QED
    BY <2>1, <2>2, <2>3
    DEF Next, CallStep, RequestStep, Begin, loadCursor, Throw, Check, CheckFailed,
        createApproved, CreateFailed, saveCursor, Mint, Refresh, Answered, Refused, Failed,
        TokenExpires, TafsirsExpire, Revoke, Deny, Restart, Archive, caches, vars
<1>7. denied' \in BOOLEAN /\ harmed' \in BOOLEAN
  BY <1>3, <1>4 DEF TokenTypeOK
<1>8. token' \in Tokens
  BY <1>5 DEF TokenTypeOK, Tokens, Dead
<1> QED
  BY <1>1, <1>2, <1>6, <1>7, <1>8 DEF TokenTypeOK

(* The requests: a step of a call, or an answer, leaves each as it is,     *)
(* drops it, starts it anew, or forgets a tafsir.                          *)
Passed(c, k) ==
  request'[c][k] \in {request[c][k], request[c]["tafsir"], NoRequest, Started}

LEMMA FetchRequests ==
  ASSUME CallTypeOK, TokenTypeOK, NEW c \in Calls, Fetch(c)
  PROVE  /\ request' \in [Calls -> [Kinds -> Requests]]
         /\ \A d \in Calls, j \in Kinds : Passed(d, j)
BY RequestTypes DEF Fetch, CallTypeOK, Passed, Kinds

LEMMA DropRequests ==
  ASSUME CallTypeOK, TokenTypeOK, NEW c \in Calls, NEW k \in Kinds, Drop(c, k)
  PROVE  /\ request' \in [Calls -> [Kinds -> Requests]]
         /\ \A d \in Calls, j \in Kinds : Passed(d, j)
BY RequestTypes DEF Drop, CallTypeOK, Passed

LEMMA LoseRequests ==
  ASSUME CallTypeOK, TokenTypeOK, NEW c \in Calls, NEW k \in Kinds, Lose(c, k)
  PROVE  /\ request' \in [Calls -> [Kinds -> Requests]]
         /\ \A d \in Calls, j \in Kinds : Passed(d, j)
<1>1. CASE k = "verse"
  <2>1. request' = [request EXCEPT ![c].verse = NoRequest, ![c].tafsir = NoRequest,
                                   ![c].forgotten = request[c].tafsir]
    BY <1>1 DEF Lose
  <2> QED
    BY <2>1, RequestTypes DEF CallTypeOK, Passed, Kinds
<1>2. CASE k # "verse"
  <2>1. Drop(c, k)
    BY <1>2 DEF Lose, Fetched, Kinds
  <2> QED
    BY <2>1, DropRequests
<1> QED
  BY <1>1, <1>2

LEMMA ArriveRequests ==
  ASSUME CallTypeOK, TokenTypeOK, NEW c \in Calls, NEW k \in Kinds, Arrive(c, k)
  PROVE  /\ request' \in [Calls -> [Kinds -> Requests]]
         /\ \A d \in Calls, j \in Kinds : Passed(d, j)
<1>1. Fetch(c) \/ Drop(c, k)
  BY DEF Arrive, Fetched, Kinds
<1> QED
  BY <1>1, FetchRequests, DropRequests

LEMMA CheckRequests ==
  ASSUME CallTypeOK, TokenTypeOK, NEW c \in Calls, Check(c)
  PROVE  /\ request' \in [Calls -> [Kinds -> Requests]]
         /\ \A d \in Calls, j \in Kinds : Passed(d, j)
<1>1. CASE Fetch(c)
  BY <1>1, FetchRequests
<1>2. CASE UNCHANGED request
  BY <1>2 DEF CallTypeOK, Passed
<1>3. CASE request' = [request EXCEPT ![c].list = Started]
  BY <1>3, RequestTypes DEF CallTypeOK, Passed, Kinds
<1> QED
  BY <1>1, <1>2, <1>3 DEF Check

LEMMA ReplaceRequest ==
  ASSUME CallTypeOK, NEW c \in Calls, NEW k \in Kinds, NEW r \in Requests,
         request' = [request EXCEPT ![c][k] = r]
  PROVE  /\ request' \in [Calls -> [Kinds -> Requests]]
         /\ \A d \in Calls, j \in Kinds :
              request'[d][j] = IF d = c /\ j = k THEN r ELSE request[d][j]
BY DEF CallTypeOK

LEMMA RequestsTypeStep ==
  CallTypeOK /\ TokenTypeOK /\ [Next]_vars => request' \in [Calls -> [Kinds -> Requests]]
<1> SUFFICES ASSUME CallTypeOK, TokenTypeOK, [Next]_vars
             PROVE  request' \in [Calls -> [Kinds -> Requests]]
  OBVIOUS
<1>1. ASSUME NEW c \in Calls, NEW k \in Kinds, Mint(c, k) \/ Refresh(c, k)
      PROVE  request' \in [Calls -> [Kinds -> Requests]]
  <2>1. request[c][k] \in Requests
    BY DEF CallTypeOK
  <2>2. PICK r \in Requests : request' = [request EXCEPT ![c][k] = r]
    <3>1. CASE Mint(c, k)
      <4>1. [request[c][k] EXCEPT !.step = "sent", !.token = "good"] \in Requests
        BY <2>1 DEF Requests, Tokens
      <4> QED
        BY <3>1, <4>1 DEF Mint
    <3>2. CASE Refresh(c, k)
      <4>1. [step |-> "minting", token |-> "none", retry |-> TRUE] \in Requests
        BY DEF Requests, Tokens
      <4> QED
        BY <3>2, <4>1 DEF Refresh
    <3> QED
      BY <1>1, <3>1, <3>2
  <2> QED
    BY <2>2, ReplaceRequest
<1>2. ASSUME NEW c \in Calls, NEW k \in Kinds,
             Answered(c, k) \/ Refused(c, k) \/ Failed(c, k)
      PROVE  request' \in [Calls -> [Kinds -> Requests]]
  BY <1>2, ArriveRequests, LoseRequests DEF Answered, Refused, Failed
<1>3. ASSUME NEW c \in Calls, Check(c)
      PROVE  request' \in [Calls -> [Kinds -> Requests]]
  BY <1>3, CheckRequests
<1>4. CASE Revoke
  <2>1. \A r \in Requests : [r EXCEPT !.token = Dead(@)] \in Requests
    BY DEF Requests, Tokens, Dead
  <2> QED
    BY <1>4, <2>1 DEF Revoke, CallTypeOK
<1>5. CASE Restart
  BY <1>5, RequestTypes DEF Restart
<1>6. CASE UNCHANGED request
  BY <1>6 DEF CallTypeOK
<1> QED
  BY <1>1, <1>2, <1>3, <1>4, <1>5, <1>6
  DEF Next, CallStep, RequestStep, Begin, loadCursor, Throw, CheckFailed,
      createApproved, CreateFailed, saveCursor, TokenExpires, TafsirsExpire, Deny,
      Archive, vars

(* An answer moves a call on, and nothing else of it.                      *)
LEMMA AnswerMoves ==
  ASSUME NEW c \in Calls, NEW k \in Kinds, RequestStep(c, k)
  PROVE  /\ UNCHANGED <<cursor, left>>
         /\ \/ UNCHANGED at
            \/ /\ at' \in {[at EXCEPT ![c] = "fetch"], [at EXCEPT ![c] = "create"],
                          [at EXCEPT ![c] = "save"]}
               /\ k \in {"list", "verse", "tafsir"}
               /\ Pending(request[c][k])
BY DEF RequestStep, Mint, Refresh, Answered, Refused, Failed, Waiting, Arrive, Lose, Fetch,
       Fetched, Report, Goto, Pending, Kinds, call

LEMMA CallTypeStep ==
  RowsTypeOK /\ TokenTypeOK /\ CallTypeOK /\ (\A c \in Calls : Waits(c)) /\ [Next]_vars
    => CallTypeOK'
<1> SUFFICES ASSUME RowsTypeOK, TokenTypeOK, CallTypeOK, \A c \in Calls : Waits(c),
                    [Next]_vars
             PROVE  CallTypeOK'
  OBVIOUS
<1>r. request' \in [Calls -> [Kinds -> Requests]]
  BY RequestsTypeStep
<1>1. ASSUME NEW c \in Calls, NEW k \in Kinds, RequestStep(c, k)
      PROVE  CallTypeOK'
  <2>1. UNCHANGED <<cursor, left>>
    BY <1>1, AnswerMoves
  <2>2. CASE UNCHANGED at
    BY <1>r, <2>1, <2>2 DEF CallTypeOK
  <2>3. CASE /\ at' \in {[at EXCEPT ![c] = "fetch"], [at EXCEPT ![c] = "create"],
                         [at EXCEPT ![c] = "save"]}
             /\ k \in {"list", "verse", "tafsir"}
             /\ Pending(request[c][k])
    <3>1. at[c] # "idle"
      BY <2>3 DEF Waits
    <3> QED
      BY <1>r, <2>1, <2>3, <3>1 DEF CallTypeOK
  <2> QED
    BY <1>1, <2>2, <2>3, AnswerMoves
<1>2. ASSUME NEW c \in Calls, Begin(c) PROVE CallTypeOK'
  BY <1>r, <1>2 DEF Begin, Goto, CallTypeOK
<1>3. ASSUME NEW c \in Calls, loadCursor(c) PROVE CallTypeOK'
  BY <1>r, <1>3 DEF loadCursor, Goto, CallTypeOK, RowsTypeOK
<1>4. ASSUME NEW c \in Calls, Throw(c) PROVE CallTypeOK'
  BY <1>r, <1>4 DEF Throw, Finish, Goto, CallTypeOK
<1>5. ASSUME NEW c \in Calls, Check(c) PROVE CallTypeOK'
  BY <1>r, <1>5 DEF Check, Fetch, Goto, CallTypeOK
<1>6. ASSUME NEW c \in Calls,
             CheckFailed(c) \/ createApproved(c) \/ CreateFailed(c)
      PROVE  CallTypeOK'
  BY <1>r, <1>6 DEF CheckFailed, createApproved, CreateFailed, Report, Goto, CallTypeOK
<1>7. ASSUME NEW c \in Calls, saveCursor(c) PROVE CallTypeOK'
  <2>1. Upcoming(c) \in Verses
    BY UpcomingIsVerse
  <2>2. CASE left[c] = 1
    <3>1. /\ at' = [at EXCEPT ![c] = "idle"]
          /\ cursor' = [cursor EXCEPT ![c] = NoVerse]
          /\ left' = [left EXCEPT ![c] = 0]
      BY <1>7, <2>2 DEF saveCursor, Finish, Goto
    <3> QED
      BY <1>r, <3>1 DEF CallTypeOK
  <2>3. CASE left[c] # 1
    <3>1. left[c] - 1 \in Nat /\ left[c] - 1 > 0
      BY <1>7, <2>3 DEF saveCursor, CallTypeOK
    <3>2. /\ at' = [at EXCEPT ![c] = "check"]
          /\ cursor' = [cursor EXCEPT ![c] = Upcoming(c)]
          /\ left' = [left EXCEPT ![c] = @ - 1]
      BY <1>7, <2>3 DEF saveCursor, Goto
    <3> QED
      BY <1>r, <2>1, <3>1, <3>2 DEF CallTypeOK
  <2> QED
    BY <2>2, <2>3
<1>8. CASE Restart
  BY <1>r, <1>8 DEF Restart, CallTypeOK
<1>9. CASE UNCHANGED <<at, cursor, left>>
  BY <1>r, <1>9 DEF CallTypeOK
<1> QED
  BY <1>1, <1>2, <1>3, <1>4, <1>5, <1>6, <1>7, <1>8, <1>9
  DEF Next, CallStep, TokenExpires, TafsirsExpire, Revoke, Deny, Archive, call, vars

(* A step of call c leaves the others alone.                               *)
LEMMA OthersWait ==
  ASSUME CallTypeOK, \A d \in Calls : Waits(d), NEW c \in Calls,
         \A d \in Calls \ {c} : at'[d] = at[d] /\ request'[d] = request[d],
         Waits(c)'
  PROVE  \A d \in Calls : Waits(d)'
BY DEF Waits

LEMMA StartedIsPending == Pending(Started) /\ ~Pending(NoRequest)
BY DEF Pending, Started, Sent, NoRequest

LEMMA FetchWaits ==
  ASSUME CallTypeOK, NEW c \in Calls, Fetch(c)
  PROVE  Waits(c)' /\ \A d \in Calls \ {c} : at'[d] = at[d] /\ request'[d] = request[d]
<1>1. /\ at' = [at EXCEPT ![c] = "fetch"]
      /\ request' = [request EXCEPT ![c].list = NoRequest, ![c].verse = Started,
                                    ![c].tafsir = IF WithTafsir THEN Started ELSE NoRequest]
  BY DEF Fetch, Goto
<1>2. request'[c]["list"] = NoRequest /\ request'[c]["verse"] = Started
  BY <1>1 DEF CallTypeOK, Kinds
<1>3. at'[c] = "fetch"
  BY <1>1 DEF CallTypeOK
<1> QED
  BY <1>1, <1>2, <1>3, StartedIsPending DEF CallTypeOK, Waits, Pending

LEMMA FetchedWaits ==
  ASSUME CallTypeOK, NEW c \in Calls, Waits(c), NEW k \in {"verse", "tafsir"},
         Pending(request[c][k]), Fetched(c, k)
  PROVE  Waits(c)' /\ \A d \in Calls \ {c} : at'[d] = at[d] /\ request'[d] = request[d]
<1>1. request' = [request EXCEPT ![c][k] = NoRequest]
  BY DEF Fetched, Drop
<1>2. /\ request'[c][k] = NoRequest
      /\ \A j \in Kinds \ {k} : request'[c][j] = request[c][j]
  BY <1>1 DEF CallTypeOK, Kinds
<1>3. at[c] = "fetch" /\ ~Pending(request[c]["list"])
  BY DEF Waits
<1>4. ~Pending(request'[c]["list"])
  BY <1>2, <1>3 DEF Kinds
<1>5. CASE \E o \in {"verse", "tafsir"} \ {k} : Pending(request[c][o])
  <2>1. at' = at
    BY <1>5 DEF Fetched
  <2>2. Pending(request'[c]["verse"]) \/ Pending(request'[c]["tafsir"])
    BY <1>2, <1>5 DEF Kinds
  <2> QED
    BY <1>1, <1>3, <1>4, <2>1, <2>2 DEF CallTypeOK, Waits, Pending
<1>6. CASE ~\E o \in {"verse", "tafsir"} \ {k} : Pending(request[c][o])
  <2>1. at' = [at EXCEPT ![c] = "create"]
    BY <1>6 DEF Fetched, Goto
  <2>2. ~Pending(request'[c]["verse"]) /\ ~Pending(request'[c]["tafsir"])
    BY <1>2, <1>6, StartedIsPending DEF Kinds
  <2>3. at'[c] = "create"
    BY <2>1 DEF CallTypeOK
  <2> QED
    BY <1>1, <1>4, <2>1, <2>2, <2>3 DEF CallTypeOK, Waits, Pending
<1> QED
  BY <1>5, <1>6

LEMMA LoseWaits ==
  ASSUME CallTypeOK, NEW c \in Calls, Waits(c), NEW k \in Kinds,
         Pending(request[c][k]), Lose(c, k)
  PROVE  Waits(c)' /\ \A d \in Calls \ {c} : at'[d] = at[d] /\ request'[d] = request[d]
<1>1. CASE k = "list"
  <2>1. at' = [at EXCEPT ![c] = "save"] /\ request' = [request EXCEPT ![c][k] = NoRequest]
    BY <1>1 DEF Lose, Report, Goto, Drop
  <2>2. /\ at'[c] = "save"
        /\ request'[c]["list"] = NoRequest
        /\ \A j \in Kinds \ {"list"} : request'[c][j] = request[c][j]
    BY <1>1, <2>1 DEF CallTypeOK, Kinds
  <2>3. ~Pending(request[c]["verse"]) /\ ~Pending(request[c]["tafsir"])
    BY <1>1 DEF Waits
  <2> QED
    BY <2>1, <2>2, <2>3, StartedIsPending DEF CallTypeOK, Waits, Pending, Kinds
<1>2. CASE k = "verse"
  <2>1. /\ at' = [at EXCEPT ![c] = "save"]
        /\ request' = [request EXCEPT ![c].verse = NoRequest, ![c].tafsir = NoRequest,
                                      ![c].forgotten = request[c].tafsir]
    BY <1>2 DEF Lose, Report, Goto
  <2>2. /\ at'[c] = "save"
        /\ request'[c]["verse"] = NoRequest /\ request'[c]["tafsir"] = NoRequest
        /\ request'[c]["list"] = request[c]["list"]
    BY <2>1 DEF CallTypeOK, Kinds
  <2>3. ~Pending(request[c]["list"])
    BY <1>2 DEF Waits
  <2> QED
    BY <2>1, <2>2, <2>3, StartedIsPending DEF CallTypeOK, Waits, Pending
<1>3. CASE k = "tafsir"
  BY <1>3, FetchedWaits DEF Lose
<1>4. CASE k = "forgotten"
  <2>1. at' = at /\ request' = [request EXCEPT ![c][k] = NoRequest]
    BY <1>4 DEF Lose, Drop
  <2>2. \A j \in Kinds \ {"forgotten"} : request'[c][j] = request[c][j]
    BY <1>4, <2>1 DEF CallTypeOK, Kinds
  <2> QED
    BY <2>1, <2>2 DEF CallTypeOK, Waits, Pending, Kinds
<1> QED
  BY <1>1, <1>2, <1>3, <1>4 DEF Kinds

LEMMA ArriveWaits ==
  ASSUME CallTypeOK, NEW c \in Calls, Waits(c), NEW k \in Kinds,
         Pending(request[c][k]), Arrive(c, k)
  PROVE  Waits(c)' /\ \A d \in Calls \ {c} : at'[d] = at[d] /\ request'[d] = request[d]
<1>1. CASE k = "list"
  BY <1>1, FetchWaits DEF Arrive
<1>2. CASE k \in {"verse", "tafsir"}
  <2>1. Fetched(c, k)
    BY <1>2 DEF Arrive
  <2> QED
    BY <1>2, <2>1, FetchedWaits
<1>3. CASE k = "forgotten"
  <2>1. at' = at /\ request' = [request EXCEPT ![c][k] = NoRequest]
    BY <1>3 DEF Arrive, Drop
  <2>2. \A j \in Kinds \ {"forgotten"} : request'[c][j] = request[c][j]
    BY <1>3, <2>1 DEF CallTypeOK, Kinds
  <2> QED
    BY <2>1, <2>2 DEF CallTypeOK, Waits, Pending, Kinds
<1> QED
  BY <1>1, <1>2, <1>3 DEF Kinds

LEMMA WaitsStep ==
  TypeOK /\ [Next]_vars => \A c \in Calls : Waits(c)'
<1> SUFFICES ASSUME TypeOK, [Next]_vars
             PROVE  \A c \in Calls : Waits(c)'
  OBVIOUS
<1> USE DEF TypeOK
<1>1. ASSUME NEW c \in Calls, NEW k \in Kinds, Mint(c, k) \/ Refresh(c, k)
      PROVE  \A d \in Calls : Waits(d)'
  <2>1. request[c][k] \in Requests
    BY DEF CallTypeOK
  <2>2. PICK r \in Requests : Pending(r) /\ request' = [request EXCEPT ![c][k] = r]
    <3>1. CASE Mint(c, k)
      <4> DEFINE r == [request[c][k] EXCEPT !.step = "sent", !.token = "good"]
      <4>1. r \in Requests /\ Pending(r)
        BY <2>1 DEF Requests, Tokens, Pending
      <4>2. request' = [request EXCEPT ![c][k] = r]
        BY <3>1 DEF Mint
      <4> QED
        BY <4>1, <4>2
    <3>2. CASE Refresh(c, k)
      <4> DEFINE r == [step |-> "minting", token |-> "none", retry |-> TRUE]
      <4>1. r \in Requests /\ Pending(r)
        BY DEF Requests, Tokens, Pending
      <4>2. request' = [request EXCEPT ![c][k] = r]
        BY <3>2 DEF Refresh
      <4> QED
        BY <4>1, <4>2
    <3> QED
      BY <1>1, <3>1, <3>2
  <2>3. \A d \in Calls, j \in Kinds :
          request'[d][j] = IF d = c /\ j = k THEN r ELSE request[d][j]
    BY <2>2, ReplaceRequest
  <2>4. Pending(request[c][k])
    BY <1>1 DEF Mint, Refresh, Waiting, Pending
  <2>5. \A d \in Calls, j \in Kinds : Pending(request'[d][j]) <=> Pending(request[d][j])
    BY <2>2, <2>3, <2>4
  <2>6. at' = at
    BY <1>1 DEF Mint, Refresh, call
  <2> QED
    BY <2>5, <2>6 DEF Waits, Pending, Kinds
<1>2. ASSUME NEW c \in Calls, NEW k \in Kinds,
             Answered(c, k) \/ Refused(c, k) \/ Failed(c, k)
      PROVE  \A d \in Calls : Waits(d)'
  <2>1. Pending(request[c][k]) /\ (Arrive(c, k) \/ Lose(c, k))
    BY <1>2 DEF Answered, Refused, Failed, Waiting, Pending
  <2> QED
    BY <2>1, ArriveWaits, LoseWaits, OthersWait
<1>3. ASSUME NEW c \in Calls, Check(c)
      PROVE  \A d \in Calls : Waits(d)'
  <2>1. CASE Fetch(c)
    BY <2>1, FetchWaits, OthersWait
  <2>2. CASE Goto(c, "save") /\ UNCHANGED request
    BY <1>3, <2>2 DEF Check, Goto, CallTypeOK, Waits, Pending
  <2>3. CASE Goto(c, "list") /\ request' = [request EXCEPT ![c].list = Started]
    <3>1. at'[c] = "list" /\ \A d \in Calls \ {c} : at'[d] = at[d] /\ request'[d] = request[d]
      BY <2>3 DEF Goto, CallTypeOK
    <3>2. /\ request'[c]["list"] = Started
          /\ request'[c]["verse"] = request[c]["verse"]
          /\ request'[c]["tafsir"] = request[c]["tafsir"]
      BY <2>3 DEF CallTypeOK, Kinds
    <3>3. at[c] = "check"
      BY <1>3 DEF Check
    <3> QED
      BY <3>1, <3>2, <3>3, StartedIsPending, OthersWait DEF Waits, Pending
  <2> QED
    BY <1>3, <2>1, <2>2, <2>3 DEF Check
<1>4. ASSUME NEW c \in Calls, NEW p \in {"idle", "load", "check", "save"},
             at[c] \in {"idle", "load", "check", "create", "save"},
             at' = [at EXCEPT ![c] = p], UNCHANGED request
      PROVE  \A d \in Calls : Waits(d)'
  BY <1>4 DEF CallTypeOK, Waits, Pending
<1>5. ASSUME NEW c \in Calls,
             \/ Begin(c) \/ loadCursor(c) \/ Throw(c) \/ CheckFailed(c)
             \/ createApproved(c) \/ CreateFailed(c) \/ saveCursor(c)
      PROVE  \A d \in Calls : Waits(d)'
  <2>1. /\ at[c] \in {"idle", "load", "check", "create", "save"}
        /\ UNCHANGED request
        /\ \E p \in {"idle", "load", "check", "save"} : at' = [at EXCEPT ![c] = p]
    BY <1>5 DEF Begin, loadCursor, Throw, CheckFailed, createApproved, CreateFailed,
       saveCursor, Report, Finish, Goto
  <2> QED
    BY <1>4, <2>1
<1>6. CASE Revoke
  <2>1. \A d \in Calls, j \in Kinds : request'[d][j].step = request[d][j].step
    <3>1. \A r \in Requests : [r EXCEPT !.token = Dead(@)].step = r.step
      BY DEF Requests
    <3>2. \A d \in Calls, j \in Kinds :
            request'[d][j] = [request[d][j] EXCEPT !.token = Dead(@)]
      BY <1>6 DEF Revoke
    <3>3. \A d \in Calls, j \in Kinds : request[d][j] \in Requests
      BY DEF CallTypeOK
    <3> QED
      BY <3>1, <3>2, <3>3
  <2>2. at' = at
    BY <1>6 DEF Revoke, call
  <2> QED
    BY <2>1, <2>2 DEF Waits, Pending, Kinds
<1>7. CASE Restart
  BY <1>7, StartedIsPending DEF Restart, Waits, Pending, Kinds
<1>8. CASE UNCHANGED <<at, request>>
  BY <1>8 DEF Waits, Pending
<1> QED
  BY <1>1, <1>2, <1>3, <1>5, <1>6, <1>7, <1>8
  DEF Next, CallStep, RequestStep, TokenExpires, TafsirsExpire, Deny, Archive, call, vars

(* Every variable keeps its type, and a call waits exactly for the requests *)
(* it has made, however answers, failures and restarts interleave.         *)
THEOREM TypeCorrect == Spec => []TypeOK
<1>1. Init => TypeOK
  BY InitTypeOK
<1>2. TypeOK /\ [Next]_vars => TypeOK'
  BY RowsTypeStep, TokenTypeStep, CallTypeStep, WaitsStep DEF TypeOK
<1> QED
  BY <1>1, <1>2, PTL DEF Spec

-----------------------------------------------------------------------------
(* No verse is skipped.                                                    *)

LEMMA CoveredNext ==
  ASSUME NEW v \in Verses \cup {NoVerse}, Covered(v), nextVerseAfter(v) \in dealt
  PROVE  Covered(nextVerseAfter(v))
BY NextVerseIsNext DEF Covered

LEMMA NothingBeforeTheFirst == Covered(NoVerse)
<1> SUFFICES ASSUME NEW v \in Verses PROVE ~UpTo(NoVerse, v)
  BY DEF Covered
<1>1. v[1] \in Nat /\ v[1] >= 1
  BY VerseShape, CountsPositive
<1> QED
  BY <1>1 DEF UpTo, NoVerse

LEMMA CursorKept ==
  ASSUME CursorInv, dealt \subseteq dealt',
         Covered(saved'), \A c \in Calls : Covered(cursor'[c]),
         \A c \in Calls : at'[c] = "save" => nextVerseAfter(cursor'[c]) \in dealt',
         \A v \in Verses : live'[v] > 0 => v \in dealt'
  PROVE  CursorInv'
BY DEF CursorInv, NothingSkipped, Covered, Upcoming

(* A call comes to the saving of its cursor with the verse dealt with.     *)
LEMMA AnswerDeals ==
  ASSUME CallTypeOK, NEW c \in Calls, NEW k \in Kinds, RequestStep(c, k)
  PROVE  /\ UNCHANGED <<saved, live, cursor>> /\ dealt \subseteq dealt'
         /\ \A d \in Calls : at'[d] = "save" =>
               at[d] = "save" \/ (d = c /\ Upcoming(c) \in dealt')
<1>1. UNCHANGED <<saved, live, cursor>>
  BY DEF RequestStep, Mint, Refresh, Answered, Refused, Failed, call, rows
<1>2. CASE Mint(c, k) \/ Refresh(c, k)
  BY <1>1, <1>2 DEF Mint, Refresh, call, history
<1>3. CASE Arrive(c, k)
  <2>1. at' = at \/ at' = [at EXCEPT ![c] = "fetch"] \/ at' = [at EXCEPT ![c] = "create"]
    BY <1>3 DEF Arrive, Fetch, Fetched, Goto, Kinds
  <2>2. dealt' = dealt
    BY <1>3 DEF Arrive
  <2> QED
    BY <1>1, <2>1, <2>2 DEF CallTypeOK
<1>4. CASE Lose(c, k)
  <2>1. \/ /\ at' = at \/ at' = [at EXCEPT ![c] = "create"]
           /\ dealt' = dealt
        \/ /\ at' = [at EXCEPT ![c] = "save"]
           /\ dealt' = dealt \cup {Upcoming(c)}
    BY <1>4 DEF Lose, Report, Fetched, Goto, Kinds
  <2> QED
    BY <1>1, <2>1 DEF CallTypeOK
<1> QED
  BY <1>2, <1>3, <1>4, <1>1 DEF RequestStep, Answered, Refused, Failed

LEMMA CursorStep == TypeOK /\ CursorInv /\ [Next]_vars => CursorInv'
<1> SUFFICES ASSUME TypeOK, CursorInv, [Next]_vars
             PROVE  CursorInv'
  OBVIOUS
<1>t. RowsTypeOK /\ CallTypeOK
  BY DEF TypeOK
<1>i. /\ Covered(saved) /\ \A c \in Calls : Covered(cursor[c])
      /\ \A c \in Calls : at[c] = "save" => nextVerseAfter(cursor[c]) \in dealt
      /\ \A v \in Verses : live[v] > 0 => v \in dealt
  BY DEF CursorInv, NothingSkipped, Upcoming
<1>1. ASSUME NEW c \in Calls, NEW k \in Kinds, RequestStep(c, k) PROVE CursorInv'
  BY <1>t, <1>i, <1>1, AnswerDeals, CursorKept DEF Upcoming
<1>2. ASSUME NEW c \in Calls, Begin(c) PROVE CursorInv'
  BY <1>t, <1>i, <1>2, CursorKept DEF Begin, Goto, CallTypeOK, rows, history
<1>3. ASSUME NEW c \in Calls, loadCursor(c) PROVE CursorInv'
  <2>1. /\ at' = [at EXCEPT ![c] = "check"] /\ cursor' = [cursor EXCEPT ![c] = saved]
        /\ UNCHANGED <<saved, live, dealt>>
    BY <1>3 DEF loadCursor, Goto, rows, history
  <2> QED
    BY <1>t, <1>i, <2>1, CursorKept DEF CallTypeOK
<1>4. ASSUME NEW c \in Calls, Throw(c) PROVE CursorInv'
  <2>1. /\ at' = [at EXCEPT ![c] = "idle"] /\ cursor' = [cursor EXCEPT ![c] = NoVerse]
        /\ UNCHANGED <<saved, live, dealt>>
    BY <1>4 DEF Throw, Finish, Goto, rows
  <2> QED
    BY <1>t, <1>i, <2>1, NothingBeforeTheFirst, CursorKept DEF CallTypeOK
<1>5. ASSUME NEW c \in Calls, Check(c) PROVE CursorInv'
  <2>1. UNCHANGED <<saved, live, cursor, dealt>>
    BY <1>5 DEF Check, rows, history
  <2>2. CASE isAlreadyImported(Upcoming(c)) /\ Goto(c, "save")
    <3>1. Upcoming(c) \in dealt
      BY <1>t, <1>i, <2>2, UpcomingIsVerse DEF isAlreadyImported
    <3> QED
      BY <1>t, <1>i, <2>1, <2>2, <3>1, CursorKept DEF Goto, CallTypeOK, Upcoming
  <2>3. CASE Goto(c, "fetch") \/ Goto(c, "list")
    BY <1>t, <1>i, <2>1, <2>3, CursorKept DEF Goto, CallTypeOK
  <2> QED
    BY <1>5, <2>2, <2>3 DEF Check, Fetch
<1>6. ASSUME NEW c \in Calls, CheckFailed(c) \/ CreateFailed(c) PROVE CursorInv'
  <2>1. /\ at' = [at EXCEPT ![c] = "save"] /\ dealt' = dealt \cup {Upcoming(c)}
        /\ UNCHANGED <<saved, live, cursor>>
    BY <1>6 DEF CheckFailed, CreateFailed, Report, Goto, rows
  <2> QED
    BY <1>t, <1>i, <2>1, CursorKept DEF CallTypeOK, Upcoming
<1>7. ASSUME NEW c \in Calls, createApproved(c) PROVE CursorInv'
  <2>1. /\ at' = [at EXCEPT ![c] = "save"] /\ dealt' = dealt \cup {Upcoming(c)}
        /\ live' = [live EXCEPT ![Upcoming(c)] = @ + 1]
        /\ UNCHANGED <<saved, cursor>>
    BY <1>7 DEF createApproved, Goto
  <2>2. \A v \in Verses : live'[v] > 0 => v \in dealt'
    BY <1>t, <1>i, <2>1 DEF RowsTypeOK
  <2> QED
    BY <1>t, <1>i, <2>1, <2>2, CursorKept DEF CallTypeOK, Upcoming
<1>8. ASSUME NEW c \in Calls, saveCursor(c) PROVE CursorInv'
  <2>1. Covered(Upcoming(c))
    BY <1>t, <1>i, <1>8, CoveredNext DEF saveCursor, Upcoming, CallTypeOK
  <2>2. /\ saved' = Upcoming(c) /\ UNCHANGED <<live, dealt>>
        /\ \/ /\ at' = [at EXCEPT ![c] = "idle"]
              /\ cursor' = [cursor EXCEPT ![c] = NoVerse]
           \/ /\ at' = [at EXCEPT ![c] = "check"]
              /\ cursor' = [cursor EXCEPT ![c] = Upcoming(c)]
    BY <1>8 DEF saveCursor, Finish, Goto, history
  <2> QED
    BY <1>t, <1>i, <2>1, <2>2, NothingBeforeTheFirst, CursorKept DEF CallTypeOK
<1>9. ASSUME NEW v \in Verses, Archive(v) PROVE CursorInv'
  <2>1. live' = [live EXCEPT ![v] = @ - 1] /\ UNCHANGED <<saved, dealt, at, cursor>>
    BY <1>9 DEF Archive, call, history
  <2>2. \A w \in Verses : live'[w] > 0 => w \in dealt'
    BY <1>t, <1>i, <2>1 DEF RowsTypeOK
  <2> QED
    BY <1>i, <2>1, <2>2, CursorKept
<1>10. CASE Restart
  <2>1. /\ UNCHANGED <<saved, live, dealt>>
        /\ \A c \in Calls : at'[c] = "idle" /\ cursor'[c] = NoVerse
    BY <1>10 DEF Restart, rows, history
  <2> QED
    BY <1>i, <2>1, NothingBeforeTheFirst, CursorKept
<1>11. CASE UNCHANGED <<saved, live, dealt, at, cursor>>
  BY <1>i, <1>11, CursorKept
<1> QED
  BY <1>1, <1>2, <1>3, <1>4, <1>5, <1>6, <1>7, <1>8, <1>9, <1>10, <1>11
  DEF Next, CallStep, TokenExpires, TafsirsExpire, Revoke, Deny, rows, call, history, vars

(* QuranImportService.importNext never skips a verse: whatever is at or    *)
(* before the saved cursor was created or reported as an error, for any    *)
(* number of calls that overwrite each other's cursor.                     *)
THEOREM VersesNotSkipped == Spec => []NothingSkipped
<1>1. Init => CursorInv
  <2>1. Init => Covered(saved) /\ \A c \in Calls : Covered(cursor[c])
    BY NothingBeforeTheFirst DEF Init
  <2>2. Init => /\ \A c \in Calls : at[c] # "save"
                /\ \A v \in Verses : ~(live[v] > 0)
    BY DEF Init
  <2> QED
    BY <2>1, <2>2 DEF CursorInv, NothingSkipped
<1>2. TypeOK /\ CursorInv /\ [Next]_vars => CursorInv'
  BY CursorStep
<1>3. CursorInv => NothingSkipped
  BY DEF CursorInv
<1> QED
  BY <1>1, <1>2, <1>3, TypeCorrect, PTL DEF Spec

-----------------------------------------------------------------------------
(* A verse has one item.                                                   *)

(* Calls that meant to create a verse still do, with the same cursor, or   *)
(* do not any more; the rows are not added to.                             *)
LEMMA OnceKept ==
  ASSUME TypeOK, OnceInv, raced' = raced,
         \A v \in Verses : live'[v] <= live[v] /\ live'[v] \in Nat,
         \A c \in Calls : Meant(c)' =>
           /\ cursor'[c] = cursor[c]
           /\ Meant(c) \/ ~isAlreadyImported(Upcoming(c))
  PROVE  OnceInv'
<1>t. RowsTypeOK /\ CallTypeOK
  BY DEF TypeOK
<1>1. ImportedOnce'
  BY <1>t DEF OnceInv, ImportedOnce, RowsTypeOK
<1>2. ASSUME NEW c \in Calls, Meant(c)', live'[Upcoming(c)'] > 0
      PROVE  Upcoming(c)' \in raced'
  <2>1. Upcoming(c)' = Upcoming(c) /\ Upcoming(c) \in Verses
    BY <1>t, <1>2, UpcomingIsVerse DEF Upcoming
  <2>2. live[Upcoming(c)] > 0
    BY <1>t, <1>2, <2>1 DEF RowsTypeOK
  <2>3. Meant(c)
    BY <1>2, <2>2 DEF isAlreadyImported
  <2> QED
    BY <2>1, <2>2, <2>3 DEF OnceInv
<1> QED
  BY <1>1, <1>2 DEF OnceInv

LEMMA OnceStep == TypeOK /\ OnceInv /\ [Next]_vars => OnceInv'
<1> SUFFICES ASSUME TypeOK, OnceInv, [Next]_vars
             PROVE  OnceInv'
  OBVIOUS
<1>t. RowsTypeOK /\ CallTypeOK /\ \A c \in Calls : Waits(c)
  BY DEF TypeOK
<1>l. \A v \in Verses : live[v] <= live[v] /\ live[v] \in Nat
  BY <1>t DEF RowsTypeOK
<1>1. ASSUME NEW c \in Calls, NEW k \in Kinds, RequestStep(c, k) PROVE OnceInv'
  <2>1. UNCHANGED <<live, raced, cursor>>
    BY <1>1 DEF RequestStep, Mint, Refresh, Answered, Refused, Failed, rows, call, history
  <2>2. ASSUME NEW d \in Calls, Meant(d)' PROVE Meant(d)
    <3>1. CASE at' = at
      BY <2>2, <3>1 DEF Meant
    <3>2. CASE /\ at' \in {[at EXCEPT ![c] = "fetch"], [at EXCEPT ![c] = "create"],
                           [at EXCEPT ![c] = "save"]}
               /\ k \in {"list", "verse", "tafsir"}
               /\ Pending(request[c][k])
      <4>1. at[c] \in {"list", "fetch"}
        BY <1>t, <3>2 DEF Waits
      <4>2. d # c => at'[d] = at[d]
        BY <1>t, <3>2 DEF CallTypeOK
      <4> QED
        BY <2>2, <4>1, <4>2 DEF Meant
    <3> QED
      BY <1>1, <3>1, <3>2, AnswerMoves
  <2> QED
    BY <1>l, <2>1, <2>2, OnceKept
<1>2. ASSUME NEW c \in Calls, Check(c) PROVE OnceInv'
  <2>1. UNCHANGED <<live, raced, cursor>>
    BY <1>2 DEF Check, rows, history
  <2>2. \A d \in Calls : Meant(d)' => Meant(d) \/ ~isAlreadyImported(Upcoming(d))
    BY <1>t, <1>2 DEF Check, Fetch, Goto, CallTypeOK, Meant
  <2> QED
    BY <1>l, <2>1, <2>2, OnceKept
<1>3. ASSUME NEW c \in Calls,
             \/ Begin(c) \/ loadCursor(c) \/ Throw(c) \/ CheckFailed(c)
             \/ CreateFailed(c) \/ saveCursor(c)
      PROVE  OnceInv'
  <2>1. UNCHANGED <<live, raced>>
    BY <1>3 DEF Begin, loadCursor, Throw, CheckFailed, CreateFailed, saveCursor, Report,
       rows, history
  <2>2. \E p \in {"idle", "load", "check", "save"} : at' = [at EXCEPT ![c] = p]
    BY <1>3 DEF Begin, loadCursor, Throw, CheckFailed, CreateFailed, saveCursor, Report,
       Finish, Goto
  <2>3. \A d \in Calls \ {c} : cursor'[d] = cursor[d]
    <3>1. \/ cursor' = cursor \/ \E v : cursor' = [cursor EXCEPT ![c] = v]
      BY <1>3 DEF Begin, loadCursor, Throw, CheckFailed, CreateFailed, saveCursor, Finish
    <3> QED
      BY <1>t, <3>1 DEF CallTypeOK
  <2>4. \A d \in Calls : Meant(d)' => cursor'[d] = cursor[d] /\ Meant(d)
    BY <1>t, <2>2, <2>3 DEF CallTypeOK, Meant
  <2> QED
    BY <1>l, <2>1, <2>4, OnceKept
<1>4. ASSUME NEW c \in Calls, createApproved(c) PROVE OnceInv'
  <2> DEFINE v == Upcoming(c)
  <2>1. v \in Verses /\ Meant(c)
    BY <1>t, <1>4, UpcomingIsVerse DEF createApproved, Meant
  <2>2. /\ at' = [at EXCEPT ![c] = "save"] /\ UNCHANGED cursor
        /\ live' = [live EXCEPT ![v] = @ + 1]
        /\ raced' = IF AlsoMeant(c, v) THEN raced \cup {v} ELSE raced
    BY <1>4 DEF createApproved, Goto
  <2>3. /\ raced \subseteq raced'
        /\ \A w \in Verses \ {v} : live'[w] = live[w]
        /\ live[v] \in Nat /\ live'[v] = live[v] + 1
    BY <1>t, <2>1, <2>2 DEF RowsTypeOK
  <2>4. live[v] > 0 => v \in raced
    BY <2>1 DEF OnceInv
  <2>5. ASSUME NEW w \in Verses, live'[w] > 1 PROVE w \in raced'
    <3>1. CASE w = v
      BY <2>3, <2>4, <2>5, <3>1
    <3>2. CASE w # v
      BY <2>3, <2>5, <3>2 DEF OnceInv, ImportedOnce
    <3> QED
      BY <3>1, <3>2
  <2>6. ASSUME NEW d \in Calls, Meant(d)', live'[Upcoming(d)'] > 0
        PROVE  Upcoming(d)' \in raced'
    <3>1. d # c /\ Meant(d)
      BY <1>t, <2>2, <2>6 DEF CallTypeOK, Meant
    <3>2. Upcoming(d)' = Upcoming(d) /\ Upcoming(d) \in Verses
      BY <1>t, <2>2, UpcomingIsVerse DEF Upcoming
    <3>3. CASE Upcoming(d) = v
      BY <2>2, <3>1, <3>2, <3>3 DEF AlsoMeant
    <3>4. CASE Upcoming(d) # v
      <4>1. live[Upcoming(d)] > 0
        BY <2>3, <2>6, <3>2, <3>4
      <4> QED
        BY <2>3, <3>1, <3>2, <4>1 DEF OnceInv
    <3> QED
      BY <3>3, <3>4
  <2> QED
    BY <2>5, <2>6 DEF OnceInv, ImportedOnce
<1>5. ASSUME NEW v \in Verses, Archive(v) PROVE OnceInv'
  <2>1. live' = [live EXCEPT ![v] = @ - 1] /\ live[v] > 0 /\ UNCHANGED <<raced, at, cursor>>
    BY <1>5 DEF Archive, call, history
  <2>2. \A w \in Verses : live'[w] <= live[w] /\ live'[w] \in Nat
    BY <1>t, <2>1 DEF RowsTypeOK
  <2> QED
    BY <2>1, <2>2, OnceKept DEF Meant
<1>6. CASE Restart
  <2>1. UNCHANGED <<live, raced>> /\ \A c \in Calls : at'[c] = "idle"
    BY <1>6 DEF Restart, rows, history
  <2>2. \A c \in Calls : ~Meant(c)'
    BY <2>1 DEF Meant
  <2> QED
    BY <1>l, <2>1, <2>2, OnceKept
<1>7. CASE UNCHANGED <<live, raced, at, cursor>>
  BY <1>l, <1>7, OnceKept DEF Meant
<1> QED
  BY <1>1, <1>2, <1>3, <1>4, <1>5, <1>6, <1>7
  DEF Next, CallStep, TokenExpires, TafsirsExpire, Revoke, Deny, rows, call, history, vars

(* isAlreadyImported, asked an await before the creation, lets a verse     *)
(* have a second live item only when two calls both found it missing.      *)
THEOREM VersesImportedOnce == Spec => []ImportedOnce
<1>1. Init => OnceInv
  BY DEF Init, OnceInv, ImportedOnce, Meant
<1>2. TypeOK /\ OnceInv /\ [Next]_vars => OnceInv'
  BY OnceStep
<1>3. OnceInv => ImportedOnce
  BY DEF OnceInv
<1> QED
  BY <1>1, <1>2, <1>3, TypeCorrect, PTL DEF Spec

-----------------------------------------------------------------------------
(* Every retry has an accepted token.                                      *)

LEMMA SoundKept ==
  ASSUME revoked' = revoked, harmed => harmed', NEW r, Sound(r)
  PROVE  Sound(r)'
BY DEF Sound

LEMMA NewIsSound == TokenInv => Sound(NoRequest) /\ Sound(Started)
BY DEF TokenInv, Sound, NoRequest, Started, Sent

LEMMA TokenKept ==
  ASSUME TokenInv, revoked' = revoked, harmed => harmed', denied' => harmed',
         revoked = 0 => token' # "dead",
         \A c \in Calls, k \in Kinds : Sound(request'[c][k])
  PROVE  TokenInv'
BY DEF TokenInv, Sound

LEMMA PassedIsSound ==
  ASSUME TokenInv, NEW c \in Calls, NEW k \in Kinds, Passed(c, k)
  PROVE  Sound(request'[c][k])
<1>1. Sound(request[c][k]) /\ Sound(request[c]["tafsir"])
  BY DEF TokenInv, Kinds
<1> QED
  BY <1>1, NewIsSound DEF Passed

LEMMA MintSound ==
  ASSUME TypeOK, TokenInv, NEW c \in Calls, NEW k \in Kinds, Mint(c, k)
  PROVE  \A d \in Calls, j \in Kinds : Sound(request'[d][j])
<1> DEFINE r == [request[c][k] EXCEPT !.step = "sent", !.token = "good"]
<1>1. request[c][k] \in Requests /\ CallTypeOK
  BY DEF TypeOK, CallTypeOK
<1>2. r \in Requests
  BY <1>1 DEF Requests, Tokens
<1>3. r.step = "sent" /\ r.token = "good" /\ r.retry = request[c][k].retry
  BY <1>1 DEF Requests
<1>4. Sound(request[c][k])
  BY DEF TokenInv
<1>5. Sound(r)
  BY <1>3, <1>4 DEF Sound
<1>6. \A d \in Calls, j \in Kinds :
        request'[d][j] = IF d = c /\ j = k THEN r ELSE request[d][j]
  <2>1. request' = [request EXCEPT ![c][k] = r]
    BY DEF Mint
  <2> HIDE DEF r
  <2> QED
    BY <1>1, <1>2, <2>1, ReplaceRequest
<1> HIDE DEF r
<1> QED
  BY <1>5, <1>6 DEF TokenInv

(* A rejected first try had a revoked token, or access is denied.          *)
LEMMA RefreshSound ==
  ASSUME TypeOK, TokenInv, NEW c \in Calls, NEW k \in Kinds, Refresh(c, k)
  PROVE  \A d \in Calls, j \in Kinds : Sound(request'[d][j])
<1> DEFINE r == [step |-> "minting", token |-> "none", retry |-> TRUE]
<1>1. request[c][k] \in Requests /\ CallTypeOK
  BY DEF TypeOK, CallTypeOK
<1>2. r \in Requests
  BY DEF Requests, Tokens
<1>3. ~(revoked = 0 /\ ~harmed)
  <2>1. Sound(request[c][k]) /\ (denied => harmed)
    BY DEF TokenInv
  <2>2. request[c][k].step = "sent" /\ (denied \/ request[c][k].token # "good")
    BY DEF Refresh, Waiting, Accepted
  <2>3. request[c][k].token \in {"none", "good", "dead"}
    BY <1>1 DEF Requests, Tokens
  <2> QED
    BY <2>1, <2>2, <2>3 DEF Sound
<1>4. Sound(r)
  BY <1>3 DEF Sound
<1>5. \A d \in Calls, j \in Kinds :
        request'[d][j] = IF d = c /\ j = k THEN r ELSE request[d][j]
  <2>1. request' = [request EXCEPT ![c][k] = r]
    BY DEF Refresh
  <2> HIDE DEF r
  <2> QED
    BY <1>1, <1>2, <2>1, ReplaceRequest
<1> HIDE DEF r
<1> QED
  BY <1>4, <1>5 DEF TokenInv

LEMMA RevokeKeepsTokens == TypeOK /\ TokenInv /\ Revoke => TokenInv'
<1> SUFFICES ASSUME TypeOK, TokenInv, Revoke PROVE TokenInv'
  OBVIOUS
<1>1. /\ revoked \in Nat /\ revoked' = revoked + 1
      /\ UNCHANGED <<denied, harmed>>
      /\ \A c \in Calls, k \in Kinds :
           request'[c][k] = [request[c][k] EXCEPT !.token = Dead(@)]
  BY DEF Revoke, TypeOK, TokenTypeOK
<1>2. ASSUME NEW r \in Requests, Sound(r) PROVE Sound([r EXCEPT !.token = Dead(@)])'
  <2> DEFINE q == [r EXCEPT !.token = Dead(@)]
  <2>1. q.step = r.step /\ q.token = Dead(r.token) /\ q.retry = r.retry
    BY DEF Requests
  <2>2. r.token # "none" => q.token # "none"
    BY <2>1 DEF Dead
  <2>3. revoked' # 0 /\ (revoked' <= 1 => revoked = 0)
    BY <1>1
  <2> HIDE DEF q
  <2>4. Sound(q)'
    BY <1>1, <1>2, <2>1, <2>2, <2>3 DEF Sound
  <2> QED
    BY <2>4 DEF q
<1>3. ASSUME NEW c \in Calls, NEW k \in Kinds PROVE Sound(request[c][k])'
  <2>1. request[c][k] \in Requests /\ Sound(request[c][k])
    BY DEF TypeOK, CallTypeOK, TokenInv
  <2> QED
    BY <1>1, <1>2, <2>1
<1>4. revoked' # 0 /\ (denied' => harmed')
  BY <1>1 DEF TokenInv
<1> QED
  BY <1>3, <1>4 DEF TokenInv

LEMMA TokenStep == TypeOK /\ TokenInv /\ [Next]_vars => TokenInv'
<1> SUFFICES ASSUME TypeOK, TokenInv, [Next]_vars
             PROVE  TokenInv'
  OBVIOUS
<1>t. CallTypeOK /\ TokenTypeOK
  BY DEF TypeOK
<1>d. (denied => harmed) /\ (revoked = 0 => token # "dead")
  BY DEF TokenInv
<1>1. ASSUME NEW c \in Calls, NEW k \in Kinds, Mint(c, k) PROVE TokenInv'
  <2>1. UNCHANGED <<denied, harmed, revoked>> /\ token' = "good"
    BY <1>1 DEF Mint, history
  <2> QED
    BY <1>1, <1>d, <2>1, MintSound, TokenKept
<1>2. ASSUME NEW c \in Calls, NEW k \in Kinds, Refresh(c, k) PROVE TokenInv'
  <2>1. UNCHANGED <<denied, harmed, revoked>> /\ token' = "none"
    BY <1>2 DEF Refresh, history
  <2> QED
    BY <1>2, <1>d, <2>1, RefreshSound, TokenKept
<1>3. ASSUME NEW c \in Calls, NEW k \in Kinds,
             Answered(c, k) \/ Refused(c, k) \/ Failed(c, k)
      PROVE  TokenInv'
  <2>1. UNCHANGED <<denied, token, revoked>> /\ (harmed => harmed')
    BY <1>3 DEF Answered, Refused, Failed, Harm
  <2>2. \A d \in Calls, j \in Kinds : Passed(d, j)
    BY <1>t, <1>3, ArriveRequests, LoseRequests DEF Answered, Refused, Failed
  <2> QED
    BY <1>d, <2>1, <2>2, PassedIsSound, TokenKept
<1>4. ASSUME NEW c \in Calls, Check(c) PROVE TokenInv'
  <2>1. UNCHANGED <<denied, token, harmed, revoked>>
    BY <1>4 DEF Check, caches, history
  <2>2. \A d \in Calls, j \in Kinds : Passed(d, j)
    BY <1>t, <1>4, CheckRequests
  <2> QED
    BY <1>d, <2>1, <2>2, PassedIsSound, TokenKept
<1>5. CASE Revoke
  BY <1>5, RevokeKeepsTokens
<1>6. CASE Restart
  <2>1. UNCHANGED <<denied, harmed, revoked>> /\ token' = "none"
    BY <1>6 DEF Restart, history
  <2>2. \A c \in Calls, k \in Kinds : Passed(c, k)
    BY <1>6 DEF Restart, Passed
  <2> QED
    BY <1>d, <2>1, <2>2, PassedIsSound, TokenKept
<1>7. CASE UNCHANGED <<request, revoked>>
  <2>1. harmed => harmed'
    BY DEF Next, CallStep, RequestStep, Begin, loadCursor, Throw, Check, CheckFailed,
       createApproved, CreateFailed, saveCursor, Mint, Refresh, Answered, Refused, Failed,
       TokenExpires, TafsirsExpire, Revoke, Deny, Restart, Archive, Harm, history, vars
  <2>2. denied' = denied \/ harmed'
    BY DEF Next, CallStep, RequestStep, Begin, loadCursor, Throw, Check, CheckFailed,
       createApproved, CreateFailed, saveCursor, Mint, Refresh, Answered, Refused, Failed,
       TokenExpires, TafsirsExpire, Revoke, Deny, Restart, Archive, Harm, vars
  <2>3. revoked = 0 => token' # "dead"
    <3>1. token' \in {token, "none", "good"} \/ revoked' = revoked + 1
      BY DEF Next, CallStep, RequestStep, Begin, loadCursor, Throw, Check, CheckFailed,
         createApproved, CreateFailed, saveCursor, Mint, Refresh, Answered, Refused, Failed,
         TokenExpires, TafsirsExpire, Revoke, Deny, Restart, Archive, caches, vars
    <3>2. revoked' # revoked + 1
      BY <1>7, <1>t DEF TokenTypeOK
    <3> QED
      BY <3>1, <3>2, <1>d
  <2>4. \A c \in Calls, k \in Kinds : Sound(request'[c][k])
    BY <1>7 DEF TokenInv
  <2> QED
    BY <1>7, <1>d, <2>1, <2>2, <2>3, <2>4, TokenKept
<1> QED
  BY <1>1, <1>2, <1>3, <1>4, <1>5, <1>6, <1>7
  DEF Next, CallStep, RequestStep, Begin, loadCursor, Throw, CheckFailed, createApproved,
      CreateFailed, saveCursor, TokenExpires, TafsirsExpire, Deny, Archive, history, vars

(* QuranFoundationTokenService: as long as Quran.Foundation revokes its    *)
(* tokens at most once and fails no request, every request retried after a *)
(* 401 goes out with an accepted token, though all share one cached token  *)
(* that any of them drops.                                                 *)
THEOREM RetriesAccepted == Spec => []RetryAccepted
<1>1. Init => TokenInv
  <2>1. Init => /\ ~denied /\ token = "none"
                /\ \A c \in Calls, k \in Kinds : request[c][k] = NoRequest
    BY DEF Init
  <2>2. Sound(NoRequest)
    BY DEF Sound, NoRequest
  <2> QED
    BY <2>1, <2>2 DEF TokenInv
<1>2. TypeOK /\ TokenInv /\ [Next]_vars => TokenInv'
  BY TokenStep
<1>3. TokenInv => RetryAccepted
  BY DEF TokenInv, RetryAccepted, Sound, Waiting, Accepted
<1> QED
  BY <1>1, <1>2, <1>3, TypeCorrect, PTL DEF Spec
=============================================================================
