------------------------------ MODULE Rotation ------------------------------
(***************************************************************************)
(* The cycles of one stream: DeliveryRun, one row per local date, and the  *)
(* content each cycle selects (reserveRun and createRun in                 *)
(* src/deliveries/delivery-orchestrator.service.ts,                        *)
(* src/deliveries/content-selection.service.ts).                           *)
(*                                                                         *)
(* Calls come from ticks that may overlap, for the two local dates that    *)
(* are current somewhere in the world.  The reservation is a Serializable  *)
(* transaction: one snapshot, then a commit that PostgreSQL refuses when   *)
(* another run of the stream was committed since.                          *)
(***************************************************************************)
EXTENDS Integers, Sequences, FiniteSets

CONSTANTS
  Items,      \* ContentItem rows of the stream's locale and allowed types
  Type,       \* their ContentType
  Age,        \* their createdAt, an order
  Types,      \* stream.allowedContentTypes, a sequence; StreamsService dedupes it
  Oversize,   \* items whose canonical render exceeds Slack's limits
  Strategies, \* selection strategies to consider
  Callers,    \* deliverToSubscriber calls that can be running at once
  None,       \* no item
  LastDate,   \* bound: last local date
  MaxChanges  \* bound: approvals and archivals

Dates == 1..LastDate

ASSUME RotationAssumption ==
  /\ None \notin Items
  /\ Types \in Seq({Types[k] : k \in 1..Len(Types)})
  /\ \A k, l \in 1..Len(Types) : Types[k] = Types[l] => k = l
  /\ Type \in [Items -> {Types[k] : k \in 1..Len(Types)}]
  /\ Age \in [Items -> Nat]
  /\ \A i, j \in Items : Age[i] = Age[j] => i = j
  /\ Oversize \subseteq Items
  /\ Strategies \subseteq {"LEAST_RECENTLY_SENT", "RANDOM_WITHOUT_REPLACEMENT",
                            "ALTERNATE_BY_TYPE"}
  /\ LastDate \in Nat
  /\ MaxChanges \in Nat

VARIABLES
  strategy, \* stream.selectionStrategy
  approved, \* items whose status is APPROVED
  since,    \* history: the number of runs when the item was last approved
  run,      \* DeliveryRun, by deliveryLocalDate
  runs,     \* how many rows there are; the next createdAt
  today,    \* the earliest local date that is current somewhere
  at,       \* where each call is in reserveRun
  date,     \* its localDate
  choice,   \* the content it selected in its snapshot
  seen,     \* the number of runs in its snapshot
  served,   \* history: the items subscribers were sent, by date
  changes   \* approvals and archivals so far

content == <<approved, since, changes>>
call == <<at, date, choice, seen>>
vars == <<strategy, content, run, runs, today, call, served>>

NoRun == [status |-> "NONE", item |-> None, createdAt |-> 0]

Init ==
  /\ strategy \in Strategies
  /\ approved \in SUBSET Items
  /\ since = [i \in Items |-> 0]
  /\ run = [d \in Dates |-> NoRun]
  /\ runs = 0
  /\ today = 1
  /\ at = [c \in Callers |-> "idle"]
  /\ date = [c \in Callers |-> 0]
  /\ choice = [c \in Callers |-> None]
  /\ seen = [c \in Callers |-> 0]
  /\ served = [d \in Dates |-> {}]
  /\ changes = 0

-----------------------------------------------------------------------------
(* Selection.                                                              *)

Exists(d) == run[d].status # "NONE"
Selected == {d \in Dates : run[d].item # None}

(* Whether i's latest run came after every run of j.                       *)
Used(i) == \E d \in Selected : run[d].item = i
LaterThan(i, j) ==
  \E d \in Selected :
    /\ run[d].item = i
    /\ \A e \in Selected : run[e].item = j => run[e].createdAt < run[d].createdAt

(* i comes before j in selectLeastRecentlySent's order.                    *)
Precedes(i, j) == LaterThan(j, i) \/ (~Used(i) /\ ~Used(j) /\ Age[i] < Age[j])

selectLeastRecentlySent(pool) ==
  {i \in pool : \A j \in pool \ {i} : Precedes(i, j)}

selectRandomWithoutReplacement(pool) ==
  IF \E i \in pool : ~Used(i) THEN {i \in pool : ~Used(i)} ELSE pool

(* Mutant: the date order is reversed. *)
lastSelectedTypeAscending ==
  IF Selected = {} THEN None
  ELSE Type[run[CHOOSE d \in Selected : \A e \in Selected : d <= e].item]

(* The type of the run with the latest date that selected anything.        *)
lastSelectedType ==
  IF Selected = {} THEN None
  ELSE Type[run[CHOOSE d \in Selected : \A e \in Selected : e <= d].item]

PoolOf(type, pool) == {i \in pool : Type[i] = type}

(* The k-th type of the rotation, counted from the one that is due.        *)
DueType(k) ==
  LET last == {n \in 1..Len(Types) : Types[n] = lastSelectedType}
      due == IF last = {} THEN 0 ELSE CHOOSE n \in last : TRUE
  IN Types[((due + k) % Len(Types)) + 1]

selectAlternateByType(pool) ==
  LET stocked == {k \in 0..(Len(Types) - 1) : PoolOf(DueType(k), pool) # {}}
      first == CHOOSE k \in stocked : \A l \in stocked : k <= l
  IN selectLeastRecentlySent(PoolOf(DueType(first), pool))

select(pool) ==
  CASE pool = {} -> {None}
    [] pool # {} /\ strategy = "RANDOM_WITHOUT_REPLACEMENT" ->
         selectRandomWithoutReplacement(pool)
    [] pool # {} /\ strategy = "ALTERNATE_BY_TYPE" -> selectAlternateByType(pool)
    [] pool # {} /\ strategy = "LEAST_RECENTLY_SENT" ->
         selectLeastRecentlySent(pool)

-----------------------------------------------------------------------------
(* reserveRun.                                                             *)

(* The caller gets run r; a subscriber is sent its item unless it SKIPPED. *)
Deliver(d, r) ==
  served' = [served EXCEPT ![d] = IF r.status = "SENT" THEN @ \cup {r.item} ELSE @]

Finish(c) ==
  /\ at' = [at EXCEPT ![c] = "idle"]
  /\ date' = [date EXCEPT ![c] = 0]
  /\ choice' = [choice EXCEPT ![c] = None]
  /\ seen' = [seen EXCEPT ![c] = 0]

(* The transaction finds the date's run, or selects content for it.        *)
Existing(c, d) ==
  /\ at[c] = "idle"
  /\ Exists(d)
  /\ Deliver(d, run[d])
  /\ UNCHANGED <<strategy, content, run, runs, today, call>>

Select(c, d) ==
  /\ at[c] = "idle"
  /\ ~Exists(d)
  /\ at' = [at EXCEPT ![c] = "commit"]
  /\ date' = [date EXCEPT ![c] = d]
  /\ \E i \in select(approved) : choice' = [choice EXCEPT ![c] = i]
  /\ seen' = [seen EXCEPT ![c] = runs]
  /\ UNCHANGED <<strategy, content, run, runs, today, served>>

(* Mutant: the transaction is not serializable, only its key is unique.     *)
SerializableDates(c) == ~Exists(date[c])

(* A selection reads every run of the stream, so any run committed since    *)
(* conflicts with it; without a selection only the unique key does.         *)
Serializable(c) ==
  /\ ~Exists(date[c])
  /\ choice[c] # None => seen[c] = runs

NewRun(i) ==
  [status |-> IF i = None \/ i \in Oversize THEN "SKIPPED" ELSE "SENT",
   item |-> i, createdAt |-> runs + 1]

Commit(c) ==
  /\ at[c] = "commit"
  /\ Serializable(c)
  /\ run' = [run EXCEPT ![date[c]] = NewRun(choice[c])]
  /\ runs' = runs + 1
  /\ Deliver(date[c], NewRun(choice[c]))
  /\ Finish(c)
  /\ UNCHANGED <<strategy, content, today>>

(* P2002 or P2034: some run was committed since the snapshot.               *)
Conflict(c) ==
  /\ at[c] = "commit"
  /\ seen[c] # runs
  /\ at' = [at EXCEPT ![c] = "reread"]
  /\ UNCHANGED <<strategy, content, run, runs, today, date, choice, seen, served>>

(* Mutant: the loser of the race goes on with what it selected itself.     *)
RereadOwn(c) ==
  /\ at[c] = "reread"
  /\ Exists(date[c])
  /\ Deliver(date[c], NewRun(choice[c]))
  /\ Finish(c)
  /\ UNCHANGED <<strategy, content, run, runs, today>>

(* The loser re-reads its own date's run and adopts it ...                  *)
Reread(c) ==
  /\ at[c] = "reread"
  /\ Exists(date[c])
  /\ Deliver(date[c], run[date[c]])
  /\ Finish(c)
  /\ UNCHANGED <<strategy, content, run, runs, today>>

(* ... or throws, when it lost to a run of another date.                    *)
Throw(c) ==
  /\ at[c] = "reread"
  /\ ~Exists(date[c])
  /\ at' = [at EXCEPT ![c] = "thrown"]
  /\ UNCHANGED <<strategy, content, run, runs, today, date, choice, seen, served>>

(* A query fails or the process dies, or a thrown error has been logged.    *)
Abandon(c) ==
  /\ at[c] # "idle"
  /\ Finish(c)
  /\ UNCHANGED <<strategy, content, run, runs, today, served>>

-----------------------------------------------------------------------------
(* The rest of the world.                                                  *)

Approve(i) ==
  /\ changes < MaxChanges
  /\ i \notin approved
  /\ approved' = approved \cup {i}
  /\ since' = [since EXCEPT ![i] = runs]
  /\ changes' = changes + 1
  /\ UNCHANGED <<strategy, run, runs, today, call, served>>

Archive(i) ==
  /\ changes < MaxChanges
  /\ i \in approved
  /\ approved' = approved \ {i}
  /\ changes' = changes + 1
  /\ UNCHANGED <<strategy, since, run, runs, today, call, served>>

(* A day passes everywhere: nobody's local date is `today' any more.        *)
NextDay ==
  /\ today < LastDate
  /\ today' = today + 1
  /\ UNCHANGED <<strategy, content, run, runs, call, served>>

Current == {d \in Dates : d \in {today, today + 1}}

CallStep(c) ==
  \/ \E d \in Current : Existing(c, d) \/ Select(c, d)
  \/ Commit(c)
  \/ Conflict(c)
  \/ Reread(c)
  \/ Throw(c)
  \/ Abandon(c)

Next ==
  \/ \E c \in Callers : CallStep(c)
  \/ \E i \in Items : Approve(i) \/ Archive(i)
  \/ NextDay

Spec == Init /\ [][Next]_vars

-----------------------------------------------------------------------------
(* Properties.                                                             *)

Run == [status: {"NONE", "SENT", "SKIPPED"}, item: Items \cup {None}, createdAt: Nat]

(* Every variable keeps its type.                                          *)
TypeOK ==
  /\ strategy \in Strategies
  /\ approved \subseteq Items
  /\ since \in [Items -> Nat]
  /\ run \in [Dates -> Run]
  /\ \A d \in Dates : run[d].status = "SENT" => run[d].item \in Items
  /\ runs \in Nat
  /\ today \in Nat
  /\ at \in [Callers -> {"idle", "commit", "reread", "thrown"}]
  /\ date \in [Callers -> Dates \cup {0}]
  /\ \A c \in Callers : at[c] # "idle" => date[c] \in Dates
  /\ choice \in [Callers -> Items \cup {None}]
  /\ seen \in [Callers -> Nat]
  /\ served \in [Dates -> SUBSET Items]
  /\ changes \in Nat

(* PLAN.md 11.5: whoever wins the race for a date, every subscriber who     *)
(* reaches that date is sent the item of its one run, or nothing.           *)
OneItemPerDate ==
  \A d \in Dates :
    served[d] \subseteq (IF run[d].status = "SENT" THEN {run[d].item} ELSE {})

(* An item that has been approved since before the latest run was created. *)
Standing(j) == j \in approved /\ since[j] < runs

(* The item a step records in a new run.                                    *)
NewlySelected(i) ==
  \E d \in Dates : ~Exists(d) /\ run'[d].status # "NONE" /\ run'[d].item = i

(* PLAN.md 5.14, rules 5 and 6: no item is used again while another that    *)
(* could have been chosen instead has been unused for longer, even when     *)
(* ticks overlap and dates are reserved at the same time.                   *)
Rivals(i) ==
  {j \in Items \ {i} :
     Standing(j) /\ (strategy = "ALTERNATE_BY_TYPE" => Type[j] = Type[i])}

MayBeNext(i) ==
  Used(i) => \A j \in Rivals(i) :
    IF strategy = "RANDOM_WITHOUT_REPLACEMENT" THEN Used(j) ELSE LaterThan(j, i)

NoEarlyRepeat ==
  [][\A i \in Items : NewlySelected(i) => MayBeNext(i)]_vars

(* content-selection.service.ts:124: as long as dates are reserved in their *)
(* order, two cycles in a row never have the same type while another        *)
(* allowed type has something to send.                                      *)
Latest(e) == e \in Selected /\ \A f \in Selected : f <= e

TypesAlternate ==
  [][\A d, e \in Dates :
       /\ strategy = "ALTERNATE_BY_TYPE"
       /\ Latest(e) /\ e < d
       /\ ~Exists(d) /\ run'[d].item # None
       /\ \E j \in Items : Standing(j) /\ Type[j] # Type[run[e].item]
       => Type[run'[d].item] # Type[run[e].item]]_vars

(* The inductive invariant: a selection that can still commit is one that   *)
(* may be made now, because no run was committed since its snapshot.        *)
MayFollow(i) ==
  \A e \in Dates :
    Latest(e) /\ (\E j \in Items : Standing(j) /\ Type[j] # Type[run[e].item])
      => Type[i] # Type[run[e].item]

ChoicesStand ==
  \A c \in Callers :
    /\ seen[c] <= runs
    /\ at[c] = "commit" /\ choice[c] # None /\ seen[c] = runs
         => /\ MayBeNext(choice[c])
            /\ strategy = "ALTERNATE_BY_TYPE" => MayFollow(choice[c])

RotationInv == TypeOK /\ OneItemPerDate /\ ChoicesStand
=============================================================================
