----------------------------- MODULE Subscriptions -----------------------------
(***************************************************************************)
(* Who receives, and how: the commands people send to the bot              *)
(* (SlackEventsService), the subscriber rows they and administrators write *)
(* (SubscribersService), the streams (module Streams), and the query of    *)
(* the scheduler's tick that brings them together.                         *)
(*                                                                         *)
(* A step is one query, one transaction or one message to Slack, with the  *)
(* code up to the next await.  Commands are acknowledged before they are   *)
(* handled: Slack does not repeat one that a restart cuts off, and the     *)
(* commands of one person overlap freely.                                  *)
(***************************************************************************)
EXTENDS Streams

CONSTANTS
  Users,        \* slackUserId
  Calls,        \* commands and administrators' requests in flight at once,
                \* numbered: a new one takes the first number that is free
  Choices,      \* the settings people choose: a field and a value each
  AdminPatches, \* what SubscribersService.update is called with by an
                \* administrator: functions from some of the Fields
  MaxFaults     \* bound: failed queries and messages, restarts and a
                \* deactivation, together

(* A subscriber row; for each setting 0 stands for its default.            *)
Fields == {"isActive", "sendTime", "timezone", "locale"}
Row == [isActive : BOOLEAN, sendTime : {0, 1}, timezone : {0, 1}, locale : {0, 1}]

FieldRange(f) == IF f = "isActive" THEN BOOLEAN ELSE {0, 1}

ASSUME SubscriptionsAssumption ==
  /\ Calls \subseteq Nat
  /\ Choices \subseteq (Fields \ {"isActive"}) \X {0, 1}
  /\ \A patch \in AdminPatches :
       /\ DOMAIN patch \subseteq Fields
       /\ \A f \in DOMAIN patch : patch[f] \in FieldRange(f)
  /\ None \notin Row /\ \A f \in Fields : None \notin FieldRange(f)
  /\ MaxFaults \in Nat

VARIABLES
  rows,      \* UserSubscriber rows, by slackUserId
  due,       \* the subscribers the tick at work has yet to deliver to
  at,        \* what each call is about to do
  command,   \* what it was called with
  faults,    \* what counts against MaxFaults
  asked,     \* history: who subscribed, or was activated by an administrator
  confirmed, \* history: the value of each field a person was last told, until
             \* somebody's command or request writes that field again
  news,      \* history: fields each command is about that others wrote since
             \* it last read or wrote the row
  excuse,    \* history: a query or message of the call failed, the workspace
             \* was not active when it did, or another created the row it
             \* meant to create
  unreported \* history: a command failed and FAILURE_TEXT was not even tried

calls == <<at, command>>
history == <<asked, confirmed, news, excuse, unreported>>
vars == <<workspace, requests, streamVars, rows, due, calls, faults, history>>

(* kind: "toggle" (/subscribe, /unsubscribe), "setting" (/settings time,   *)
(* timezone or language with a valid value), "show" (/settings), "hint"    *)
(* (/settings with anything else), "instant" (/aya, /hadith); "create" and *)
(* "update" are an administrator's.  set: the fields it is about.          *)
Command(kind, user, set) == [kind |-> kind, user |-> user, set |-> set]

Nothing == [f \in {} |-> None]
NoCommand == Command("none", None, Nothing)

One(f, value) == [g \in {f} |-> value]

UserCommands ==
  {Command("toggle", u, One("isActive", b)) : u \in Users, b \in BOOLEAN}
    \cup {Command("setting", u, One(choice[1], choice[2])) : u \in Users, choice \in Choices}
    \cup {Command(k, u, Nothing) : k \in {"show", "hint", "instant"}, u \in Users}

AdminCommands ==
  {Command("create", u, One("isActive", b)) : u \in Users, b \in BOOLEAN}
    \cup {Command("update", u, patch) : u \in Users, patch \in AdminPatches}

About(c) == DOMAIN command[c].set
Administered(c) == command[c].kind \in {"create", "update"}
Wanted(c) == command[c].set.isActive
RowOf(c) == rows[command[c].user]
IsNew(c) == RowOf(c) = None

Activates(new) == "isActive" \in DOMAIN new.set /\ new.set.isActive

Unheard == [f \in Fields |-> None]

Init ==
  /\ StreamInit
  /\ requests = 0 /\ faults = 0
  /\ rows = [u \in Users |-> None]
  /\ due = {}
  /\ at = [c \in Calls |-> "idle"]
  /\ command = [c \in Calls |-> NoCommand]
  /\ asked = {}
  /\ confirmed = [u \in Users |-> Unheard]
  /\ news = [c \in Calls |-> {}]
  /\ excuse = [c \in Calls |-> FALSE]
  /\ unreported = FALSE

Fault ==
  /\ faults < MaxFaults
  /\ faults' = faults + 1

-----------------------------------------------------------------------------
(* Steps of a call.                                                        *)

Goto(c, step) == at' = [at EXCEPT ![c] = step]

Proceed(c, step) == Goto(c, step) /\ UNCHANGED <<command, news, excuse>>

(* The call is over.                                                       *)
End(c) == Goto(c, "idle") /\ command' = [command EXCEPT ![c] = NoCommand]

Forget(c) ==
  /\ news' = [news EXCEPT ![c] = {}]
  /\ excuse' = [excuse EXCEPT ![c] = FALSE]

(* What an exception leads to: FAILURE_TEXT, or an error to the client.    *)
Throw(c) ==
  IF Administered(c)
  THEN End(c) /\ Forget(c)
  ELSE Proceed(c, "failure")

(* What no step of a call writes, but the last one of each changes rows.   *)
Rest == <<workspace, requests, streamVars, due, faults, asked, unreported>>

Begin(c, new, step) ==
  /\ at[c] = "idle" /\ \A d \in Calls : d < c => at[d] # "idle"
  /\ Request
  /\ Goto(c, step)
  /\ command' = [command EXCEPT ![c] = new]
  /\ asked' = IF Activates(new) THEN asked \cup {new.user} ELSE asked
  /\ UNCHANGED <<workspace, streamVars, rows, due, faults, confirmed, news, excuse, unreported>>

(* A command arrives and is acknowledged.                                  *)
Receive(c) == \E new \in UserCommands : Begin(c, new, "lookup")

(* An administrator's request, of the JSON API or of a form.               *)
Administer(c) ==
  \E new \in AdminCommands :
    Begin(c, new, IF new.kind = "create" THEN "workspace" ELSE "existing")

(* The workspace is looked up.  One nobody knows is ignored: there is no   *)
(* token to answer with.                                                   *)
Lookup(c) ==
  /\ at[c] = "lookup"
  /\ IF workspace = "gone" THEN End(c) /\ Forget(c)
     ELSE Proceed(c, IF command[c].kind = "hint" THEN "reply" ELSE "read")
  /\ UNCHANGED <<Rest, rows, confirmed>>

(* Mutant: a repeated command writes again. *)
applyToggleAgain(c) ==
  IF IsNew(c) THEN IF Wanted(c) THEN "workspace" ELSE "reply" ELSE "existing"

(* Mutant: the row that is there does not matter. *)
applyToggleBlindly(c) ==
  IF Wanted(c) THEN "workspace" ELSE IF IsNew(c) THEN "reply" ELSE "existing"

(* What a toggle does next, once it has read the row.                      *)
applyToggle(c) ==
  IF IsNew(c) THEN IF Wanted(c) THEN "workspace" ELSE "reply"
  ELSE IF RowOf(c).isActive # Wanted(c) THEN "existing" ELSE "reply"

(* What a setting does next: it is written to a row, new if need be.       *)
getOrCreateSubscriber(c) == IF IsNew(c) THEN "workspace" ELSE "existing"

(* getByUserId, which every command but a misspelt one begins with.        *)
ReadOwn(c) ==
  /\ at[c] = "read"
  /\ Goto(c, CASE command[c].kind = "toggle" -> applyToggle(c)
               [] command[c].kind = "setting" -> getOrCreateSubscriber(c)
               [] command[c].kind = "show" -> "reply"
               [] command[c].kind = "instant" -> "select")
  /\ news' = [news EXCEPT ![c] = {}]
  /\ UNCHANGED <<Rest, rows, command, confirmed, excuse>>

(* /aya and /hadith: an approved item is picked, and it, or the news that  *)
(* there is none or that it is too large, is what is posted.               *)
SelectRandom(c) ==
  /\ at[c] = "select"
  /\ Proceed(c, "reply")
  /\ UNCHANGED <<Rest, rows, confirmed>>

-----------------------------------------------------------------------------
(* SubscribersService.                                                     *)

(* create: the workspace has to exist, ...                                 *)
CheckWorkspace(c) ==
  /\ at[c] = "workspace"
  /\ IF workspace # "gone" THEN Proceed(c, "unique") ELSE Throw(c)
  /\ UNCHANGED <<Rest, rows, confirmed>>

(* ... a row of this user must not, ...                                    *)
CheckUnique(c) ==
  /\ at[c] = "unique"
  /\ IF IsNew(c) THEN Proceed(c, "insert") ELSE Throw(c)
  /\ UNCHANGED <<Rest, rows, confirmed>>

(* Mutant: a setting leaves isActive to its default. *)
CreatedActive(c) ==
  [isActive |-> "isActive" \in About(c) => Wanted(c),
   sendTime |-> 0, timezone |-> 0, locale |-> 0]

(* The row create is asked for: a setting does not subscribe.              *)
Created(c) ==
  [isActive |-> "isActive" \in About(c) /\ Wanted(c),
   sendTime |-> 0, timezone |-> 0, locale |-> 0]

(* A write: what people and calls knew of its fields no longer counts.     *)
Tell(c) ==
  /\ confirmed' = [confirmed EXCEPT ![command[c].user] =
                     [f \in Fields |-> IF f \in About(c) THEN None ELSE @[f]]]
  /\ news' = [d \in Calls |->
                IF d = c THEN {}
                ELSE IF command[d].user = command[c].user /\ ~Administered(d)
                THEN news[d] \cup (About(c) \cap About(d))
                ELSE news[d]]

(* ... and the transaction, where the unique key of the table decides.     *)
Insert(c) ==
  /\ at[c] = "insert"
  /\ IF workspace # "gone" /\ IsNew(c)
     THEN /\ rows' = [rows EXCEPT ![command[c].user] = Created(c)]
          /\ Tell(c)
          /\ excuse' = [d \in Calls |->
                          IF d = c THEN excuse[c] /\ ~Administered(c)
                          ELSE excuse[d] \/ (command[d].user = command[c].user /\ ~Administered(d))]
          /\ IF Administered(c) THEN End(c)
             ELSE Goto(c, IF command[c].kind = "setting" THEN "existing" ELSE "reply")
                  /\ UNCHANGED command
     ELSE Throw(c) /\ UNCHANGED <<rows, confirmed>>
  /\ UNCHANGED Rest

(* update: getById, ...                                                    *)
GetById(c) ==
  /\ at[c] = "existing"
  /\ IF IsNew(c) THEN Throw(c) ELSE Proceed(c, "write")
  /\ UNCHANGED <<Rest, rows, confirmed>>

(* Mutant: a sendTime that is not given is taken for null. *)
UpdatedFields(c) == Patched([RowOf(c) EXCEPT !.sendTime = 0], command[c].set)

(* The row after an update: only the fields that were given are written,   *)
(* among them a sendTime of null.                                          *)
Updated(c) == Patched(RowOf(c), command[c].set)

(* ... and the transaction.                                                *)
Write(c) ==
  /\ at[c] = "write"
  /\ IF ~IsNew(c)
     THEN /\ rows' = [rows EXCEPT ![command[c].user] = Updated(c)]
          /\ Tell(c)
          /\ IF Administered(c)
             THEN End(c) /\ excuse' = [excuse EXCEPT ![c] = FALSE]
             ELSE Goto(c, "reply") /\ UNCHANGED <<command, excuse>>
     ELSE Throw(c) /\ UNCHANGED <<rows, confirmed>>
  /\ UNCHANGED Rest

-----------------------------------------------------------------------------
(* Answers.  An inactive workspace has no token to send them with.         *)

(* SUBSCRIBE_TEXT, UNSUBSCRIBE_TEXT, the new setting, the hints, an item.  *)
Reply(c) ==
  /\ at[c] = "reply"
  /\ IF workspace = "active"
     THEN /\ End(c) /\ Forget(c)
          /\ confirmed' = [confirmed EXCEPT ![command[c].user] =
                             [f \in Fields |-> IF f \in About(c) \ news[c]
                                               THEN command[c].set[f] ELSE @[f]]]
     ELSE Throw(c) /\ UNCHANGED confirmed
  /\ UNCHANGED <<Rest, rows>>

(* Slack refuses the answer, though the command has been carried out.      *)
ReplyFails(c) ==
  /\ at[c] = "reply" /\ workspace = "active"
  /\ Fault
  /\ Goto(c, "failure")
  /\ excuse' = [excuse EXCEPT ![c] = TRUE]
  /\ UNCHANGED <<workspace, requests, streamVars, rows, due, command, asked, confirmed, news, unreported>>

(* FAILURE_TEXT, sent or not.                                              *)
replyQuietly(c) ==
  /\ at[c] = "failure"
  /\ End(c) /\ Forget(c)
  /\ UNCHANGED <<Rest, rows, confirmed>>

-----------------------------------------------------------------------------
(* The tick, and what else happens.                                        *)

(* Mutant: the query does not ask who is active. *)
isDueUnasked(u) == rows[u] # None

isDue(u) == rows[u] # None /\ rows[u].isActive

(* findDueStreamSubscribers: one query for streams and subscribers, then   *)
(* the day and the windows (module DueWindow); any may be open.            *)
FindDue ==
  \E today \in Days, open \in SUBSET Users :
    /\ due = {}
    /\ workspace = "active" /\ stream # None /\ stream.isEnabled
    /\ stream.frequency = "WEEKLY" => today \in stream.daysOfWeek
    /\ due' = {u \in open : isDue(u)}
    /\ UNCHANGED <<workspace, requests, streamVars, rows, calls, faults, history>>

(* deliverToSubscriber (module Delivery) does not ask again.               *)
Deliver ==
  \E u \in due :
    /\ due' = due \ {u}
    /\ UNCHANGED <<workspace, requests, streamVars, rows, calls, faults, history>>

(* The process stops: commands are lost, and so is the tick at work.       *)
Lost ==
  /\ Fault
  /\ at' = [c \in Calls |-> "idle"]
  /\ command' = [c \in Calls |-> NoCommand]
  /\ news' = [c \in Calls |-> {}]
  /\ excuse' = [c \in Calls |-> FALSE]
  /\ due' = {}
  /\ streamAt' = [a \in Admins |-> "idle"]
  /\ data' = [a \in Admins |-> NoData]
  /\ UNCHANGED <<workspace, requests, stream, overtaken, mixed, rows, asked, confirmed>>

Restart == Lost /\ UNCHANGED unreported

(* The lookup of the workspace stands before the try: when it fails, the   *)
(* promise nobody awaits is rejected, and that ends a Node.js process.     *)
LookupFails(c) ==
  /\ at[c] = "lookup"
  /\ Lost
  /\ unreported' = TRUE

(* Any other query or transaction fails.                                   *)
QueryFails(c) ==
  /\ at[c] \in {"read", "select", "workspace", "unique", "insert", "existing", "write"}
  /\ Fault
  /\ IF Administered(c)
     THEN End(c) /\ Forget(c)
     ELSE /\ Goto(c, "failure") /\ UNCHANGED <<command, news>>
          /\ excuse' = [excuse EXCEPT ![c] = TRUE]
  /\ UNCHANGED <<workspace, requests, streamVars, rows, due, asked, confirmed, unreported>>

(* The app is uninstalled, or an administrator deactivates the workspace.  *)
Deactivate ==
  /\ workspace = "active"
  /\ Fault
  /\ workspace' = "inactive"
  /\ UNCHANGED <<requests, streamVars, rows, due, calls, history>>

(* It is installed again, or activated, and has its subscribers still.     *)
Reactivate ==
  /\ workspace = "inactive"
  /\ workspace' = "active"
  /\ excuse' = [c \in Calls |-> excuse[c] \/ at[c] = "failure"]
  /\ UNCHANGED <<requests, streamVars, rows, due, calls, faults, asked, confirmed, news,
                 unreported>>

(* The purge deletes it with its subscribers and streams.                  *)
Purge ==
  /\ workspace = "inactive"
  /\ workspace' = "gone"
  /\ rows' = [u \in Users |-> None]
  /\ stream' = None
  /\ asked' = {}
  /\ confirmed' = [u \in Users |-> Unheard]
  /\ news' = [c \in Calls |-> IF Administered(c) THEN {} ELSE About(c)]
  /\ UNCHANGED <<requests, streamAt, data, overtaken, mixed, due, calls, faults, excuse, unreported>>

CallStep(c) ==
  \/ Lookup(c) \/ ReadOwn(c) \/ SelectRandom(c)
  \/ CheckWorkspace(c) \/ CheckUnique(c) \/ Insert(c)
  \/ GetById(c) \/ Write(c)
  \/ Reply(c) \/ replyQuietly(c)

Next ==
  \/ \E c \in Calls :
       \/ Receive(c) \/ Administer(c) \/ CallStep(c)
       \/ ReplyFails(c) \/ LookupFails(c) \/ QueryFails(c)
  \/ StreamStep /\ UNCHANGED <<rows, due, calls, faults, history>>
  \/ FindDue \/ Deliver
  \/ Restart \/ Deactivate \/ Reactivate \/ Purge

Spec == Init /\ [][Next]_vars

-----------------------------------------------------------------------------
(* The steps each kind of command goes through.                            *)
Steps ==
  [none |-> {"idle"},
   toggle |-> {"lookup", "read", "workspace", "unique", "insert", "existing", "write",
               "reply", "failure"},
   setting |-> {"lookup", "read", "workspace", "unique", "insert", "existing", "write",
                "reply", "failure"},
   show |-> {"lookup", "read", "reply", "failure"},
   hint |-> {"lookup", "reply", "failure"},
   instant |-> {"lookup", "read", "select", "reply", "failure"},
   create |-> {"workspace", "unique", "insert"},
   update |-> {"existing", "write"}]

(* The values every variable takes, and a call is where its command may be. *)
RowsTypeOK ==
  /\ rows \in [Users -> Row \cup {None}]
  /\ due \subseteq Users
  /\ faults \in 0..MaxFaults

CommandTypeOK ==
  /\ command \in [Calls -> UserCommands \cup AdminCommands \cup {NoCommand}]
  /\ DOMAIN at = Calls /\ \A c \in Calls : at[c] \in Steps[command[c].kind]

HistoryTypeOK ==
  /\ asked \subseteq Users
  /\ DOMAIN confirmed = Users
  /\ \A u \in Users : /\ DOMAIN confirmed[u] = Fields
                      /\ \A f \in Fields : confirmed[u][f] \in FieldRange(f) \cup {None}
  /\ news \in [Calls -> SUBSET Fields]
  /\ excuse \in [Calls -> BOOLEAN]
  /\ unreported \in BOOLEAN

TypeOK == StreamTypeOK /\ RowsTypeOK /\ CommandTypeOK /\ HistoryTypeOK

(* What a person has of a field, with or without a row.                    *)
Has(u, f) ==
  IF rows[u] # None THEN rows[u][f] ELSE IF f = "isActive" THEN FALSE ELSE 0

(* What a person is told, unless others have written that field since the  *)
(* command read or wrote it, is true, and stays so until somebody writes   *)
(* that field: a command about another one never undoes it.                *)
ConfirmedStays ==
  \A u \in Users, f \in Fields :
    confirmed[u][f] # None => Has(u, f) = confirmed[u][f]

(* A command fails only for a reason: a query or message failed, the       *)
(* workspace is not active or was not when the command failed, or the row  *)
(* it was to create came from another.                                     *)
FailureHasCause ==
  \A c \in Calls : at[c] = "failure" => excuse[c] \/ workspace # "active"

(* src/slack-events/slack-events.service.ts:279: a repeated command writes *)
(* nothing; only one that others overtook may write what is there already. *)
RepeatWritesNothing ==
  [][\A c \in Calls :
       at[c] = "write" /\ at'[c] = "reply" /\ command[c].kind = "toggle" /\ news[c] = {}
         => rows'[command[c].user].isActive # RowOf(c).isActive]_vars

(* src/slack-events/slack-events.service.ts:534: "/settings must never     *)
(* implicitly subscribe someone".  A tick finds nobody due who has neither *)
(* subscribed nor been activated by an administrator, and nobody who has   *)
(* been told that he is unsubscribed.                                      *)
OnlyTheWillingAreDue ==
  [][\A u \in due' \ due : u \in asked /\ confirmed[u].isActive # FALSE]_vars

(* The inductive invariants.  What a command is about to confirm is true.  *)
ConfirmInv ==
  /\ ConfirmedStays
  /\ \A c \in Calls : at[c] = "reply" =>
       \A f \in About(c) \ news[c] : Has(command[c].user, f) = command[c].set[f]

(* Who is active has asked, or an administrator has, or is about to.       *)
AskedInv ==
  /\ \A u \in Users : isDue(u) => u \in asked
  /\ workspace = "gone" => \A u \in Users : rows[u] = None
  /\ workspace # "gone" =>
       \A c \in Calls : Activates(command[c]) => command[c].user \in asked

(* Why a command has failed, or can only fail: a query or message of it    *)
(* failed, another created its row, or the workspace is not active.        *)
Caused(c) == excuse[c] \/ workspace # "active"

(* A command on its way to a new row found none, one on its way to an      *)
(* update found one; that has changed only for a cause that will last.     *)
Overturned(c) == excuse[c] \/ workspace = "gone"

Grounded(c) ==
  ~Administered(c) =>
    /\ at[c] = "failure" => Caused(c)
    /\ at[c] \in {"workspace", "unique", "insert"} => IsNew(c) \/ Overturned(c)
    /\ at[c] \in {"existing", "write"} => ~IsNew(c) \/ Overturned(c)

CauseInv == \A c \in Calls : Grounded(c)

(* A toggle on its way to an update has something to change, unless others *)
(* wrote isActive since it read the row.                                   *)
HasToToggle(c) ==
  at[c] \in {"existing", "write"} /\ command[c].kind = "toggle" /\ news[c] = {} =>
    ~IsNew(c) /\ RowOf(c).isActive # Wanted(c)

RepeatInv == \A c \in Calls : HasToToggle(c)

(* src/slack-events/slack-events.service.ts:72: a failure after the        *)
(* acknowledgement is reported to the user.                                *)
FailureIsReported == ~unreported
================================================================================
