------------------------- MODULE WorkspaceLifecycle -------------------------
(***************************************************************************)
(* A workspace from installation to purge: the OAuth install               *)
(* (src/slack-oauth), the admin API (src/workspaces), the uninstall event  *)
(* (src/slack-events), the purge sweep (src/workspace-purge) and the cache *)
(* of Slack clients (src/slack).                                           *)
(*                                                                         *)
(* A step is one statement or transaction, or the code between two awaits. *)
(* Time is counted in ages, so that it needs no bound: age is the time     *)
(* since uninstalledAt, up to the grace period.                            *)
(***************************************************************************)
EXTENDS Integers

CONSTANTS
  Teams,     \* Slack teams; at most one row each (slackTeamId is unique)
  Calls,     \* installs, posts and events being handled at once
  Grace,     \* WORKSPACE_PURGE_GRACE_DAYS, in units of Advance
  MaxIds,    \* bound: rows ever created
  MaxTokens, \* bound: tokens Slack ever issues
  MaxEvents, \* bound: undelivered app_uninstalled events of a team
  MaxFaults  \* bound: process restarts and failed deletions

ASSUME WorkspaceAssumption ==
  /\ Grace \in Nat \ {0}
  /\ MaxIds \in Nat
  /\ MaxTokens \in Nat
  /\ MaxEvents \in Nat
  /\ MaxFaults \in Nat

VARIABLES
  row,      \* SlackWorkspace by team; id 0 when there is none
  ids,      \* ids given out
  clients,  \* SlackClientFactory.clients: the token of the cached client
  granted,  \* Slack: the token the team has granted, 0 when not installed
  issued,   \* Slack: tokens issued
  events,   \* Slack: app_uninstalled events to deliver
  at,       \* what each call is about to do
  team,     \* the team it is about
  id,       \* the workspace id it holds
  got,      \* the token it holds
  todo,     \* the candidates the purge sweep has left, by id
  faults,
  overtaken \* history: ids whose row changed under a resolved call

call == <<at, team, id, got>>
slack == <<granted, issued, events>>
vars == <<row, ids, clients, slack, call, todo, faults, overtaken>>

Never == -1

Ids == 1..MaxIds
IdsOrNone == 0..MaxIds

Absent == [id |-> 0, isActive |-> FALSE, token |-> 0, age |-> Never,
           installed |-> FALSE, streams |-> 0]

Init ==
  /\ row = [t \in Teams |-> Absent]
  /\ ids = 0
  /\ clients = [i \in Ids |-> 0]
  /\ granted = [t \in Teams |-> 0]
  /\ issued = 0
  /\ events = [t \in Teams |-> 0]
  /\ at = [c \in Calls |-> "idle"]
  /\ team \in [Calls -> Teams]
  /\ id = [c \in Calls |-> 0]
  /\ got = [c \in Calls |-> 0]
  /\ todo = {}
  /\ faults = 0
  /\ overtaken = {}

Exists(t) == row[t].id # 0

(* The row the call read is still the team's row. *)
StillThere(c) == row[team[c]].id = id[c]

Goto(c, place) == at' = [at EXCEPT ![c] = place]

Finish(c) ==
  /\ Goto(c, "idle")
  /\ id' = [id EXCEPT ![c] = 0]
  /\ got' = [got EXCEPT ![c] = 0]
  /\ UNCHANGED team

-----------------------------------------------------------------------------
(* Installation.                                                           *)

(* The user authorizes and oauth.v2.access answers: with the team's token   *)
(* if the app is installed already, with a new one otherwise.               *)
Authorize(c, t) ==
  /\ at[c] = "idle"
  /\ granted[t] # 0 \/ issued < MaxTokens
  /\ issued' = IF granted[t] # 0 THEN issued ELSE issued + 1
  /\ granted' = [granted EXCEPT ![t] = IF granted[t] # 0 THEN @ ELSE issued + 1]
  /\ Goto(c, "authorized")
  /\ team' = [team EXCEPT ![c] = t]
  /\ got' = [got EXCEPT ![c] = granted'[t]]
  /\ UNCHANGED <<row, ids, clients, events, id, todo, faults, overtaken>>

(* A row of the team, with the next id. *)
CreateRow(t, r) ==
  /\ ids < MaxIds
  /\ ids' = ids + 1
  /\ row' = [row EXCEPT ![t] = [r EXCEPT !.id = ids + 1]]

(* History: the calls that hold this workspace as it was. *)
Overtake(i) ==
  overtaken' = IF \E c \in Calls : at[c] = "resolved" /\ id[c] = i
                 THEN overtaken \cup {i}
                 ELSE overtaken

(* The upsert.  A reinstall does not clear uninstalledAt. *)
StoreInstall(c) ==
  LET t == team[c] IN
  /\ at[c] = "authorized"
  /\ \/ /\ ~Exists(t)
        /\ CreateRow(t, [Absent EXCEPT !.isActive = TRUE, !.token = got[c],
                                       !.installed = TRUE])
     \/ /\ Exists(t)
        /\ row' = [row EXCEPT ![t].isActive = TRUE, ![t].token = got[c],
                              ![t].installed = TRUE]
        /\ UNCHANGED ids
  /\ Goto(c, "stored")
  /\ id' = [id EXCEPT ![c] = row'[t].id]
  /\ Overtake(row[t].id)
  /\ UNCHANGED <<clients, slack, team, got, todo, faults>>

(* Mutant: the old client stays. *)
EvictNothing(c) ==
  /\ at[c] = "stored"
  /\ Goto(c, "evicted")
  /\ UNCHANGED <<row, ids, clients, slack, team, id, got, todo, faults, overtaken>>

EvictAfterInstall(c) ==
  /\ at[c] = "stored"
  /\ clients' = [clients EXCEPT ![id[c]] = 0]
  /\ Goto(c, "evicted")
  /\ UNCHANGED <<row, ids, slack, team, id, got, todo, faults, overtaken>>

(* Mutant: a workspace that was uninstalled before is taken to have one.    *)
FindStreamAssumed(c) ==
  /\ at[c] = "evicted"
  /\ \/ /\ StillThere(c) /\ (row[team[c]].streams > 0 \/ row[team[c]].age # Never)
        /\ Finish(c)
     \/ /\ ~(StillThere(c) /\ row[team[c]].streams > 0)
        /\ Goto(c, "streamless")
        /\ UNCHANGED <<team, id, got>>
  /\ UNCHANGED <<row, ids, clients, slack, todo, faults, overtaken>>

(* ensureDefaultStream: is there a stream? *)
FindStream(c) ==
  /\ at[c] = "evicted"
  /\ \/ /\ StillThere(c) /\ row[team[c]].streams > 0
        /\ Finish(c)
     \/ /\ ~(StillThere(c) /\ row[team[c]].streams > 0)
        /\ Goto(c, "streamless")
        /\ UNCHANGED <<team, id, got>>
  /\ UNCHANGED <<row, ids, clients, slack, todo, faults, overtaken>>

(* And if not, create one; without the workspace this fails and is logged.  *)
CreateStream(c) ==
  /\ at[c] = "streamless"
  /\ row' = IF StillThere(c)
              THEN [row EXCEPT ![team[c]].streams = @ + 1]
              ELSE row
  /\ Finish(c)
  /\ UNCHANGED <<ids, clients, slack, todo, faults, overtaken>>

-----------------------------------------------------------------------------
(* The admin API.                                                          *)

AdminCreate(t) ==
  /\ ~Exists(t)
  /\ \E active \in BOOLEAN : CreateRow(t, [Absent EXCEPT !.isActive = active])
  /\ UNCHANGED <<clients, slack, call, todo, faults, overtaken>>

AdminUpdate(t) ==
  /\ Exists(t)
  /\ row' = [row EXCEPT ![t].isActive = ~@]
  /\ UNCHANGED <<ids, clients, slack, call, todo, faults, overtaken>>

-----------------------------------------------------------------------------
(* Slack uninstalls the app: the token is revoked, an event is on its way.  *)

Uninstall(t) ==
  /\ granted[t] # 0
  /\ events[t] < MaxEvents
  /\ granted' = [granted EXCEPT ![t] = 0]
  /\ events' = [events EXCEPT ![t] = @ + 1]
  /\ UNCHANGED <<row, ids, clients, issued, call, todo, faults, overtaken>>

(* An event is delivered, and perhaps once more later. *)
Deliver(t) ==
  /\ events[t] > 0
  /\ \E n \in {events[t], events[t] - 1} : events' = [events EXCEPT ![t] = n]
  /\ UNCHANGED <<granted, issued>>

(* onAppUninstalled: nothing to do without an active workspace. *)
IgnoreUninstall(t) ==
  /\ Deliver(t)
  /\ ~row[t].isActive
  /\ UNCHANGED <<row, ids, clients, call, todo, faults, overtaken>>

ReadUninstalled(c, t) ==
  /\ at[c] = "idle"
  /\ Deliver(t)
  /\ Exists(t) /\ row[t].isActive
  /\ Goto(c, "uninstalling")
  /\ team' = [team EXCEPT ![c] = t]
  /\ id' = [id EXCEPT ![c] = row[t].id]
  /\ UNCHANGED <<row, ids, clients, got, todo, faults, overtaken>>

(* The update is by id alone; without the row it fails and the handler ends.*)
DeactivateUninstalled(c) ==
  /\ at[c] = "uninstalling"
  /\ \/ /\ StillThere(c)
        /\ row' = [row EXCEPT ![team[c]].isActive = FALSE,
                              ![team[c]].token = 0, ![team[c]].age = 0]
        /\ Goto(c, "uninstalled")
        /\ Overtake(id[c])
        /\ UNCHANGED <<team, id, got>>
     \/ /\ ~StillThere(c)
        /\ Finish(c)
        /\ UNCHANGED <<row, overtaken>>
  /\ UNCHANGED <<ids, clients, slack, todo, faults>>

EvictAfterUninstall(c) ==
  /\ at[c] = "uninstalled"
  /\ clients' = [clients EXCEPT ![id[c]] = 0]
  /\ Finish(c)
  /\ UNCHANGED <<row, ids, slack, todo, faults, overtaken>>

-----------------------------------------------------------------------------
(* A message to the workspace (or auth.test): resolveWorkspace reads the    *)
(* row, then takes the cached client or makes one.                          *)

ResolveWorkspace(c, t) ==
  /\ at[c] = "idle"
  /\ row[t].isActive
  /\ row[t].token # 0
  /\ Goto(c, "resolved")
  /\ team' = [team EXCEPT ![c] = t]
  /\ id' = [id EXCEPT ![c] = row[t].id]
  /\ got' = [got EXCEPT ![c] = row[t].token]
  /\ UNCHANGED <<row, ids, clients, slack, todo, faults, overtaken>>

GetClientForWorkspace(c) ==
  /\ at[c] = "resolved"
  /\ clients' = [clients EXCEPT ![id[c]] = IF @ = 0 THEN got[c] ELSE @]
  /\ Finish(c)
  /\ UNCHANGED <<row, ids, slack, todo, faults, overtaken>>

-----------------------------------------------------------------------------
(* The purge sweep.                                                        *)

(* Mutant: isActive alone makes a candidate. *)
CandidatesInactive ==
  {row[t].id : t \in {u \in Teams : Exists(u) /\ ~row[u].isActive}}

(* Mutant: only what OAuth installed is purged. *)
CandidatesInstalled ==
  {row[t].id : t \in {u \in Teams : /\ Exists(u) /\ ~row[u].isActive
                                    /\ row[u].installed /\ row[u].age >= Grace}}

(* Inactive, and uninstalledAt <= now - grace. *)
Candidates ==
  {row[t].id : t \in {u \in Teams : /\ Exists(u) /\ ~row[u].isActive
                                    /\ row[u].age >= Grace}}

StartPurge ==
  /\ todo = {}
  /\ todo' = Candidates
  /\ UNCHANGED <<row, ids, clients, slack, call, faults, overtaken>>

(* The delete is by id; it fails when the row is gone. *)
Purge(i) ==
  /\ i \in todo
  /\ todo' = todo \ {i}
  /\ row' = [t \in Teams |-> IF row[t].id = i THEN Absent ELSE row[t]]
  /\ UNCHANGED <<ids, clients, slack, call, faults, overtaken>>

(* One failed deletion leaves the others. *)
PurgeFails(i) ==
  /\ i \in todo
  /\ faults < MaxFaults
  /\ faults' = faults + 1
  /\ todo' = todo \ {i}
  /\ UNCHANGED <<row, ids, clients, slack, call, overtaken>>

-----------------------------------------------------------------------------
(* Only the database survives a restart. *)
Restart ==
  /\ faults < MaxFaults
  /\ faults' = faults + 1
  /\ clients' = [i \in Ids |-> 0]
  /\ at' = [c \in Calls |-> "idle"]
  /\ id' = [c \in Calls |-> 0]
  /\ got' = [c \in Calls |-> 0]
  /\ todo' = {}
  /\ overtaken' = {}
  /\ UNCHANGED <<row, ids, slack, team>>

Advance ==
  /\ \E t \in Teams : row[t].age \in 0..(Grace - 1)
  /\ row' = [t \in Teams |->
               IF row[t].age \in 0..(Grace - 1)
                 THEN [row[t] EXCEPT !.age = @ + 1]
                 ELSE row[t]]
  /\ UNCHANGED <<ids, clients, slack, call, todo, faults, overtaken>>

-----------------------------------------------------------------------------
Install(c) ==
  \/ \E t \in Teams : Authorize(c, t)
  \/ StoreInstall(c)
  \/ EvictAfterInstall(c)
  \/ FindStream(c)
  \/ CreateStream(c)

OnAppUninstalled(c) ==
  \/ \E t \in Teams : ReadUninstalled(c, t)
  \/ DeactivateUninstalled(c)
  \/ EvictAfterUninstall(c)

Post(c) ==
  \/ \E t \in Teams : ResolveWorkspace(c, t)
  \/ GetClientForWorkspace(c)

Sweep ==
  \/ StartPurge
  \/ \E i \in todo : Purge(i)

Next ==
  \/ \E c \in Calls : Install(c) \/ OnAppUninstalled(c) \/ Post(c)
  \/ \E t \in Teams : \/ AdminCreate(t) \/ AdminUpdate(t)
                      \/ Uninstall(t) \/ IgnoreUninstall(t)
  \/ Sweep
  \/ \E i \in todo : PurgeFails(i)
  \/ Restart
  \/ Advance

Spec == Init /\ [][Next]_vars

(* The interval keeps firing, a sweep runs on, and time passes. *)
FairSpec == Spec /\ WF_vars(Sweep) /\ WF_vars(Advance)

-----------------------------------------------------------------------------
(* Properties.                                                             *)

Tokens == 0..MaxTokens
Ages == {Never} \cup (0..Grace)

Row ==
  [id: IdsOrNone, isActive: BOOLEAN, token: Tokens, age: Ages,
   installed: BOOLEAN, streams: Nat]

Places ==
  {"idle", "authorized", "stored", "evicted", "streamless",
   "uninstalling", "uninstalled", "resolved"}

RowsOK ==
  /\ row \in [Teams -> Row]
  /\ ids \in IdsOrNone

SlackOK ==
  /\ clients \in [Ids -> Tokens]
  /\ granted \in [Teams -> Tokens]
  /\ issued \in Tokens
  /\ events \in [Teams -> Nat]

CallsOK ==
  /\ at \in [Calls -> Places]
  /\ team \in [Calls -> Teams]
  /\ id \in [Calls -> IdsOrNone]
  /\ got \in [Calls -> Tokens]

SweepOK ==
  /\ todo \subseteq Ids
  /\ faults \in 0..MaxFaults
  /\ overtaken \subseteq IdsOrNone

(* Every variable keeps its type. *)
TypeOK == RowsOK /\ SlackOK /\ CallsOK /\ SweepOK

Gone(t) == Exists(t) /\ row'[t].id = 0

(* PLAN.md 5.10.1: what the purge deletes has been uninstalled.  A          *)
(* workspace an admin created, or deactivated while installed for the first *)
(* time, is never deleted, whatever the sweep's list and however old it is. *)
NeverInstalledNeverPurged == [][\A t \in Teams : Gone(t) => row[t].age # Never]_vars

(* src/slack-oauth/slack-oauth.service.ts:209: a completed install leaves a *)
(* workspace with a stream, also when it races other installs, a purge or   *)
(* an uninstall; only a fault in its middle leaves none.                    *)
Installing(t) ==
  \E c \in Calls : /\ at[c] \in {"stored", "evicted", "streamless"}
                   /\ team[c] = t /\ id[c] = row[t].id

InstalledHasStream ==
  \A t \in Teams :
    faults = 0 /\ row[t].installed => row[t].streams > 0 \/ Installing(t)

(* src/slack/slack-client.factory.ts:7: the cached client has the stored    *)
(* token, once every eviction due is done; unless a message resolved the    *)
(* workspace before the change and took its client after the eviction.      *)
EvictionDue(i) ==
  \E c \in Calls : at[c] \in {"stored", "uninstalled"} /\ id[c] = i

ClientIsCurrent ==
  \A t \in Teams :
    Exists(t) /\ row[t].id \notin overtaken /\ ~EvictionDue(row[t].id)
      => clients[row[t].id] \in {0, row[t].token}

(* src/workspace-purge/workspace-purge.service.ts:14: an uninstalled        *)
(* workspace is in the end purged, or active again.                         *)
UninstalledIsPurged ==
  \A t \in Teams :
    (Exists(t) /\ row[t].age # Never /\ ~row[t].isActive)
      ~> (~Exists(t) \/ row[t].isActive)

(* The inductive invariant: ids are given out once, what the sweep holds    *)
(* has been uninstalled, calls hold ids that were given out, and a resolved *)
(* call holds the stored token.                                             *)
IdsUnique ==
  /\ \A t \in Teams : row[t].id <= ids
  /\ \A t, u \in Teams : Exists(t) /\ row[t].id = row[u].id => t = u
  /\ \A i \in todo : i <= ids

AbsentIsEmpty == \A t \in Teams : ~Exists(t) => row[t] = Absent

CandidatesUninstalled ==
  \A t \in Teams : row[t].id \in todo => row[t].age # Never

CallsHoldIds ==
  \A c \in Calls :
    /\ id[c] <= ids
    /\ at[c] \in {"stored", "evicted", "streamless", "uninstalling",
                  "uninstalled", "resolved"} => id[c] # 0

ResolvedIsCurrent ==
  \A c \in Calls, t \in Teams :
    at[c] = "resolved" /\ id[c] = row[t].id /\ id[c] \notin overtaken
      => got[c] = row[t].token

(* No client before its workspace. *)
ClientsAreGivenIds == \A i \in Ids : i > ids => clients[i] = 0

WorkspaceInv ==
  /\ TypeOK
  /\ AbsentIsEmpty
  /\ IdsUnique
  /\ CandidatesUninstalled
  /\ CallsHoldIds
  /\ ResolvedIsCurrent
  /\ ClientsAreGivenIds
=============================================================================
