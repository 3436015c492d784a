---------------------- MODULE WorkspaceLifecycle_proofs ----------------------
(***************************************************************************)
(* Proofs about WorkspaceLifecycle, for any teams, calls and bounds.       *)
(***************************************************************************)
EXTENDS WorkspaceLifecycle, TLAPS

USE WorkspaceAssumption DEF WorkspaceAssumption

-----------------------------------------------------------------------------
(* Types.                                                                  *)

LEMMA Bounds ==
  /\ 0 \in Tokens /\ 0 \in IdsOrNone /\ 0 \in Ages /\ Never \in Ages
  /\ 0 \in 0..MaxFaults
  /\ Ids \subseteq IdsOrNone
  /\ \A i \in IdsOrNone : i # 0 => i \in Ids
  /\ \A i \in IdsOrNone : i < MaxIds => i + 1 \in IdsOrNone
  /\ \A i \in Tokens : i < MaxTokens => i + 1 \in Tokens
  /\ \A a \in Ages : a \in 0..(Grace - 1) => a + 1 \in Ages
  BY DEF Tokens, IdsOrNone, Ages, Never, Ids

LEMMA TypeInit == Init => TypeOK
  BY Bounds DEF Init, TypeOK, RowsOK, SlackOK, CallsOK, SweepOK, Row, Absent,
     Places

LEMMA RowsOKStep ==
  ASSUME RowsOK, SlackOK, CallsOK, [Next]_vars
  PROVE  RowsOK'
<1>1. ASSUME NEW c \in Calls, StoreInstall(c) PROVE RowsOK'
  <2>1. CASE Exists(team[c])
    <3>1. row' = [row EXCEPT ![team[c]].isActive = TRUE,
                             ![team[c]].token = got[c],
                             ![team[c]].installed = TRUE]
      BY <1>1, <2>1 DEF StoreInstall
    <3>2. ids' = ids
      BY <1>1, <2>1 DEF StoreInstall
    <3> QED
      BY <3>1, <3>2, RowsOK, CallsOK DEF RowsOK, CallsOK, Row
  <2>2. CASE ~Exists(team[c])
    <3>1. CreateRow(team[c], [Absent EXCEPT !.isActive = TRUE, !.token = got[c],
                                            !.installed = TRUE])
      BY <1>1, <2>2 DEF StoreInstall
    <3> QED
      BY <3>1, Bounds, RowsOK, CallsOK DEF CreateRow, Absent, RowsOK, CallsOK, Row
  <2> QED
    BY <2>1, <2>2
<1>2. ASSUME NEW c \in Calls, CreateStream(c) PROVE RowsOK'
  BY <1>2, Bounds, RowsOK, SlackOK, CallsOK DEF CreateStream, Goto, Finish,
     StillThere, slack, call, RowsOK, SlackOK, CallsOK, Row
<1>3. ASSUME NEW c \in Calls, DeactivateUninstalled(c) PROVE RowsOK'
  <2>1. ids' = ids
    BY <1>3 DEF DeactivateUninstalled
  <2>2. CASE StillThere(c)
    <3>1. row' = [row EXCEPT ![team[c]].isActive = FALSE,
                             ![team[c]].token = 0, ![team[c]].age = 0]
      BY <1>3, <2>2 DEF DeactivateUninstalled
    <3> QED
      BY <2>1, <3>1, Bounds, RowsOK, CallsOK DEF RowsOK, CallsOK, Row
  <2>3. CASE ~StillThere(c)
    BY <1>3, <2>1, <2>3, RowsOK DEF DeactivateUninstalled, RowsOK
  <2> QED
    BY <2>2, <2>3
<1>4. ASSUME NEW t \in Teams, AdminCreate(t) PROVE RowsOK'
  <2>1. PICK active \in BOOLEAN : CreateRow(t, [Absent EXCEPT !.isActive = active])
    BY <1>4 DEF AdminCreate
  <2> QED
    BY <2>1, Bounds, RowsOK DEF CreateRow, Absent, RowsOK, Row
<1>5. ASSUME NEW t \in Teams, AdminUpdate(t) PROVE RowsOK'
  BY <1>5, Bounds, RowsOK, SlackOK, CallsOK DEF AdminUpdate, Exists, slack,
     call, RowsOK, SlackOK, CallsOK, Row
<1>6. ASSUME NEW i \in todo, Purge(i) PROVE RowsOK'
  BY <1>6, Bounds, RowsOK, SlackOK, CallsOK DEF Purge, Absent, slack, call,
     RowsOK, SlackOK, CallsOK, Row
<1>7. ASSUME Advance PROVE RowsOK'
  BY <1>7, Bounds, RowsOK, SlackOK, CallsOK DEF Advance, slack, call, RowsOK,
     SlackOK, CallsOK, Row
<1>8. CASE UNCHANGED <<row, ids>>
  BY <1>8, RowsOK DEF RowsOK
<1> QED
  BY <1>1, <1>2, <1>3, <1>4, <1>5, <1>6, <1>7, <1>8 DEF Next, Install,
     OnAppUninstalled, Post, Sweep, vars, call, slack, Deliver, Finish,
     Authorize, EvictAfterInstall, FindStream, ReadUninstalled,
     EvictAfterUninstall, ResolveWorkspace, GetClientForWorkspace, Uninstall,
     IgnoreUninstall, StartPurge, PurgeFails, Restart

LEMMA SlackOKStep ==
  ASSUME SlackOK, CallsOK, [Next]_vars
  PROVE  SlackOK'
<1>1. ASSUME NEW c \in Calls, NEW t \in Teams, Authorize(c, t) PROVE SlackOK'
  <2>1. issued' \in Tokens
    BY <1>1, Bounds, SlackOK DEF Authorize, SlackOK, Tokens
  <2>2. granted' \in [Teams -> Tokens]
    <3>1. CASE granted[t] # 0
      BY <1>1, <3>1, SlackOK DEF Authorize, SlackOK
    <3>2. CASE granted[t] = 0
      <4>1. issued + 1 \in Tokens
        BY <1>1, <3>2, SlackOK DEF Authorize, SlackOK, Tokens
      <4> QED
        BY <1>1, <3>2, <4>1, SlackOK DEF Authorize, SlackOK
    <3> QED
      BY <3>1, <3>2
  <2> QED
    BY <1>1, <2>1, <2>2, SlackOK DEF Authorize, SlackOK
<1>2. ASSUME NEW c \in Calls, EvictAfterInstall(c) PROVE SlackOK'
  BY <1>2, Bounds, SlackOK, CallsOK DEF EvictAfterInstall, Goto, slack, call,
     SlackOK, CallsOK
<1>3. ASSUME NEW c \in Calls, NEW t \in Teams, ReadUninstalled(c, t)
      PROVE  SlackOK'
  BY <1>3, Bounds, SlackOK, CallsOK DEF ReadUninstalled, Deliver, Exists,
     Goto, slack, call, SlackOK, CallsOK
<1>4. ASSUME NEW c \in Calls, EvictAfterUninstall(c) PROVE SlackOK'
  BY <1>4, Bounds, SlackOK, CallsOK DEF EvictAfterUninstall, Goto, Finish,
     slack, call, SlackOK, CallsOK
<1>5. ASSUME NEW c \in Calls, GetClientForWorkspace(c) PROVE SlackOK'
  BY <1>5, Bounds, SlackOK, CallsOK DEF GetClientForWorkspace, Goto, Finish,
     slack, call, SlackOK, CallsOK
<1>6. ASSUME NEW t \in Teams, Uninstall(t) PROVE SlackOK'
  BY <1>6, Bounds, SlackOK, CallsOK DEF Uninstall, slack, call, SlackOK,
     CallsOK
<1>7. ASSUME NEW t \in Teams, IgnoreUninstall(t) PROVE SlackOK'
  BY <1>7, Bounds, SlackOK, CallsOK DEF IgnoreUninstall, Deliver, slack, call,
     SlackOK, CallsOK
<1>8. ASSUME Restart PROVE SlackOK'
  BY <1>8, Bounds, SlackOK, CallsOK DEF Restart, slack, call, SlackOK, CallsOK
<1>9. CASE UNCHANGED <<clients, granted, issued, events>>
  BY <1>9, SlackOK DEF SlackOK
<1> QED
  BY <1>1, <1>2, <1>3, <1>4, <1>5, <1>6, <1>7, <1>8, <1>9 DEF Next, Install,
     OnAppUninstalled, Post, Sweep, vars, call, slack, Finish, StoreInstall,
     FindStream, CreateStream, DeactivateUninstalled, ResolveWorkspace,
     AdminCreate, AdminUpdate, StartPurge, Purge, PurgeFails, Advance

LEMMA CallsOKStep ==
  ASSUME RowsOK, RowsOK', SlackOK, SlackOK', CallsOK, [Next]_vars
  PROVE  CallsOK'
<1>1. ASSUME NEW c \in Calls, NEW t \in Teams, Authorize(c, t) PROVE CallsOK'
  BY <1>1, Bounds, RowsOK, RowsOK', SlackOK, SlackOK', CallsOK DEF Authorize,
     Goto, slack, call, CallsOK, RowsOK, SlackOK, Row, Places
<1>2. ASSUME NEW c \in Calls, StoreInstall(c) PROVE CallsOK'
  BY <1>2, Bounds, RowsOK, RowsOK', SlackOK, SlackOK', CallsOK DEF
     StoreInstall, CreateRow, Exists, Absent, Goto, Overtake, slack, call,
     CallsOK, RowsOK, SlackOK, Row, Places
<1>3. ASSUME NEW c \in Calls, EvictAfterInstall(c) PROVE CallsOK'
  BY <1>3, Bounds, RowsOK, RowsOK', SlackOK, SlackOK', CallsOK DEF
     EvictAfterInstall, Goto, slack, call, CallsOK, RowsOK, SlackOK, Row,
     Places
<1>4. ASSUME NEW c \in Calls, FindStream(c) PROVE CallsOK'
  <2>1. CASE Finish(c)
    BY <2>1, Bounds, CallsOK DEF Finish, Goto, CallsOK, Places
  <2>2. CASE Goto(c, "streamless") /\ UNCHANGED <<team, id, got>>
    BY <2>2, CallsOK DEF Goto, CallsOK, Places
  <2> QED
    BY <1>4, <2>1, <2>2 DEF FindStream
<1>5. ASSUME NEW c \in Calls, CreateStream(c) PROVE CallsOK'
  BY <1>5, Bounds, RowsOK, RowsOK', SlackOK, SlackOK', CallsOK DEF
     CreateStream, Goto, Finish, StillThere, slack, call, CallsOK, RowsOK,
     SlackOK, Row, Places
<1>6. ASSUME NEW c \in Calls, NEW t \in Teams, ReadUninstalled(c, t)
      PROVE  CallsOK'
  BY <1>6, Bounds, RowsOK, RowsOK', SlackOK, SlackOK', CallsOK DEF
     ReadUninstalled, Deliver, Exists, Goto, slack, call, CallsOK, RowsOK,
     SlackOK, Row, Places
<1>7. ASSUME NEW c \in Calls, DeactivateUninstalled(c) PROVE CallsOK'
  <2>1. CASE Finish(c)
    BY <2>1, Bounds, CallsOK DEF Finish, Goto, CallsOK, Places
  <2>2. CASE Goto(c, "uninstalled") /\ UNCHANGED <<team, id, got>>
    BY <2>2, CallsOK DEF Goto, CallsOK, Places
  <2> QED
    BY <1>7, <2>1, <2>2 DEF DeactivateUninstalled
<1>8. ASSUME NEW c \in Calls, EvictAfterUninstall(c) PROVE CallsOK'
  BY <1>8, Bounds, RowsOK, RowsOK', SlackOK, SlackOK', CallsOK DEF
     EvictAfterUninstall, Goto, Finish, slack, call, CallsOK, RowsOK, SlackOK,
     Row, Places
<1>9. ASSUME NEW c \in Calls, NEW t \in Teams, ResolveWorkspace(c, t)
      PROVE  CallsOK'
  BY <1>9, Bounds, RowsOK, RowsOK', SlackOK, SlackOK', CallsOK DEF
     ResolveWorkspace, Goto, slack, call, CallsOK, RowsOK, SlackOK, Row,
     Places
<1>10. ASSUME NEW c \in Calls, GetClientForWorkspace(c) PROVE CallsOK'
  BY <1>10, Bounds, RowsOK, RowsOK', SlackOK, SlackOK', CallsOK DEF
     GetClientForWorkspace, Goto, Finish, slack, call, CallsOK, RowsOK,
     SlackOK, Row, Places
<1>11. ASSUME Restart PROVE CallsOK'
  BY <1>11, Bounds, RowsOK, RowsOK', SlackOK, SlackOK', CallsOK DEF Restart,
     slack, call, CallsOK, RowsOK, SlackOK, Row, Places
<1>12. CASE UNCHANGED <<at, team, id, got>>
  BY <1>12, CallsOK DEF CallsOK
<1> QED
  BY <1>1, <1>2, <1>3, <1>4, <1>5, <1>6, <1>7, <1>8, <1>9, <1>10, <1>11, <1>12
     DEF Next, Install, OnAppUninstalled, Post, Sweep, vars, call, slack,
     Deliver, AdminCreate, AdminUpdate, Uninstall, IgnoreUninstall,
     StartPurge, Purge, PurgeFails, Advance

LEMMA SweepOKStep ==
  ASSUME RowsOK, CallsOK, SweepOK, [Next]_vars
  PROVE  SweepOK'
<1>1. ASSUME NEW c \in Calls, StoreInstall(c) PROVE SweepOK'
  BY <1>1, Bounds, RowsOK, CallsOK, SweepOK DEF StoreInstall, CreateRow,
     Exists, Absent, Goto, Overtake, slack, call, SweepOK, RowsOK, CallsOK,
     Row
<1>2. ASSUME NEW c \in Calls, DeactivateUninstalled(c) PROVE SweepOK'
  BY <1>2, Bounds, RowsOK, CallsOK, SweepOK DEF DeactivateUninstalled,
     StillThere, Overtake, Goto, Finish, slack, call, SweepOK, RowsOK,
     CallsOK, Row
<1>3. ASSUME StartPurge PROVE SweepOK'
  BY <1>3, Bounds, RowsOK, CallsOK, SweepOK DEF StartPurge, Candidates,
     Exists, slack, call, SweepOK, RowsOK, CallsOK, Row
<1>4. ASSUME NEW i \in todo, Purge(i) PROVE SweepOK'
  BY <1>4, Bounds, RowsOK, CallsOK, SweepOK DEF Purge, Absent, slack, call,
     SweepOK, RowsOK, CallsOK, Row
<1>5. ASSUME NEW i \in todo, PurgeFails(i) PROVE SweepOK'
  BY <1>5, Bounds, RowsOK, CallsOK, SweepOK DEF PurgeFails, slack, call,
     SweepOK, RowsOK, CallsOK, Row
<1>6. ASSUME Restart PROVE SweepOK'
  BY <1>6, Bounds, RowsOK, CallsOK, SweepOK DEF Restart, slack, call, SweepOK,
     RowsOK, CallsOK, Row
<1>7. CASE UNCHANGED <<todo, faults, overtaken>>
  BY <1>7, SweepOK DEF SweepOK
<1> QED
  BY <1>1, <1>2, <1>3, <1>4, <1>5, <1>6, <1>7 DEF Next, Install,
     OnAppUninstalled, Post, Sweep, vars, call, slack, Deliver, Finish,
     Authorize, EvictAfterInstall, FindStream, CreateStream, ReadUninstalled,
     EvictAfterUninstall, ResolveWorkspace, GetClientForWorkspace,
     AdminCreate, AdminUpdate, Uninstall, IgnoreUninstall, Advance

LEMMA TypeStep ==
  ASSUME TypeOK, [Next]_vars
  PROVE  TypeOK'
  BY RowsOKStep, SlackOKStep, CallsOKStep, SweepOKStep DEF TypeOK

(* Every variable keeps its type. *)
THEOREM TypeCorrect == Spec => []TypeOK
  BY TypeInit, TypeStep, PTL DEF Spec

-----------------------------------------------------------------------------
(* The invariant.                                                          *)

LEMMA Numbers ==
  ASSUME TypeOK
  PROVE  /\ ids \in Nat
         /\ \A u \in Teams : row[u].id \in Nat
         /\ \A c \in Calls : id[c] \in Nat /\ team[c] \in Teams
         /\ \A i \in todo : i \in Nat
  BY DEF TypeOK, RowsOK, CallsOK, SweepOK, Row, IdsOrNone, Ids

(* What the steps with several outcomes do, field by field.                 *)
RowCreated(t, r) ==
  /\ \A u \in Teams : u # t => row'[u] = row[u]
  /\ row'[t] = [r EXCEPT !.id = ids + 1]
  /\ ids' = ids + 1

LEMMA CreateRowFields ==
  ASSUME TypeOK, NEW t \in Teams, NEW r \in Row, CreateRow(t, r)
  PROVE  RowCreated(t, r)
  BY DEF RowCreated, CreateRow, TypeOK, RowsOK

InstallStored(c) ==
  /\ team[c] \in Teams
  /\ \A u \in Teams : u # team[c] => row'[u] = row[u]
  /\ row'[team[c]].token = got[c]
  /\ row'[team[c]].installed = TRUE
  /\ \/ /\ row[team[c]].id # 0
        /\ row'[team[c]].id = row[team[c]].id
        /\ row'[team[c]].age = row[team[c]].age
        /\ ids' = ids
     \/ /\ row[team[c]].id = 0
        /\ row'[team[c]].id = ids + 1
        /\ ids' = ids + 1
  /\ at' = [at EXCEPT ![c] = "stored"]
  /\ id' = [id EXCEPT ![c] = row'[team[c]].id]
  /\ UNCHANGED <<team, got, clients, todo, faults>>

LEMMA StoreInstallFields ==
  ASSUME TypeOK, NEW c \in Calls, StoreInstall(c)
  PROVE  InstallStored(c)
<1>1. /\ team[c] \in Teams
      /\ at' = [at EXCEPT ![c] = "stored"]
      /\ id' = [id EXCEPT ![c] = row'[team[c]].id]
      /\ UNCHANGED <<team, got, clients, todo, faults>>
  BY DEF StoreInstall, Goto, TypeOK, CallsOK
<1>2. CASE Exists(team[c])
  <2>1. /\ row' = [row EXCEPT ![team[c]].isActive = TRUE,
                              ![team[c]].token = got[c],
                              ![team[c]].installed = TRUE]
        /\ ids' = ids
    BY <1>2 DEF StoreInstall
  <2> QED
    BY <1>1, <1>2, <2>1 DEF InstallStored, Exists, TypeOK, RowsOK, Row
<1>3. CASE ~Exists(team[c])
  <2> DEFINE r == [Absent EXCEPT !.isActive = TRUE, !.token = got[c],
                                 !.installed = TRUE]
  <2>1. CreateRow(team[c], r)
    BY <1>3 DEF StoreInstall
  <2>2. r \in Row /\ r.token = got[c] /\ r.installed = TRUE
    BY Bounds DEF Absent, Row, TypeOK, CallsOK
  <2>3. /\ \A u \in Teams : u # team[c] => row'[u] = row[u]
        /\ row'[team[c]] = [r EXCEPT !.id = ids + 1]
        /\ ids' = ids + 1
    BY <1>1, <2>1, <2>2, CreateRowFields DEF RowCreated
  <2> HIDE DEF r
  <2> QED
    BY <1>1, <1>3, <2>2, <2>3 DEF InstallStored, Exists, Row
<1> QED
  BY <1>2, <1>3

AdminCreated(t) ==
  /\ row[t].id = 0
  /\ \A u \in Teams : u # t => row'[u] = row[u]
  /\ row'[t].id = ids + 1
  /\ row'[t].installed = FALSE
  /\ ids' = ids + 1
  /\ UNCHANGED <<clients, slack, call, todo, faults, overtaken>>

LEMMA AdminCreateFields ==
  ASSUME TypeOK, NEW t \in Teams, AdminCreate(t)
  PROVE  AdminCreated(t)
<1>1. PICK active \in BOOLEAN : CreateRow(t, [Absent EXCEPT !.isActive = active])
  BY DEF AdminCreate
<1>2. [Absent EXCEPT !.isActive = active] \in Row
  BY Bounds DEF Absent, Row
<1>3. /\ \A u \in Teams : u # t => row'[u] = row[u]
      /\ row'[t] = [[Absent EXCEPT !.isActive = active] EXCEPT !.id = ids + 1]
      /\ ids' = ids + 1
  BY <1>1, <1>2, CreateRowFields DEF RowCreated
<1> QED
  BY <1>3 DEF AdminCreated, AdminCreate, Exists, Absent

Deactivated(c) ==
  /\ team[c] \in Teams
  /\ \A u \in Teams : u # team[c] => row'[u] = row[u]
  /\ row'[team[c]].id = row[team[c]].id
  /\ row'[team[c]].installed = row[team[c]].installed
  /\ row'[team[c]].streams = row[team[c]].streams
  /\ row'[team[c]].age \in {0, row[team[c]].age}
  /\ at[c] = "uninstalling"
  /\ \/ /\ row[team[c]].id = id[c]
        /\ row'[team[c]].token = 0
        /\ at' = [at EXCEPT ![c] = "uninstalled"]
        /\ Overtake(id[c])
        /\ UNCHANGED <<id, got>>
     \/ /\ UNCHANGED <<row, overtaken>>
        /\ Finish(c)
  /\ UNCHANGED <<ids, team, clients, todo, faults>>

LEMMA DeactivateFields ==
  ASSUME TypeOK, NEW c \in Calls, DeactivateUninstalled(c)
  PROVE  Deactivated(c)
<1>1. /\ team[c] \in Teams
      /\ at[c] = "uninstalling"
      /\ UNCHANGED <<ids, clients, todo, faults>>
  BY DEF DeactivateUninstalled, TypeOK, CallsOK
<1>2. CASE StillThere(c)
  <2>1. /\ row' = [row EXCEPT ![team[c]].isActive = FALSE,
                              ![team[c]].token = 0, ![team[c]].age = 0]
        /\ at' = [at EXCEPT ![c] = "uninstalled"]
        /\ Overtake(id[c])
        /\ UNCHANGED <<team, id, got>>
    BY <1>2 DEF DeactivateUninstalled, Goto
  <2> QED
    BY <1>1, <1>2, <2>1 DEF Deactivated, StillThere, TypeOK, RowsOK, Row
<1>3. CASE ~StillThere(c)
  <2>1. UNCHANGED <<row, overtaken>> /\ Finish(c)
    BY <1>3 DEF DeactivateUninstalled
  <2>2. UNCHANGED team
    BY <2>1 DEF Finish
  <2> QED
    BY <1>1, <2>1, <2>2 DEF Deactivated
<1> QED
  BY <1>2, <1>3

LEMMA AbsentIsEmptyStep ==
  ASSUME TypeOK, CallsHoldIds, AbsentIsEmpty, [Next]_vars
  PROVE  AbsentIsEmpty'
<1>1. ASSUME NEW c \in Calls, StoreInstall(c) PROVE AbsentIsEmpty'
  <2>1. InstallStored(c)
    BY <1>1, StoreInstallFields
  <2> QED
    BY <1>1, <2>1, Numbers, TypeOK, AbsentIsEmpty DEF InstallStored, Overtake,
       AbsentIsEmpty, Exists, Absent, Never, TypeOK, CallsOK
<1>2. ASSUME NEW c \in Calls, CreateStream(c) PROVE AbsentIsEmpty'
  <2>1. id[c] # 0
    BY <1>2, CallsHoldIds DEF CreateStream, CallsHoldIds
  <2> QED
    BY <1>2, <2>1, TypeOK, AbsentIsEmpty DEF CreateStream, StillThere,
       AbsentIsEmpty, Exists, TypeOK, RowsOK, Row
<1>3. ASSUME NEW c \in Calls, DeactivateUninstalled(c) PROVE AbsentIsEmpty'
  <2>1. Deactivated(c)
    BY <1>3, DeactivateFields
  <2>2. id[c] # 0
    BY <2>1, CallsHoldIds DEF Deactivated, CallsHoldIds
  <2> QED
    BY <2>1, <2>2, AbsentIsEmpty DEF Deactivated, AbsentIsEmpty, Exists
<1>4. ASSUME NEW t \in Teams, AdminCreate(t) PROVE AbsentIsEmpty'
  <2>1. AdminCreated(t)
    BY <1>4, AdminCreateFields
  <2> QED
    BY <1>4, <2>1, Numbers, TypeOK, AbsentIsEmpty DEF AdminCreated, slack, call,
       AbsentIsEmpty, Exists, Absent, Never, TypeOK, CallsOK
<1>5. ASSUME NEW t \in Teams, AdminUpdate(t) PROVE AbsentIsEmpty'
  BY <1>5, TypeOK, AbsentIsEmpty DEF AdminUpdate, Exists, slack, call,
     AbsentIsEmpty, Absent, Never, TypeOK, RowsOK, SlackOK, CallsOK, SweepOK,
     Row
<1>6. ASSUME NEW i \in todo, Purge(i) PROVE AbsentIsEmpty'
  BY <1>6, TypeOK, AbsentIsEmpty DEF Purge, Absent, slack, call,
     AbsentIsEmpty, Exists, Never, TypeOK, RowsOK, SlackOK, CallsOK, SweepOK,
     Row
<1>7. ASSUME Advance PROVE AbsentIsEmpty'
  <2> SUFFICES ASSUME NEW t \in Teams, row'[t].id = 0
               PROVE  row'[t] = Absent
    BY DEF AbsentIsEmpty, Exists
  <2>1. row[t].id = 0
    BY <1>7, TypeOK DEF Advance, TypeOK, RowsOK, Row
  <2>2. row[t] = Absent
    BY <2>1, AbsentIsEmpty DEF AbsentIsEmpty, Exists
  <2>3. row[t].age \notin 0..(Grace - 1)
    BY <2>2 DEF Absent, Never
  <2> QED
    BY <1>7, <2>2, <2>3 DEF Advance
<1>8. CASE UNCHANGED <<row>>
  BY <1>8, AbsentIsEmpty DEF AbsentIsEmpty, Exists
<1> QED
  BY <1>1, <1>2, <1>3, <1>4, <1>5, <1>6, <1>7, <1>8 DEF Next, Install,
     OnAppUninstalled, Post, Sweep, vars, call, slack, Deliver, Finish,
     Authorize, EvictAfterInstall, FindStream, ReadUninstalled,
     EvictAfterUninstall, ResolveWorkspace, GetClientForWorkspace, Uninstall,
     IgnoreUninstall, StartPurge, PurgeFails, Restart

LEMMA IdsUniqueStep ==
  ASSUME TypeOK, IdsUnique, [Next]_vars
  PROVE  IdsUnique'
<1>1. ASSUME NEW c \in Calls, StoreInstall(c) PROVE IdsUnique'
  <2>1. InstallStored(c)
    BY <1>1, StoreInstallFields
  <2> QED
    BY <1>1, <2>1, Numbers, TypeOK, IdsUnique DEF InstallStored, Overtake,
       IdsUnique, Exists, TypeOK, CallsOK
<1>2. ASSUME NEW c \in Calls, CreateStream(c) PROVE IdsUnique'
  BY <1>2, TypeOK, IdsUnique DEF CreateStream, Goto, Finish, StillThere,
     slack, call, IdsUnique, Exists, IdsOrNone, TypeOK, RowsOK, SlackOK,
     CallsOK, SweepOK, Row
<1>3. ASSUME NEW c \in Calls, DeactivateUninstalled(c) PROVE IdsUnique'
  <2>1. Deactivated(c)
    BY <1>3, DeactivateFields
  <2> QED
    BY <1>3, <2>1, Numbers, TypeOK, IdsUnique DEF Deactivated, Overtake, Finish,
       Goto, IdsUnique, Exists, TypeOK, CallsOK
<1>4. ASSUME NEW t \in Teams, AdminCreate(t) PROVE IdsUnique'
  <2>1. AdminCreated(t)
    BY <1>4, AdminCreateFields
  <2> QED
    BY <1>4, <2>1, Numbers, TypeOK, IdsUnique DEF AdminCreated, slack, call,
       IdsUnique, Exists, TypeOK, CallsOK
<1>5. ASSUME NEW t \in Teams, AdminUpdate(t) PROVE IdsUnique'
  BY <1>5, TypeOK, IdsUnique DEF AdminUpdate, Exists, slack, call, IdsUnique,
     IdsOrNone, TypeOK, RowsOK, SlackOK, CallsOK, SweepOK, Row
<1>6. ASSUME StartPurge PROVE IdsUnique'
  BY <1>6, TypeOK, IdsUnique DEF StartPurge, Candidates, Exists, slack, call,
     IdsUnique, IdsOrNone, TypeOK, RowsOK, SlackOK, CallsOK, SweepOK, Row
<1>7. ASSUME NEW i \in todo, Purge(i) PROVE IdsUnique'
  BY <1>7, TypeOK, IdsUnique DEF Purge, Absent, slack, call, IdsUnique,
     Exists, IdsOrNone, TypeOK, RowsOK, SlackOK, CallsOK, SweepOK, Row
<1>8. ASSUME NEW i \in todo, PurgeFails(i) PROVE IdsUnique'
  BY <1>8, TypeOK, IdsUnique DEF PurgeFails, slack, call, IdsUnique, Exists,
     IdsOrNone, TypeOK, RowsOK, SlackOK, CallsOK, SweepOK, Row
<1>9. ASSUME Restart PROVE IdsUnique'
  BY <1>9, TypeOK, IdsUnique DEF Restart, slack, call, IdsUnique, Exists,
     IdsOrNone, TypeOK, RowsOK, SlackOK, CallsOK, SweepOK, Row
<1>10. ASSUME Advance PROVE IdsUnique'
  BY <1>10, TypeOK, IdsUnique DEF Advance, slack, call, IdsUnique, Exists,
     IdsOrNone, TypeOK, RowsOK, SlackOK, CallsOK, SweepOK, Row
<1>11. CASE UNCHANGED <<row, ids, todo>>
  BY <1>11, IdsUnique DEF IdsUnique, Exists
<1> QED
  BY <1>1, <1>2, <1>3, <1>4, <1>5, <1>6, <1>7, <1>8, <1>9, <1>10, <1>11 DEF
     Next, Install, OnAppUninstalled, Post, Sweep, vars, call, slack, Deliver,
     Finish, Authorize, EvictAfterInstall, FindStream, ReadUninstalled,
     EvictAfterUninstall, ResolveWorkspace, GetClientForWorkspace, Uninstall,
     IgnoreUninstall

LEMMA CandidatesUninstalledStep ==
  ASSUME TypeOK, IdsUnique, CandidatesUninstalled, [Next]_vars
  PROVE  CandidatesUninstalled'
<1>1. ASSUME NEW c \in Calls, StoreInstall(c) PROVE CandidatesUninstalled'
  <2>1. InstallStored(c)
    BY <1>1, StoreInstallFields
  <2> QED
    BY <1>1, <2>1, Numbers, TypeOK, IdsUnique, CandidatesUninstalled DEF
       InstallStored, Overtake, IdsUnique, CandidatesUninstalled, Exists,
       Never, Ages, Ids, TypeOK, CallsOK
<1>2. ASSUME NEW c \in Calls, CreateStream(c) PROVE CandidatesUninstalled'
  BY <1>2, TypeOK, IdsUnique, CandidatesUninstalled DEF CreateStream, Goto,
     Finish, StillThere, slack, call, IdsUnique, CandidatesUninstalled,
     Exists, IdsOrNone, Never, Ages, Ids, TypeOK, RowsOK, SlackOK, CallsOK,
     SweepOK, Row
<1>3. ASSUME NEW c \in Calls, DeactivateUninstalled(c)
      PROVE  CandidatesUninstalled'
  <2>1. Deactivated(c)
    BY <1>3, DeactivateFields
  <2> QED
    BY <1>3, <2>1, Numbers, TypeOK, IdsUnique, CandidatesUninstalled DEF
       Deactivated, Overtake, Finish, Goto, IdsUnique, CandidatesUninstalled,
       Exists, Never, Ages, Ids, TypeOK, CallsOK
<1>4. ASSUME NEW t \in Teams, AdminCreate(t) PROVE CandidatesUninstalled'
  <2>1. AdminCreated(t)
    BY <1>4, AdminCreateFields
  <2> QED
    BY <1>4, <2>1, Numbers, TypeOK, IdsUnique, CandidatesUninstalled DEF
       AdminCreated, slack, call, IdsUnique, CandidatesUninstalled, Exists,
       Never, Ages, Ids, TypeOK, CallsOK
<1>5. ASSUME NEW t \in Teams, AdminUpdate(t) PROVE CandidatesUninstalled'
  BY <1>5, TypeOK, IdsUnique, CandidatesUninstalled DEF AdminUpdate, Exists,
     slack, call, IdsUnique, CandidatesUninstalled, IdsOrNone, Never, Ages,
     Ids, TypeOK, RowsOK, SlackOK, CallsOK, SweepOK, Row
<1>6. ASSUME StartPurge PROVE CandidatesUninstalled'
  <2> SUFFICES ASSUME NEW t \in Teams, row[t].id \in todo'
               PROVE  row[t].age # Never
    BY <1>6 DEF StartPurge, CandidatesUninstalled
  <2>1. PICK u \in Teams : /\ Exists(u) /\ row[u].age >= Grace
                           /\ row[t].id = row[u].id
    BY <1>6 DEF StartPurge, Candidates
  <2>2. t = u
    BY <2>1, IdsUnique DEF IdsUnique, Exists
  <2> QED
    BY <2>1, <2>2 DEF Never
<1>7. ASSUME NEW i \in todo, Purge(i) PROVE CandidatesUninstalled'
  BY <1>7, TypeOK, IdsUnique, CandidatesUninstalled DEF Purge, Absent, slack,
     call, IdsUnique, CandidatesUninstalled, Exists, IdsOrNone, Never, Ages,
     Ids, TypeOK, RowsOK, SlackOK, CallsOK, SweepOK, Row
<1>8. ASSUME NEW i \in todo, PurgeFails(i) PROVE CandidatesUninstalled'
  BY <1>8, TypeOK, IdsUnique, CandidatesUninstalled DEF PurgeFails, slack,
     call, IdsUnique, CandidatesUninstalled, Exists, IdsOrNone, Never, Ages,
     Ids, TypeOK, RowsOK, SlackOK, CallsOK, SweepOK, Row
<1>9. ASSUME Restart PROVE CandidatesUninstalled'
  BY <1>9, TypeOK, IdsUnique, CandidatesUninstalled DEF Restart, slack, call,
     IdsUnique, CandidatesUninstalled, Exists, IdsOrNone, Never, Ages, Ids,
     TypeOK, RowsOK, SlackOK, CallsOK, SweepOK, Row
<1>10. ASSUME Advance PROVE CandidatesUninstalled'
  BY <1>10, TypeOK, IdsUnique, CandidatesUninstalled DEF Advance, slack, call,
     IdsUnique, CandidatesUninstalled, Exists, IdsOrNone, Never, Ages, Ids,
     TypeOK, RowsOK, SlackOK, CallsOK, SweepOK, Row
<1>11. CASE UNCHANGED <<row, todo>>
  BY <1>11, CandidatesUninstalled DEF CandidatesUninstalled
<1> QED
  BY <1>1, <1>2, <1>3, <1>4, <1>5, <1>6, <1>7, <1>8, <1>9, <1>10, <1>11 DEF
     Next, Install, OnAppUninstalled, Post, Sweep, vars, call, slack, Deliver,
     Finish, Authorize, EvictAfterInstall, FindStream, ReadUninstalled,
     EvictAfterUninstall, ResolveWorkspace, GetClientForWorkspace, Uninstall,
     IgnoreUninstall

LEMMA CallsHoldIdsStep ==
  ASSUME TypeOK, AbsentIsEmpty, IdsUnique, CallsHoldIds, [Next]_vars
  PROVE  CallsHoldIds'
<1>1. ASSUME NEW c \in Calls, NEW t \in Teams, Authorize(c, t)
      PROVE  CallsHoldIds'
  BY <1>1, TypeOK, AbsentIsEmpty, IdsUnique, CallsHoldIds DEF Authorize, Goto,
     slack, call, AbsentIsEmpty, Absent, IdsUnique, CallsHoldIds, Exists,
     IdsOrNone, TypeOK, RowsOK, SlackOK, CallsOK, SweepOK, Row
<1>2. ASSUME NEW c \in Calls, StoreInstall(c) PROVE CallsHoldIds'
  <2>1. InstallStored(c)
    BY <1>2, StoreInstallFields
  <2> QED
    BY <1>2, <2>1, Numbers, TypeOK, AbsentIsEmpty, IdsUnique, CallsHoldIds DEF
       InstallStored, Overtake, AbsentIsEmpty, Absent, IdsUnique,
       CallsHoldIds, Exists, TypeOK, CallsOK
<1>3. ASSUME NEW c \in Calls, EvictAfterInstall(c) PROVE CallsHoldIds'
  BY <1>3, TypeOK, AbsentIsEmpty, IdsUnique, CallsHoldIds DEF
     EvictAfterInstall, Goto, slack, call, AbsentIsEmpty, Absent, IdsUnique,
     CallsHoldIds, Exists, IdsOrNone, TypeOK, RowsOK, SlackOK, CallsOK,
     SweepOK, Row
<1>4. ASSUME NEW c \in Calls, FindStream(c) PROVE CallsHoldIds'
  BY <1>4, TypeOK, AbsentIsEmpty, IdsUnique, CallsHoldIds DEF FindStream,
     Goto, Finish, slack, call, AbsentIsEmpty, Absent, IdsUnique,
     CallsHoldIds, Exists, IdsOrNone, TypeOK, RowsOK, SlackOK, CallsOK,
     SweepOK, Row
<1>5. ASSUME NEW c \in Calls, CreateStream(c) PROVE CallsHoldIds'
  BY <1>5, TypeOK, AbsentIsEmpty, IdsUnique, CallsHoldIds DEF CreateStream,
     Goto, Finish, StillThere, slack, call, AbsentIsEmpty, Absent, IdsUnique,
     CallsHoldIds, Exists, IdsOrNone, TypeOK, RowsOK, SlackOK, CallsOK,
     SweepOK, Row
<1>6. ASSUME NEW c \in Calls, NEW t \in Teams, ReadUninstalled(c, t)
      PROVE  CallsHoldIds'
  BY <1>6, TypeOK, AbsentIsEmpty, IdsUnique, CallsHoldIds DEF ReadUninstalled,
     Deliver, Exists, Goto, slack, call, AbsentIsEmpty, Absent, IdsUnique,
     CallsHoldIds, IdsOrNone, TypeOK, RowsOK, SlackOK, CallsOK, SweepOK, Row
<1>7. ASSUME NEW c \in Calls, DeactivateUninstalled(c) PROVE CallsHoldIds'
  <2>1. Deactivated(c)
    BY <1>7, DeactivateFields
  <2> QED
    BY <1>7, <2>1, Numbers, TypeOK, AbsentIsEmpty, IdsUnique, CallsHoldIds DEF
       Deactivated, Overtake, Finish, Goto, AbsentIsEmpty, Absent, IdsUnique,
       CallsHoldIds, Exists, TypeOK, CallsOK
<1>8. ASSUME NEW c \in Calls, EvictAfterUninstall(c) PROVE CallsHoldIds'
  BY <1>8, TypeOK, AbsentIsEmpty, IdsUnique, CallsHoldIds DEF
     EvictAfterUninstall, Goto, Finish, slack, call, AbsentIsEmpty, Absent,
     IdsUnique, CallsHoldIds, Exists, IdsOrNone, TypeOK, RowsOK, SlackOK,
     CallsOK, SweepOK, Row
<1>9. ASSUME NEW c \in Calls, NEW t \in Teams, ResolveWorkspace(c, t)
      PROVE  CallsHoldIds'
  BY <1>9, TypeOK, AbsentIsEmpty, IdsUnique, CallsHoldIds DEF
     ResolveWorkspace, Goto, slack, call, AbsentIsEmpty, Absent, IdsUnique,
     CallsHoldIds, Exists, IdsOrNone, TypeOK, RowsOK, SlackOK, CallsOK,
     SweepOK, Row
<1>10. ASSUME NEW c \in Calls, GetClientForWorkspace(c) PROVE CallsHoldIds'
  BY <1>10, TypeOK, AbsentIsEmpty, IdsUnique, CallsHoldIds DEF
     GetClientForWorkspace, Goto, Finish, slack, call, AbsentIsEmpty, Absent,
     IdsUnique, CallsHoldIds, Exists, IdsOrNone, TypeOK, RowsOK, SlackOK,
     CallsOK, SweepOK, Row
<1>11. ASSUME NEW t \in Teams, AdminCreate(t) PROVE CallsHoldIds'
  <2>1. AdminCreated(t)
    BY <1>11, AdminCreateFields
  <2> QED
    BY <1>11, <2>1, Numbers, TypeOK, AbsentIsEmpty, IdsUnique, CallsHoldIds DEF
       AdminCreated, slack, call, AbsentIsEmpty, Absent, IdsUnique,
       CallsHoldIds, Exists, TypeOK, CallsOK
<1>12. ASSUME Restart PROVE CallsHoldIds'
  BY <1>12, TypeOK, AbsentIsEmpty, IdsUnique, CallsHoldIds DEF Restart, slack,
     call, AbsentIsEmpty, Absent, IdsUnique, CallsHoldIds, Exists, IdsOrNone,
     TypeOK, RowsOK, SlackOK, CallsOK, SweepOK, Row
<1>13. CASE UNCHANGED <<at, id, ids>>
  BY <1>13, CallsHoldIds DEF CallsHoldIds
<1> QED
  BY <1>1, <1>2, <1>3, <1>4, <1>5, <1>6, <1>7, <1>8, <1>9, <1>10, <1>11,
     <1>12, <1>13 DEF Next, Install, OnAppUninstalled, Post, Sweep, vars,
     call, slack, Deliver, AdminUpdate, Uninstall, IgnoreUninstall,
     StartPurge, Purge, PurgeFails, Advance

LEMMA ResolvedIsCurrentStep ==
  ASSUME TypeOK, AbsentIsEmpty, IdsUnique, CallsHoldIds, ResolvedIsCurrent, [Next]_vars
  PROVE  ResolvedIsCurrent'
<1>1. ASSUME NEW c \in Calls, NEW t \in Teams, Authorize(c, t)
      PROVE  ResolvedIsCurrent'
  BY <1>1, TypeOK, IdsUnique, CallsHoldIds, ResolvedIsCurrent DEF Authorize,
     Goto, slack, call, IdsUnique, CallsHoldIds, ResolvedIsCurrent, Exists,
     IdsOrNone, TypeOK, RowsOK, SlackOK, CallsOK, SweepOK, Row
<1>2. ASSUME NEW c \in Calls, StoreInstall(c) PROVE ResolvedIsCurrent'
  <2>1. InstallStored(c) /\ Overtake(row[team[c]].id)
    BY <1>2, StoreInstallFields DEF StoreInstall
  <2> SUFFICES ASSUME NEW d \in Calls, NEW t \in Teams, at'[d] = "resolved",
                      id'[d] = row'[t].id, id'[d] \notin overtaken'
               PROVE  got'[d] = row'[t].token
    BY DEF ResolvedIsCurrent
  <2>2. d # c /\ at[d] = "resolved" /\ id'[d] = id[d] /\ got'[d] = got[d]
    BY <2>1, TypeOK DEF InstallStored, TypeOK, CallsOK
  <2>3. id[d] \notin overtaken
    BY <2>1, <2>2 DEF Overtake
  <2>4. CASE t # team[c]
    BY <2>1, <2>2, <2>3, <2>4, ResolvedIsCurrent DEF InstallStored, ResolvedIsCurrent
  <2>5. CASE t = team[c] /\ row[t].id # 0
    BY <2>1, <2>2, <2>5, Numbers DEF InstallStored, Overtake
  <2>6. CASE t = team[c] /\ row[t].id = 0
    BY <2>1, <2>2, <2>6, Numbers, CallsHoldIds DEF InstallStored, CallsHoldIds
  <2> QED
    BY <2>4, <2>5, <2>6
<1>3. ASSUME NEW c \in Calls, EvictAfterInstall(c) PROVE ResolvedIsCurrent'
  BY <1>3, TypeOK, IdsUnique, CallsHoldIds, ResolvedIsCurrent DEF
     EvictAfterInstall, Goto, slack, call, IdsUnique, CallsHoldIds,
     ResolvedIsCurrent, Exists, IdsOrNone, TypeOK, RowsOK, SlackOK, CallsOK,
     SweepOK, Row
<1>4. ASSUME NEW c \in Calls, FindStream(c) PROVE ResolvedIsCurrent'
  BY <1>4, TypeOK, IdsUnique, CallsHoldIds, ResolvedIsCurrent DEF FindStream,
     Goto, Finish, slack, call, IdsUnique, CallsHoldIds, ResolvedIsCurrent,
     Exists, IdsOrNone, TypeOK, RowsOK, SlackOK, CallsOK, SweepOK, Row
<1>5. ASSUME NEW c \in Calls, CreateStream(c) PROVE ResolvedIsCurrent'
  BY <1>5, TypeOK, IdsUnique, CallsHoldIds, ResolvedIsCurrent DEF
     CreateStream, Goto, Finish, StillThere, slack, call, IdsUnique,
     CallsHoldIds, ResolvedIsCurrent, Exists, IdsOrNone, TypeOK, RowsOK,
     SlackOK, CallsOK, SweepOK, Row
<1>6. ASSUME NEW c \in Calls, NEW t \in Teams, ReadUninstalled(c, t)
      PROVE  ResolvedIsCurrent'
  BY <1>6, TypeOK, IdsUnique, CallsHoldIds, ResolvedIsCurrent DEF
     ReadUninstalled, Deliver, Exists, Goto, slack, call, IdsUnique,
     CallsHoldIds, ResolvedIsCurrent, IdsOrNone, TypeOK, RowsOK, SlackOK,
     CallsOK, SweepOK, Row
<1>7. ASSUME NEW c \in Calls, DeactivateUninstalled(c) PROVE ResolvedIsCurrent'
  <2>1. Deactivated(c)
    BY <1>7, DeactivateFields
  <2> QED
    BY <1>7, <2>1, Numbers, TypeOK, IdsUnique, CallsHoldIds, ResolvedIsCurrent
       DEF Deactivated, Overtake, Finish, Goto, IdsUnique, CallsHoldIds,
       ResolvedIsCurrent, Exists, TypeOK, CallsOK
<1>8. ASSUME NEW c \in Calls, EvictAfterUninstall(c) PROVE ResolvedIsCurrent'
  BY <1>8, TypeOK, IdsUnique, CallsHoldIds, ResolvedIsCurrent DEF
     EvictAfterUninstall, Goto, Finish, slack, call, IdsUnique, CallsHoldIds,
     ResolvedIsCurrent, Exists, IdsOrNone, TypeOK, RowsOK, SlackOK, CallsOK,
     SweepOK, Row
<1>9. ASSUME NEW c \in Calls, NEW t \in Teams, ResolveWorkspace(c, t)
      PROVE  ResolvedIsCurrent'
  <2>1. Exists(t)
    BY <1>9, AbsentIsEmpty DEF AbsentIsEmpty, Absent, ResolveWorkspace
  <2>2. \A u \in Teams : row[t].id = row[u].id => t = u
    BY <2>1, IdsUnique DEF IdsUnique
  <2> QED
    BY <1>9, <2>2, TypeOK, ResolvedIsCurrent
       DEF ResolveWorkspace, Goto, ResolvedIsCurrent, TypeOK, CallsOK
<1>10. ASSUME NEW c \in Calls, GetClientForWorkspace(c)
       PROVE  ResolvedIsCurrent'
  BY <1>10, TypeOK, IdsUnique, CallsHoldIds, ResolvedIsCurrent DEF
     GetClientForWorkspace, Goto, Finish, slack, call, IdsUnique,
     CallsHoldIds, ResolvedIsCurrent, Exists, IdsOrNone, TypeOK, RowsOK,
     SlackOK, CallsOK, SweepOK, Row
<1>11. ASSUME NEW t \in Teams, AdminCreate(t) PROVE ResolvedIsCurrent'
  <2>1. AdminCreated(t)
    BY <1>11, AdminCreateFields
  <2> QED
    BY <1>11, <2>1, Numbers, TypeOK, IdsUnique, CallsHoldIds, ResolvedIsCurrent
       DEF AdminCreated, slack, call, IdsUnique, CallsHoldIds,
       ResolvedIsCurrent, Exists, TypeOK, CallsOK
<1>12. ASSUME NEW t \in Teams, AdminUpdate(t) PROVE ResolvedIsCurrent'
  BY <1>12, TypeOK, IdsUnique, CallsHoldIds, ResolvedIsCurrent DEF
     AdminUpdate, Exists, slack, call, IdsUnique, CallsHoldIds,
     ResolvedIsCurrent, IdsOrNone, TypeOK, RowsOK, SlackOK, CallsOK, SweepOK,
     Row
<1>13. ASSUME NEW i \in todo, Purge(i) PROVE ResolvedIsCurrent'
  BY <1>13, TypeOK, IdsUnique, CallsHoldIds, ResolvedIsCurrent DEF Purge,
     Absent, slack, call, IdsUnique, CallsHoldIds, ResolvedIsCurrent, Exists,
     IdsOrNone, TypeOK, RowsOK, SlackOK, CallsOK, SweepOK, Row
<1>14. ASSUME Restart PROVE ResolvedIsCurrent'
  BY <1>14, TypeOK, IdsUnique, CallsHoldIds, ResolvedIsCurrent DEF Restart,
     slack, call, IdsUnique, CallsHoldIds, ResolvedIsCurrent, Exists,
     IdsOrNone, TypeOK, RowsOK, SlackOK, CallsOK, SweepOK, Row
<1>15. ASSUME Advance PROVE ResolvedIsCurrent'
  BY <1>15, TypeOK, IdsUnique, CallsHoldIds, ResolvedIsCurrent DEF Advance,
     slack, call, IdsUnique, CallsHoldIds, ResolvedIsCurrent, Exists,
     IdsOrNone, TypeOK, RowsOK, SlackOK, CallsOK, SweepOK, Row
<1>16. CASE UNCHANGED <<at, id, got, row, overtaken>>
  BY <1>16, ResolvedIsCurrent DEF ResolvedIsCurrent
<1> QED
  BY <1>1, <1>2, <1>3, <1>4, <1>5, <1>6, <1>7, <1>8, <1>9, <1>10, <1>11,
     <1>12, <1>13, <1>14, <1>15, <1>16 DEF Next, Install, OnAppUninstalled,
     Post, Sweep, vars, call, slack, Deliver, Uninstall, IgnoreUninstall,
     StartPurge, PurgeFails

LEMMA ClientsAreGivenIdsStep ==
  ASSUME TypeOK, CallsHoldIds, ClientsAreGivenIds, [Next]_vars
  PROVE  ClientsAreGivenIds'
<1>1. ASSUME NEW c \in Calls, StoreInstall(c) PROVE ClientsAreGivenIds'
  <2>1. InstallStored(c)
    BY <1>1, StoreInstallFields
  <2> QED
    BY <1>1, <2>1, Numbers, TypeOK, CallsHoldIds, ClientsAreGivenIds DEF
       InstallStored, Overtake, CallsHoldIds, ClientsAreGivenIds, Ids, TypeOK,
       CallsOK
<1>2. ASSUME NEW c \in Calls, EvictAfterInstall(c) PROVE ClientsAreGivenIds'
  BY <1>2, TypeOK, CallsHoldIds, ClientsAreGivenIds DEF EvictAfterInstall,
     Goto, slack, call, CallsHoldIds, ClientsAreGivenIds, IdsOrNone, Ids,
     TypeOK, RowsOK, SlackOK, CallsOK, SweepOK, Row
<1>3. ASSUME NEW c \in Calls, EvictAfterUninstall(c) PROVE ClientsAreGivenIds'
  BY <1>3, TypeOK, CallsHoldIds, ClientsAreGivenIds DEF EvictAfterUninstall,
     Goto, Finish, slack, call, CallsHoldIds, ClientsAreGivenIds, IdsOrNone,
     Ids, TypeOK, RowsOK, SlackOK, CallsOK, SweepOK, Row
<1>4. ASSUME NEW c \in Calls, GetClientForWorkspace(c)
      PROVE  ClientsAreGivenIds'
  BY <1>4, TypeOK, CallsHoldIds, ClientsAreGivenIds DEF GetClientForWorkspace,
     Goto, Finish, slack, call, CallsHoldIds, ClientsAreGivenIds, IdsOrNone,
     Ids, TypeOK, RowsOK, SlackOK, CallsOK, SweepOK, Row
<1>5. ASSUME NEW t \in Teams, AdminCreate(t) PROVE ClientsAreGivenIds'
  <2>1. AdminCreated(t)
    BY <1>5, AdminCreateFields
  <2> QED
    BY <1>5, <2>1, Numbers, TypeOK, CallsHoldIds, ClientsAreGivenIds DEF
       AdminCreated, slack, call, CallsHoldIds, ClientsAreGivenIds, Ids,
       TypeOK, CallsOK
<1>6. ASSUME Restart PROVE ClientsAreGivenIds'
  BY <1>6, TypeOK, CallsHoldIds, ClientsAreGivenIds DEF Restart, slack, call,
     CallsHoldIds, ClientsAreGivenIds, IdsOrNone, Ids, TypeOK, RowsOK,
     SlackOK, CallsOK, SweepOK, Row
<1>7. CASE UNCHANGED <<clients, ids>>
  BY <1>7, ClientsAreGivenIds DEF ClientsAreGivenIds
<1> QED
  BY <1>1, <1>2, <1>3, <1>4, <1>5, <1>6, <1>7 DEF Next, Install,
     OnAppUninstalled, Post, Sweep, vars, call, slack, Deliver, Finish,
     Authorize, FindStream, CreateStream, ReadUninstalled,
     DeactivateUninstalled, ResolveWorkspace, AdminUpdate, Uninstall,
     IgnoreUninstall, StartPurge, Purge, PurgeFails, Advance

LEMMA InvInit == Init => WorkspaceInv
  BY TypeInit DEF Init, WorkspaceInv, AbsentIsEmpty, IdsUnique, Exists, Absent,
     CandidatesUninstalled, CallsHoldIds, ResolvedIsCurrent, ClientsAreGivenIds

LEMMA InvStep ==
  ASSUME WorkspaceInv, [Next]_vars
  PROVE  WorkspaceInv'
  BY TypeStep, AbsentIsEmptyStep, IdsUniqueStep, CandidatesUninstalledStep,
     CallsHoldIdsStep, ResolvedIsCurrentStep, ClientsAreGivenIdsStep
     DEF WorkspaceInv

(* The inductive invariant of workspaces, calls and the sweep. *)
THEOREM WorkspaceInvariant == Spec => []WorkspaceInv
  BY InvInit, InvStep, PTL DEF Spec


-----------------------------------------------------------------------------
(* The purge.                                                              *)

LEMMA GoneStep ==
  ASSUME TypeOK, CandidatesUninstalled, [Next]_vars, NEW t \in Teams, Gone(t)
  PROVE  row[t].age # Never
<1>1. ASSUME NEW c \in Calls, StoreInstall(c) PROVE row[t].age # Never
  <2>1. InstallStored(c)
    BY <1>1, StoreInstallFields
  <2> QED
    BY <2>1, Numbers DEF InstallStored, Gone, Exists
<1>2. ASSUME NEW c \in Calls, CreateStream(c) PROVE row[t].age # Never
  BY <1>2, TypeOK DEF CreateStream, Goto, Finish, StillThere, slack, call,
     Gone, Exists, TypeOK, RowsOK
<1>3. ASSUME NEW c \in Calls, DeactivateUninstalled(c) PROVE row[t].age # Never
  <2>1. Deactivated(c)
    BY <1>3, DeactivateFields
  <2> QED
    BY <2>1, Numbers DEF Deactivated, Gone, Exists
<1>4. ASSUME NEW u \in Teams, AdminCreate(u) PROVE row[t].age # Never
  <2>1. AdminCreated(u)
    BY <1>4, AdminCreateFields
  <2> QED
    BY <2>1, Numbers DEF AdminCreated, Gone, Exists
<1>5. ASSUME NEW u \in Teams, AdminUpdate(u) PROVE row[t].age # Never
  BY <1>5, TypeOK DEF AdminUpdate, Exists, slack, call, Gone, TypeOK, RowsOK
<1>6. ASSUME NEW i \in todo, Purge(i) PROVE row[t].age # Never
  <2>1. row[t].id = i
    BY <1>6, TypeOK DEF Purge, Gone, Exists, TypeOK, RowsOK
  <2> QED
    BY <1>6, <2>1, CandidatesUninstalled DEF Purge, CandidatesUninstalled
<1>7. ASSUME Advance PROVE row[t].age # Never
  BY <1>7, TypeOK DEF Advance, slack, call, Gone, Exists, TypeOK, RowsOK
<1>8. ~UNCHANGED <<row>>
  BY DEF Gone, Exists
<1> QED
  BY <1>1, <1>2, <1>3, <1>4, <1>5, <1>6, <1>7, <1>8 DEF Next, Install,
     OnAppUninstalled, Post, Sweep, vars, call, slack, Deliver, Finish,
     Authorize, EvictAfterInstall, FindStream, ReadUninstalled,
     EvictAfterUninstall, ResolveWorkspace, GetClientForWorkspace, Uninstall,
     IgnoreUninstall, StartPurge, PurgeFails, Restart

(* What was never uninstalled is never purged. *)
THEOREM NeverPurged == Spec => NeverInstalledNeverPurged
<1>1. WorkspaceInv /\ [Next]_vars
        => [\A t \in Teams : Gone(t) => row[t].age # Never]_vars
  BY GoneStep DEF WorkspaceInv
<1> QED
  BY <1>1, WorkspaceInvariant, PTL DEF NeverInstalledNeverPurged, Spec

-----------------------------------------------------------------------------
(* The default stream and the cached client.                               *)

LEMMA InstalledHasStreamStep ==
  ASSUME TypeOK, CallsHoldIds, IdsUnique, InstalledHasStream, [Next]_vars
  PROVE  InstalledHasStream'
<1>1. ASSUME NEW c \in Calls, NEW t \in Teams, Authorize(c, t)
      PROVE  InstalledHasStream'
  BY <1>1, TypeOK, CallsHoldIds, IdsUnique, InstalledHasStream DEF Authorize,
     Goto, slack, call, InstalledHasStream, Installing, CallsHoldIds,
     IdsUnique, Exists, TypeOK, RowsOK, SlackOK, CallsOK, SweepOK, Row
<1>2. ASSUME NEW c \in Calls, StoreInstall(c) PROVE InstalledHasStream'
  <2>1. InstallStored(c)
    BY <1>2, StoreInstallFields
  <2> QED
    BY <1>2, <2>1, Numbers, TypeOK, CallsHoldIds, IdsUnique, InstalledHasStream
       DEF InstallStored, Overtake, InstalledHasStream, Installing,
       CallsHoldIds, IdsUnique, Exists, TypeOK, CallsOK
<1>3. ASSUME NEW c \in Calls, EvictAfterInstall(c) PROVE InstalledHasStream'
  BY <1>3, TypeOK, CallsHoldIds, IdsUnique, InstalledHasStream DEF
     EvictAfterInstall, Goto, slack, call, InstalledHasStream, Installing,
     CallsHoldIds, IdsUnique, Exists, TypeOK, RowsOK, SlackOK, CallsOK,
     SweepOK, Row
<1>4. ASSUME NEW c \in Calls, FindStream(c) PROVE InstalledHasStream'
  BY <1>4, TypeOK, CallsHoldIds, IdsUnique, InstalledHasStream DEF FindStream,
     Goto, Finish, slack, call, InstalledHasStream, Installing, CallsHoldIds,
     IdsUnique, Exists, TypeOK, RowsOK, SlackOK, CallsOK, SweepOK, Row
<1>5. ASSUME NEW c \in Calls, CreateStream(c) PROVE InstalledHasStream'
  <2> SUFFICES ASSUME NEW t \in Teams, faults' = 0, row'[t].installed
               PROVE  row'[t].streams > 0 \/ Installing(t)'
    BY DEF InstalledHasStream
  <2>1. /\ row'[t].id = row[t].id
        /\ row'[t].installed = row[t].installed
    BY <1>5, TypeOK DEF CreateStream, TypeOK, RowsOK, CallsOK, Row
  <2>2. row[t].streams \in Nat /\ row'[t].streams \in {row[t].streams, row[t].streams + 1}
    BY <1>5, TypeOK DEF CreateStream, TypeOK, RowsOK, CallsOK, Row
  <2>3. row[t].streams > 0 \/ Installing(t)
    BY <1>5, <2>1, InstalledHasStream DEF CreateStream, InstalledHasStream
  <2>4. CASE row[t].streams > 0
    BY <2>2, <2>4
  <2>5. CASE Installing(t)
    <3>1. PICK d \in Calls : /\ at[d] \in {"stored", "evicted", "streamless"}
                             /\ team[d] = t /\ id[d] = row[t].id
      BY <2>5 DEF Installing
    <3>2. CASE d = c
      <4>1. row'[t].streams = row[t].streams + 1
        BY <1>5, <3>1, <3>2, TypeOK DEF CreateStream, StillThere, TypeOK, RowsOK, Row
      <4> QED
        BY <2>2, <4>1
    <3>3. CASE d # c
      BY <1>5, <2>1, <3>1, <3>3, TypeOK DEF CreateStream, Finish, Goto, Installing,
         TypeOK, CallsOK
    <3> QED
      BY <3>2, <3>3
  <2> QED
    BY <2>3, <2>4, <2>5
<1>6. ASSUME NEW c \in Calls, NEW t \in Teams, ReadUninstalled(c, t)
      PROVE  InstalledHasStream'
  BY <1>6, TypeOK, CallsHoldIds, IdsUnique, InstalledHasStream DEF
     ReadUninstalled, Deliver, Exists, Goto, slack, call, InstalledHasStream,
     Installing, CallsHoldIds, IdsUnique, TypeOK, RowsOK, SlackOK, CallsOK,
     SweepOK, Row
<1>7. ASSUME NEW c \in Calls, DeactivateUninstalled(c)
      PROVE  InstalledHasStream'
  <2>1. Deactivated(c)
    BY <1>7, DeactivateFields
  <2> QED
    BY <1>7, <2>1, Numbers, TypeOK, CallsHoldIds, IdsUnique, InstalledHasStream
       DEF Deactivated, Overtake, Finish, Goto, InstalledHasStream,
       Installing, CallsHoldIds, IdsUnique, Exists, TypeOK, CallsOK
<1>8. ASSUME NEW c \in Calls, EvictAfterUninstall(c) PROVE InstalledHasStream'
  BY <1>8, TypeOK, CallsHoldIds, IdsUnique, InstalledHasStream DEF
     EvictAfterUninstall, Goto, Finish, slack, call, InstalledHasStream,
     Installing, CallsHoldIds, IdsUnique, Exists, TypeOK, RowsOK, SlackOK,
     CallsOK, SweepOK, Row
<1>9. ASSUME NEW c \in Calls, NEW t \in Teams, ResolveWorkspace(c, t)
      PROVE  InstalledHasStream'
  BY <1>9, TypeOK, CallsHoldIds, IdsUnique, InstalledHasStream DEF
     ResolveWorkspace, Goto, slack, call, InstalledHasStream, Installing,
     CallsHoldIds, IdsUnique, Exists, TypeOK, RowsOK, SlackOK, CallsOK,
     SweepOK, Row
<1>10. ASSUME NEW c \in Calls, GetClientForWorkspace(c)
       PROVE  InstalledHasStream'
  BY <1>10, TypeOK, CallsHoldIds, IdsUnique, InstalledHasStream DEF
     GetClientForWorkspace, Goto, Finish, slack, call, InstalledHasStream,
     Installing, CallsHoldIds, IdsUnique, Exists, TypeOK, RowsOK, SlackOK,
     CallsOK, SweepOK, Row
<1>11. ASSUME NEW t \in Teams, AdminCreate(t) PROVE InstalledHasStream'
  <2>1. AdminCreated(t)
    BY <1>11, AdminCreateFields
  <2> QED
    BY <1>11, <2>1, Numbers, TypeOK, CallsHoldIds, IdsUnique, InstalledHasStream
       DEF AdminCreated, slack, call, InstalledHasStream, Installing,
       CallsHoldIds, IdsUnique, Exists, TypeOK, CallsOK
<1>12. ASSUME NEW t \in Teams, AdminUpdate(t) PROVE InstalledHasStream'
  BY <1>12, TypeOK, CallsHoldIds, IdsUnique, InstalledHasStream DEF
     AdminUpdate, Exists, slack, call, InstalledHasStream, Installing,
     CallsHoldIds, IdsUnique, TypeOK, RowsOK, SlackOK, CallsOK, SweepOK, Row
<1>13. ASSUME NEW i \in todo, Purge(i) PROVE InstalledHasStream'
  BY <1>13, TypeOK, CallsHoldIds, IdsUnique, InstalledHasStream DEF Purge,
     Absent, slack, call, InstalledHasStream, Installing, CallsHoldIds,
     IdsUnique, Exists, TypeOK, RowsOK, SlackOK, CallsOK, SweepOK, Row
<1>14. ASSUME NEW i \in todo, PurgeFails(i) PROVE InstalledHasStream'
  BY <1>14, TypeOK, CallsHoldIds, IdsUnique, InstalledHasStream DEF
     PurgeFails, slack, call, InstalledHasStream, Installing, CallsHoldIds,
     IdsUnique, Exists, TypeOK, RowsOK, SlackOK, CallsOK, SweepOK, Row
<1>15. ASSUME Restart PROVE InstalledHasStream'
  BY <1>15, TypeOK, CallsHoldIds, IdsUnique, InstalledHasStream DEF Restart,
     slack, call, InstalledHasStream, Installing, CallsHoldIds, IdsUnique,
     Exists, TypeOK, RowsOK, SlackOK, CallsOK, SweepOK, Row
<1>16. ASSUME Advance PROVE InstalledHasStream'
  BY <1>16, TypeOK, CallsHoldIds, IdsUnique, InstalledHasStream DEF Advance,
     slack, call, InstalledHasStream, Installing, CallsHoldIds, IdsUnique,
     Exists, TypeOK, RowsOK, SlackOK, CallsOK, SweepOK, Row
<1>17. CASE UNCHANGED <<row, faults, at, team, id>>
  BY <1>17, InstalledHasStream DEF InstalledHasStream, Installing
<1> QED
  BY <1>1, <1>2, <1>3, <1>4, <1>5, <1>6, <1>7, <1>8, <1>9, <1>10, <1>11,
     <1>12, <1>13, <1>14, <1>15, <1>16, <1>17 DEF Next, Install,
     OnAppUninstalled, Post, Sweep, vars, call, slack, Deliver, Uninstall,
     IgnoreUninstall, StartPurge

LEMMA ClientIsCurrentStep ==
  ASSUME TypeOK, CallsHoldIds, IdsUnique, AbsentIsEmpty, ResolvedIsCurrent, ClientsAreGivenIds, ClientIsCurrent, [Next]_vars
  PROVE  ClientIsCurrent'
<1>1. ASSUME NEW c \in Calls, NEW t \in Teams, Authorize(c, t)
      PROVE  ClientIsCurrent'
  BY <1>1, TypeOK, CallsHoldIds, IdsUnique, ResolvedIsCurrent,
     ClientsAreGivenIds, ClientIsCurrent DEF Authorize, Goto, slack, call,
     ClientIsCurrent, EvictionDue, CallsHoldIds, IdsUnique, ResolvedIsCurrent,
     ClientsAreGivenIds, Exists, TypeOK, RowsOK, SlackOK, CallsOK, SweepOK,
     Row
<1>2. ASSUME NEW c \in Calls, StoreInstall(c) PROVE ClientIsCurrent'
  <2>1. InstallStored(c) /\ Overtake(row[team[c]].id)
    BY <1>2, StoreInstallFields DEF StoreInstall
  <2> SUFFICES ASSUME NEW t \in Teams, row'[t].id # 0, row'[t].id \notin overtaken',
                      \A d \in Calls : at'[d] \in {"stored", "uninstalled"}
                                        => id'[d] # row'[t].id
               PROVE  clients[row'[t].id] \in {0, row'[t].token}
    BY <2>1 DEF InstallStored, ClientIsCurrent, EvictionDue, Exists
  <2>2. t # team[c]
    BY <2>1, TypeOK DEF InstallStored, TypeOK, CallsOK
  <2>3. row'[t] = row[t] /\ row[t].id \notin overtaken
    BY <2>1, <2>2 DEF InstallStored, Overtake
  <2>4. at[c] = "authorized"
    BY <1>2 DEF StoreInstall
  <2>5. ~EvictionDue(row[t].id)
    BY <2>1, <2>3, <2>4, TypeOK DEF InstallStored, EvictionDue, TypeOK, CallsOK
  <2> QED
    BY <2>3, <2>5, ClientIsCurrent DEF ClientIsCurrent, Exists
<1>3. ASSUME NEW c \in Calls, EvictAfterInstall(c) PROVE ClientIsCurrent'
  <2> SUFFICES ASSUME NEW t \in Teams, row[t].id # 0, row[t].id \notin overtaken,
                      \A d \in Calls : at'[d] \in {"stored", "uninstalled"}
                                        => id'[d] # row[t].id
               PROVE  clients'[row[t].id] \in {0, row[t].token}
    BY <1>3 DEF EvictAfterInstall, ClientIsCurrent, EvictionDue, Exists
  <2>1. row[t].id \in Ids
    BY TypeOK, Bounds DEF TypeOK, RowsOK, Row
  <2>2. CASE row[t].id = id[c]
    BY <1>3, <2>1, <2>2, TypeOK DEF EvictAfterInstall, TypeOK, SlackOK
  <2>3. CASE row[t].id # id[c]
    <3>1. ~EvictionDue(row[t].id)
      BY <1>3, <2>3, TypeOK DEF EvictAfterInstall, Finish, Goto, EvictionDue, TypeOK, CallsOK
    <3>2. clients'[row[t].id] = clients[row[t].id]
      BY <1>3, <2>1, <2>3, TypeOK DEF EvictAfterInstall, TypeOK, SlackOK
    <3> QED
      BY <3>1, <3>2, ClientIsCurrent DEF ClientIsCurrent, Exists
  <2> QED
    BY <2>2, <2>3
<1>4. ASSUME NEW c \in Calls, FindStream(c) PROVE ClientIsCurrent'
  BY <1>4, TypeOK, CallsHoldIds, IdsUnique, ResolvedIsCurrent,
     ClientsAreGivenIds, ClientIsCurrent DEF FindStream, Goto, Finish, slack,
     call, ClientIsCurrent, EvictionDue, CallsHoldIds, IdsUnique,
     ResolvedIsCurrent, ClientsAreGivenIds, Exists, TypeOK, RowsOK, SlackOK,
     CallsOK, SweepOK, Row
<1>5. ASSUME NEW c \in Calls, CreateStream(c) PROVE ClientIsCurrent'
  BY <1>5, TypeOK, CallsHoldIds, IdsUnique, ResolvedIsCurrent,
     ClientsAreGivenIds, ClientIsCurrent DEF CreateStream, Goto, Finish,
     StillThere, slack, call, ClientIsCurrent, EvictionDue, CallsHoldIds,
     IdsUnique, ResolvedIsCurrent, ClientsAreGivenIds, Exists, TypeOK, RowsOK,
     SlackOK, CallsOK, SweepOK, Row
<1>6. ASSUME NEW c \in Calls, NEW t \in Teams, ReadUninstalled(c, t)
      PROVE  ClientIsCurrent'
  BY <1>6, TypeOK, CallsHoldIds, IdsUnique, ResolvedIsCurrent,
     ClientsAreGivenIds, ClientIsCurrent DEF ReadUninstalled, Deliver, Exists,
     Goto, slack, call, ClientIsCurrent, EvictionDue, CallsHoldIds, IdsUnique,
     ResolvedIsCurrent, ClientsAreGivenIds, TypeOK, RowsOK, SlackOK, CallsOK,
     SweepOK, Row
<1>7. ASSUME NEW c \in Calls, DeactivateUninstalled(c) PROVE ClientIsCurrent'
  <2>1. Deactivated(c)
    BY <1>7, DeactivateFields
  <2> QED
    BY <1>7, <2>1, Numbers, TypeOK, CallsHoldIds, IdsUnique, ResolvedIsCurrent,
       ClientsAreGivenIds, ClientIsCurrent DEF Deactivated, Overtake, Finish,
       Goto, ClientIsCurrent, EvictionDue, CallsHoldIds, IdsUnique,
       ResolvedIsCurrent, ClientsAreGivenIds, Exists, TypeOK, CallsOK
<1>8. ASSUME NEW c \in Calls, EvictAfterUninstall(c) PROVE ClientIsCurrent'
  <2> SUFFICES ASSUME NEW t \in Teams, row[t].id # 0, row[t].id \notin overtaken,
                      \A d \in Calls : at'[d] \in {"stored", "uninstalled"}
                                        => id'[d] # row[t].id
               PROVE  clients'[row[t].id] \in {0, row[t].token}
    BY <1>8 DEF EvictAfterUninstall, ClientIsCurrent, EvictionDue, Exists
  <2>1. row[t].id \in Ids
    BY TypeOK, Bounds DEF TypeOK, RowsOK, Row
  <2>2. CASE row[t].id = id[c]
    BY <1>8, <2>1, <2>2, TypeOK DEF EvictAfterUninstall, TypeOK, SlackOK
  <2>3. CASE row[t].id # id[c]
    <3>1. ~EvictionDue(row[t].id)
      BY <1>8, <2>3, TypeOK DEF EvictAfterUninstall, Finish, Goto, EvictionDue, TypeOK, CallsOK
    <3>2. clients'[row[t].id] = clients[row[t].id]
      BY <1>8, <2>1, <2>3, TypeOK DEF EvictAfterUninstall, TypeOK, SlackOK
    <3> QED
      BY <3>1, <3>2, ClientIsCurrent DEF ClientIsCurrent, Exists
  <2> QED
    BY <2>2, <2>3
<1>9. ASSUME NEW c \in Calls, NEW t \in Teams, ResolveWorkspace(c, t)
      PROVE  ClientIsCurrent'
  BY <1>9, TypeOK, CallsHoldIds, IdsUnique, ResolvedIsCurrent,
     ClientsAreGivenIds, ClientIsCurrent DEF ResolveWorkspace, Goto, slack,
     call, ClientIsCurrent, EvictionDue, CallsHoldIds, IdsUnique,
     ResolvedIsCurrent, ClientsAreGivenIds, Exists, TypeOK, RowsOK, SlackOK,
     CallsOK, SweepOK, Row
<1>10. ASSUME NEW c \in Calls, GetClientForWorkspace(c) PROVE ClientIsCurrent'
  <2> SUFFICES ASSUME NEW t \in Teams, row[t].id # 0, row[t].id \notin overtaken,
                      \A d \in Calls : at'[d] \in {"stored", "uninstalled"}
                                        => id'[d] # row[t].id
               PROVE  clients'[row[t].id] \in {0, row[t].token}
    BY <1>10 DEF GetClientForWorkspace, ClientIsCurrent, EvictionDue, Exists
  <2>1. row[t].id \in Ids
    BY TypeOK, Bounds DEF TypeOK, RowsOK, Row
  <2>2. CASE row[t].id = id[c]
    <3>1. got[c] = row[t].token
      BY <1>10, <2>2, ResolvedIsCurrent DEF GetClientForWorkspace, ResolvedIsCurrent
    <3>2. ~EvictionDue(row[t].id)
      BY <1>10, TypeOK DEF GetClientForWorkspace, Finish, Goto, EvictionDue, TypeOK, CallsOK
    <3>3. clients[row[t].id] \in {0, row[t].token}
      BY <3>2, ClientIsCurrent DEF ClientIsCurrent, Exists
    <3> QED
      BY <1>10, <2>1, <2>2, <3>1, <3>3, TypeOK DEF GetClientForWorkspace, TypeOK, SlackOK
  <2>3. CASE row[t].id # id[c]
    <3>1. ~EvictionDue(row[t].id)
      BY <1>10, <2>3, TypeOK DEF GetClientForWorkspace, Finish, Goto, EvictionDue, TypeOK, CallsOK
    <3>2. clients'[row[t].id] = clients[row[t].id]
      BY <1>10, <2>1, <2>3, TypeOK DEF GetClientForWorkspace, TypeOK, SlackOK
    <3> QED
      BY <3>1, <3>2, ClientIsCurrent DEF ClientIsCurrent, Exists
  <2> QED
    BY <2>2, <2>3
<1>11. ASSUME NEW t \in Teams, AdminCreate(t) PROVE ClientIsCurrent'
  <2>1. AdminCreated(t)
    BY <1>11, AdminCreateFields
  <2> SUFFICES ASSUME NEW u \in Teams, row'[u].id # 0, row'[u].id \notin overtaken,
                      ~EvictionDue(row'[u].id)
               PROVE  clients[row'[u].id] \in {0, row'[u].token}
    BY <2>1 DEF AdminCreated, call, ClientIsCurrent, EvictionDue, Exists
  <2>2. CASE u # t
    BY <2>1, <2>2, ClientIsCurrent DEF AdminCreated, ClientIsCurrent, Exists
  <2>3. CASE u = t
    <3>1. ids + 1 \in Ids /\ row'[t].id = ids + 1
      BY <1>11, <2>1, TypeOK DEF AdminCreated, AdminCreate, CreateRow, TypeOK, RowsOK,
         IdsOrNone, Ids
    <3>2. clients[ids + 1] = 0
      BY <3>1, Numbers, ClientsAreGivenIds DEF ClientsAreGivenIds
    <3> QED
      BY <2>3, <3>1, <3>2
  <2> QED
    BY <2>2, <2>3
<1>12. ASSUME NEW t \in Teams, AdminUpdate(t) PROVE ClientIsCurrent'
  BY <1>12, TypeOK, CallsHoldIds, IdsUnique, ResolvedIsCurrent,
     ClientsAreGivenIds, ClientIsCurrent DEF AdminUpdate, Exists, slack, call,
     ClientIsCurrent, EvictionDue, CallsHoldIds, IdsUnique, ResolvedIsCurrent,
     ClientsAreGivenIds, TypeOK, RowsOK, SlackOK, CallsOK, SweepOK, Row
<1>13. ASSUME NEW i \in todo, Purge(i) PROVE ClientIsCurrent'
  BY <1>13, TypeOK, CallsHoldIds, IdsUnique, ResolvedIsCurrent,
     ClientsAreGivenIds, ClientIsCurrent DEF Purge, Absent, slack, call,
     ClientIsCurrent, EvictionDue, CallsHoldIds, IdsUnique, ResolvedIsCurrent,
     ClientsAreGivenIds, Exists, TypeOK, RowsOK, SlackOK, CallsOK, SweepOK,
     Row
<1>14. ASSUME Restart PROVE ClientIsCurrent'
  <2> SUFFICES ASSUME NEW t \in Teams, row[t].id # 0
               PROVE  clients'[row[t].id] = 0
    BY <1>14 DEF Restart, ClientIsCurrent, Exists
  <2>1. row[t].id \in Ids
    BY TypeOK, Bounds DEF TypeOK, RowsOK, Row
  <2> QED
    BY <1>14, <2>1 DEF Restart
<1>15. ASSUME Advance PROVE ClientIsCurrent'
  BY <1>15, TypeOK, CallsHoldIds, IdsUnique, ResolvedIsCurrent,
     ClientsAreGivenIds, ClientIsCurrent DEF Advance, slack, call,
     ClientIsCurrent, EvictionDue, CallsHoldIds, IdsUnique, ResolvedIsCurrent,
     ClientsAreGivenIds, Exists, TypeOK, RowsOK, SlackOK, CallsOK, SweepOK,
     Row
<1>16. CASE UNCHANGED <<row, clients, overtaken, at, id>>
  BY <1>16, ClientIsCurrent DEF ClientIsCurrent, EvictionDue, Exists
<1> QED
  BY <1>1, <1>2, <1>3, <1>4, <1>5, <1>6, <1>7, <1>8, <1>9, <1>10, <1>11,
     <1>12, <1>13, <1>14, <1>15, <1>16 DEF Next, Install, OnAppUninstalled,
     Post, Sweep, vars, call, slack, Deliver, Uninstall, IgnoreUninstall,
     StartPurge, PurgeFails

(* A completed install leaves a workspace with a stream. *)
THEOREM StreamAfterInstall == Spec => []InstalledHasStream
<1>1. Init => InstalledHasStream
  BY DEF Init, InstalledHasStream, Absent
<1>2. WorkspaceInv /\ InstalledHasStream /\ [Next]_vars => InstalledHasStream'
  BY InstalledHasStreamStep DEF WorkspaceInv
<1> QED
  BY <1>1, <1>2, WorkspaceInvariant, PTL DEF Spec

(* The cached client has the stored token, but for messages overtaken by a  *)
(* reinstall.                                                               *)
THEOREM CurrentClient == Spec => []ClientIsCurrent
<1>1. Init => ClientIsCurrent
  BY DEF Init, ClientIsCurrent, Exists, Absent
<1>2. WorkspaceInv /\ ClientIsCurrent /\ [Next]_vars => ClientIsCurrent'
  BY ClientIsCurrentStep DEF WorkspaceInv
<1> QED
  BY <1>1, <1>2, WorkspaceInvariant, PTL DEF Spec
=============================================================================
