-------------------------- MODULE ContentLifecycle --------------------------
(***************************************************************************)
(* Content items and their review: drafts, approval, archive, revisions    *)
(* (src/content/content.service.ts, src/review/review.service.ts).         *)
(*                                                                         *)
(* Every handler is a transaction that reads the item, checks its status   *)
(* and then writes.  At PostgreSQL's default isolation other transactions  *)
(* commit between the two, so each handler is a step that reads and a step *)
(* that writes.  Only revise is Serializable.                              *)
(***************************************************************************)
EXTENDS Integers

CONSTANTS
  Items,      \* ids of ContentItem rows
  Admins,     \* requests that can be running at once
  Payloads,   \* payloads that validateDraft accepts
  Rests,      \* type, locale, title and sources of an item, together
  Approvable, \* the pairs <<payload, rest>> that validateForApproval accepts
  None,       \* no item, no checksum
  MaxWrites   \* bound: committed writes

ASSUME ContentAssumption ==
  /\ None \notin Items
  /\ Approvable \subseteq Payloads \X Rests
  /\ MaxWrites \in Nat

VARIABLES
  row,    \* ContentItem and its ContentSource rows, by id
  at,     \* the handler each request is in, between its read and its write
  item,   \* the id it is about
  was,    \* the row it read
  known,  \* update: dto.expectedUpdatedAt; revise: the version it computed
  writes, \* writes committed so far, and the clock behind updatedAt
  late    \* history: items last approved by a request whose read was overtaken

call == <<at, item, was, known>>
vars == <<row, call, writes, late>>

Status == {"ABSENT", "DRAFT", "IN_REVIEW", "APPROVED", "REJECTED", "ARCHIVED"}

Absent == [status |-> "ABSENT", payload |-> None, rest |-> None, version |-> 0,
           parent |-> None, checksum |-> None, updatedAt |-> 0]

Init ==
  /\ row = [i \in Items |-> Absent]
  /\ at = [a \in Admins |-> "idle"]
  /\ item = [a \in Admins |-> None]
  /\ was = [a \in Admins |-> Absent]
  /\ known = [a \in Admins |-> 0]
  /\ writes = 0
  /\ late = {}

Exists(i) == row[i].status # "ABSENT"

(* The fingerprint of everything a reader of the item sees.                 *)
calculate(payload, rest, version) == <<payload, rest, version>>

-----------------------------------------------------------------------------
(* The two steps of a handler.                                             *)

Read(a, i, handler) ==
  /\ at[a] = "idle"
  /\ at' = [at EXCEPT ![a] = handler]
  /\ item' = [item EXCEPT ![a] = i]
  /\ was' = [was EXCEPT ![a] = row[i]]
  /\ UNCHANGED <<row, writes>>

Finish(a) ==
  /\ at' = [at EXCEPT ![a] = "idle"]
  /\ item' = [item EXCEPT ![a] = None]
  /\ was' = [was EXCEPT ![a] = Absent]
  /\ known' = [known EXCEPT ![a] = 0]

(* The row i becomes r, with a new updatedAt. *)
Write(i, r) ==
  /\ writes < MaxWrites
  /\ writes' = writes + 1
  /\ row' = [row EXCEPT ![i] = [r EXCEPT !.updatedAt = writes + 1]]

-----------------------------------------------------------------------------
(* Content.                                                                *)

(* A new draft; or an import, approved by the same rules.                  *)
Create(a, i) ==
  /\ at[a] = "idle"
  /\ ~Exists(i)
  /\ \E p \in Payloads, r \in Rests :
       Write(i, [Absent EXCEPT !.status = "DRAFT", !.payload = p, !.rest = r,
                               !.version = 1])
  /\ UNCHANGED call

CreateApproved(a, i) ==
  /\ at[a] = "idle"
  /\ ~Exists(i)
  /\ \E pair \in Approvable :
       Write(i, [Absent EXCEPT !.status = "APPROVED", !.payload = pair[1],
                               !.rest = pair[2], !.version = 1,
                               !.checksum = calculate(pair[1], pair[2], 1)])
  /\ UNCHANGED call

(* An editor who loaded the item at some updatedAt up to now.               *)
UpdateRead(a, i) ==
  /\ Exists(i)
  /\ row[i].status \in {"DRAFT", "REJECTED"}
  /\ Read(a, i, "update")
  /\ \E u \in 1..row[i].updatedAt : known' = [known EXCEPT ![a] = u]

(* Mutant: the update is by id only. *)
UpdateMatchesId(a) == TRUE

UpdateMatches(a) == row[item[a]].updatedAt = known[a]

(* A rejected item becomes a draft again; its review is cleared, its        *)
(* checksum is null already.                                                *)
Update(a) ==
  /\ at[a] = "update"
  /\ UpdateMatches(a)
  /\ \E p \in Payloads, r \in Rests :
       Write(item[a], [row[item[a]] EXCEPT !.payload = p, !.rest = r,
                                           !.status = "DRAFT"])
  /\ Finish(a)

ArchiveRead(a, i) ==
  /\ row[i].status = "APPROVED"
  /\ Read(a, i, "archive")
  /\ UNCHANGED known

Archive(a) ==
  /\ at[a] = "archive"
  /\ Write(item[a], [row[item[a]] EXCEPT !.status = "ARCHIVED"])
  /\ Finish(a)

(* The root of a family is the item without a parent.                       *)
RootOf(i) == IF row[i].parent = None THEN i ELSE row[i].parent
Family(root) == {i \in Items : Exists(i) /\ (i = root \/ row[i].parent = root)}

(* The version after every version of the family. *)
IsNextVersion(root, v) ==
  \E i \in Family(root) :
    /\ v = row[i].version + 1
    /\ \A j \in Family(root) : row[j].version <= row[i].version

(* revise reads the item and its family's latest version in one snapshot.   *)
ReviseRead(a, i) ==
  /\ row[i].status \in {"APPROVED", "ARCHIVED"}
  /\ Read(a, i, "revise")
  /\ \E v \in 1..(MaxWrites + 1) :
       IsNextVersion(RootOf(i), v) /\ known' = [known EXCEPT ![a] = v]

(* Mutant: neither isolation nor a unique key protects the version.         *)
ReviseUnprotected(a) == TRUE

(* UNIQUE (parentContentId, version), which the Serializable transaction    *)
(* would enforce as well.                                                   *)
ReviseCommits(a) ==
  LET root == IF was[a].parent = None THEN item[a] ELSE was[a].parent
  IN ~\E i \in Family(root) : row[i].version = known[a]

Revise(a, i) ==
  /\ at[a] = "revise"
  /\ ~Exists(i)
  /\ ReviseCommits(a)
  /\ Write(i, [Absent EXCEPT
                 !.status = "DRAFT", !.payload = was[a].payload,
                 !.rest = was[a].rest, !.version = known[a],
                 !.parent = IF was[a].parent = None THEN item[a] ELSE was[a].parent])
  /\ Finish(a)

-----------------------------------------------------------------------------
(* Review.                                                                 *)

(* Mutant: a rejected item can be submitted again as it is. *)
SubmitReadRejected(a, i) ==
  /\ row[i].status \in {"DRAFT", "REJECTED"}
  /\ Read(a, i, "submit")
  /\ UNCHANGED known

SubmitRead(a, i) ==
  /\ row[i].status = "DRAFT"
  /\ Read(a, i, "submit")
  /\ UNCHANGED known

Submit(a) ==
  /\ at[a] = "submit"
  /\ Write(item[a], [row[item[a]] EXCEPT !.status = "IN_REVIEW"])
  /\ Finish(a)

PassesValidation(r) == <<r.payload, r.rest>> \in Approvable

(* approve validates what it read; nothing is written unless it passes.     *)
ApproveRead(a, i) ==
  /\ row[i].status = "IN_REVIEW"
  /\ PassesValidation(row[i])
  /\ Read(a, i, "approve")
  /\ UNCHANGED known

(* Mutant: the checksum is computed without the version. *)
ApproveStale(a) ==
  /\ at[a] = "approve"
  /\ Write(item[a], [row[item[a]] EXCEPT
                       !.status = "APPROVED", !.payload = was[a].payload,
                       !.checksum = calculate(was[a].payload, was[a].rest, 1)])
  /\ Finish(a)

Approve(a) ==
  /\ at[a] = "approve"
  /\ Write(item[a], [row[item[a]] EXCEPT
                       !.status = "APPROVED", !.payload = was[a].payload,
                       !.checksum = calculate(was[a].payload, was[a].rest,
                                              was[a].version)])
  /\ Finish(a)

RejectRead(a, i) ==
  /\ row[i].status = "IN_REVIEW"
  /\ Read(a, i, "reject")
  /\ UNCHANGED known

Reject(a) ==
  /\ at[a] = "reject"
  /\ Write(item[a], [row[item[a]] EXCEPT !.status = "REJECTED", !.checksum = None])
  /\ Finish(a)

(* The transaction is refused, rolled back or lost with the process.        *)
Abort(a) ==
  /\ at[a] # "idle"
  /\ Finish(a)
  /\ UNCHANGED <<row, writes>>

-----------------------------------------------------------------------------
Begin(a, i) ==
  \/ Create(a, i)
  \/ CreateApproved(a, i)
  \/ UpdateRead(a, i)
  \/ ArchiveRead(a, i)
  \/ ReviseRead(a, i)
  \/ SubmitRead(a, i)
  \/ ApproveRead(a, i)
  \/ RejectRead(a, i)

End(a) ==
  \/ Update(a)
  \/ Archive(a)
  \/ \E i \in Items : Revise(a, i)
  \/ Submit(a)
  \/ Approve(a)
  \/ Reject(a)
  \/ Abort(a)

(* A request writes i, which has changed since the request read it.         *)
Overtaken(i) ==
  \E a \in Admins : at[a] # "idle" /\ at'[a] = "idle" /\ item[a] = i /\ was[a] # row[i]

ApprovedLate(i) == Overtaken(i) /\ row'[i].status = "APPROVED"

Next ==
  /\ \E a \in Admins : End(a) \/ \E i \in Items : Begin(a, i)
  /\ late' = {i \in Items : IF row'[i] = row[i] THEN i \in late ELSE ApprovedLate(i)}

Spec == Init /\ [][Next]_vars

-----------------------------------------------------------------------------
(* Properties.                                                             *)

Row ==
  [status: Status, payload: Payloads \cup {None}, rest: Rests \cup {None},
   version: Nat, parent: Items \cup {None},
   checksum: (Payloads \X Rests \X Nat) \cup {None}, updatedAt: Nat]

Handlers == {"update", "archive", "revise", "submit", "approve", "reject"}

(* Every variable keeps its type; a row that exists has content.            *)
Filled(r) == r.status # "ABSENT" => r.payload \in Payloads /\ r.rest \in Rests

TypeOK ==
  /\ row \in [Items -> Row]
  /\ \A i \in Items : Filled(row[i])
  /\ at \in [Admins -> Handlers \cup {"idle"}]
  /\ item \in [Admins -> Items \cup {None}]
  /\ was \in [Admins -> Row]
  /\ \A a \in Admins :
       at[a] # "idle" => item[a] \in Items /\ was[a].status # "ABSENT" /\ Filled(was[a])
  /\ known \in [Admins -> Nat]
  /\ writes \in Nat
  /\ late \in SUBSET Items

(* An edit never reaches an item under review or past it, although status   *)
(* check and write are two steps: expectedUpdatedAt guards both.            *)
EditsDraftsOnly ==
  [][\A i \in Items :
       Exists(i) /\ row'[i].rest # row[i].rest
         => row[i].status \in {"DRAFT", "REJECTED"}]_vars

(* migration 20260728174034: the versions of a family are distinct.         *)
VersionsUnique ==
  \A i, j \in Items :
    /\ Exists(i) /\ Exists(j) /\ i # j
    /\ RootOf(i) = RootOf(j)
    => row[i].version # row[j].version

(* PLAN.md:2414: approved content has passed validation, as it is, and its  *)
(* checksum is that of its content.                                         *)
ApprovedAsValidated(i) ==
  row[i].status = "APPROVED" =>
    /\ PassesValidation(row[i])
    /\ row[i].checksum = calculate(row[i].payload, row[i].rest, row[i].version)

(* PLAN.md 5.9: the transitions of the review workflow, and no other.       *)
Allowed ==
  {<<"ABSENT", "DRAFT">>, <<"ABSENT", "APPROVED">>,
   <<"DRAFT", "IN_REVIEW">>, <<"IN_REVIEW", "APPROVED">>,
   <<"IN_REVIEW", "REJECTED">>, <<"REJECTED", "DRAFT">>,
   <<"APPROVED", "ARCHIVED">>}

AllowedTransition(i) ==
  row'[i].status # row[i].status => <<row[i].status, row'[i].status>> \in Allowed

(* PLAN.md:2523: approved content is not changed in place.                  *)
ApprovedIsFrozen(i) ==
  row[i].status \in {"APPROVED", "ARCHIVED"}
    => row'[i].payload = row[i].payload /\ row'[i].rest = row[i].rest

(* PLAN.md:2414: content that is APPROVED passed validation as it is, and   *)
(* carries its own checksum, unless the row had changed since the request   *)
(* that approved it read it: no other overlap of requests can harm it.      *)
ApprovedUnlessLate == \A i \in Items \ late : ApprovedAsValidated(i)

(* PLAN.md 5.9 and 2523: only the transitions of the review workflow        *)
(* happen, and approved content never changes, unless a request writes a    *)
(* row that has changed since it checked its status.                        *)
WorkflowUnlessLate ==
  [][\A i \in Items : Overtaken(i) \/ (AllowedTransition(i) /\ ApprovedIsFrozen(i))]_vars

(* The inductive invariant: a request's row is as it read it unless its     *)
(* updatedAt has moved on, and families hang together.                      *)
ReadsAge ==
  /\ \A i \in Items : row[i].updatedAt <= writes
  /\ \A a \in Admins : at[a] # "idle" =>
       /\ was[a].updatedAt <= row[item[a]].updatedAt
       /\ was[a].updatedAt = row[item[a]].updatedAt => was[a] = row[item[a]]
       /\ at[a] = "update" => /\ known[a] <= was[a].updatedAt
                              /\ was[a].status \in {"DRAFT", "REJECTED"}

ParentsExist ==
  /\ \A i \in Items : row[i].parent # None => Exists(row[i].parent)
  /\ \A a \in Admins : at[a] # "idle" =>
       /\ Exists(item[a])
       /\ was[a].parent # None => Exists(was[a].parent)

ContentInv == TypeOK /\ ReadsAge /\ ParentsExist /\ VersionsUnique

(* ... and what its handler checked holds of the row as it read it.         *)
ReadsChecked ==
  \A a \in Admins :
    /\ at[a] = "archive" => was[a].status = "APPROVED"
    /\ at[a] = "submit" => was[a].status = "DRAFT"
    /\ at[a] \in {"approve", "reject"} => was[a].status = "IN_REVIEW"
    /\ at[a] = "approve" => PassesValidation(was[a])
=============================================================================
