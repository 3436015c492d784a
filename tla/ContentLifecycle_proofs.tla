----------------------- MODULE ContentLifecycle_proofs -----------------------
(***************************************************************************)
(* Proofs about ContentLifecycle, for any items, payloads, requests and    *)
(* number of writes, from ContentAssumption.                               *)
(***************************************************************************)
EXTENDS ContentLifecycle, TLAPS

USE ContentAssumption DEF ContentAssumption

(* What every handler that changes one existing row has in common.          *)
Rewrites(a, r) ==
  /\ at[a] # "idle"
  /\ Write(item[a], r)
  /\ r \in Row /\ Filled(r)
  /\ r.status # "ABSENT"
  /\ r.version = row[item[a]].version
  /\ r.parent = row[item[a]].parent
  /\ Finish(a)

(* What a handler that inserts row i has in common.                         *)
Inserts(i, r) ==
  /\ ~Exists(i)
  /\ Write(i, r)
  /\ r \in Row /\ Filled(r)
  /\ r.status # "ABSENT"
  /\ r.parent # None => Exists(r.parent)
  /\ \A j \in Items :
       Exists(j) /\ j # i /\ RootOf(j) = (IF r.parent = None THEN i ELSE r.parent)
         => row[j].version # r.version

(* Every way a handler can start.                                           *)
Reads(a, i) ==
  /\ Exists(i)
  /\ \E h \in Handlers :
       /\ Read(a, i, h)
       /\ known'[a] \in Nat
       /\ h = "update" => /\ known'[a] <= row[i].updatedAt
                          /\ row[i].status \in {"DRAFT", "REJECTED"}
  /\ \E k : known' = [known EXCEPT ![a] = k]

LEMMA WrittenRow ==
  ASSUME TypeOK, NEW i \in Items, NEW r \in Row, Filled(r), Write(i, r)
  PROVE  /\ row'[i] \in Row /\ Filled(row'[i])
         /\ row'[i].updatedAt = writes + 1
         /\ row'[i].status = r.status
         /\ row'[i].version = r.version
         /\ row'[i].parent = r.parent
         /\ row' \in [Items -> Row]
         /\ \A j \in Items \ {i} : row'[j] = row[j]
         /\ writes' = writes + 1
BY DEF TypeOK, Write, Row, Filled, Status

LEMMA RewriteInv ==
  ASSUME ContentInv, late' \in SUBSET Items,
         NEW a \in Admins, NEW r, Rewrites(a, r)
  PROVE  ContentInv'
<1>1. item[a] \in Items
  BY DEF ContentInv, TypeOK, Rewrites
<1>2. /\ row'[item[a]] \in Row /\ Filled(row'[item[a]])
      /\ row'[item[a]].updatedAt = writes + 1
      /\ row'[item[a]].status # "ABSENT"
      /\ row'[item[a]].version = row[item[a]].version
      /\ row'[item[a]].parent = row[item[a]].parent
      /\ row' \in [Items -> Row]
      /\ \A j \in Items \ {item[a]} : row'[j] = row[j]
      /\ writes' = writes + 1
  BY <1>1, WrittenRow DEF ContentInv, Rewrites
<1>3. \A b \in Admins : at'[b] # "idle" =>
        at'[b] = at[b] /\ item'[b] = item[b] /\ was'[b] = was[b] /\ known'[b] = known[b]
  BY DEF Rewrites, Finish, ContentInv, TypeOK
<1>4. TypeOK'
  <2>1. /\ at' \in [Admins -> Handlers \cup {"idle"}]
        /\ item' \in [Admins -> Items \cup {None}]
        /\ was' \in [Admins -> Row]
        /\ known' \in [Admins -> Nat]
    BY DEF Rewrites, Finish, ContentInv, TypeOK, Row, Absent, Status
  <2>2. QED
    BY <1>2, <1>3, <2>1 DEF ContentInv, TypeOK
<1>5. ReadsAge'
  <2>1. writes \in Nat /\ \A i \in Items : row[i].updatedAt \in Nat
    BY DEF ContentInv, TypeOK, Row
  <2>2. \A i \in Items : row'[i].updatedAt <= writes'
    BY <1>2, <2>1 DEF ContentInv, ReadsAge
  <2>3. ASSUME NEW b \in Admins, at'[b] # "idle"
        PROVE  /\ was'[b].updatedAt <= row'[item'[b]].updatedAt
               /\ was'[b].updatedAt = row'[item'[b]].updatedAt
                    => was'[b] = row'[item'[b]]
    <3>1. at[b] # "idle" /\ item[b] \in Items /\ was[b].updatedAt \in Nat
      BY <1>3, <2>3 DEF ContentInv, TypeOK, Row
    <3>2. was[b].updatedAt <= row[item[b]].updatedAt /\ row[item[b]].updatedAt <= writes
      BY <3>1 DEF ContentInv, ReadsAge
    <3>3. QED
      BY <1>2, <1>3, <2>1, <2>3, <3>1, <3>2 DEF ContentInv, ReadsAge
  <2>4. QED
    BY <1>3, <2>2, <2>3 DEF ContentInv, ReadsAge
<1>6. \A i \in Items : (Exists(i)' <=> Exists(i)) /\ row'[i].version = row[i].version
                       /\ row'[i].parent = row[i].parent
  BY <1>1, <1>2 DEF ContentInv, ParentsExist, Exists, Rewrites
<1>7. ParentsExist' /\ VersionsUnique'
  <2>1. \A i \in Items : row[i].parent \in Items \cup {None}
    BY DEF ContentInv, TypeOK, Row
  <2>2. \A b \in Admins : was[b].parent \in Items \cup {None}
    BY DEF ContentInv, TypeOK, Row
  <2>3. \A b \in Admins : at[b] # "idle" => item[b] \in Items
    BY DEF ContentInv, TypeOK
  <2>4. ParentsExist'
    BY <1>3, <1>6, <2>1, <2>2, <2>3 DEF ContentInv, ParentsExist
  <2>5. VersionsUnique'
    BY <1>6 DEF ContentInv, VersionsUnique, RootOf
  <2>6. QED
    BY <2>4, <2>5
<1>8. QED
  BY <1>4, <1>5, <1>7 DEF ContentInv

LEMMA InsertInv ==
  ASSUME ContentInv, late' \in SUBSET Items,
         NEW a \in Admins, NEW i \in Items, NEW r, Inserts(i, r),
         UNCHANGED call \/ Finish(a)
  PROVE  ContentInv'
<1>1. /\ row'[i] \in Row /\ Filled(row'[i])
      /\ row'[i].updatedAt = writes + 1
      /\ row'[i].status # "ABSENT"
      /\ row'[i].version = r.version
      /\ row'[i].parent = r.parent
      /\ row' \in [Items -> Row]
      /\ \A j \in Items \ {i} : row'[j] = row[j]
      /\ writes' = writes + 1
  BY WrittenRow DEF ContentInv, Inserts
<1>2. \A b \in Admins : at'[b] # "idle" =>
        at'[b] = at[b] /\ item'[b] = item[b] /\ was'[b] = was[b] /\ known'[b] = known[b]
  BY DEF Finish, call, ContentInv, TypeOK
<1>3. \A b \in Admins : at'[b] # "idle" => item[b] # i /\ was[b].parent # i
  BY <1>2 DEF ContentInv, ParentsExist, Inserts, TypeOK, Row, Exists
<1>4. TypeOK'
  <2>1. /\ at' \in [Admins -> Handlers \cup {"idle"}]
        /\ item' \in [Admins -> Items \cup {None}]
        /\ was' \in [Admins -> Row]
        /\ known' \in [Admins -> Nat]
    <3>1. CASE UNCHANGED call
      BY <3>1 DEF call, ContentInv, TypeOK
    <3>2. CASE Finish(a)
      BY <3>2 DEF Finish, ContentInv, TypeOK, Row, Absent, Status
    <3>3. QED
      BY <3>1, <3>2
  <2>2. QED
    BY <1>1, <1>2, <2>1 DEF ContentInv, TypeOK
<1>5. ReadsAge'
  <2>1. writes \in Nat /\ \A j \in Items : row[j].updatedAt \in Nat
    BY DEF ContentInv, TypeOK, Row
  <2>2. \A j \in Items : row'[j].updatedAt <= writes'
    BY <1>1, <2>1 DEF ContentInv, ReadsAge
  <2>3. \A b \in Admins : at'[b] # "idle" => item[b] \in Items /\ row'[item[b]] = row[item[b]]
    BY <1>1, <1>2, <1>3 DEF ContentInv, TypeOK
  <2>4. QED
    BY <1>2, <2>2, <2>3 DEF ContentInv, ReadsAge
<1>6. /\ ~Exists(i) /\ Exists(i)'
      /\ \A j \in Items : Exists(j) => j # i /\ Exists(j)'
      /\ \A j \in Items : Exists(j)' /\ j # i => Exists(j)
  BY <1>1 DEF Exists, Inserts
<1>7. /\ r.parent \in Items \cup {None}
      /\ \A j \in Items : row[j].parent \in Items \cup {None}
      /\ \A b \in Admins : was[b].parent \in Items \cup {None}
  BY DEF ContentInv, TypeOK, Row, Inserts
<1>8. ParentsExist'
  <2>1. \A j \in Items : Exists(j) => row'[j].status # "ABSENT"
    BY <1>6 DEF Exists
  <2>2. r.parent # None => row'[r.parent].status # "ABSENT"
    BY <1>7, <2>1 DEF Inserts
  <2>3. \A j \in Items : row[j].parent # None => row'[row[j].parent].status # "ABSENT"
    BY <1>7, <2>1 DEF ContentInv, ParentsExist
  <2>4. \A j \in Items :
          row'[j].parent # None => row'[row'[j].parent].status # "ABSENT"
    BY <1>1, <2>2, <2>3
  <2>5. ASSUME NEW b \in Admins, at'[b] # "idle"
        PROVE  /\ row'[item[b]].status # "ABSENT"
               /\ was[b].parent # None => row'[was[b].parent].status # "ABSENT"
    BY <2>5, <1>2, <1>7, <2>1 DEF ContentInv, ParentsExist, TypeOK
  <2>6. QED
    BY <1>2, <2>4, <2>5 DEF ParentsExist, Exists
<1>9. VersionsUnique'
  <2>1. RootOf(i)' = IF r.parent = None THEN i ELSE r.parent
    BY <1>1 DEF RootOf
  <2>2. \A j \in Items \ {i} : RootOf(j)' = RootOf(j)
    BY <1>1 DEF RootOf
  <2>3. ASSUME NEW j \in Items, Exists(j)', j # i, RootOf(j)' = RootOf(i)'
        PROVE  row'[j].version # row'[i].version
    BY <2>1, <2>2, <2>3, <1>1, <1>6 DEF Inserts
  <2>4. ASSUME NEW j \in Items, NEW k \in Items, Exists(j)', Exists(k)',
               j # k, j # i, k # i, RootOf(j)' = RootOf(k)'
        PROVE  row'[j].version # row'[k].version
    BY <2>2, <2>4, <1>1, <1>6 DEF ContentInv, VersionsUnique
  <2>5. QED
    BY <2>3, <2>4 DEF VersionsUnique
<1>10. QED
  BY <1>4, <1>5, <1>8, <1>9 DEF ContentInv

LEMMA ReadInv ==
  ASSUME ContentInv, late' \in SUBSET Items,
         NEW a \in Admins, NEW i \in Items, Reads(a, i)
  PROVE  ContentInv'
<1>1. PICK h \in Handlers :
        /\ Read(a, i, h)
        /\ known'[a] \in Nat
        /\ h = "update" => /\ known'[a] <= row[i].updatedAt
                           /\ row[i].status \in {"DRAFT", "REJECTED"}
  BY DEF Reads
<1>2. /\ row' = row /\ writes' = writes
      /\ at'[a] = h /\ item'[a] = i /\ was'[a] = row[i]
      /\ \A b \in Admins \ {a} :
           at'[b] = at[b] /\ item'[b] = item[b] /\ was'[b] = was[b] /\ known'[b] = known[b]
  BY <1>1 DEF Read, Reads, ContentInv, TypeOK
<1>3. /\ at' \in [Admins -> Handlers \cup {"idle"}]
      /\ item' \in [Admins -> Items \cup {None}]
      /\ was' \in [Admins -> Row]
      /\ known' \in [Admins -> Nat]
  BY <1>1 DEF Read, Reads, ContentInv, TypeOK
<1>4. TypeOK'
  BY <1>2, <1>3 DEF ContentInv, TypeOK, Reads, Exists
<1>5. row[i].updatedAt \in Nat
  BY DEF ContentInv, TypeOK, Row
<1>6. ReadsAge'
  BY <1>1, <1>2, <1>5 DEF ContentInv, ReadsAge
<1>7. ParentsExist'
  BY <1>2 DEF ContentInv, ParentsExist, Reads, Exists
<1>8. VersionsUnique'
  BY <1>2 DEF ContentInv, VersionsUnique, RootOf, Exists
<1>9. QED
  BY <1>4, <1>6, <1>7, <1>8 DEF ContentInv

LEMMA FinishInv ==
  ASSUME ContentInv, late' \in SUBSET Items,
         NEW a \in Admins, Finish(a), UNCHANGED <<row, writes>>
  PROVE  ContentInv'
<1>1. \A b \in Admins : at'[b] # "idle" =>
        at'[b] = at[b] /\ item'[b] = item[b] /\ was'[b] = was[b] /\ known'[b] = known[b]
  BY DEF Finish, ContentInv, TypeOK
<1>2. /\ at' \in [Admins -> Handlers \cup {"idle"}]
      /\ item' \in [Admins -> Items \cup {None}]
      /\ was' \in [Admins -> Row]
      /\ known' \in [Admins -> Nat]
  BY DEF Finish, ContentInv, TypeOK, Row, Absent, Status
<1>3. TypeOK'
  BY <1>1, <1>2 DEF ContentInv, TypeOK
<1>4. ReadsAge' /\ ParentsExist' /\ VersionsUnique'
  BY <1>1 DEF ContentInv, ReadsAge, ParentsExist, VersionsUnique, RootOf, Exists
<1>5. QED
  BY <1>3, <1>4 DEF ContentInv

LEMMA NewFamily ==
  ASSUME ContentInv, late' \in SUBSET Items,
         NEW a \in Admins, NEW i \in Items,
         Create(a, i) \/ CreateApproved(a, i)
  PROVE  ContentInv'
<1>1. \A j \in Items : j # i => RootOf(j) # i
  BY DEF ContentInv, ParentsExist, RootOf, Create, CreateApproved, TypeOK, Row
<1>2. UNCHANGED call
  BY DEF Create, CreateApproved
<1>3. CASE Create(a, i)
  <2>1. PICK p \in Payloads, q \in Rests :
          Write(i, [Absent EXCEPT !.status = "DRAFT", !.payload = p, !.rest = q,
                                  !.version = 1])
    BY <1>3 DEF Create
  <2> DEFINE r == [Absent EXCEPT !.status = "DRAFT", !.payload = p, !.rest = q,
                                 !.version = 1]
  <2>2. r \in Row /\ Filled(r) /\ r.status # "ABSENT" /\ r.parent = None
    BY DEF Row, Filled, Absent, Status
  <2>3. Inserts(i, r)
    BY <1>1, <1>3, <2>1, <2>2 DEF Inserts, Create
  <2>4. QED
    BY <1>2, <2>3, InsertInv
<1>4. CASE CreateApproved(a, i)
  <2>1. PICK pair \in Approvable :
          Write(i, [Absent EXCEPT !.status = "APPROVED", !.payload = pair[1],
                                  !.rest = pair[2], !.version = 1,
                                  !.checksum = calculate(pair[1], pair[2], 1)])
    BY <1>4 DEF CreateApproved
  <2> DEFINE r == [Absent EXCEPT !.status = "APPROVED", !.payload = pair[1],
                                 !.rest = pair[2], !.version = 1,
                                 !.checksum = calculate(pair[1], pair[2], 1)]
  <2>2. pair[1] \in Payloads /\ pair[2] \in Rests
    OBVIOUS
  <2>3. r \in Row /\ Filled(r) /\ r.status # "ABSENT" /\ r.parent = None
    BY <2>2 DEF Row, Filled, Absent, Status, calculate
  <2>4. Inserts(i, r)
    BY <1>1, <1>4, <2>1, <2>3 DEF Inserts, CreateApproved
  <2>5. QED
    BY <1>2, <2>4, InsertInv
<1>5. QED
  BY <1>3, <1>4

LEMMA NewVersion ==
  ASSUME ContentInv, late' \in SUBSET Items,
         NEW a \in Admins, NEW i \in Items, Revise(a, i)
  PROVE  ContentInv'
<1> DEFINE root == IF was[a].parent = None THEN item[a] ELSE was[a].parent
           r == [Absent EXCEPT
                   !.status = "DRAFT", !.payload = was[a].payload,
                   !.rest = was[a].rest, !.version = known[a], !.parent = root]
<1>1. /\ item[a] \in Items /\ Exists(item[a])
      /\ was[a] \in Row /\ was[a].payload \in Payloads /\ was[a].rest \in Rests
      /\ known[a] \in Nat
  BY DEF ContentInv, TypeOK, ParentsExist, Revise, Filled
<1>2. root \in Items /\ Exists(root)
  BY <1>1 DEF ContentInv, ParentsExist, Revise, Row
<1>3. r \in Row /\ Filled(r) /\ r.status # "ABSENT" /\ r.parent = root
      /\ r.version = known[a]
  BY <1>1, <1>2 DEF Row, Filled, Absent, Status
<1>4. ~\E j \in Family(root) : row[j].version = known[a]
  BY DEF Revise, ReviseCommits
<1>5. \A j \in Items : Exists(j) /\ RootOf(j) = root => row[j].version # known[a]
  BY <1>4 DEF Family, RootOf
<1>6. Write(i, r) /\ ~Exists(i) /\ Finish(a)
  BY DEF Revise
<1>7. r.parent # None => Exists(r.parent)
  BY <1>2, <1>3 DEF Exists
<1>8. (IF r.parent = None THEN i ELSE r.parent) = root
  BY <1>2, <1>3
<1>9. \A j \in Items :
        Exists(j) /\ j # i /\ RootOf(j) = (IF r.parent = None THEN i ELSE r.parent)
          => row[j].version # r.version
  BY <1>3, <1>5, <1>8
<1>10. Inserts(i, r)
  BY <1>3, <1>6, <1>7, <1>9 DEF Inserts
<1>11. QED
  BY <1>6, <1>10, InsertInv

LEMMA EndInv ==
  ASSUME ContentInv, late' \in SUBSET Items,
         NEW a \in Admins, End(a)
  PROVE  ContentInv'
<1>1. CASE Abort(a)
  BY <1>1, FinishInv DEF Abort
<1>2. CASE \E i \in Items : Revise(a, i)
  BY <1>2, NewVersion
<1> DEFINE old == row[item[a]]
<1>3. ASSUME at[a] # "idle"
      PROVE  /\ old \in Row /\ Filled(old) /\ old.status # "ABSENT"
             /\ old.payload \in Payloads /\ old.rest \in Rests
             /\ was[a] \in Row
             /\ was[a].payload \in Payloads /\ was[a].rest \in Rests
  BY <1>3 DEF ContentInv, TypeOK, ParentsExist, Exists, Filled
<1>4. CASE Update(a)
  <2>1. PICK p \in Payloads, q \in Rests :
          Write(item[a], [old EXCEPT !.payload = p, !.rest = q, !.status = "DRAFT"])
    BY <1>4 DEF Update
  <2>2. Rewrites(a, [old EXCEPT !.payload = p, !.rest = q, !.status = "DRAFT"])
    BY <1>3, <1>4, <2>1 DEF Rewrites, Update, Row, Filled, Status
  <2>3. QED
    BY <2>2, RewriteInv
<1>5. CASE Archive(a)
  <2>1. Rewrites(a, [old EXCEPT !.status = "ARCHIVED"])
    BY <1>3, <1>5 DEF Rewrites, Archive, Row, Filled, Status
  <2>2. QED
    BY <2>1, RewriteInv
<1>6. CASE Submit(a)
  <2>1. Rewrites(a, [old EXCEPT !.status = "IN_REVIEW"])
    BY <1>3, <1>6 DEF Rewrites, Submit, Row, Filled, Status
  <2>2. QED
    BY <2>1, RewriteInv
<1>7. CASE Approve(a)
  <2>1. was[a].version \in Nat
    BY <1>3, <1>7 DEF Approve, Row
  <2>2. Rewrites(a, [old EXCEPT !.status = "APPROVED", !.payload = was[a].payload,
                       !.checksum = calculate(was[a].payload, was[a].rest,
                                              was[a].version)])
    BY <1>3, <1>7, <2>1 DEF Rewrites, Approve, Row, Filled, Status, calculate
  <2>3. QED
    BY <2>2, RewriteInv
<1>8. CASE Reject(a)
  <2>1. Rewrites(a, [old EXCEPT !.status = "REJECTED", !.checksum = None])
    BY <1>3, <1>8 DEF Rewrites, Reject, Row, Filled, Status
  <2>2. QED
    BY <2>1, RewriteInv
<1>9. QED
  BY <1>1, <1>2, <1>4, <1>5, <1>6, <1>7, <1>8 DEF End

LEMMA BeginInv ==
  ASSUME ContentInv, late' \in SUBSET Items,
         NEW a \in Admins, NEW i \in Items, Begin(a, i)
  PROVE  ContentInv'
<1>1. CASE Create(a, i) \/ CreateApproved(a, i)
  BY <1>1, NewFamily
<1>2. ASSUME ArchiveRead(a, i) \/ SubmitRead(a, i) \/ ApproveRead(a, i)
             \/ RejectRead(a, i)
      PROVE  Reads(a, i)
  <2>1. known' = known /\ Exists(i) /\ known[a] \in Nat
    BY <1>2 DEF ArchiveRead, SubmitRead, ApproveRead, RejectRead, Exists,
                ContentInv, TypeOK
  <2>2. PICK h \in Handlers : h # "update" /\ Read(a, i, h)
    BY <1>2 DEF ArchiveRead, SubmitRead, ApproveRead, RejectRead, Handlers
  <2>3. known' = [known EXCEPT ![a] = known[a]]
    BY <2>1 DEF ContentInv, TypeOK
  <2>4. QED
    BY <2>1, <2>2, <2>3 DEF Reads
<1>3. ASSUME UpdateRead(a, i)
      PROVE  Reads(a, i)
  <2>1. PICK u \in 1..row[i].updatedAt : known' = [known EXCEPT ![a] = u]
    BY <1>3 DEF UpdateRead
  <2>2. row[i].updatedAt \in Nat /\ known'[a] = u
    BY <2>1 DEF ContentInv, TypeOK, Row
  <2>3. known'[a] \in Nat /\ known'[a] <= row[i].updatedAt
    BY <2>1, <2>2
  <2>4. Read(a, i, "update") /\ Exists(i) /\ row[i].status \in {"DRAFT", "REJECTED"}
    BY <1>3 DEF UpdateRead
  <2>5. "update" \in Handlers
    BY DEF Handlers
  <2>6. QED
    BY <2>1, <2>3, <2>4, <2>5 DEF Reads
<1>4. ASSUME ReviseRead(a, i)
      PROVE  Reads(a, i)
  <2>1. PICK v \in 1..(MaxWrites + 1) : known' = [known EXCEPT ![a] = v]
    BY <1>4 DEF ReviseRead
  <2>2. known'[a] \in Nat
    BY <2>1 DEF ContentInv, TypeOK
  <2>3. QED
    BY <1>4, <2>1, <2>2 DEF Reads, ReviseRead, Handlers, Exists
<1>5. QED
  BY <1>1, <1>2, <1>3, <1>4, ReadInv DEF Begin

LEMMA StutterInv ==
  ASSUME ContentInv, UNCHANGED vars
  PROVE  ContentInv'
BY DEF vars, call, ContentInv, TypeOK, ReadsAge, ParentsExist, VersionsUnique,
       RootOf, Exists

LEMMA InitInv ==
  ASSUME Init
  PROVE  ContentInv
<1>1. TypeOK
  BY DEF Init, TypeOK, Row, Absent, Status, Filled
<1>2. ReadsAge /\ ParentsExist /\ VersionsUnique
  BY DEF Init, ReadsAge, ParentsExist, VersionsUnique, Exists, Absent
<1>3. QED
  BY <1>1, <1>2 DEF ContentInv

(* Every variable keeps its type; a request's row is as it read it unless   *)
(* updatedAt has moved on; parents exist; versions are distinct: for any    *)
(* number of requests between their read and their write.                   *)
THEOREM ContentInvariant == Spec => []ContentInv
<1>1. Init => ContentInv
  BY InitInv
<1>2. ContentInv /\ [Next]_vars => ContentInv'
  <2>1. Next => late' \in SUBSET Items
    BY DEF Next
  <2>2. QED
    BY <2>1, EndInv, BeginInv, StutterInv DEF Next
<1>3. QED
  BY <1>1, <1>2, PTL DEF Spec

(* The versions of a family are distinct, however many revise at once.      *)
THEOREM VersionsDistinct == Spec => []VersionsUnique
<1>1. ContentInv => VersionsUnique
  BY DEF ContentInv
<1>2. QED
  BY <1>1, ContentInvariant, PTL

(* An edit that commits finds a draft or a rejected item, although its      *)
(* status check is an earlier step: matching updatedAt is matching the row. *)
THEOREM EditsGuarded == Spec => EditsDraftsOnly
<1> DEFINE Step == \A i \in Items :
                     Exists(i) /\ row'[i].rest # row[i].rest
                       => row[i].status \in {"DRAFT", "REJECTED"}
<1>1. ContentInv /\ [Next]_vars => Step
  <2>1. SUFFICES ASSUME ContentInv, [Next]_vars, NEW i \in Items,
                        Exists(i), row'[i].rest # row[i].rest
                 PROVE  row[i].status \in {"DRAFT", "REJECTED"}
    OBVIOUS
  <2>2. PICK a \in Admins : End(a) \/ \E j \in Items : Begin(a, j)
    BY <2>1 DEF Next, vars
  <2>3. ~\E j \in Items : Begin(a, j)
    BY <2>1 DEF Begin, Create, CreateApproved, UpdateRead, ArchiveRead, ReviseRead,
                SubmitRead, ApproveRead, RejectRead, Read, Write, ContentInv, TypeOK
  <2>4. row[i] \in Row /\ row \in [Items -> Row]
    BY <2>1 DEF ContentInv, TypeOK
  <2>5. ~Abort(a) /\ ~\E j \in Items : Revise(a, j)
    BY <2>1 DEF Abort, Revise, Write, ContentInv, TypeOK
  <2>6. ~Archive(a) /\ ~Submit(a) /\ ~Approve(a) /\ ~Reject(a)
    <3>1. ASSUME NEW r \in Row, Write(item[a], r), r.rest = row[item[a]].rest
          PROVE  FALSE
      BY <2>1, <2>4, <3>1 DEF Write, Row
    <3>2. at[a] # "idle" => item[a] \in Items /\ row[item[a]] \in Row
      BY <2>1, <2>4 DEF ContentInv, TypeOK
    <3>3. ~Archive(a) /\ ~Submit(a)
      BY <3>1, <3>2 DEF Archive, Submit, Row, Status
    <3>4. ~Reject(a)
      BY <3>1, <3>2 DEF Reject, Row, Status
    <3>5. at[a] # "idle" => /\ was[a].payload \in Payloads /\ was[a].rest \in Rests
                            /\ was[a].version \in Nat
      BY <2>1 DEF ContentInv, TypeOK, Filled, Row
    <3>6. ~Approve(a)
      BY <3>1, <3>2, <3>5 DEF Approve, Row, Status, calculate
    <3>7. QED
      BY <3>3, <3>4, <3>6
  <2>7. Update(a)
    BY <2>2, <2>3, <2>5, <2>6 DEF End
  <2>8. i = item[a]
    BY <2>1, <2>4, <2>7 DEF Update, Write
  <2>9. /\ row[i].updatedAt = known[a]
        /\ known[a] <= was[a].updatedAt /\ was[a].updatedAt <= row[i].updatedAt
        /\ was[a].updatedAt = row[i].updatedAt => was[a] = row[i]
        /\ was[a].status \in {"DRAFT", "REJECTED"}
    BY <2>1, <2>7, <2>8 DEF Update, UpdateMatches, ContentInv, ReadsAge
  <2>10. was[a].updatedAt \in Nat /\ row[i].updatedAt \in Nat
    BY <2>1, <2>4 DEF ContentInv, TypeOK, Row
  <2>11. QED
    BY <2>9, <2>10
<1>2. QED
  BY <1>1, ContentInvariant, PTL DEF Spec, EditsDraftsOnly

-----------------------------------------------------------------------------
(* What overlapping requests can harm, and what they cannot.                *)

(* What a handler checked stays true of the row as it read it.              *)
LEMMA ChecksInit == Init => ReadsChecked
BY DEF Init, ReadsChecked

LEMMA EndsFinish ==
  ASSUME NEW a \in Admins, End(a)
  PROVE  Finish(a) /\ at[a] # "idle"
<1>1. ASSUME NEW i \in Items, Revise(a, i) PROVE Finish(a) /\ at[a] # "idle"
  BY <1>1 DEF Revise
<1>2. QED
  BY <1>1 DEF End, Update, Archive, Submit, Approve, Reject, Abort

LEMMA ChecksStep == ContentInv /\ ReadsChecked /\ [Next]_vars => ReadsChecked'
<1> DEFINE Checked(h, r) == /\ h = "archive" => r.status = "APPROVED"
                            /\ h = "submit" => r.status = "DRAFT"
                            /\ h \in {"approve", "reject"} => r.status = "IN_REVIEW"
                            /\ h = "approve" => PassesValidation(r)
<1> SUFFICES ASSUME ContentInv, ReadsChecked, [Next]_vars, NEW b \in Admins
             PROVE  Checked(at'[b], was'[b])
  BY DEF ReadsChecked, PassesValidation
<1>0. Checked(at[b], was[b])
  BY DEF ReadsChecked
<1>1. /\ at \in [Admins -> Handlers \cup {"idle"}] /\ was \in [Admins -> Row]
  BY DEF ContentInv, TypeOK
<1>2. Checked("idle", was'[b])
  OBVIOUS
<1> HIDE DEF Checked
<1>3. ASSUME NEW a \in Admins, End(a) PROVE Checked(at'[b], was'[b])
  <2>1. CASE a = b
    <3>1. at'[b] = "idle"
      BY <1>1, <1>3, <2>1, EndsFinish DEF Finish
    <3>2. QED
      BY <1>2, <3>1
  <2>2. CASE a # b
    <3>1. at'[b] = at[b] /\ was'[b] = was[b]
      BY <1>1, <1>3, <2>2, EndsFinish DEF Finish
    <3>2. QED
      BY <1>0, <3>1
  <2>3. QED
    BY <2>1, <2>2
<1>4. ASSUME NEW a \in Admins, NEW i \in Items, NEW h, Read(a, i, h), Checked(h, row[i])
      PROVE  Checked(at'[b], was'[b])
  <2>1. CASE a = b
    <3>1. at'[b] = h /\ was'[b] = row[i]
      BY <1>1, <1>4, <2>1 DEF Read
    <3>2. QED
      BY <1>4, <3>1
  <2>2. CASE a # b
    <3>1. at'[b] = at[b] /\ was'[b] = was[b]
      BY <1>1, <1>4, <2>2 DEF Read
    <3>2. QED
      BY <1>0, <3>1
  <2>3. QED
    BY <2>1, <2>2
<1>5. ASSUME NEW a \in Admins, NEW i \in Items, Begin(a, i)
      PROVE  Checked(at'[b], was'[b])
  <2>1. CASE Create(a, i) \/ CreateApproved(a, i)
    <3>1. at' = at /\ was' = was
      BY <2>1 DEF Create, CreateApproved, call
    <3>2. QED
      BY <1>0, <3>1
  <2>2. CASE UpdateRead(a, i)
    <3>1. Checked("update", row[i])
      BY DEF Checked
    <3>2. QED
      BY <1>4, <2>2, <3>1 DEF UpdateRead
  <2>3. CASE ReviseRead(a, i)
    <3>1. Checked("revise", row[i])
      BY DEF Checked
    <3>2. QED
      BY <1>4, <2>3, <3>1 DEF ReviseRead
  <2>4. CASE ArchiveRead(a, i)
    <3>1. Checked("archive", row[i])
      BY <2>4 DEF Checked, ArchiveRead
    <3>2. QED
      BY <1>4, <2>4, <3>1 DEF ArchiveRead
  <2>5. CASE SubmitRead(a, i)
    <3>1. Checked("submit", row[i])
      BY <2>5 DEF Checked, SubmitRead
    <3>2. QED
      BY <1>4, <2>5, <3>1 DEF SubmitRead
  <2>6. CASE ApproveRead(a, i)
    <3>1. Checked("approve", row[i])
      BY <2>6 DEF Checked, ApproveRead
    <3>2. QED
      BY <1>4, <2>6, <3>1 DEF ApproveRead
  <2>7. CASE RejectRead(a, i)
    <3>1. Checked("reject", row[i])
      BY <2>7 DEF Checked, RejectRead
    <3>2. QED
      BY <1>4, <2>7, <3>1 DEF RejectRead
  <2>8. QED
    BY <1>5, <2>1, <2>2, <2>3, <2>4, <2>5, <2>6, <2>7 DEF Begin
<1>6. CASE UNCHANGED vars
  <2>1. at' = at /\ was' = was
    BY <1>6 DEF vars, call
  <2>2. QED
    BY <1>0, <2>1
<1>7. QED
  BY <1>3, <1>5, <1>6 DEF Next

(* A request that ends may rewrite the row it is about: ...                 *)
Rewritten(a, i) ==
  LET old == row[i] new == row'[i] IN
  /\ item[a] = i
  /\ \/ at[a] = "update" /\ new.status = "DRAFT" /\ old.updatedAt = known[a]
     \/ /\ at[a] = "archive" /\ new.status = "ARCHIVED"
        /\ new.payload = old.payload /\ new.rest = old.rest
     \/ at[a] = "submit" /\ new.status = "IN_REVIEW"
     \/ at[a] = "reject" /\ new.status = "REJECTED"
     \/ /\ at[a] = "approve" /\ new.status = "APPROVED"
        /\ new.payload = was[a].payload /\ new.rest = old.rest
        /\ new.version = old.version
        /\ new.checksum = calculate(was[a].payload, was[a].rest, was[a].version)

(* ... or a request brings a new row, as a draft or as a valid import.      *)
Inserted(i) ==
  ~Exists(i) /\ row'[i].status \in {"DRAFT", "APPROVED"} /\ ApprovedAsValidated(i)'

LEMMA WriteChanges ==
  ASSUME ContentInv, NEW i \in Items, NEW j \in Items, row'[i] # row[i],
         NEW r \in Row, Write(j, r)
  PROVE  /\ i = j
         /\ row'[i].status = r.status /\ row'[i].payload = r.payload
         /\ row'[i].rest = r.rest /\ row'[i].version = r.version
         /\ row'[i].checksum = r.checksum
BY DEF ContentInv, TypeOK, Write, Row

LEMMA EndRewrites ==
  ASSUME ContentInv, NEW i \in Items, row'[i] # row[i], NEW a \in Admins, End(a)
  PROVE  Inserted(i) \/ Rewritten(a, i)
<1> DEFINE old == row[item[a]]
<1>1. /\ item[a] \in Items /\ old \in Row
      /\ was[a] \in Row /\ was[a].payload \in Payloads /\ was[a].rest \in Rests
      /\ was[a].version \in Nat
  BY EndsFinish DEF ContentInv, TypeOK, Filled, Row
<1>2. CASE Abort(a)
  BY <1>2 DEF Abort
<1>3. CASE \E j \in Items : Revise(a, j)
  <2> DEFINE root == IF was[a].parent = None THEN item[a] ELSE was[a].parent
             r == [Absent EXCEPT
                     !.status = "DRAFT", !.payload = was[a].payload,
                     !.rest = was[a].rest, !.version = known[a], !.parent = root]
  <2>1. PICK j \in Items : Write(j, r) /\ ~Exists(j)
    BY <1>3 DEF Revise
  <2>2. root \in Items \cup {None} /\ known[a] \in Nat
    BY <1>1 DEF Row, ContentInv, TypeOK
  <2>3. r \in Row /\ r.status = "DRAFT"
    BY <1>1, <2>2 DEF Row, Absent, Status
  <2> HIDE DEF r
  <2>4. i = j /\ row'[i].status = "DRAFT"
    BY <2>1, <2>3, WriteChanges
  <2>5. QED
    BY <2>1, <2>4 DEF Inserted, ApprovedAsValidated
<1>4. CASE Update(a)
  <2>1. PICK p \in Payloads, q \in Rests :
          Write(item[a], [old EXCEPT !.payload = p, !.rest = q, !.status = "DRAFT"])
    BY <1>4 DEF Update
  <2> DEFINE r == [old EXCEPT !.payload = p, !.rest = q, !.status = "DRAFT"]
  <2>2. r \in Row /\ r.status = "DRAFT" /\ Write(item[a], r)
    BY <1>1, <2>1 DEF Row, Status
  <2> HIDE DEF r
  <2>3. i = item[a] /\ row'[i].status = "DRAFT"
    BY <1>1, <2>2, WriteChanges
  <2>4. QED
    BY <1>4, <2>3 DEF Update, UpdateMatches, Rewritten
<1>5. CASE Archive(a)
  <2> DEFINE r == [old EXCEPT !.status = "ARCHIVED"]
  <2>1. /\ r \in Row /\ r.status = "ARCHIVED"
        /\ r.payload = old.payload /\ r.rest = old.rest
    BY <1>1 DEF Row, Status
  <2>2. Write(item[a], r) /\ at[a] = "archive"
    BY <1>5 DEF Archive
  <2> HIDE DEF r
  <2>3. QED
    BY <1>1, <2>1, <2>2, WriteChanges DEF Rewritten
<1>6. CASE Submit(a)
  <2> DEFINE r == [old EXCEPT !.status = "IN_REVIEW"]
  <2>1. r \in Row /\ r.status = "IN_REVIEW"
    BY <1>1 DEF Row, Status
  <2>2. Write(item[a], r) /\ at[a] = "submit"
    BY <1>6 DEF Submit
  <2> HIDE DEF r
  <2>3. QED
    BY <1>1, <2>1, <2>2, WriteChanges DEF Rewritten
<1>7. CASE Reject(a)
  <2> DEFINE r == [old EXCEPT !.status = "REJECTED", !.checksum = None]
  <2>1. r \in Row /\ r.status = "REJECTED"
    BY <1>1 DEF Row, Status
  <2>2. Write(item[a], r) /\ at[a] = "reject"
    BY <1>7 DEF Reject
  <2> HIDE DEF r
  <2>3. QED
    BY <1>1, <2>1, <2>2, WriteChanges DEF Rewritten
<1>8. CASE Approve(a)
  <2> DEFINE sum == calculate(was[a].payload, was[a].rest, was[a].version)
             r == [old EXCEPT !.status = "APPROVED", !.payload = was[a].payload,
                              !.checksum = sum]
  <2>1. sum \in Payloads \X Rests \X Nat
    BY <1>1 DEF calculate
  <2>2. Write(item[a], r) /\ at[a] = "approve"
    BY <1>8 DEF Approve
  <2> HIDE DEF sum
  <2>3. /\ r \in Row /\ r.status = "APPROVED" /\ r.payload = was[a].payload
        /\ r.rest = old.rest /\ r.version = old.version /\ r.checksum = sum
    BY <1>1, <2>1 DEF Row, Status
  <2> HIDE DEF r
  <2>4. QED
    BY <1>1, <2>2, <2>3, WriteChanges DEF Rewritten, sum
<1>9. QED
  BY <1>2, <1>3, <1>4, <1>5, <1>6, <1>7, <1>8 DEF End

LEMMA BeginInserts ==
  ASSUME ContentInv, NEW i \in Items, row'[i] # row[i],
         NEW a \in Admins, NEW j \in Items, Begin(a, j)
  PROVE  Inserted(i)
<1>1. Create(a, j) \/ CreateApproved(a, j)
  BY DEF Begin, UpdateRead, ArchiveRead, ReviseRead, SubmitRead, ApproveRead, RejectRead, Read
<1>2. CASE Create(a, j)
  <2>1. PICK p \in Payloads, q \in Rests :
          Write(j, [Absent EXCEPT !.status = "DRAFT", !.payload = p, !.rest = q,
                                  !.version = 1])
    BY <1>2 DEF Create
  <2> DEFINE r == [Absent EXCEPT !.status = "DRAFT", !.payload = p, !.rest = q,
                                 !.version = 1]
  <2>2. r \in Row /\ r.status = "DRAFT"
    BY DEF Row, Absent, Status
  <2>3. Write(j, r)
    BY <2>1
  <2> HIDE DEF r
  <2>4. i = j /\ row'[i].status = "DRAFT"
    BY <2>2, <2>3, WriteChanges
  <2>5. QED
    BY <1>2, <2>4 DEF Create, Inserted, ApprovedAsValidated
<1>3. CASE CreateApproved(a, j)
  <2>1. PICK pair \in Approvable :
          Write(j, [Absent EXCEPT !.status = "APPROVED", !.payload = pair[1],
                                  !.rest = pair[2], !.version = 1,
                                  !.checksum = calculate(pair[1], pair[2], 1)])
    BY <1>3 DEF CreateApproved
  <2> DEFINE r == [Absent EXCEPT !.status = "APPROVED", !.payload = pair[1],
                                 !.rest = pair[2], !.version = 1,
                                 !.checksum = calculate(pair[1], pair[2], 1)]
  <2>2. pair = <<pair[1], pair[2]>> /\ pair[1] \in Payloads /\ pair[2] \in Rests
    OBVIOUS
  <2>3. /\ r \in Row /\ r.status = "APPROVED" /\ r.payload = pair[1] /\ r.rest = pair[2]
        /\ r.version = 1 /\ r.checksum = calculate(pair[1], pair[2], 1)
    BY <2>2 DEF Row, Absent, Status, calculate
  <2>4. Write(j, r)
    BY <2>1
  <2> HIDE DEF r
  <2>5. /\ i = j /\ row'[i].status = "APPROVED"
        /\ row'[i].payload = pair[1] /\ row'[i].rest = pair[2]
        /\ row'[i].version = 1 /\ row'[i].checksum = calculate(pair[1], pair[2], 1)
    BY <2>3, <2>4, WriteChanges
  <2>6. ApprovedAsValidated(i)'
    BY <2>2, <2>5 DEF ApprovedAsValidated, PassesValidation, calculate
  <2>7. QED
    BY <1>3, <2>5, <2>6 DEF CreateApproved, Inserted
<1>4. QED
  BY <1>1, <1>2, <1>3

(* ... and unless it has been overtaken, the row is as the request read it. *)
LEMMA RowChanges ==
  ASSUME ContentInv, [Next]_vars, NEW i \in Items, row'[i] # row[i], ~Overtaken(i)
  PROVE  Inserted(i) \/ \E a \in Admins : Rewritten(a, i) /\ was[a] = row[i]
<1>1. PICK a \in Admins : End(a) \/ \E j \in Items : Begin(a, j)
  BY DEF Next, vars
<1>2. CASE End(a)
  <2>1. at[a] # "idle" /\ at'[a] = "idle"
    BY <1>2, EndsFinish DEF Finish, ContentInv, TypeOK
  <2>2. item[a] = i => was[a] = row[i]
    BY <2>1 DEF Overtaken
  <2>3. QED
    BY <1>2, <2>2, EndRewrites DEF Rewritten
<1>3. QED
  BY <1>1, <1>2, BeginInserts

(* Approved content has passed validation as it is and carries its own      *)
(* checksum, unless its approval was overtaken by another request.          *)
THEOREM ApprovedIsValid == Spec => []ApprovedUnlessLate
<1>1. Init => ApprovedUnlessLate
  BY DEF Init, ApprovedUnlessLate, ApprovedAsValidated, Absent
<1>2. ContentInv /\ ReadsChecked /\ ApprovedUnlessLate /\ [Next]_vars => ApprovedUnlessLate'
  <2>1. SUFFICES ASSUME ContentInv, ReadsChecked, ApprovedUnlessLate, [Next]_vars,
                        NEW i \in Items, i \notin late', row'[i].status = "APPROVED"
                 PROVE  ApprovedAsValidated(i)'
    BY DEF ApprovedUnlessLate, ApprovedAsValidated
  <2>2. CASE row'[i] = row[i]
    <3>1. i \notin late
      BY <2>1, <2>2 DEF Next, vars
    <3>2. QED
      BY <2>1, <2>2, <3>1 DEF ApprovedUnlessLate, ApprovedAsValidated, PassesValidation
  <2>3. CASE row'[i] # row[i]
    <3>1. ~Overtaken(i)
      BY <2>1, <2>3 DEF Next, vars, ApprovedLate
    <3>2. ASSUME NEW a \in Admins, Rewritten(a, i), was[a] = row[i]
          PROVE  ApprovedAsValidated(i)'
      <4>1. /\ row'[i].payload = was[a].payload /\ row'[i].rest = was[a].rest
            /\ row'[i].version = was[a].version
            /\ row'[i].checksum = calculate(was[a].payload, was[a].rest, was[a].version)
            /\ at[a] = "approve"
        BY <2>1, <3>2 DEF Rewritten
      <4>2. PassesValidation(was[a])
        BY <2>1, <4>1 DEF ReadsChecked
      <4>3. QED
        BY <4>1, <4>2 DEF ApprovedAsValidated, PassesValidation
    <3>3. QED
      BY <2>1, <2>3, <3>1, <3>2, RowChanges DEF Inserted
  <2>4. QED
    BY <2>2, <2>3
<1>3. QED
  BY <1>1, <1>2, ChecksInit, ChecksStep, ContentInvariant, PTL DEF Spec

(* Unless a request writes a row that has changed since it checked the      *)
(* status, only the transitions of the review workflow happen and approved  *)
(* content does not change.                                                 *)
THEOREM WorkflowKept == Spec => WorkflowUnlessLate
<1> DEFINE Step == \A i \in Items :
                     Overtaken(i) \/ (AllowedTransition(i) /\ ApprovedIsFrozen(i))
<1>1. ContentInv /\ ReadsChecked /\ [Next]_vars => Step
  <2>1. SUFFICES ASSUME ContentInv, ReadsChecked, [Next]_vars, NEW i \in Items, ~Overtaken(i)
                 PROVE  AllowedTransition(i) /\ ApprovedIsFrozen(i)
    OBVIOUS
  <2>2. CASE row'[i] = row[i]
    BY <2>2 DEF AllowedTransition, ApprovedIsFrozen
  <2>3. CASE Inserted(i)
    BY <2>3 DEF Inserted, Exists, AllowedTransition, ApprovedIsFrozen, Allowed
  <2>4. ASSUME NEW a \in Admins, Rewritten(a, i), was[a] = row[i]
        PROVE  AllowedTransition(i) /\ ApprovedIsFrozen(i)
    <3>1. /\ at[a] = "archive" => row[i].status = "APPROVED"
          /\ at[a] = "submit" => row[i].status = "DRAFT"
          /\ at[a] \in {"approve", "reject"} => row[i].status = "IN_REVIEW"
          /\ at[a] = "update" => row[i].status \in {"DRAFT", "REJECTED"}
      BY <2>1, <2>4 DEF ReadsChecked, ContentInv, ReadsAge
    <3>2. AllowedTransition(i)
      BY <2>4, <3>1 DEF Rewritten, AllowedTransition, Allowed
    <3>3. ApprovedIsFrozen(i)
      BY <2>4, <3>1 DEF Rewritten, ApprovedIsFrozen
    <3>4. QED
      BY <3>2, <3>3
  <2>5. QED
    BY <2>1, <2>2, <2>3, <2>4, RowChanges
<1>2. QED
  BY <1>1, ChecksInit, ChecksStep, ContentInvariant, PTL DEF Spec, WorkflowUnlessLate
=============================================================================
