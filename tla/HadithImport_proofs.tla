------------------------ MODULE HadithImport_proofs ------------------------
(***************************************************************************)
(* Proofs about HadithImport, for any calls, hadiths and catalogues.       *)
(***************************************************************************)
EXTENDS HadithImport, FiniteSetTheorems, WellFoundedInduction, TLAPS



-----------------------------------------------------------------------------
(* The order of the walk.                                                  *)

(* A set of categories has a first one.                                    *)
LEMMA FirstIsLeast ==
  ASSUME NEW s \in SUBSET Nat, s # {}
  PROVE  First(s) \in s /\ \A j \in s : First(s) <= j
<1>1. PICK i \in s : \A j \in s : ~(<<j, i>> \in OpToRel(<, Nat))
  BY NatLessThanWellFounded, WFMin
<1>2. \A j \in s : i <= j
  <2> SUFFICES ASSUME NEW j \in s PROVE i <= j
    OBVIOUS
  <2>1. ~(j < i)
    BY <1>1 DEF OpToRel
  <2> QED
    BY <2>1
<1> QED
  BY <1>2 DEF First

LEMMA NextCategoryIsNext ==
  ASSUME NEW s \in SUBSET (Nat \ {0}), NEW i \in Nat
  PROVE  /\ First(s) \in Nat /\ NextCategory(s, i) \in Nat
         /\ \A j \in s : First(s) <= j
         /\ \A j \in s : j < NextCategory(s, i) => i \in s /\ j <= i
<1> DEFINE later == {j \in s : j > i}
<1>1. ASSUME NEW t \in SUBSET s
      PROVE  First(t) \in Nat /\ \A j \in t : First(t) <= j
  <2>1. CASE t = {}
    BY <2>1 DEF First, NoCategory
  <2>2. CASE t # {}
    BY <2>2, FirstIsLeast
  <2> QED
    BY <2>1, <2>2
<1>2. First(s) \in Nat /\ \A j \in s : First(s) <= j
  BY <1>1
<1>3. First(later) \in Nat /\ \A j \in later : First(later) <= j
  BY <1>1
<1>4. CASE i \in s /\ later # {}
  <2>1. NextCategory(s, i) = First(later)
    BY <1>4 DEF NextCategory
  <2>2. ASSUME NEW j \in s, j < First(later) PROVE j <= i
    BY <1>3, <2>2
  <2> QED
    BY <1>2, <1>3, <1>4, <2>1, <2>2
<1>5. CASE ~(i \in s /\ later # {})
  <2>1. NextCategory(s, i) = First(s)
    BY <1>5 DEF NextCategory
  <2> QED
    BY <1>2, <2>1
<1> QED
  BY <1>4, <1>5

LEMMA CatalogueTypes ==
  ASSUME listing \in Catalogues
  PROVE  /\ \A i \in DOMAIN listing : i \in Nat \ {0} /\ listing[i].pages \in Seq(Seq(Hadiths))
         /\ flattenCategoryIds \in SUBSET (Nat \ {0})
         /\ \A i, p : Rows(i, p) \in Seq(Hadiths) /\ LastPage(i) \in Nat
<1>1. \A i \in DOMAIN listing : i \in Nat \ {0} /\ listing[i].pages \in Seq(Seq(Hadiths))
  BY HadithAssumption DEF HadithAssumption
<1>2. \A i, p : Rows(i, p) \in Seq(Hadiths)
  BY <1>1 DEF Rows
<1>3. \A i : LastPage(i) \in Nat
  BY <1>1 DEF LastPage
<1>4. flattenCategoryIds \subseteq DOMAIN listing
  BY DEF flattenCategoryIds
<1>5. DOMAIN listing \subseteq Nat \ {0}
  BY <1>1
<1>6. flattenCategoryIds \in SUBSET (Nat \ {0})
  BY <1>4, <1>5
<1> QED
  BY <1>1, <1>2, <1>3, <1>6

LEMMA PositionTypes ==
  ASSUME NEW p \in Positions, NEW s \in SUBSET (Nat \ {0}), NEW length \in Nat, NEW last \in Nat
  PROVE  nextHadeethCategoryPosition(p, s, length, last) \in Positions
<1>1. p.category \in Nat /\ p.page \in Nat /\ p.item \in Nat
  BY DEF Positions
<1>2. NextCategory(s, p.category) \in Nat
  BY <1>1, NextCategoryIsNext
<1>3. Position(NextCategory(s, p.category)) \in Positions
  BY <1>2 DEF Position, Positions
<1>4. [p EXCEPT !.item = @ + 1] \in Positions
  BY <1>1 DEF Positions
<1>5. [p EXCEPT !.page = @ + 1, !.item = 0] \in Positions
  <2>1. [p EXCEPT !.page = @ + 1] \in Positions
    BY <1>1 DEF Positions
  <2>2. \A q \in Positions : [q EXCEPT !.item = 0] \in Positions
    BY DEF Positions
  <2> QED
    BY <2>1, <2>2
<1> QED
  BY <1>3, <1>4, <1>5 DEF nextHadeethCategoryPosition

(* Every position of the catalogue in force is that of a row of a page.    *)
LEMMA PlaceShape ==
  ASSUME listing \in Catalogues, NEW q \in Places
  PROVE  /\ q \in Positions
         /\ q.category \in flattenCategoryIds
         /\ q.page \in 1..LastPage(q.category)
         /\ q.item + 1 \in 1..Len(Rows(q.category, q.page))
         /\ listing[q.category].pages[q.page] = Rows(q.category, q.page)
<1>1. PICK i \in flattenCategoryIds :
        q \in UNION {{[category |-> i, page |-> p, item |-> n - 1] :
                        n \in DOMAIN listing[i].pages[p]} : p \in DOMAIN listing[i].pages}
  BY DEF Places
<1>2. PICK p \in DOMAIN listing[i].pages :
        q \in {[category |-> i, page |-> p, item |-> n - 1] : n \in DOMAIN listing[i].pages[p]}
  BY <1>1
<1>3. PICK n \in DOMAIN listing[i].pages[p] : q = [category |-> i, page |-> p, item |-> n - 1]
  BY <1>2
<1>4. i \in DOMAIN listing /\ i \in Nat /\ listing[i].pages \in Seq(Seq(Hadiths))
  BY CatalogueTypes DEF flattenCategoryIds
<1>5. p \in 1..Len(listing[i].pages) /\ listing[i].pages[p] \in Seq(Hadiths)
  BY <1>4
<1>6. n \in 1..Len(listing[i].pages[p])
  BY <1>5
<1>7. Rows(i, p) = listing[i].pages[p] /\ LastPage(i) = Len(listing[i].pages)
  BY <1>4 DEF Rows, LastPage
<1> QED
  BY <1>3, <1>4, <1>5, <1>6, <1>7 DEF Positions

-----------------------------------------------------------------------------
(* The pages a call keeps.                                                 *)

(* A page as it was fetched, ...                                           *)
Fresh(c) ==
  [rows |-> Rows(cursor[c].category, cursor[c].page),
   last |-> LastPage(cursor[c].category),
   class |-> <<>>,
   details |-> {}]

(* ... with one more row classified, ...                                   *)
RowDone(c, p) ==
  \E h \in Hadiths \ DOMAIN Page(c).class :
    /\ DOMAIN p.class = DOMAIN Page(c).class \cup {h}
    /\ \A g \in DOMAIN Page(c).class : p.class[g] = Page(c).class[g]
    /\ p.class[h] = "no-english" => h \in Untranslated
    /\ p.class[h] = "duplicate" => live[h] > 0
    /\ p.class[h] = "needs-detail" => ~(live[h] > 0)
    /\ p.details = Page(c).details

(* ... or with the details that arrived.                                   *)
Detailed(c, p) ==
  p.class = Page(c).class /\ p.details \subseteq NeedsDetail(Page(c))

Grows(c, p) ==
  \/ p = Fresh(c)
  \/ /\ Cached(c)
     /\ p.rows = Page(c).rows /\ p.last = Page(c).last
     /\ RowDone(c, p) \/ Detailed(c, p)

(* analyzePage changes the page at the cursor and nothing else, ...        *)
PageStep(c) ==
  /\ \E p \in Pages : Keep(c, p) /\ Grows(c, p)
  /\ UNCHANGED <<listing, saved, live, ids, cursor, left, empties, made, history>>

(* ... and every other step changes no page: it may drop them.             *)
NoNewPage ==
  /\ DOMAIN cache' = Calls
  /\ \A d \in Calls : \A k \in DOMAIN cache'[d] :
       k \in DOMAIN cache[d] /\ cache'[d][k] = cache[d][k]

LEMMA KeepShape ==
  ASSUME NEW c \in Calls, DOMAIN cache = Calls, NEW p, Keep(c, p)
  PROVE  /\ DOMAIN cache' = Calls
         /\ DOMAIN cache'[c] = DOMAIN cache[c] \cup {Key(c)}
         /\ cache'[c][Key(c)] = p
         /\ \A k \in DOMAIN cache[c] : k # Key(c) => cache'[c][k] = cache[c][k]
         /\ \A d \in Calls : d # c => cache'[d] = cache[d]
BY DEF Keep

LEMMA FreshIsPage ==
  ASSUME listing \in Catalogues, NEW c \in Calls
  PROVE  Fresh(c) \in Pages
<1>1. <<>> \in UNION {[s -> Kinds] : s \in SUBSET Hadiths}
  <2>1. <<>> \in [{} -> Kinds]
    OBVIOUS
  <2>2. {} \in SUBSET Hadiths
    OBVIOUS
  <2> QED
    BY <2>1, <2>2
<1>2. /\ Rows(cursor[c].category, cursor[c].page) \in Seq(Hadiths)
      /\ LastPage(cursor[c].category) \in Nat
  BY CatalogueTypes
<1> QED
  BY <1>1, <1>2 DEF Fresh, Pages

LEMMA PageParts ==
  ASSUME NEW p \in Pages
  PROVE  /\ p.rows \in Seq(Hadiths) /\ p.last \in Nat /\ p.details \in SUBSET Hadiths
         /\ DOMAIN p.class \in SUBSET Hadiths
         /\ \A h \in DOMAIN p.class : p.class[h] \in Kinds
         /\ NeedsDetail(p) \in SUBSET Hadiths
<1>1. /\ p.rows \in Seq(Hadiths) /\ p.last \in Nat /\ p.details \in SUBSET Hadiths
      /\ p.class \in UNION {[s -> Kinds] : s \in SUBSET Hadiths}
  BY DEF Pages
<1>2. PICK s \in SUBSET Hadiths : p.class \in [s -> Kinds]
  BY <1>1
<1> QED
  BY <1>1, <1>2 DEF NeedsDetail

LEMMA ClassifiedIsPage ==
  ASSUME NEW p \in Pages, NEW h \in Hadiths, NEW kind \in Kinds
  PROVE  [p EXCEPT !.class = [g \in DOMAIN p.class \cup {h} |->
                                IF g = h THEN kind ELSE p.class[g]]] \in Pages
<1> DEFINE class == [g \in DOMAIN p.class \cup {h} |-> IF g = h THEN kind ELSE p.class[g]]
<1>1. class \in [DOMAIN p.class \cup {h} -> Kinds]
  BY PageParts
<1>2. DOMAIN p.class \cup {h} \in SUBSET Hadiths
  BY PageParts
<1>3. class \in UNION {[s -> Kinds] : s \in SUBSET Hadiths}
  BY <1>1, <1>2
<1> HIDE DEF class
<1>4. [p EXCEPT !.class = class] \in Pages
  BY <1>3 DEF Pages
<1> QED
  BY <1>4 DEF class

LEMMA DetailedIsPage ==
  ASSUME NEW p \in Pages, NEW s \in SUBSET Hadiths
  PROVE  [p EXCEPT !.details = s] \in Pages
BY DEF Pages

(* The row that analyzePage classifies next.                               *)
LEMMA RowAnalyzed ==
  ASSUME CacheTypeOK, NEW c \in Calls, Analyzes(c), at[c] = "classify",
         NEW h, h = Page(c).rows[First(Unclassified(Page(c), cursor[c].item))]
  PROVE  Page(c) \in Pages /\ h \in Hadiths /\ h \notin DOMAIN Page(c).class
<1>1. Page(c) \in Pages /\ Unclassified(Page(c), cursor[c].item) # {}
  BY DEF Analyzes, CacheTypeOK, Cached, Page
<1>2. Page(c).rows \in Seq(Hadiths)
  BY <1>1, PageParts
<1>3. Unclassified(Page(c), cursor[c].item) \in SUBSET Nat
  BY <1>2 DEF Unclassified
<1>4. First(Unclassified(Page(c), cursor[c].item)) \in Unclassified(Page(c), cursor[c].item)
  BY <1>1, <1>3, FirstIsLeast
<1>5. \A n \in Unclassified(Page(c), cursor[c].item) :
        n \in DOMAIN Page(c).rows /\ Page(c).rows[n] \notin DOMAIN Page(c).class
  BY DEF Unclassified
<1>6. \A n \in DOMAIN Page(c).rows : Page(c).rows[n] \in Hadiths
  BY <1>2
<1> QED
  BY <1>1, <1>4, <1>5, <1>6

LEMMA PageFetched ==
  ASSUME RowsTypeOK, NEW c \in Calls, getHadeethsPage(c)
  PROVE  PageStep(c)
<1>1. Fresh(c) \in Pages
  BY FreshIsPage DEF RowsTypeOK
<1>2. Keep(c, Fresh(c))
  BY DEF getHadeethsPage, Analyze, Fresh
<1>3. UNCHANGED <<listing, saved, live, ids, cursor, left, empties, made, history>>
  BY DEF getHadeethsPage
<1> QED
  BY <1>1, <1>2, <1>3 DEF PageStep, Grows

LEMMA RowClassified ==
  ASSUME CacheTypeOK, NEW c \in Calls, Analyzes(c), Classify(c)
  PROVE  PageStep(c)
<1> DEFINE h == Page(c).rows[First(Unclassified(Page(c), cursor[c].item))]
           kind == IF h \in Untranslated THEN "no-english"
                   ELSE IF isAlreadyImported(h) THEN "duplicate" ELSE "needs-detail"
           class == [g \in DOMAIN Page(c).class \cup {h} |->
                       IF g = h THEN kind ELSE Page(c).class[g]]
           p == [Page(c) EXCEPT !.class = class]
<1>1. at[c] = "classify" /\ Keep(c, p)
  BY DEF Classify, NextRow, Analyze
<1>2. UNCHANGED <<listing, saved, live, ids, cursor, left, empties, made, history>>
  BY DEF Classify, NextRow
<1>3. Page(c) \in Pages /\ h \in Hadiths /\ h \notin DOMAIN Page(c).class
  BY <1>1, RowAnalyzed
<1>4. kind \in Kinds
  BY DEF Kinds
<1>5. p \in Pages
  BY <1>3, <1>4, ClassifiedIsPage
<1>6. Cached(c)
  BY <1>1 DEF Analyzes
<1> HIDE DEF class
<1>7. /\ p.rows = Page(c).rows /\ p.last = Page(c).last
      /\ p.details = Page(c).details /\ p.class = class
  BY <1>3 DEF Pages
<1> USE DEF class
<1>8. /\ DOMAIN class = DOMAIN Page(c).class \cup {h}
      /\ \A g \in DOMAIN Page(c).class : class[g] = Page(c).class[g]
      /\ class[h] = kind
  <2> HIDE DEF h, kind
  <2> QED
    BY <1>3
<1>9. /\ kind = "no-english" => h \in Untranslated
      /\ kind = "duplicate" => live[h] > 0
      /\ kind = "needs-detail" => ~(live[h] > 0)
  <2> HIDE DEF h
  <2> QED
    BY DEF isAlreadyImported
<1> HIDE DEF h, kind, class, p
<1>10. RowDone(c, p)
  BY <1>3, <1>7, <1>8, <1>9 DEF RowDone
<1> QED
  BY <1>1, <1>2, <1>5, <1>6, <1>7, <1>10 DEF PageStep, Grows

LEMMA DetailsFetched ==
  ASSUME CacheTypeOK, NEW c \in Calls, Analyzes(c), getHadeethsMultiple(c)
  PROVE  PageStep(c)
<1>1. PICK lost \in SUBSET NeedsDetail(Page(c)) :
        Keep(c, [Page(c) EXCEPT !.details = NeedsDetail(Page(c)) \ lost])
  BY DEF getHadeethsMultiple
<1>2. UNCHANGED <<listing, saved, live, ids, cursor, left, empties, made, history>>
  BY DEF getHadeethsMultiple
<1> DEFINE p == [Page(c) EXCEPT !.details = NeedsDetail(Page(c)) \ lost]
<1>3. Cached(c) /\ Page(c) \in Pages
  BY DEF getHadeethsMultiple, Analyzes, CacheTypeOK, Cached, Page
<1>4. NeedsDetail(Page(c)) \ lost \in SUBSET Hadiths
  BY <1>3, PageParts
<1>5. p \in Pages
  BY <1>3, <1>4, DetailedIsPage
<1>6. /\ p.rows = Page(c).rows /\ p.last = Page(c).last /\ p.class = Page(c).class
      /\ p.details = NeedsDetail(Page(c)) \ lost
  BY <1>3 DEF Pages
<1> HIDE DEF p
<1>7. Detailed(c, p)
  BY <1>6 DEF Detailed
<1> QED
  BY <1>1, <1>2, <1>3, <1>5, <1>6, <1>7 DEF PageStep, Grows, p

LEMMA FinishShape ==
  ASSUME CallTypeOK, CacheTypeOK, NEW c \in Calls, Finish(c)
  PROVE  NoNewPage /\ at'[c] = "idle" /\ DOMAIN cache'[c] = {}
<1>1. /\ DOMAIN cache' = Calls /\ cache'[c] = <<>>
      /\ \A d \in Calls : d # c => cache'[d] = cache[d]
  BY DEF Finish, CacheTypeOK
<1>2. DOMAIN cache'[c] = {}
  BY <1>1
<1>3. at'[c] = "idle"
  BY DEF Finish, Goto, CallTypeOK
<1> QED
  BY <1>1, <1>2, <1>3 DEF NoNewPage

LEMMA CacheStep ==
  ASSUME TypeOK, [Next]_vars
  PROVE  NoNewPage \/ \E c \in Calls : PageStep(c)
<1>1. ASSUME UNCHANGED cache PROVE NoNewPage
  BY <1>1 DEF NoNewPage, TypeOK, CacheTypeOK
<1>2. ASSUME NEW c \in Calls, Begin(c) PROVE NoNewPage
  BY <1>1, <1>2 DEF Begin
<1>3. ASSUME NEW c \in Calls, CallStep(c) PROVE NoNewPage \/ PageStep(c)
  <2>1. ASSUME getCategoryTree(c) \/ loadCursor(c) \/ SkipPage(c) PROVE NoNewPage
    BY <1>1, <2>1 DEF getCategoryTree, loadCursor, SkipPage
  <2>2. ASSUME Throw(c) \/ PageFailed(c) \/ GiveUp(c) PROVE NoNewPage
    BY <2>2, FinishShape DEF Throw, PageFailed, GiveUp, TypeOK
  <2>3. ASSUME getHadeethsPage(c) \/ Classify(c) \/ getHadeethsMultiple(c) PROVE PageStep(c)
    BY <2>3, PageFetched, RowClassified, DetailsFetched DEF TypeOK
  <2>4. ASSUME NEW h \in Hadiths, Skip(c, h) \/ importHadith(c, h) PROVE NoNewPage
    BY <1>1, <2>4 DEF Skip, importHadith, createApproved, CreateFailed, Pass
  <2>5. ASSUME saveCursor(c) PROVE NoNewPage
    BY <1>1, <2>5, FinishShape DEF saveCursor, TypeOK
  <2> QED
    BY <1>3, <2>1, <2>2, <2>3, <2>4, <2>5 DEF CallStep
<1>4. ASSUME Restart PROVE NoNewPage
  <2>1. cache' = [c \in Calls |-> <<>>]
    BY <1>4 DEF Restart
  <2>2. \A c \in Calls : DOMAIN cache'[c] = {}
    BY <2>1
  <2> QED
    BY <2>1, <2>2 DEF NoNewPage
<1>5. ASSUME NEW h \in Hadiths, Archive(h) PROVE NoNewPage
  BY <1>1, <1>5 DEF Archive, call
<1>6. ASSUME ChangeListing PROVE NoNewPage
  BY <1>1, <1>6 DEF ChangeListing, call
<1> QED
  BY <1>1, <1>2, <1>3, <1>4, <1>5, <1>6 DEF Next, vars, call

-----------------------------------------------------------------------------
(* Types.                                                                  *)

LEMMA InitTypeOK == Init => TypeOK
<1> SUFFICES ASSUME Init PROVE TypeOK
  OBVIOUS
<1>1. Position(NoCategory) \in Positions
  BY DEF Position, NoCategory, Positions
<1>2. RowsTypeOK
  <2>1. MaxEvents \in Nat
    BY HadithAssumption DEF HadithAssumption
  <2>2. live \in [Hadiths -> Nat]
    BY DEF Init
  <2>3. events \in 0..MaxEvents
    BY <2>1 DEF Init
  <2> QED
    BY <1>1, <2>2, <2>3 DEF Init, RowsTypeOK
<1>3. CallTypeOK
  BY <1>1 DEF Init, CallTypeOK
<1>4. CacheTypeOK
  <2>1. DOMAIN cache = Calls /\ \A c \in Calls : cache[c] = <<>>
    BY DEF Init
  <2>2. \A c \in Calls : DOMAIN cache[c] = {}
    BY <2>1
  <2> QED
    BY <2>1, <2>2 DEF CacheTypeOK
<1>5. \A c \in Calls : Analyzes(c)
  BY DEF Init, Analyzes
<1> QED
  BY <1>2, <1>3, <1>4, <1>5 DEF TypeOK

LEMMA CacheTypeStep ==
  ASSUME TypeOK, [Next]_vars
  PROVE  CacheTypeOK'
<1>1. ASSUME NoNewPage PROVE CacheTypeOK'
  BY <1>1 DEF NoNewPage, TypeOK, CacheTypeOK
<1>2. ASSUME NEW c \in Calls, PageStep(c) PROVE CacheTypeOK'
  <2>1. PICK p \in Pages : Keep(c, p)
    BY <1>2 DEF PageStep
  <2>2. DOMAIN cache' = Calls
    BY <2>1, KeepShape DEF TypeOK, CacheTypeOK
  <2>3. ASSUME NEW d \in Calls, NEW k \in DOMAIN cache'[d]
        PROVE  cache'[d][k] \in Pages
    <3>1. \/ d = c /\ k = Key(c) /\ cache'[d][k] = p
          \/ k \in DOMAIN cache[d] /\ cache'[d][k] = cache[d][k]
      BY <2>1, <2>3, KeepShape DEF TypeOK, CacheTypeOK
    <3>2. \A e \in Calls : \A j \in DOMAIN cache[e] : cache[e][j] \in Pages
      BY DEF TypeOK, CacheTypeOK
    <3> QED
      BY <3>1, <3>2
  <2> QED
    BY <2>2, <2>3 DEF CacheTypeOK
<1> QED
  BY <1>1, <1>2, CacheStep

(* The row at the cursor of a call that walks.                             *)
LEMMA CandidateShape ==
  ASSUME TypeOK, NEW c \in Calls, NEW h, Candidate(c, h)
  PROVE  /\ at[c] = "walk" /\ Page(c) \in Pages /\ Key(c) \in DOMAIN cache[c]
         /\ cursor[c].item + 1 \in DOMAIN Page(c).rows
         /\ h = Page(c).rows[cursor[c].item + 1] /\ h \in Hadiths
         /\ left[c] \in Nat /\ left[c] > 0
<1>1. at[c] = "walk" /\ Key(c) \in DOMAIN cache[c] /\ Page(c) \in Pages
  BY DEF Candidate, Cached, Page, TypeOK, CacheTypeOK
<1>2. Page(c).rows \in Seq(Hadiths) /\ cursor[c].item \in Nat
  BY <1>1, PageParts DEF TypeOK, CallTypeOK, Positions
<1>3. cursor[c].item + 1 \in 1..Len(Page(c).rows)
  BY <1>2 DEF Candidate
<1>4. h \in Hadiths
  BY <1>2, <1>3 DEF Candidate
<1>5. left[c] \in Nat /\ left[c] > 0
  BY DEF Candidate, TypeOK, CallTypeOK
<1> QED
  BY <1>1, <1>2, <1>3, <1>4, <1>5 DEF Candidate

LEMMA LossTypes ==
  ASSUME TypeOK, NEW c \in Calls, getHadeethsMultiple(c)
  PROVE  events' \in 0..MaxEvents
<1>1. PICK lost \in SUBSET NeedsDetail(Page(c)) : Event(Cardinality(lost))
  BY DEF getHadeethsMultiple
<1>2. Page(c) \in Pages
  BY DEF getHadeethsMultiple, TypeOK, Analyzes, CacheTypeOK, Cached, Page
<1>3. lost \in SUBSET Hadiths
  BY <1>1, <1>2, PageParts
<1>4. Cardinality(lost) \in Nat
  BY <1>3, HadithAssumption, FS_Subset, FS_CardinalityType DEF HadithAssumption
<1> QED
  BY <1>1, <1>4 DEF Event, TypeOK, RowsTypeOK

LEMMA EventTypes ==
  ASSUME RowsTypeOK, Event(1)
  PROVE  events' \in 0..MaxEvents
BY DEF Event, RowsTypeOK

LEMMA RowsTypeStep ==
  ASSUME TypeOK, [Next]_vars
  PROVE  RowsTypeOK'
<1>1. RowsTypeOK
  BY DEF TypeOK
<1>2. ASSUME UNCHANGED <<listing, saved, live, history>>, events' \in 0..MaxEvents
      PROVE  RowsTypeOK'
  BY <1>1, <1>2 DEF RowsTypeOK, history
<1>3. ASSUME NEW c \in Calls, Begin(c) PROVE RowsTypeOK'
  BY <1>1, <1>2, <1>3 DEF Begin, RowsTypeOK
<1>4. ASSUME NEW c \in Calls, CallStep(c) PROVE RowsTypeOK'
  <2>1. ASSUME \/ getCategoryTree(c) \/ loadCursor(c) \/ SkipPage(c) \/ GiveUp(c)
               \/ getHadeethsPage(c) \/ Classify(c)
        PROVE  RowsTypeOK'
    BY <1>1, <1>2, <2>1 DEF getCategoryTree, loadCursor, SkipPage, GiveUp,
       getHadeethsPage, Classify, RowsTypeOK
  <2>2. ASSUME Throw(c) \/ PageFailed(c) PROVE RowsTypeOK'
    BY <1>1, <1>2, <2>2, EventTypes DEF Throw, PageFailed
  <2>3. ASSUME getHadeethsMultiple(c) PROVE RowsTypeOK'
    BY <1>2, <2>3, LossTypes DEF getHadeethsMultiple
  <2>4. ASSUME NEW h \in Hadiths, Skip(c, h) PROVE RowsTypeOK'
    <3>1. /\ UNCHANGED <<listing, saved, live, events, changed, imported, raced>>
          /\ reported' \in {reported, reported \cup {h}}
      BY <2>4 DEF Skip, Pass
    <3> QED
      BY <1>1, <3>1 DEF RowsTypeOK
  <2>5. ASSUME NEW h \in Hadiths, createApproved(c, h) PROVE RowsTypeOK'
    <3>1. /\ UNCHANGED <<listing, saved, events, changed, reported>>
          /\ live' = [live EXCEPT ![h] = @ + 1]
          /\ imported' = imported \cup {h}
          /\ raced' \in {raced, raced \cup {h}}
      BY <2>5 DEF createApproved, Pass
    <3>2. live' \in [Hadiths -> Nat]
      BY <1>1, <3>1 DEF RowsTypeOK
    <3> QED
      BY <1>1, <3>1, <3>2 DEF RowsTypeOK
  <2>6. ASSUME NEW h \in Hadiths, CreateFailed(c, h) PROVE RowsTypeOK'
    <3>1. /\ UNCHANGED <<listing, saved, live, changed, imported, raced>>
          /\ reported' = reported \cup {h}
          /\ events' = events \/ Event(1)
      BY <2>6 DEF CreateFailed, Pass
    <3>2. events' \in 0..MaxEvents
      BY <1>1, <3>1, EventTypes DEF RowsTypeOK
    <3> QED
      BY <1>1, <3>1, <3>2 DEF RowsTypeOK
  <2>7. ASSUME saveCursor(c) PROVE RowsTypeOK'
    <3>1. saved' \in Positions
      BY <2>7 DEF saveCursor, TypeOK, CallTypeOK
    <3> QED
      BY <1>1, <2>7, <3>1 DEF saveCursor, RowsTypeOK, history
  <2> QED
    BY <1>4, <2>1, <2>2, <2>3, <2>4, <2>5, <2>6, <2>7 DEF CallStep, importHadith
<1>5. ASSUME Restart PROVE RowsTypeOK'
  BY <1>1, <1>2, <1>5, EventTypes DEF Restart
<1>6. ASSUME NEW h \in Hadiths, Archive(h) PROVE RowsTypeOK'
  <2>1. live' \in [Hadiths -> Nat]
    BY <1>1, <1>6 DEF Archive, RowsTypeOK
  <2>2. events' \in 0..MaxEvents
    BY <1>1, <1>6, EventTypes DEF Archive
  <2> QED
    BY <1>1, <1>6, <2>1, <2>2 DEF Archive, RowsTypeOK, history
<1>7. ASSUME ChangeListing PROVE RowsTypeOK'
  <2>1. events' \in 0..MaxEvents
    BY <1>1, <1>7, EventTypes DEF ChangeListing
  <2> QED
    BY <1>1, <1>7, <2>1 DEF ChangeListing, RowsTypeOK
<1>8. ASSUME UNCHANGED vars PROVE RowsTypeOK'
  BY <1>1, <1>2, <1>8 DEF vars, RowsTypeOK
<1> QED
  BY <1>3, <1>4, <1>5, <1>6, <1>7, <1>8 DEF Next

LEMMA FinishTypes ==
  ASSUME CallTypeOK, NEW c \in Calls, Finish(c)
  PROVE  CallTypeOK'
<1>1. Position(NoCategory) \in Positions
  BY DEF Position, NoCategory, Positions
<1>2. at' \in [Calls -> {"idle", "tree", "cursor", "walk", "classify", "details", "save"}]
  BY DEF CallTypeOK, Finish, Goto
<1>3. ids' \in [Calls -> SUBSET (Nat \ {0})]
  BY DEF CallTypeOK, Finish
<1>4. cursor' \in [Calls -> Positions]
  BY <1>1 DEF CallTypeOK, Finish
<1>5. left' \in [Calls -> Nat] /\ empties' \in [Calls -> Nat]
  BY DEF CallTypeOK, Finish
<1>6. made' \in [Calls -> SUBSET Hadiths]
  BY DEF CallTypeOK, Finish
<1> QED
  BY <1>2, <1>3, <1>4, <1>5, <1>6 DEF CallTypeOK

(* The cursor moves to a position.                                         *)
LEMMA AdvanceTypes ==
  ASSUME CallTypeOK, NEW c \in Calls, Page(c) \in Pages, Advance(c)
  PROVE  cursor' \in [Calls -> Positions] /\ Goto(c, "save")
<1>1. Len(Page(c).rows) \in Nat /\ Page(c).last \in Nat
  BY PageParts
<1>2. cursor[c] \in Positions /\ ids[c] \in SUBSET (Nat \ {0})
  BY DEF CallTypeOK
<1>3. nextHadeethCategoryPosition(cursor[c], ids[c], Len(Page(c).rows), Page(c).last)
        \in Positions
  BY <1>1, <1>2, PositionTypes
<1> QED
  BY <1>3 DEF Advance, CallTypeOK

LEMMA GotoTypes ==
  ASSUME CallTypeOK, NEW c \in Calls,
         NEW s \in {"idle", "tree", "cursor", "walk", "classify", "details", "save"},
         Goto(c, s)
  PROVE  at' \in [Calls -> {"idle", "tree", "cursor", "walk", "classify", "details", "save"}]
BY DEF CallTypeOK, Goto

LEMMA PassTypes ==
  ASSUME TypeOK, NEW c \in Calls, NEW h, Candidate(c, h), Pass(c)
  PROVE  /\ at' \in [Calls -> {"idle", "tree", "cursor", "walk", "classify", "details", "save"}]
         /\ ids' \in [Calls -> SUBSET (Nat \ {0})]
         /\ cursor' \in [Calls -> Positions]
         /\ left' \in [Calls -> Nat] /\ empties' \in [Calls -> Nat]
<1>1. CallTypeOK /\ Page(c) \in Pages /\ left[c] \in Nat /\ left[c] > 0
  BY CandidateShape DEF TypeOK
<1>2. left' \in [Calls -> Nat] /\ empties' \in [Calls -> Nat]
  BY <1>1 DEF Pass, CallTypeOK
<1>3. cursor' \in [Calls -> Positions] /\ Goto(c, "save")
  BY <1>1, AdvanceTypes DEF Pass
<1>4. at' \in [Calls -> {"idle", "tree", "cursor", "walk", "classify", "details", "save"}]
  BY <1>1, <1>3, GotoTypes
<1> QED
  BY <1>1, <1>2, <1>3, <1>4 DEF Pass, CallTypeOK

LEMMA CallTypeStep ==
  ASSUME TypeOK, [Next]_vars
  PROVE  CallTypeOK'
<1> USE DEF TypeOK
<1>1. ASSUME NEW c \in Calls, Begin(c) PROVE CallTypeOK'
  <2>1. left' \in [Calls -> Nat]
    <3>1. PICK n \in Batches : left' = [left EXCEPT ![c] = n]
      BY <1>1 DEF Begin
    <3>2. n \in Nat
      BY HadithAssumption DEF HadithAssumption
    <3> QED
      BY <3>1, <3>2 DEF CallTypeOK
  <2>2. at' \in [Calls -> {"idle", "tree", "cursor", "walk", "classify", "details", "save"}]
    BY <1>1, GotoTypes DEF Begin
  <2> QED
    BY <1>1, <2>1, <2>2 DEF Begin, CallTypeOK
<1>2. ASSUME NEW c \in Calls, CallStep(c) PROVE CallTypeOK'
  <2>1. ASSUME getCategoryTree(c) PROVE CallTypeOK'
    <3>1. flattenCategoryIds \in SUBSET (Nat \ {0})
      BY CatalogueTypes DEF RowsTypeOK
    <3>2. ids' \in [Calls -> SUBSET (Nat \ {0})]
      BY <2>1, <3>1 DEF getCategoryTree, CallTypeOK
    <3>3. at' \in [Calls -> {"idle", "tree", "cursor", "walk", "classify", "details", "save"}]
      BY <2>1, GotoTypes DEF getCategoryTree
    <3> QED
      BY <2>1, <3>2, <3>3 DEF getCategoryTree, CallTypeOK
  <2>2. ASSUME loadCursor(c) PROVE CallTypeOK'
    <3>1. ids[c] \in SUBSET (Nat \ {0})
      BY DEF CallTypeOK
    <3>2. First(ids[c]) \in Nat
      BY <3>1, NextCategoryIsNext
    <3>3. Position(First(ids[c])) \in Positions
      BY <3>2 DEF Position, Positions
    <3>4. cursor' \in [Calls -> Positions]
      BY <2>2, <3>3 DEF loadCursor, CallTypeOK, RowsTypeOK
    <3>5. at' \in [Calls -> {"idle", "tree", "cursor", "walk", "classify", "details", "save"}]
      BY <2>2, GotoTypes DEF loadCursor
    <3> QED
      BY <2>2, <3>4, <3>5 DEF loadCursor, CallTypeOK
  <2>3. ASSUME Throw(c) \/ PageFailed(c) \/ GiveUp(c) PROVE CallTypeOK'
    BY <2>3, FinishTypes DEF Throw, PageFailed, GiveUp
  <2>4. ASSUME getHadeethsPage(c) \/ Classify(c) \/ getHadeethsMultiple(c) PROVE CallTypeOK'
    <3>1. at' \in [Calls -> {"idle", "tree", "cursor", "walk", "classify", "details", "save"}]
      BY <2>4 DEF getHadeethsPage, Classify, getHadeethsMultiple, Analyze, Goto, CallTypeOK
    <3> QED
      BY <2>4, <3>1 DEF getHadeethsPage, Classify, getHadeethsMultiple, CallTypeOK
  <2>5. ASSUME SkipPage(c) PROVE CallTypeOK'
    <3>1. Page(c) \in Pages
      BY <2>5 DEF SkipPage, NothingHere, Cached, Page, CacheTypeOK
    <3>2. cursor' \in [Calls -> Positions] /\ Goto(c, "save")
      BY <2>5, <3>1, AdvanceTypes DEF SkipPage
    <3>3. at' \in [Calls -> {"idle", "tree", "cursor", "walk", "classify", "details", "save"}]
      BY <3>2, GotoTypes
    <3>4. empties' \in [Calls -> Nat]
      BY <2>5 DEF SkipPage, CallTypeOK
    <3> QED
      BY <2>5, <3>2, <3>3, <3>4 DEF SkipPage, CallTypeOK
  <2>6. ASSUME NEW h \in Hadiths, Skip(c, h) \/ CreateFailed(c, h) PROVE CallTypeOK'
    <3>1. Candidate(c, h) /\ Pass(c) /\ made' = made
      BY <2>6 DEF Skip, CreateFailed
    <3>2. made' \in [Calls -> SUBSET Hadiths]
      BY <3>1 DEF CallTypeOK
    <3> QED
      BY <3>1, <3>2, PassTypes DEF CallTypeOK
  <2>7. ASSUME NEW h \in Hadiths, createApproved(c, h) PROVE CallTypeOK'
    <3>1. Candidate(c, h) /\ Pass(c) /\ made' = [made EXCEPT ![c] = @ \cup {h}]
      BY <2>7 DEF createApproved
    <3>2. made' \in [Calls -> SUBSET Hadiths]
      BY <3>1 DEF CallTypeOK
    <3> QED
      BY <3>1, <3>2, PassTypes DEF CallTypeOK
  <2>8. ASSUME saveCursor(c) PROVE CallTypeOK'
    <3>1. CASE Finish(c)
      BY <3>1, FinishTypes
    <3>2. CASE Goto(c, "walk") /\ UNCHANGED <<ids, cursor, cache, left, empties, made>>
      <4>1. at' \in [Calls -> {"idle", "tree", "cursor", "walk", "classify", "details", "save"}]
        BY <3>2, GotoTypes
      <4> QED
        BY <3>2, <4>1 DEF CallTypeOK
    <3> QED
      BY <2>8, <3>1, <3>2 DEF saveCursor
  <2> QED
    BY <1>2, <2>1, <2>2, <2>3, <2>4, <2>5, <2>6, <2>7, <2>8 DEF CallStep, importHadith
<1>3. ASSUME Restart PROVE CallTypeOK'
  <2>1. Position(NoCategory) \in Positions
    BY DEF Position, NoCategory, Positions
  <2> QED
    BY <1>3, <2>1 DEF Restart, CallTypeOK
<1>4. ASSUME NEW h \in Hadiths, Archive(h) PROVE CallTypeOK'
  BY <1>4 DEF Archive, call, CallTypeOK
<1>5. ASSUME ChangeListing PROVE CallTypeOK'
  BY <1>5 DEF ChangeListing, call, CallTypeOK
<1>6. ASSUME UNCHANGED vars PROVE CallTypeOK'
  BY <1>6 DEF vars, call, CallTypeOK
<1> QED
  BY <1>1, <1>2, <1>3, <1>4, <1>5, <1>6 DEF Next

(* A call works on the page it has just put into its cache.                *)
LEMMA AnalyzesPage ==
  ASSUME TypeOK, NEW c \in Calls, NEW p, Analyze(c, p), cursor' = cursor
  PROVE  \A d \in Calls : Analyzes(d)'
<1>1. /\ DOMAIN cache = Calls /\ Keep(c, p)
      /\ at' = [at EXCEPT ![c] = IF Unclassified(p, cursor[c].item) # {} THEN "classify"
                                 ELSE IF NeedsDetail(p) # {} THEN "details" ELSE "walk"]
  BY DEF Analyze, Goto, TypeOK, CacheTypeOK
<1>2. Key(c) \in DOMAIN cache'[c] /\ cache'[c][Key(c)] = p
  BY <1>1, KeepShape
<1>3. Key(c)' = Key(c)
  BY DEF Key
<1>4. Cached(c)' /\ Page(c)' = p
  BY <1>2, <1>3 DEF Cached, Page
<1>5. at'[c] = "classify" => Unclassified(p, cursor[c].item) # {}
  BY <1>1 DEF TypeOK, CallTypeOK
<1>6. Unclassified(Page(c), cursor[c].item)' = Unclassified(p, cursor[c].item)
  BY <1>4 DEF Unclassified
<1>7. Analyzes(c)'
  BY <1>4, <1>5, <1>6 DEF Analyzes
<1>8. ASSUME NEW d \in Calls, d # c PROVE Analyzes(d)'
  <2>1. cache'[d] = cache[d] /\ at'[d] = at[d]
    BY <1>1, <1>8, KeepShape DEF TypeOK, CallTypeOK
  <2>2. Analyzes(d)
    BY DEF TypeOK
  <2> QED
    BY <2>1, <2>2 DEF Analyzes, Cached, Page, Key, Unclassified
<1> QED
  BY <1>7, <1>8

(* A call that is about to do something else, and all that stay put.       *)
LEMMA AnalyzesElse ==
  ASSUME TypeOK, NEW c \in Calls,
         at'[c] \notin {"classify", "details"},
         \A d \in Calls : d # c => /\ cache'[d] = cache[d] /\ cursor'[d] = cursor[d]
                                   /\ at'[d] = at[d]
  PROVE  \A d \in Calls : Analyzes(d)'
<1>1. Analyzes(c)'
  BY DEF Analyzes
<1>2. ASSUME NEW d \in Calls, d # c PROVE Analyzes(d)'
  <2>1. Analyzes(d) /\ cache'[d] = cache[d] /\ cursor'[d] = cursor[d] /\ at'[d] = at[d]
    BY <1>2 DEF TypeOK
  <2> QED
    BY <2>1 DEF Analyzes, Cached, Page, Key, Unclassified
<1> QED
  BY <1>1, <1>2

LEMMA AnalyzesStep ==
  ASSUME TypeOK, [Next]_vars
  PROVE  \A d \in Calls : Analyzes(d)'
<1>0. /\ DOMAIN at = Calls /\ DOMAIN cursor = Calls /\ DOMAIN cache = Calls
      /\ \A d \in Calls : Analyzes(d)
  BY DEF TypeOK, CallTypeOK, CacheTypeOK
<1>1. ASSUME UNCHANGED <<at, cursor, cache>> PROVE \A d \in Calls : Analyzes(d)'
  BY <1>0, <1>1 DEF Analyzes, Cached, Page, Key, Unclassified
<1>2. ASSUME NEW c \in Calls, Begin(c) PROVE \A d \in Calls : Analyzes(d)'
  BY <1>0, <1>2, AnalyzesElse DEF Begin, Goto
<1>3. ASSUME NEW c \in Calls, CallStep(c) PROVE \A d \in Calls : Analyzes(d)'
  <2>1. ASSUME Finish(c) PROVE \A d \in Calls : Analyzes(d)'
    BY <1>0, <2>1, AnalyzesElse DEF Finish, Goto
  <2>2. ASSUME getCategoryTree(c) \/ loadCursor(c) PROVE \A d \in Calls : Analyzes(d)'
    BY <1>0, <2>2, AnalyzesElse DEF getCategoryTree, loadCursor, Goto
  <2>3. ASSUME Throw(c) \/ PageFailed(c) \/ GiveUp(c) PROVE \A d \in Calls : Analyzes(d)'
    BY <2>1, <2>3 DEF Throw, PageFailed, GiveUp
  <2>4. ASSUME getHadeethsPage(c) PROVE \A d \in Calls : Analyzes(d)'
    BY <2>4, AnalyzesPage DEF getHadeethsPage
  <2>5. ASSUME Classify(c) PROVE \A d \in Calls : Analyzes(d)'
    BY <2>5, AnalyzesPage DEF Classify, NextRow
  <2>6. ASSUME getHadeethsMultiple(c) PROVE \A d \in Calls : Analyzes(d)'
    <3>1. \E p : Keep(c, p)
      BY <2>6 DEF getHadeethsMultiple
    <3>2. \A d \in Calls : d # c => cache'[d] = cache[d]
      BY <1>0, <3>1, KeepShape
    <3> QED
      BY <1>0, <2>6, <3>2, AnalyzesElse DEF getHadeethsMultiple, Goto
  <2>7. ASSUME Advance(c), UNCHANGED cache PROVE \A d \in Calls : Analyzes(d)'
    <3>1. at'[c] = "save" /\ \A d \in Calls : d # c => at'[d] = at[d]
      BY <1>0, <2>7 DEF Advance, Goto
    <3>2. \A d \in Calls : d # c => cursor'[d] = cursor[d]
      BY <1>0, <2>7 DEF Advance
    <3> QED
      BY <2>7, <3>1, <3>2, AnalyzesElse
  <2>8. ASSUME SkipPage(c) PROVE \A d \in Calls : Analyzes(d)'
    BY <2>7, <2>8 DEF SkipPage
  <2>9. ASSUME NEW h \in Hadiths, Skip(c, h) \/ importHadith(c, h)
        PROVE  \A d \in Calls : Analyzes(d)'
    BY <2>7, <2>9 DEF Skip, importHadith, createApproved, CreateFailed, Pass
  <2>10. ASSUME saveCursor(c) PROVE \A d \in Calls : Analyzes(d)'
    <3>1. CASE Goto(c, "walk") /\ UNCHANGED <<ids, cursor, cache, left, empties, made>>
      BY <1>0, <3>1, AnalyzesElse DEF Goto
    <3> QED
      BY <2>1, <2>10, <3>1 DEF saveCursor
  <2> QED
    BY <1>3, <2>2, <2>3, <2>4, <2>5, <2>6, <2>8, <2>9, <2>10 DEF CallStep
<1>4. ASSUME Restart PROVE \A d \in Calls : Analyzes(d)'
  BY <1>4 DEF Restart, Analyzes
<1>5. ASSUME \/ \E h \in Hadiths : Archive(h)
             \/ ChangeListing
             \/ UNCHANGED vars
      PROVE  \A d \in Calls : Analyzes(d)'
  BY <1>1, <1>5 DEF Archive, ChangeListing, vars, call
<1> QED
  BY <1>2, <1>3, <1>4, <1>5 DEF Next

(* The variables keep their types: in particular, analyzePage only works on *)
(* a page that the cache of its call holds, and a count never gets negative. *)
THEOREM TypeCorrect == Spec => []TypeOK
<1>1. TypeOK /\ [Next]_vars => TypeOK'
  BY RowsTypeStep, CallTypeStep, CacheTypeStep, AnalyzesStep DEF TypeOK
<1> QED
  BY <1>1, InitTypeOK, PTL DEF Spec

-----------------------------------------------------------------------------
(* ImportedOnce.                                                           *)

LEMMA InitOnce == Init => OnceInv
<1> SUFFICES ASSUME Init PROVE OnceInv
  OBVIOUS
<1>1. \A c \in Calls : cache[c] = <<>>
  BY DEF Init
<1>2. \A c \in Calls : DOMAIN cache[c] = {}
  BY <1>1
<1>3. \A h \in Hadiths : live[h] = 0
  BY DEF Init
<1> QED
  BY <1>2, <1>3 DEF OnceInv, Means, ImportedOnce

(* What a call may come to want details of is what it wanted before, or is *)
(* not imported.                                                           *)
LEMMA GrowsMeans ==
  ASSUME TypeOK, NEW c \in Calls, NEW p, Grows(c, p), NEW h, h \in NeedsDetail(p)
  PROVE  ~(live[h] > 0) \/ Means(c, h)
<1>1. CASE p = Fresh(c)
  <2>1. p.class = <<>>
    BY <1>1 DEF Fresh
  <2>2. DOMAIN p.class = {}
    BY <2>1
  <2> QED
    BY <2>2 DEF NeedsDetail
<1>2. ASSUME h \in NeedsDetail(Page(c)), Cached(c) PROVE Means(c, h)
  BY <1>2 DEF Means, Cached, Page
<1>3. CASE Cached(c) /\ RowDone(c, p)
  <2>1. PICK g \in Hadiths \ DOMAIN Page(c).class :
          /\ DOMAIN p.class = DOMAIN Page(c).class \cup {g}
          /\ \A f \in DOMAIN Page(c).class : p.class[f] = Page(c).class[f]
          /\ p.class[g] = "needs-detail" => ~(live[g] > 0)
    BY <1>3 DEF RowDone
  <2>2. h \in DOMAIN p.class /\ p.class[h] = "needs-detail"
    BY DEF NeedsDetail
  <2>3. CASE h = g
    BY <2>1, <2>2, <2>3
  <2>4. CASE h \in DOMAIN Page(c).class
    BY <1>2, <1>3, <2>1, <2>2, <2>4 DEF NeedsDetail
  <2> QED
    BY <2>1, <2>2, <2>3, <2>4
<1>4. CASE Cached(c) /\ Detailed(c, p)
  BY <1>2, <1>4 DEF Detailed, NeedsDetail
<1> QED
  BY <1>1, <1>3, <1>4 DEF Grows

(* Details are only kept of what needs them.                               *)
LEMMA GrowsDetails ==
  ASSUME NEW c \in Calls, NEW p, Grows(c, p),
         Cached(c) => Page(c).details \subseteq NeedsDetail(Page(c))
  PROVE  p.details \subseteq NeedsDetail(p)
<1>1. CASE p = Fresh(c)
  BY <1>1 DEF Fresh
<1>2. CASE Cached(c) /\ RowDone(c, p)
  <2>1. PICK g \in Hadiths \ DOMAIN Page(c).class :
          /\ DOMAIN p.class = DOMAIN Page(c).class \cup {g}
          /\ \A f \in DOMAIN Page(c).class : p.class[f] = Page(c).class[f]
          /\ p.details = Page(c).details
    BY <1>2 DEF RowDone
  <2> QED
    BY <1>2, <2>1 DEF NeedsDetail
<1>3. CASE Cached(c) /\ Detailed(c, p)
  BY <1>3 DEF Detailed, NeedsDetail
<1> QED
  BY <1>1, <1>2, <1>3 DEF Grows

LEMMA PageOnce ==
  ASSUME TypeOK, OnceInv, NEW c \in Calls, PageStep(c)
  PROVE  OnceInv'
<1>1. PICK p \in Pages : Keep(c, p) /\ Grows(c, p)
  BY DEF PageStep
<1>2. UNCHANGED <<live, raced, made>>
  BY DEF PageStep, history
<1>3. ASSUME NEW d \in Calls, NEW k \in DOMAIN cache'[d]
      PROVE  \/ d = c /\ k = Key(c) /\ cache'[d][k] = p
             \/ k \in DOMAIN cache[d] /\ cache'[d][k] = cache[d][k]
  BY <1>1, <1>3, KeepShape DEF TypeOK, CacheTypeOK
<1>4. p.details \subseteq NeedsDetail(p)
  <2>1. Cached(c) => Page(c).details \subseteq NeedsDetail(Page(c))
    BY DEF OnceInv, Cached, Page
  <2> QED
    BY <1>1, <2>1, GrowsDetails
<1>5. ASSUME NEW d \in Calls, NEW k \in DOMAIN cache'[d]
      PROVE  cache'[d][k].details \subseteq NeedsDetail(cache'[d][k])
  BY <1>3, <1>4, <1>5 DEF OnceInv
<1>6. ASSUME NEW d \in Calls, NEW h \in Hadiths, Means(d, h)', live[h] > 0
      PROVE  h \in raced \cup made[d]
  <2>1. PICK k \in DOMAIN cache'[d] : h \in NeedsDetail(cache'[d][k])
    BY <1>6 DEF Means, NeedsDetail
  <2>2. Means(d, h)
    <3>1. CASE d = c /\ k = Key(c) /\ cache'[d][k] = p
      BY <1>1, <1>6, <2>1, <3>1, GrowsMeans
    <3>2. CASE k \in DOMAIN cache[d] /\ cache'[d][k] = cache[d][k]
      BY <2>1, <3>2 DEF Means
    <3> QED
      BY <1>3, <3>1, <3>2
  <2> QED
    BY <1>6, <2>2 DEF OnceInv
<1>7. \A d \in Calls : \A k \in DOMAIN cache'[d] :
        (cache[d][k].details \subseteq NeedsDetail(cache[d][k]))'
  BY <1>5 DEF NeedsDetail
<1>8. \A d \in Calls, h \in Hadiths :
        Means(d, h)' /\ live'[h] > 0 => h \in raced' \cup made'[d]
  BY <1>2, <1>6
<1>9. ImportedOnce'
  BY <1>2 DEF ImportedOnce, OnceInv
<1> QED
  BY <1>7, <1>8, <1>9 DEF OnceInv

(* Without a new page a call means to import nothing new, ...              *)
LEMMA NoNewMeaning ==
  ASSUME OnceInv, NoNewPage
  PROVE  /\ \A c \in Calls : \A k \in DOMAIN cache'[c] :
              (cache[c][k].details \subseteq NeedsDetail(cache[c][k]))'
         /\ \A c \in Calls, h \in Hadiths : Means(c, h)' => Means(c, h)
<1>1. ASSUME NEW c \in Calls, NEW k \in DOMAIN cache'[c]
      PROVE  /\ k \in DOMAIN cache[c] /\ cache'[c][k] = cache[c][k]
             /\ NeedsDetail(cache[c][k])' = NeedsDetail(cache[c][k])
  BY <1>1 DEF NoNewPage, NeedsDetail
<1>2. ASSUME NEW c \in Calls, NEW k \in DOMAIN cache'[c]
      PROVE  (cache[c][k].details \subseteq NeedsDetail(cache[c][k]))'
  BY <1>1, <1>2 DEF OnceInv
<1>3. ASSUME NEW c \in Calls, NEW h \in Hadiths, Means(c, h)' PROVE Means(c, h)
  BY <1>1, <1>3 DEF Means
<1> QED
  BY <1>2, <1>3

(* ... and forgets what it created only with its pages; ...                *)
LEMMA MadeStays ==
  ASSUME TypeOK, [Next]_vars, NEW d \in Calls
  PROVE  made[d] \subseteq made'[d] \/ DOMAIN cache'[d] = {}
<1>1. ASSUME NEW c \in Calls, Finish(c)
      PROVE  made[d] \subseteq made'[d] \/ DOMAIN cache'[d] = {}
  <2>1. d # c => made'[d] = made[d]
    BY <1>1 DEF Finish, TypeOK, CallTypeOK
  <2>2. DOMAIN cache'[c] = {}
    BY <1>1, FinishShape DEF TypeOK
  <2> QED
    BY <2>1, <2>2
<1>2. ASSUME NEW c \in Calls, Begin(c) \/ CallStep(c)
      PROVE  made[d] \subseteq made'[d] \/ DOMAIN cache'[d] = {}
  <2>1. ASSUME Throw(c) \/ PageFailed(c) \/ GiveUp(c) \/ saveCursor(c)
        PROVE  made[d] \subseteq made'[d] \/ DOMAIN cache'[d] = {}
    BY <1>1, <2>1 DEF Throw, PageFailed, GiveUp, saveCursor
  <2>2. ASSUME NEW h \in Hadiths, createApproved(c, h)
        PROVE  made[d] \subseteq made'[d]
    BY <2>2 DEF createApproved, TypeOK, CallTypeOK
  <2> QED
    BY <1>2, <2>1, <2>2 DEF Begin, CallStep, getCategoryTree, loadCursor, getHadeethsPage,
       Classify, getHadeethsMultiple, SkipPage, Skip, importHadith, CreateFailed
<1>3. ASSUME Restart PROVE DOMAIN cache'[d] = {}
  <2>1. cache'[d] = <<>>
    BY <1>3 DEF Restart
  <2> QED
    BY <2>1
<1> QED
  BY <1>2, <1>3 DEF Next, Archive, ChangeListing, vars, call

(* ... and only createApproved adds a row.                                 *)
LEMMA OnlyCreates ==
  ASSUME TypeOK, [Next]_vars
  PROVE  \/ \E c \in Calls, h \in Hadiths : createApproved(c, h)
         \/ /\ raced' = raced /\ imported' = imported
            /\ \A h \in Hadiths : live'[h] <= live[h]
<1>0. live \in [Hadiths -> Nat]
  BY DEF TypeOK, RowsTypeOK
<1>1. ASSUME UNCHANGED <<live, imported, raced>>
      PROVE  /\ raced' = raced /\ imported' = imported
             /\ \A h \in Hadiths : live'[h] <= live[h]
  BY <1>0, <1>1
<1>2. ASSUME NEW c \in Calls, Begin(c) \/ CallStep(c),
             ~\E h \in Hadiths : createApproved(c, h)
      PROVE  UNCHANGED <<live, imported, raced>>
  <2>1. ASSUME NEW h \in Hadiths, Skip(c, h) \/ CreateFailed(c, h)
        PROVE  UNCHANGED <<live, imported, raced>>
    BY <2>1 DEF Skip, CreateFailed
  <2> QED
    BY <1>2, <2>1 DEF Begin, CallStep, getCategoryTree, loadCursor, Throw, getHadeethsPage,
       PageFailed, Classify, getHadeethsMultiple, SkipPage, GiveUp, importHadith, saveCursor,
       history
<1>3. ASSUME NEW h \in Hadiths, Archive(h)
      PROVE  /\ raced' = raced /\ imported' = imported
             /\ \A g \in Hadiths : live'[g] <= live[g]
  BY <1>0, <1>3 DEF Archive, history
<1>4. ASSUME Restart \/ ChangeListing \/ UNCHANGED vars
      PROVE  UNCHANGED <<live, imported, raced>>
  BY <1>4 DEF Restart, ChangeListing, vars, history
<1> QED
  BY <1>1, <1>2, <1>3, <1>4 DEF Next

(* A creation adds one row of a hadith its call meant to import.           *)
LEMMA CreatesMeant ==
  ASSUME TypeOK, OnceInv, NEW c \in Calls, NEW h \in Hadiths, createApproved(c, h)
  PROVE  Means(c, h) /\ NoNewPage
<1>1. Page(c) = cache[c][Key(c)] /\ Key(c) \in DOMAIN cache[c]
  BY CandidateShape DEF createApproved, Page
<1>2. h \in Page(c).details
  BY DEF createApproved, Suitable
<1>3. h \in NeedsDetail(Page(c))
  BY <1>1, <1>2 DEF OnceInv
<1>4. NoNewPage
  BY DEF createApproved, Pass, NoNewPage, TypeOK, CacheTypeOK
<1> QED
  BY <1>1, <1>3, <1>4 DEF Means

LEMMA CreateOnce ==
  ASSUME TypeOK, OnceInv, NEW c \in Calls, NEW h \in Hadiths, createApproved(c, h)
  PROVE  OnceInv'
<1>1. Means(c, h) /\ NoNewPage
  BY CreatesMeant
<1>2. /\ live' = [live EXCEPT ![h] = @ + 1]
      /\ made' = [made EXCEPT ![c] = @ \cup {h}]
      /\ raced' = IF AlsoMeant(c, h) \/ h \in made[c] THEN raced \cup {h} ELSE raced
  BY DEF createApproved
<1>3. live \in [Hadiths -> Nat] /\ made \in [Calls -> SUBSET Hadiths]
  BY DEF TypeOK, RowsTypeOK, CallTypeOK
<1>4. \A d \in Calls : made[d] \subseteq made'[d]
  BY <1>2, <1>3
<1>5. raced \subseteq raced' /\ (\A g \in Hadiths : g # h => live'[g] = live[g])
  BY <1>2, <1>3
<1>6. ASSUME NEW d \in Calls, NEW g \in Hadiths, Means(d, g), live'[g] > 0
      PROVE  g \in raced' \cup made'[d]
  <2>1. CASE live[g] > 0
    BY <1>4, <1>5, <1>6, <2>1 DEF OnceInv
  <2>2. CASE ~(live[g] > 0)
    <3>1. g = h
      BY <1>5, <1>6, <2>2
    <3>2. CASE d = c
      BY <1>2, <1>3, <3>1, <3>2
    <3>3. CASE d # c
      <4>1. AlsoMeant(c, h)
        BY <1>6, <3>1, <3>3 DEF AlsoMeant, Means
      <4> QED
        BY <1>2, <3>1, <4>1
    <3> QED
      BY <3>2, <3>3
  <2> QED
    BY <2>1, <2>2
<1>7. ASSUME NEW g \in Hadiths, live'[g] > 1 PROVE g \in raced'
  <2>1. CASE g # h
    BY <1>5, <1>7, <2>1 DEF OnceInv, ImportedOnce
  <2>2. CASE g = h
    <3>1. live[h] > 0
      BY <1>2, <1>3, <1>7, <2>2
    <3>2. h \in raced \cup made[c]
      BY <1>1, <3>1 DEF OnceInv
    <3> QED
      BY <1>2, <1>5, <2>2, <3>2
  <2> QED
    BY <2>1, <2>2
<1>8. \A d \in Calls, g \in Hadiths : Means(d, g)' /\ live'[g] > 0 => g \in raced' \cup made'[d]
  BY <1>1, <1>6, NoNewMeaning
<1>9. \A d \in Calls : \A k \in DOMAIN cache'[d] :
        (cache[d][k].details \subseteq NeedsDetail(cache[d][k]))'
  BY <1>1, NoNewMeaning
<1> QED
  BY <1>7, <1>8, <1>9 DEF OnceInv, ImportedOnce

LEMMA OnceStep == TypeOK /\ OnceInv /\ [Next]_vars => OnceInv'
<1> SUFFICES ASSUME TypeOK, OnceInv, [Next]_vars
             PROVE  OnceInv'
  OBVIOUS
<1>1. ASSUME NEW c \in Calls, NEW h \in Hadiths, createApproved(c, h) PROVE OnceInv'
  BY <1>1, CreateOnce
<1>2. ASSUME NEW c \in Calls, PageStep(c) PROVE OnceInv'
  BY <1>2, PageOnce
<1>3. ASSUME NoNewPage, raced' = raced, \A h \in Hadiths : live'[h] <= live[h]
      PROVE  OnceInv'
  <2>1. live \in [Hadiths -> Nat] /\ live' \in [Hadiths -> Nat]
    BY RowsTypeStep DEF TypeOK, RowsTypeOK
  <2>2. ASSUME NEW d \in Calls, NEW h \in Hadiths, Means(d, h)', live'[h] > 0
        PROVE  h \in raced' \cup made'[d]
    <3>1. Means(d, h) /\ live[h] > 0
      BY <1>3, <2>1, <2>2, NoNewMeaning
    <3>2. h \in raced \cup made[d]
      BY <3>1 DEF OnceInv
    <3>3. DOMAIN cache'[d] # {}
      BY <2>2 DEF Means
    <3> QED
      BY <1>3, <3>2, <3>3, MadeStays
  <2>3. ImportedOnce'
    BY <1>3, <2>1 DEF ImportedOnce, OnceInv
  <2>4. \A d \in Calls : \A k \in DOMAIN cache'[d] :
          (cache[d][k].details \subseteq NeedsDetail(cache[d][k]))'
    BY <1>3, NoNewMeaning
  <2> QED
    BY <2>2, <2>3, <2>4 DEF OnceInv
<1> QED
  BY <1>1, <1>2, <1>3, CacheStep, OnlyCreates

(* A hadith has one live item, unless two calls meant to import it before  *)
(* either did, or one call met it twice on pages it had classified already. *)
THEOREM OneLiveItem == Spec => []ImportedOnce
<1>1. Spec => []TypeOK
  BY TypeCorrect
<1>2. OnceInv => ImportedOnce
  BY DEF OnceInv
<1> QED
  BY <1>1, <1>2, InitOnce, OnceStep, PTL DEF Spec

-----------------------------------------------------------------------------
(* NothingSkipped.                                                         *)

(* Why a row is classified as it is, for good.                             *)
LEMMA GrowsClass ==
  ASSUME NEW c \in Calls, NEW p, Grows(c, p), ClassInv,
         NEW h \in DOMAIN p.class
  PROVE  /\ p.class[h] = "no-english" => h \in Untranslated
         /\ p.class[h] = "duplicate" => h \in imported
<1>1. CASE p = Fresh(c)
  <2>1. p.class = <<>>
    BY <1>1 DEF Fresh
  <2>2. DOMAIN p.class = {}
    BY <2>1
  <2> QED
    BY <2>2
<1>2. ASSUME Cached(c), NEW g \in DOMAIN Page(c).class
      PROVE  /\ Page(c).class[g] = "no-english" => g \in Untranslated
             /\ Page(c).class[g] = "duplicate" => g \in imported
  BY <1>2 DEF ClassInv, Cached, Page
<1>3. CASE Cached(c) /\ RowDone(c, p)
  <2>1. PICK g \in Hadiths \ DOMAIN Page(c).class :
          /\ DOMAIN p.class = DOMAIN Page(c).class \cup {g}
          /\ \A f \in DOMAIN Page(c).class : p.class[f] = Page(c).class[f]
          /\ p.class[g] = "no-english" => g \in Untranslated
          /\ p.class[g] = "duplicate" => live[g] > 0
    BY <1>3 DEF RowDone
  <2>2. CASE h = g
    BY <2>1, <2>2 DEF ClassInv
  <2>3. CASE h \in DOMAIN Page(c).class
    BY <1>2, <1>3, <2>1, <2>3
  <2> QED
    BY <2>1, <2>2, <2>3
<1>4. CASE Cached(c) /\ Detailed(c, p)
  BY <1>2, <1>4 DEF Detailed
<1> QED
  BY <1>1, <1>3, <1>4 DEF Grows

LEMMA InitClass == Init => ClassInv
<1> SUFFICES ASSUME Init PROVE ClassInv
  OBVIOUS
<1>1. \A c \in Calls : cache[c] = <<>>
  BY DEF Init
<1>2. \A c \in Calls : DOMAIN cache[c] = {}
  BY <1>1
<1>3. \A h \in Hadiths : live[h] = 0
  BY DEF Init
<1> QED
  BY <1>2, <1>3 DEF ClassInv

(* What was imported stays imported.                                       *)
LEMMA ImportedStays ==
  ASSUME TypeOK, [Next]_vars
  PROVE  /\ imported \subseteq imported'
         /\ \A h \in Hadiths : live'[h] > 0 => live[h] > 0 \/ h \in imported'
<1>1. live \in [Hadiths -> Nat] /\ live' \in [Hadiths -> Nat]
  BY RowsTypeStep DEF TypeOK, RowsTypeOK
<1>2. ASSUME NEW c \in Calls, NEW h \in Hadiths, createApproved(c, h)
      PROVE  imported' = imported \cup {h} /\ \A g \in Hadiths : g # h => live'[g] = live[g]
  BY <1>1, <1>2 DEF createApproved
<1> QED
  BY <1>1, <1>2, OnlyCreates

LEMMA ClassStep == TypeOK /\ ClassInv /\ [Next]_vars => ClassInv'
<1> SUFFICES ASSUME TypeOK, ClassInv, [Next]_vars
             PROVE  ClassInv'
  OBVIOUS
<1>1. \A h \in Hadiths : live'[h] > 0 => h \in imported'
  BY ImportedStays DEF ClassInv
<1>2. ASSUME NEW d \in Calls, NEW k \in DOMAIN cache'[d], NEW h \in DOMAIN cache'[d][k].class
      PROVE  /\ cache'[d][k].class[h] = "no-english" => h \in Untranslated
             /\ cache'[d][k].class[h] = "duplicate" => h \in imported'
  <2>1. CASE NoNewPage
    <3>1. k \in DOMAIN cache[d] /\ cache'[d][k] = cache[d][k]
      BY <1>2, <2>1 DEF NoNewPage
    <3>2. /\ cache[d][k].class[h] = "no-english" => h \in Untranslated
          /\ cache[d][k].class[h] = "duplicate" => h \in imported
      BY <1>2, <3>1 DEF ClassInv
    <3> QED
      BY <3>1, <3>2, ImportedStays
  <2>2. ASSUME NEW c \in Calls, PageStep(c)
        PROVE  /\ cache'[d][k].class[h] = "no-english" => h \in Untranslated
               /\ cache'[d][k].class[h] = "duplicate" => h \in imported'
    <3>1. PICK p \in Pages : Keep(c, p) /\ Grows(c, p)
      BY <2>2 DEF PageStep
    <3>2. \/ cache'[d][k] = p
          \/ k \in DOMAIN cache[d] /\ cache'[d][k] = cache[d][k]
      BY <1>2, <3>1, KeepShape DEF TypeOK, CacheTypeOK
    <3>3. CASE cache'[d][k] = p
      BY <1>2, <3>1, <3>3, GrowsClass, ImportedStays
    <3>4. CASE k \in DOMAIN cache[d] /\ cache'[d][k] = cache[d][k]
      <4>1. /\ cache[d][k].class[h] = "no-english" => h \in Untranslated
            /\ cache[d][k].class[h] = "duplicate" => h \in imported
        BY <1>2, <3>4 DEF ClassInv
      <4> QED
        BY <3>4, <4>1, ImportedStays
    <3> QED
      BY <3>2, <3>3, <3>4
  <2> QED
    BY <2>1, <2>2, CacheStep
<1> QED
  BY <1>1, <1>2 DEF ClassInv

(* The walk goes from a position to the next one: what lies before the next *)
(* one lies before this one, or is the row here.                           *)
LEMMA NoneInBetween ==
  ASSUME RowsTypeOK, NEW p \in Positions, NEW q \in Places,
         Before(q, nextHadeethCategoryPosition(p, flattenCategoryIds,
                     Len(Rows(p.category, p.page)), LastPage(p.category)))
  PROVE  Before(q, p) \/ q = p
<1> DEFINE length == Len(Rows(p.category, p.page))
           last == LastPage(p.category)
           next == nextHadeethCategoryPosition(p, flattenCategoryIds, length, last)
<1>1. /\ p.category \in Nat /\ p.page \in Nat /\ p.item \in Nat
      /\ q.category \in Nat /\ q.page \in Nat /\ q.item \in Nat
  BY PlaceShape DEF Positions, RowsTypeOK
<1>2. length \in Nat /\ last \in Nat
  BY CatalogueTypes DEF RowsTypeOK
<1>3. q = p <=> q.category = p.category /\ q.page = p.page /\ q.item = p.item
  BY PlaceShape DEF Positions, RowsTypeOK
<1>4. /\ q.category \in flattenCategoryIds
      /\ q.page >= 1 /\ (q.category = p.category => q.page <= last)
      /\ (q.category = p.category /\ q.page = p.page => q.item + 1 <= length)
  <2>1. /\ q.category \in flattenCategoryIds
        /\ q.page \in 1..LastPage(q.category)
        /\ q.item + 1 \in 1..Len(Rows(q.category, q.page))
    BY PlaceShape DEF RowsTypeOK
  <2>2. /\ LastPage(q.category) \in Nat
        /\ Len(Rows(q.category, q.page)) \in Nat
    BY CatalogueTypes DEF RowsTypeOK
  <2> QED
    BY <1>1, <2>1, <2>2
<1>5. Before(q, next)
  OBVIOUS
<1> HIDE DEF length, last
<1>6. CASE p.item + 1 < length
  <2>1. next = [p EXCEPT !.item = @ + 1]
    BY <1>6 DEF nextHadeethCategoryPosition
  <2>2. next.category = p.category /\ next.page = p.page /\ next.item = p.item + 1
    BY <2>1 DEF Positions
  <2> HIDE DEF next
  <2> QED
    BY <1>1, <1>3, <1>5, <2>2 DEF Before
<1>7. CASE ~(p.item + 1 < length) /\ p.page < last
  <2>1. next = [p EXCEPT !.page = @ + 1, !.item = 0]
    BY <1>7 DEF nextHadeethCategoryPosition
  <2>2. next.category = p.category /\ next.page = p.page + 1 /\ next.item = 0
    BY <2>1 DEF Positions
  <2> HIDE DEF next
  <2> QED
    BY <1>1, <1>2, <1>3, <1>4, <1>5, <1>7, <2>2 DEF Before
<1>8. CASE ~(p.item + 1 < length) /\ ~(p.page < last)
  <2> DEFINE j == NextCategory(flattenCategoryIds, p.category)
  <2>1. next = Position(j)
    BY <1>8 DEF nextHadeethCategoryPosition
  <2>2. next.category = j /\ next.page = 1 /\ next.item = 0
    BY <2>1 DEF Position
  <2>3. j \in Nat /\ (q.category < j => q.category <= p.category)
    <3>1. flattenCategoryIds \in SUBSET (Nat \ {0}) /\ p.category \in Nat
      BY <1>1, CatalogueTypes DEF RowsTypeOK
    <3>2. j \in Nat /\ \A i \in flattenCategoryIds : i < j => i <= p.category
      BY <3>1, NextCategoryIsNext
    <3> QED
      BY <1>4, <3>2
  <2> HIDE DEF next, j
  <2>4. q.category < j
    BY <1>1, <1>4, <1>5, <2>2, <2>3 DEF Before
  <2> QED
    BY <1>1, <1>2, <1>3, <1>4, <1>8, <2>3, <2>4 DEF Before
<1> QED
  BY <1>6, <1>7, <1>8

(* The positions of the hadiths that are left to do.                       *)
Open ==
  {q \in Places : ~Dealt(listing[q.category].pages[q.page][q.item + 1])}

LEMMA CoveredMeans ==
  /\ \A q : Covered(q) <=> \A p \in Open : ~Before(p, q)
  /\ \A q : (Covered(q) <=> \A p \in Open : ~Before(p, q))'
BY DEF Covered, Open

LEMMA ReportedStays ==
  ASSUME TypeOK, [Next]_vars
  PROVE  reported \subseteq reported'
<1>1. ASSUME NEW c \in Calls, CallStep(c) PROVE reported \subseteq reported'
  <2>1. ASSUME NEW h \in Hadiths, Skip(c, h) PROVE reported \subseteq reported'
    BY <2>1 DEF Skip
  <2>2. ASSUME NEW h \in Hadiths, importHadith(c, h) PROVE reported \subseteq reported'
    BY <2>2 DEF importHadith, createApproved, CreateFailed
  <2> QED
    BY <1>1, <2>1, <2>2 DEF CallStep, getCategoryTree, loadCursor, Throw, getHadeethsPage,
       PageFailed, Classify, getHadeethsMultiple, SkipPage, GiveUp, saveCursor, history
<1> QED
  BY <1>1 DEF Next, Begin, Restart, Archive, ChangeListing, vars, history

(* While the listing stays, nothing is left to do that was not before.     *)
LEMMA OpenShrinks ==
  ASSUME TypeOK, [Next]_vars, listing' = listing
  PROVE  \A q \in Open' : q \in Open
<1>1. Places' = Places
  BY DEF Places, flattenCategoryIds
<1>2. ASSUME NEW h, Dealt(h) PROVE Dealt(h)'
  BY <1>2, ImportedStays, ReportedStays DEF Dealt
<1> QED
  BY <1>1, <1>2 DEF Open

LEMMA ListingStays ==
  ASSUME TypeOK, [Next]_vars, ~changed'
  PROVE  ~changed /\ listing' = listing
<1>1. ASSUME NEW c \in Calls, CallStep(c) PROVE UNCHANGED <<changed, listing>>
  <2>1. ASSUME NEW h \in Hadiths, Skip(c, h) \/ importHadith(c, h)
        PROVE  UNCHANGED <<changed, listing>>
    BY <2>1 DEF Skip, importHadith, createApproved, CreateFailed, Pass
  <2> QED
    BY <1>1, <2>1 DEF CallStep, getCategoryTree, loadCursor, Throw, getHadeethsPage,
       PageFailed, Classify, getHadeethsMultiple, SkipPage, GiveUp, saveCursor, history
<1> QED
  BY <1>1 DEF Next, Begin, Restart, Archive, ChangeListing, vars, history

(* A call reads the categories once.                                       *)
LEMMA IdsStay ==
  ASSUME TypeOK, [Next]_vars, NEW d \in Calls
  PROVE  \/ at'[d] \in {"idle", "tree"}
         \/ ids'[d] = flattenCategoryIds
         \/ ids'[d] = ids[d] /\ at[d] \notin {"idle", "tree"}
<1> DEFINE P == \/ at'[d] \in {"idle", "tree"}
                \/ ids'[d] = flattenCategoryIds
                \/ ids'[d] = ids[d] /\ at[d] \notin {"idle", "tree"}
<1>0. DOMAIN at = Calls /\ DOMAIN ids = Calls
  BY DEF TypeOK, CallTypeOK
<1>1. ASSUME at'[d] = at[d], ids'[d] = ids[d] PROVE P
  BY <1>0, <1>1 DEF TypeOK, CallTypeOK
<1>2. ASSUME NEW c \in Calls, Finish(c) PROVE P
  <2>1. CASE c = d
    BY <1>0, <1>2, <2>1 DEF Finish, Goto
  <2>2. CASE c # d
    BY <1>0, <1>1, <1>2, <2>2 DEF Finish, Goto
  <2> QED
    BY <2>1, <2>2
<1>3. ASSUME NEW c \in Calls, NEW s, Goto(c, s), ids' = ids,
             s \in {"idle", "tree"} \/ at[c] \notin {"idle", "tree"}
      PROVE  P
  <2>1. CASE c = d
    BY <1>0, <1>3, <2>1 DEF Goto
  <2>2. CASE c # d
    BY <1>0, <1>1, <1>3, <2>2 DEF Goto
  <2> QED
    BY <2>1, <2>2
<1>4. ASSUME NEW c \in Calls, getCategoryTree(c) PROVE P
  <2>1. CASE c = d
    BY <1>0, <1>4, <2>1 DEF getCategoryTree
  <2>2. CASE c # d
    BY <1>0, <1>1, <1>4, <2>2 DEF getCategoryTree, Goto
  <2> QED
    BY <2>1, <2>2
<1> HIDE DEF P
<1>5. ASSUME NEW c \in Calls, Begin(c) PROVE P
  BY <1>3, <1>5 DEF Begin
<1>6. ASSUME NEW c \in Calls, CallStep(c) PROVE P
  <2>1. ASSUME loadCursor(c) PROVE P
    BY <1>3, <2>1 DEF loadCursor
  <2>2. ASSUME Throw(c) \/ PageFailed(c) \/ GiveUp(c) PROVE P
    BY <1>2, <2>2 DEF Throw, PageFailed, GiveUp
  <2>3. ASSUME NEW p, Analyze(c, p), ids' = ids, at[c] \notin {"idle", "tree"} PROVE P
    BY <1>3, <2>3 DEF Analyze
  <2>4. ASSUME getHadeethsPage(c) PROVE P
    BY <2>3, <2>4 DEF getHadeethsPage, MissingPage
  <2>5. ASSUME Classify(c) PROVE P
    BY <2>3, <2>5 DEF Classify, NextRow
  <2>6. ASSUME getHadeethsMultiple(c) PROVE P
    BY <1>3, <2>6 DEF getHadeethsMultiple
  <2>7. ASSUME SkipPage(c) PROVE P
    BY <1>3, <2>7 DEF SkipPage, NothingHere, Advance
  <2>8. ASSUME NEW h \in Hadiths, Skip(c, h) \/ importHadith(c, h) PROVE P
    BY <1>3, <2>8 DEF Skip, importHadith, createApproved, CreateFailed, Candidate, Pass, Advance
  <2>9. ASSUME saveCursor(c) PROVE P
    BY <1>2, <1>3, <2>9 DEF saveCursor
  <2> QED
    BY <1>4, <1>6, <2>1, <2>2, <2>4, <2>5, <2>6, <2>7, <2>8, <2>9 DEF CallStep
<1>7. ASSUME Restart PROVE P
  BY <1>7 DEF Restart, P
<1>8. ASSUME UNCHANGED <<at, ids>> PROVE P
  BY <1>1, <1>8
<1>9. P
  BY <1>5, <1>6, <1>7, <1>8 DEF Next, Archive, ChangeListing, vars, call
<1> QED
  BY <1>9 DEF P

LEMMA CurrentStep ==
  ASSUME TypeOK, [Next]_vars, listing' = listing, NEW d \in Calls,
         \A c \in Calls : Current(c)
  PROVE  Current(d)'
<1>1. /\ flattenCategoryIds' = flattenCategoryIds
      /\ \A i, p : Rows(i, p)' = Rows(i, p) /\ LastPage(i)' = LastPage(i)
  BY DEF flattenCategoryIds, Rows, LastPage
<1>2. at'[d] \notin {"idle", "tree"} => ids'[d] = flattenCategoryIds'
  BY <1>1, IdsStay DEF Current
<1>3. ASSUME NEW k \in DOMAIN cache'[d]
      PROVE  /\ cache'[d][k].rows = Rows(k[1], k[2])
             /\ cache'[d][k].last = LastPage(k[1])
  <2>1. CASE k \in DOMAIN cache[d] /\ cache'[d][k] = cache[d][k]
    BY <2>1 DEF Current
  <2>2. ASSUME NEW c \in Calls, PageStep(c)
        PROVE  /\ cache'[d][k].rows = Rows(k[1], k[2])
               /\ cache'[d][k].last = LastPage(k[1])
    <3>1. PICK p \in Pages : Keep(c, p) /\ Grows(c, p)
      BY <2>2 DEF PageStep
    <3>2. \/ d = c /\ k = Key(c) /\ cache'[d][k] = p
          \/ k \in DOMAIN cache[d] /\ cache'[d][k] = cache[d][k]
      BY <1>3, <3>1, KeepShape DEF TypeOK, CacheTypeOK
    <3>3. Key(c)[1] = cursor[c].category /\ Key(c)[2] = cursor[c].page
      BY DEF Key
    <3>4. p.rows = Rows(Key(c)[1], Key(c)[2]) /\ p.last = LastPage(Key(c)[1])
      <4>1. CASE p = Fresh(c)
        BY <3>3, <4>1 DEF Fresh
      <4>2. CASE Cached(c) /\ p.rows = Page(c).rows /\ p.last = Page(c).last
        BY <4>2 DEF Current, Cached, Page
      <4> QED
        BY <3>1, <4>1, <4>2 DEF Grows
    <3> QED
      BY <2>1, <3>2, <3>4
  <2> QED
    BY <1>3, <2>1, <2>2, CacheStep DEF NoNewPage
<1>4. \A k \in DOMAIN cache'[d] : /\ cache'[d][k].rows = Rows(k[1], k[2])'
                                  /\ cache'[d][k].last = LastPage(k[1])'
  BY <1>1, <1>3
<1> QED
  BY <1>2, <1>4 DEF Current

(* The hadith that the walk passes is dealt with, one way or another.      *)
LEMMA PassedIsDealt ==
  ASSUME TypeOK, ClassInv, NEW c \in Calls, NEW h \in Hadiths,
         Skip(c, h) \/ importHadith(c, h)
  PROVE  Dealt(h)'
<1>1. CASE Skip(c, h)
  <2>1. Candidate(c, h) /\ ~Suitable(c, h) /\ imported' = imported
    BY <1>1 DEF Skip
  <2>2. Key(c) \in DOMAIN cache[c] /\ Page(c) = cache[c][Key(c)]
    BY <2>1, CandidateShape DEF Page
  <2>3. /\ Classified(c, h, "no-english") => h \in Untranslated
        /\ Classified(c, h, "duplicate") => h \in imported
    BY <2>2 DEF Classified, ClassInv
  <2>4. \/ Classified(c, h, "no-english") \/ Classified(c, h, "duplicate")
        \/ h \in Blank \cup Weak \/ h \notin Page(c).details
    BY <2>1 DEF Suitable
  <2>5. \/ Classified(c, h, "no-english") \/ Classified(c, h, "duplicate")
        \/ h \in Page(c).details \/ h \in reported'
    BY <1>1 DEF Skip
  <2> QED
    BY <2>1, <2>3, <2>4, <2>5 DEF Dealt
<1>2. CASE importHadith(c, h)
  <2>1. h \in imported' \/ h \in reported'
    BY <1>2 DEF importHadith, createApproved, CreateFailed
  <2> QED
    BY <2>1 DEF Dealt
<1> QED
  BY <1>1, <1>2

(* Moving on from a row or from an empty page leaves nothing behind.       *)
LEMMA AdvanceCovers ==
  ASSUME TypeOK, ClassInv, CursorInv, [Next]_vars, ~changed, listing' = listing,
         NEW d \in Calls, Advance(d), cache' = cache,
         SkipPage(d) \/ \E h \in Hadiths : Skip(d, h) \/ importHadith(d, h)
  PROVE  Covered(cursor[d])'
<1>1. at[d] = "walk" /\ Key(d) \in DOMAIN cache[d] /\ Page(d) = cache[d][Key(d)]
  BY DEF SkipPage, NothingHere, Skip, importHadith, createApproved, CreateFailed,
     Candidate, Cached, Page
<1>2. Covered(cursor[d]) /\ Current(d) /\ RowsTypeOK /\ cursor[d] \in Positions
  BY DEF CursorInv, TypeOK, CallTypeOK
<1>3. Key(d)[1] = cursor[d].category /\ Key(d)[2] = cursor[d].page
  BY DEF Key
<1>4. /\ ids[d] = flattenCategoryIds
      /\ Page(d).rows = Rows(cursor[d].category, cursor[d].page)
      /\ Page(d).last = LastPage(cursor[d].category)
  BY <1>1, <1>2, <1>3 DEF Current
<1> DEFINE next == nextHadeethCategoryPosition(cursor[d], flattenCategoryIds,
                     Len(Rows(cursor[d].category, cursor[d].page)),
                     LastPage(cursor[d].category))
<1>5. cursor'[d] = next
  BY <1>4 DEF Advance, TypeOK, CallTypeOK
<1>6. ASSUME NEW q \in Open', Before(q, next) PROVE FALSE
  <2>1. q \in Open /\ q \in Places
    BY OpenShrinks DEF Open
  <2>2. ~Before(q, cursor[d])
    BY <1>2, <2>1, CoveredMeans
  <2>3. q = cursor[d]
    BY <1>2, <1>6, <2>1, <2>2, NoneInBetween
  <2>4. /\ q.item + 1 \in 1..Len(Page(d).rows)
        /\ listing[q.category].pages[q.page] = Page(d).rows
    BY <1>2, <1>4, <2>1, <2>3, PlaceShape DEF RowsTypeOK
  <2>5. ~SkipPage(d)
    <3>1. cursor[d].item \in Nat /\ Len(Page(d).rows) \in Nat
      BY <1>2, <1>4, CatalogueTypes DEF Positions, RowsTypeOK
    <3>2. cursor[d].item < Len(Page(d).rows)
      BY <2>3, <2>4, <3>1
    <3> QED
      BY <3>1, <3>2 DEF SkipPage, NothingHere
  <2>6. PICK h \in Hadiths : Skip(d, h) \/ importHadith(d, h)
    BY <2>5
  <2>7. h = Page(d).rows[q.item + 1]
    BY <2>3, <2>6 DEF Skip, importHadith, createApproved, CreateFailed, Candidate
  <2>8. Dealt(h)'
    BY <2>6, PassedIsDealt
  <2>9. Dealt(listing[q.category].pages[q.page][q.item + 1])'
    BY <2>4, <2>7, <2>8
  <2> QED
    BY <1>6, <2>9 DEF Open
<1> HIDE DEF next
<1>7. \A q \in Open' : ~Before(q, cursor'[d])
  BY <1>5, <1>6
<1> QED
  BY <1>7 DEF Covered, Open

(* What else may become of a cursor.                                       *)
LEMMA CursorMoves ==
  ASSUME TypeOK, [Next]_vars, NEW d \in Calls
  PROVE  \/ cursor'[d] = cursor[d]
         \/ cursor'[d] = Position(NoCategory)
         \/ loadCursor(d)
         \/ /\ Advance(d) /\ cache' = cache
            /\ SkipPage(d) \/ \E h \in Hadiths : Skip(d, h) \/ importHadith(d, h)
<1> DEFINE P == \/ cursor'[d] = cursor[d]
                \/ cursor'[d] = Position(NoCategory)
                \/ loadCursor(d)
                \/ /\ Advance(d) /\ cache' = cache
                   /\ SkipPage(d) \/ \E h \in Hadiths : Skip(d, h) \/ importHadith(d, h)
<1>0. DOMAIN cursor = Calls
  BY DEF TypeOK, CallTypeOK
<1>1. ASSUME UNCHANGED cursor PROVE P
  BY <1>1
<1>2. ASSUME NEW c \in Calls, Finish(c) PROVE P
  BY <1>0, <1>2 DEF Finish
<1>3. ASSUME NEW c \in Calls, CallStep(c) PROVE P
  <2>1. ASSUME loadCursor(c) PROVE P
    <3>1. c # d => cursor'[d] = cursor[d]
      BY <1>0, <2>1 DEF loadCursor
    <3> QED
      BY <2>1, <3>1
  <2>2. ASSUME Advance(c), cache' = cache,
               SkipPage(c) \/ \E h \in Hadiths : Skip(c, h) \/ importHadith(c, h)
        PROVE  P
    <3>1. c # d => cursor'[d] = cursor[d]
      BY <1>0, <2>2 DEF Advance
    <3> QED
      BY <2>2, <3>1
  <2> HIDE DEF P
  <2>3. ASSUME Throw(c) \/ PageFailed(c) \/ GiveUp(c) PROVE P
    BY <1>2, <2>3 DEF Throw, PageFailed, GiveUp
  <2>4. ASSUME getCategoryTree(c) \/ getHadeethsPage(c) \/ Classify(c) \/ getHadeethsMultiple(c)
        PROVE  P
    BY <1>1, <2>4 DEF getCategoryTree, getHadeethsPage, Classify, getHadeethsMultiple
  <2>5. ASSUME SkipPage(c) PROVE P
    <3>1. Advance(c) /\ cache' = cache
      BY <2>5 DEF SkipPage
    <3> QED
      BY <2>2, <2>5, <3>1
  <2>6. ASSUME NEW h \in Hadiths, Skip(c, h) \/ importHadith(c, h) PROVE P
    <3>1. Advance(c) /\ cache' = cache
      BY <2>6 DEF Skip, importHadith, createApproved, CreateFailed, Pass
    <3> QED
      BY <2>2, <2>6, <3>1
  <2>7. ASSUME saveCursor(c) PROVE P
    BY <1>1, <1>2, <2>7 DEF saveCursor
  <2> QED
    BY <1>3, <2>1, <2>3, <2>4, <2>5, <2>6, <2>7 DEF CallStep
<1>4. ASSUME Restart PROVE P
  BY <1>4 DEF Restart
<1> HIDE DEF P
<1>5. P
  BY <1>1, <1>3, <1>4 DEF Next, Begin, Archive, ChangeListing, vars, call
<1> QED
  BY <1>5 DEF P

LEMMA SavedMoves ==
  ASSUME TypeOK, [Next]_vars
  PROVE  saved' = saved \/ \E c \in Calls : saved' = cursor[c]
<1>1. ASSUME NEW c \in Calls, CallStep(c) PROVE saved' = saved \/ saved' = cursor[c]
  <2>1. ASSUME NEW h \in Hadiths, Skip(c, h) \/ importHadith(c, h) PROVE saved' = saved
    BY <2>1 DEF Skip, importHadith, createApproved, CreateFailed, Pass
  <2> QED
    BY <1>1, <2>1 DEF CallStep, getCategoryTree, loadCursor, Throw, getHadeethsPage,
       PageFailed, Classify, getHadeethsMultiple, SkipPage, GiveUp, saveCursor
<1> QED
  BY <1>1 DEF Next, Begin, Restart, Archive, ChangeListing, vars

(* Nothing lies before the first category.                                 *)
LEMMA FirstCovers ==
  ASSUME RowsTypeOK, NEW q \in Places
  PROVE  ~Before(q, Position(NoCategory)) /\ ~Before(q, Position(First(flattenCategoryIds)))
<1>1. /\ q.category \in flattenCategoryIds /\ q.category \in Nat
      /\ q.page \in Nat /\ q.page >= 1 /\ q.item \in Nat
  <2>1. q \in Positions /\ q.category \in flattenCategoryIds /\ q.page \in 1..LastPage(q.category)
    BY PlaceShape DEF RowsTypeOK
  <2>2. LastPage(q.category) \in Nat
    BY CatalogueTypes DEF RowsTypeOK
  <2> QED
    BY <2>1, <2>2 DEF Positions
<1>2. flattenCategoryIds \in SUBSET (Nat \ {0})
  BY CatalogueTypes DEF RowsTypeOK
<1>3. First(flattenCategoryIds) \in Nat /\ First(flattenCategoryIds) <= q.category
  BY <1>1, <1>2, NextCategoryIsNext
<1>4. ASSUME NEW i \in Nat, i <= q.category PROVE ~Before(q, Position(i))
  BY <1>1, <1>4 DEF Before, Position
<1> QED
  BY <1>1, <1>3, <1>4 DEF NoCategory

LEMMA InitCursor == Init => CursorInv
<1> SUFFICES ASSUME Init PROVE CursorInv
  OBVIOUS
<1>1. RowsTypeOK
  BY InitTypeOK DEF TypeOK
<1>2. saved = Position(NoCategory) /\ \A c \in Calls : cursor[c] = Position(NoCategory)
  BY DEF Init
<1>3. Covered(Position(NoCategory))
  BY <1>1, FirstCovers DEF Covered
<1>4. \A c \in Calls : at[c] = "idle" /\ cache[c] = <<>>
  BY DEF Init
<1>5. \A c \in Calls : DOMAIN cache[c] = {}
  BY <1>4
<1>6. \A c \in Calls : Current(c)
  BY <1>4, <1>5 DEF Current
<1> QED
  BY <1>2, <1>3, <1>6 DEF CursorInv

LEMMA CursorStep == TypeOK /\ ClassInv /\ CursorInv /\ [Next]_vars => CursorInv'
<1> SUFFICES ASSUME TypeOK, ClassInv, CursorInv, [Next]_vars, ~changed'
             PROVE  /\ Covered(saved)'
                    /\ \A c \in Calls : Covered(cursor[c])' /\ Current(c)'
  BY DEF CursorInv
<1>1. ~changed /\ listing' = listing /\ RowsTypeOK
  BY ListingStays DEF TypeOK
<1>2. Covered(saved) /\ \A c \in Calls : Covered(cursor[c]) /\ Current(c)
  BY <1>1 DEF CursorInv
<1>3. \A q \in Open' : q \in Open /\ q \in Places
  BY <1>1, OpenShrinks DEF Open
<1>4. \A q \in Open' : ~Before(q, saved) /\ \A c \in Calls : ~Before(q, cursor[c])
  BY <1>2, <1>3, CoveredMeans
<1>5. \A q \in Open' : ~Before(q, saved')
  BY <1>4, SavedMoves
<1>6. Covered(saved)'
  BY <1>5 DEF Covered, Open
<1>7. ASSUME NEW c \in Calls PROVE Covered(cursor[c])'
  <2>1. ASSUME \A q \in Open' : ~Before(q, cursor'[c]) PROVE Covered(cursor[c])'
    BY <2>1 DEF Covered, Open
  <2>2. CASE cursor'[c] = cursor[c]
    BY <1>4, <2>1, <2>2
  <2>3. CASE cursor'[c] = Position(NoCategory)
    BY <1>1, <1>3, <2>1, <2>3, FirstCovers
  <2>4. CASE loadCursor(c)
    <3>1. cursor'[c] = IF saved.category = NoCategory THEN Position(First(ids[c])) ELSE saved
      BY <2>4 DEF loadCursor, TypeOK, CallTypeOK
    <3>2. ids[c] = flattenCategoryIds
      BY <1>2, <2>4 DEF loadCursor, Current
    <3> QED
      BY <1>1, <1>3, <1>4, <2>1, <3>1, <3>2, FirstCovers
  <2>5. CASE /\ Advance(c) /\ cache' = cache
             /\ SkipPage(c) \/ \E h \in Hadiths : Skip(c, h) \/ importHadith(c, h)
    BY <1>1, <2>5, AdvanceCovers
  <2> QED
    BY <2>2, <2>3, <2>4, <2>5, CursorMoves
<1>8. \A c \in Calls : Current(c)'
  BY <1>1, <1>2, CurrentStep
<1> QED
  BY <1>6, <1>7, <1>8

(* As long as the listing stays the same, no hadith before the saved cursor *)
(* is left to do, whatever failed or restarted and whichever call saved it. *)
THEOREM NoneSkipped == Spec => []NothingSkipped
<1>1. Spec => []TypeOK
  BY TypeCorrect
<1>2. Spec => []ClassInv
  BY <1>1, InitClass, ClassStep, PTL DEF Spec
<1>3. CursorInv => NothingSkipped
  BY DEF CursorInv, NothingSkipped, Covered
<1> QED
  BY <1>1, <1>2, <1>3, InitCursor, CursorStep, PTL DEF Spec
=============================================================================
