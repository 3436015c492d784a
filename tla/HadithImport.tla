---------------------------- MODULE HadithImport ----------------------------
(***************************************************************************)
(* The import of hadiths from HadeethEnc (src/hadith-api): importNext      *)
(* walks the categories page by page from a saved cursor, classifies each  *)
(* page once, and creates the hadiths it has not imported yet, already     *)
(* APPROVED (ContentService.createApproved).  Nothing stops two imports    *)
(* from running at once; all of them share the one cursor row.             *)
(*                                                                         *)
(* A step is one request to HadeethEnc, one database query or transaction, *)
(* or the code between two awaits.                                         *)
(***************************************************************************)
EXTENDS Integers, Sequences, FiniteSets

CONSTANTS
  Calls,       \* calls of importNext in flight at once, numbered
  Hadiths,     \* hadiths HadeethEnc knows
  Untranslated,\* their list row does not claim an English translation
  Blank,       \* it claims one, but the English text is blank
  Weak,        \* isWeakGrade
  Invalid,     \* validateForApproval rejects them
  Catalogues,  \* what HadeethEnc may list: by category id, how many hadiths
               \* it counts and its pages
  Batches,     \* the counts a call may be given
  MaxEvents    \* bound: failed requests, hadiths without details, restarts,
               \* archived items and changes of the listing, all together

ASSUME HadithAssumption ==
  /\ Calls \subseteq Nat
  /\ IsFiniteSet(Hadiths)
  /\ UNION {Untranslated, Blank, Weak, Invalid} \subseteq Hadiths
  /\ \A t \in Catalogues : \A i \in DOMAIN t :
       /\ i \in Nat \ {0}
       /\ t[i].count \in Nat
       /\ t[i].pages \in Seq(Seq(Hadiths))
  /\ Batches \subseteq Nat \ {0}
  /\ MaxEvents \in Nat

VARIABLES
  listing,   \* HadeethEnc: the catalogue in force
  saved,     \* HadithImportCursor
  live,      \* ContentItem: rows of each hadith that are not ARCHIVED
  at,        \* what each call is about to do
  ids,       \* categoryIds
  cursor,    \* cursor
  cache,     \* pageCache: the pages fetched, by category and page
  left,      \* count - processed
  empties,   \* emptyAdvances
  events,    \* what counts against MaxEvents
  changed,   \* history: the listing has changed
  made,      \* history: hadiths each call has created
  imported,  \* history: hadiths ever created
  reported,  \* history: hadiths a call reported an error for
  raced      \* history: hadiths created while two calls meant to, or twice
             \* by a call that went round all the categories

call == <<at, ids, cursor, cache, left, empties, made>>
history == <<changed, imported, reported, raced>>
vars == <<listing, saved, live, events, call, history>>

(* The category id '' of a cursor that has never been saved.               *)
NoCategory == 0

Position(i) == [category |-> i, page |-> 1, item |-> 0]

Init ==
  /\ listing \in Catalogues
  /\ saved = Position(NoCategory)
  /\ live = [h \in Hadiths |-> 0]
  /\ at = [c \in Calls |-> "idle"]
  /\ ids = [c \in Calls |-> {}]
  /\ cursor = [c \in Calls |-> Position(NoCategory)]
  /\ cache = [c \in Calls |-> <<>>]
  /\ left = [c \in Calls |-> 0]
  /\ empties = [c \in Calls |-> 0]
  /\ events = 0
  /\ changed = FALSE
  /\ made = [c \in Calls |-> {}]
  /\ imported = {} /\ reported = {} /\ raced = {}

-----------------------------------------------------------------------------
(* HadeethEnc.                                                             *)

(* A page out of range, and one of a category that is gone, is empty.      *)
Rows(i, p) ==
  IF i \in DOMAIN listing /\ p \in DOMAIN listing[i].pages
  THEN listing[i].pages[p] ELSE <<>>

LastPage(i) == IF i \in DOMAIN listing THEN Len(listing[i].pages) ELSE 0

Listed == {h \in Hadiths : \E i \in DOMAIN listing :
             /\ listing[i].count > 0
             /\ \E p \in DOMAIN listing[i].pages :
                  \E n \in DOMAIN listing[i].pages[p] : listing[i].pages[p][n] = h}

-----------------------------------------------------------------------------
(* The order of the walk.                                                  *)

(* The ids of the categories with hadiths; their order is that of numbers. *)
flattenCategoryIds == {i \in DOMAIN listing : listing[i].count > 0}

First(s) == IF s = {} THEN NoCategory ELSE CHOOSE i \in s : \A j \in s : i <= j

(* Mutant: a category that is gone is kept. *)
StayCategory(s, i) ==
  LET later == {j \in s : j > i} IN
  IF i # NoCategory /\ i \notin s THEN i
  ELSE First(IF later # {} THEN later ELSE s)

(* The category after i; the first one when i is the last or is gone.      *)
NextCategory(s, i) ==
  LET later == {j \in s : j > i} IN
  First(IF i \in s /\ later # {} THEN later ELSE s)

nextHadeethCategoryPosition(p, s, length, last) ==
  IF p.item + 1 < length THEN [p EXCEPT !.item = @ + 1]
  ELSE IF p.page < last THEN [p EXCEPT !.page = @ + 1, !.item = 0]
  ELSE Position(NextCategory(s, p.category))

-----------------------------------------------------------------------------
(* importNext.                                                             *)

Goto(c, place) == at' = [at EXCEPT ![c] = place]

(* The call ends, and its local state with it. *)
Finish(c) ==
  /\ Goto(c, "idle")
  /\ ids' = [ids EXCEPT ![c] = {}]
  /\ cursor' = [cursor EXCEPT ![c] = Position(NoCategory)]
  /\ cache' = [cache EXCEPT ![c] = <<>>]
  /\ left' = [left EXCEPT ![c] = 0]
  /\ empties' = [empties EXCEPT ![c] = 0]
  /\ made' = [made EXCEPT ![c] = {}]

Event(n) ==
  /\ events + n <= MaxEvents
  /\ events' = events + n

(* A request comes in.  Calls differ in nothing, so the first idle one     *)
(* takes it.                                                               *)
Begin(c) ==
  /\ at[c] = "idle"
  /\ \A d \in Calls : d < c => at[d] # "idle"
  /\ Goto(c, "tree")
  /\ \E n \in Batches : left' = [left EXCEPT ![c] = n]
  /\ UNCHANGED <<listing, saved, live, events, ids, cursor, cache, empties, made, history>>

getCategoryTree(c) ==
  /\ at[c] = "tree"
  /\ Goto(c, "cursor")
  /\ ids' = [ids EXCEPT ![c] = flattenCategoryIds]
  /\ UNCHANGED <<listing, saved, live, events, cursor, cache, left, empties, made, history>>

loadCursor(c) ==
  /\ at[c] = "cursor"
  /\ Goto(c, "walk")
  /\ cursor' = [cursor EXCEPT ![c] = IF saved.category = NoCategory
                                     THEN Position(First(ids[c])) ELSE saved]
  /\ UNCHANGED <<listing, saved, live, events, ids, cache, left, empties, made, history>>

Key(c) == <<cursor[c].category, cursor[c].page>>
Cached(c) == Key(c) \in DOMAIN cache[c]
Page(c) == cache[c][Key(c)]

(* The cache of c with page p in the place of its cursor. *)
Keep(c, p) ==
  cache' = [cache EXCEPT ![c] =
              [k \in DOMAIN cache[c] \cup {Key(c)} |->
                 IF k = Key(c) THEN p ELSE cache[c][k]]]

(* The loop goes on, and needs a page it has not fetched. *)
MissingPage(c) == at[c] = "walk" /\ left[c] > 0 /\ ~Cached(c)

NeedsDetail(p) == {h \in DOMAIN p.class : p.class[h] = "needs-detail"}

(* The rows of page p from index from on that are not classified yet. *)
Unclassified(p, from) ==
  {n \in DOMAIN p.rows : n > from /\ p.rows[n] \notin DOMAIN p.class}

(* analyzePage goes on with page p: to the next row, to the details of the *)
(* hadiths that need them, or back to the loop when none does.             *)
Analyze(c, p) ==
  /\ Keep(c, p)
  /\ Goto(c, IF Unclassified(p, cursor[c].item) # {} THEN "classify"
             ELSE IF NeedsDetail(p) # {} THEN "details" ELSE "walk")

getHadeethsPage(c) ==
  /\ MissingPage(c)
  /\ Analyze(c, [rows |-> Rows(cursor[c].category, cursor[c].page),
                 last |-> LastPage(cursor[c].category),
                 class |-> <<>>,
                 details |-> {}])
  /\ UNCHANGED <<listing, saved, live, events, ids, cursor, left, empties, made, history>>

(* Mutant: an outage moves the cursor on. *)
PageFailedAdvancing(c) ==
  /\ MissingPage(c)
  /\ Event(1)
  /\ saved' = nextHadeethCategoryPosition(cursor[c], ids[c], 0, 0)
  /\ Finish(c)
  /\ UNCHANGED <<listing, live, history>>

(* The page cannot be fetched: the call returns, and the cursor stays. *)
PageFailed(c) ==
  /\ MissingPage(c)
  /\ Event(1)
  /\ Finish(c)
  /\ UNCHANGED <<listing, saved, live, history>>

(* The row analyzePage comes to next. *)
NextRow(c) == Page(c).rows[First(Unclassified(Page(c), cursor[c].item))]

(* Whatever fails outside the loop's try makes the call throw: the request *)
(* for the tree, one of analyzePage's, and the queries of loadCursor,      *)
(* saveCursor and isAlreadyImported.                                       *)
Throw(c) ==
  /\ at[c] \in {"tree", "cursor", "classify", "details", "save"}
  /\ at[c] = "classify" => NextRow(c) \notin Untranslated
  /\ Event(1)
  /\ Finish(c)
  /\ UNCHANGED <<listing, saved, live, history>>

(* Mutant: archived or live, nothing counts as imported. *)
NeverImported(h) == FALSE

isAlreadyImported(h) == live[h] > 0

(* analyzePage classifies one row: one query each. *)
Classify(c) ==
  /\ at[c] = "classify"
  /\ LET h == NextRow(c)
         kind == IF h \in Untranslated THEN "no-english"
                 ELSE IF isAlreadyImported(h) THEN "duplicate"
                 ELSE "needs-detail"
         old == Page(c).class
     IN Analyze(c, [Page(c) EXCEPT !.class =
                      [g \in DOMAIN old \cup {h} |-> IF g = h THEN kind ELSE old[g]]])
  /\ UNCHANGED <<listing, saved, live, events, ids, cursor, left, empties, made, history>>

(* Both languages' details arrive; either answer may leave hadiths out. *)
getHadeethsMultiple(c) ==
  /\ at[c] = "details"
  /\ \E lost \in SUBSET NeedsDetail(Page(c)) :
       /\ Event(Cardinality(lost))
       /\ Keep(c, [Page(c) EXCEPT !.details = NeedsDetail(Page(c)) \ lost])
  /\ Goto(c, "walk")
  /\ UNCHANGED <<listing, saved, live, ids, cursor, left, empties, made, history>>

(* The cursor moves on and is about to be saved. *)
Advance(c) ==
  /\ cursor' = [cursor EXCEPT ![c] =
       nextHadeethCategoryPosition(@, ids[c], Len(Page(c).rows), Page(c).last)]
  /\ Goto(c, "save")

Cap(c) == Cardinality(ids[c]) + 1

(* There is nothing at the cursor. *)
NothingHere(c) ==
  at[c] = "walk" /\ left[c] > 0 /\ Cached(c) /\ cursor[c].item >= Len(Page(c).rows)

(* Mutant: the empty pages are not counted. *)
SkipPageUncounted(c) ==
  /\ NothingHere(c)
  /\ empties[c] < Cap(c)
  /\ Advance(c)
  /\ UNCHANGED <<listing, saved, live, events, ids, cache, left, empties, made, history>>

SkipPage(c) ==
  /\ NothingHere(c)
  /\ empties[c] < Cap(c)
  /\ empties' = [empties EXCEPT ![c] = @ + 1]
  /\ Advance(c)
  /\ UNCHANGED <<listing, saved, live, events, ids, cache, left, made, history>>

GiveUp(c) ==
  /\ NothingHere(c)
  /\ empties[c] >= Cap(c)
  /\ Finish(c)
  /\ UNCHANGED <<listing, saved, live, events, history>>

(* The hadith at the cursor, and the page's classification of it, if any. *)
Candidate(c, h) ==
  /\ at[c] = "walk"
  /\ left[c] > 0
  /\ Cached(c)
  /\ cursor[c].item < Len(Page(c).rows)
  /\ h = Page(c).rows[cursor[c].item + 1]

Classified(c, h, kind) ==
  h \in DOMAIN Page(c).class /\ Page(c).class[h] = kind

(* Either way it counts as processed, and the walk moves on. *)
Pass(c) ==
  /\ left' = [left EXCEPT ![c] = @ - 1]
  /\ empties' = [empties EXCEPT ![c] = 0]
  /\ Advance(c)
  /\ UNCHANGED <<listing, saved, ids, cache>>

Suitable(c, h) ==
  /\ ~Classified(c, h, "no-english")
  /\ ~Classified(c, h, "duplicate")
  /\ h \in Page(c).details
  /\ h \notin Blank \cup Weak

(* skippedNoEnglish, skippedDuplicates or skippedWeakGrade; or an error,    *)
(* when the details are missing.                                           *)
Skip(c, h) ==
  /\ Candidate(c, h)
  /\ ~Suitable(c, h)
  /\ Pass(c)
  /\ reported' = IF \/ Classified(c, h, "no-english")
                    \/ Classified(c, h, "duplicate")
                    \/ h \in Page(c).details
                 THEN reported ELSE reported \cup {h}
  /\ UNCHANGED <<live, events, made, changed, imported, raced>>

(* Another call holds a page on which h was not imported yet. *)
AlsoMeant(c, h) ==
  \E d \in Calls \ {c} : \E k \in DOMAIN cache[d] : h \in NeedsDetail(cache[d][k])

createApproved(c, h) ==
  /\ Candidate(c, h)
  /\ Suitable(c, h)
  /\ h \notin Invalid
  /\ Pass(c)
  /\ live' = [live EXCEPT ![h] = @ + 1]
  /\ imported' = imported \cup {h}
  /\ made' = [made EXCEPT ![c] = @ \cup {h}]
  /\ raced' = IF AlsoMeant(c, h) \/ h \in made[c] THEN raced \cup {h} ELSE raced
  /\ UNCHANGED <<events, changed, reported>>

(* validateForApproval rejects the hadith, or the database fails. *)
CreateFailed(c, h) ==
  /\ Candidate(c, h)
  /\ Suitable(c, h)
  /\ Pass(c)
  /\ reported' = reported \cup {h}
  /\ IF h \in Invalid THEN UNCHANGED events ELSE Event(1)
  /\ UNCHANGED <<live, made, changed, imported, raced>>

(* A suitable hadith, as an APPROVED item with one source. *)
importHadith(c, h) == createApproved(c, h) \/ CreateFailed(c, h)

(* The loop ends when the count is used up. *)
saveCursor(c) ==
  /\ at[c] = "save"
  /\ saved' = cursor[c]
  /\ IF left[c] = 0 THEN Finish(c)
     ELSE Goto(c, "walk") /\ UNCHANGED <<ids, cursor, cache, left, empties, made>>
  /\ UNCHANGED <<listing, live, events, history>>

CallStep(c) ==
  \/ getCategoryTree(c) \/ loadCursor(c) \/ Throw(c)
  \/ getHadeethsPage(c) \/ PageFailed(c) \/ Classify(c)
  \/ getHadeethsMultiple(c) \/ SkipPage(c) \/ GiveUp(c)
  \/ \E h \in Hadiths : Skip(c, h) \/ importHadith(c, h)
  \/ saveCursor(c)

-----------------------------------------------------------------------------
(* Around it.                                                              *)

(* The process stops; calls in flight are lost, rows and cursor stay. *)
Restart ==
  /\ Event(1)
  /\ \E c \in Calls : at[c] # "idle"
  /\ at' = [c \in Calls |-> "idle"]
  /\ ids' = [c \in Calls |-> {}]
  /\ cursor' = [c \in Calls |-> Position(NoCategory)]
  /\ cache' = [c \in Calls |-> <<>>]
  /\ left' = [c \in Calls |-> 0]
  /\ empties' = [c \in Calls |-> 0]
  /\ made' = [c \in Calls |-> {}]
  /\ UNCHANGED <<listing, saved, live, history>>

Archive(h) ==
  /\ live[h] > 0
  /\ Event(1)
  /\ live' = [live EXCEPT ![h] = @ - 1]
  /\ UNCHANGED <<listing, saved, call, history>>

(* HadeethEnc adds, moves or removes categories and hadiths. *)
ChangeListing ==
  /\ Event(1)
  /\ listing' \in Catalogues \ {listing}
  /\ changed' = TRUE
  /\ UNCHANGED <<saved, live, call, imported, reported, raced>>

Next ==
  \/ \E c \in Calls : Begin(c) \/ CallStep(c)
  \/ Restart
  \/ \E h \in Hadiths : Archive(h)
  \/ ChangeListing

(* Requests time out and queries end, so a call never stops half-way.  No  *)
(* one has to call importNext.                                             *)
Spec == Init /\ [][Next]_vars /\ \A c \in Calls : WF_vars(CallStep(c))

-----------------------------------------------------------------------------
(* Types.                                                                  *)

Positions == [category : Nat, page : Nat, item : Nat]

Kinds == {"no-english", "duplicate", "needs-detail"}

Pages == [rows    : Seq(Hadiths),
          last    : Nat,
          class   : UNION {[s -> Kinds] : s \in SUBSET Hadiths},
          details : SUBSET Hadiths]

(* analyzePage works on a page that the cache holds, and on a row of it.   *)
Analyzes(c) ==
  /\ at[c] \in {"classify", "details"} => Cached(c)
  /\ at[c] = "classify" => Unclassified(Page(c), cursor[c].item) # {}

RowsTypeOK ==
  /\ listing \in Catalogues
  /\ saved \in Positions
  /\ live \in [Hadiths -> Nat]
  /\ events \in 0..MaxEvents
  /\ changed \in BOOLEAN
  /\ imported \in SUBSET Hadiths
  /\ reported \in SUBSET Hadiths
  /\ raced \in SUBSET Hadiths

CallTypeOK ==
  /\ at \in [Calls -> {"idle", "tree", "cursor", "walk", "classify", "details", "save"}]
  /\ ids \in [Calls -> SUBSET (Nat \ {0})]
  /\ cursor \in [Calls -> Positions]
  /\ left \in [Calls -> Nat]
  /\ empties \in [Calls -> Nat]
  /\ made \in [Calls -> SUBSET Hadiths]

CacheTypeOK ==
  /\ DOMAIN cache = Calls
  /\ \A c \in Calls : \A k \in DOMAIN cache[c] : cache[c][k] \in Pages

TypeOK ==
  /\ RowsTypeOK
  /\ CallTypeOK
  /\ CacheTypeOK
  /\ \A c \in Calls : Analyzes(c)

-----------------------------------------------------------------------------
(* Properties.                                                             *)

(* A hadith listed in several categories, met again on a later lap, or met *)
(* again after a restart between its creation and the saving of the cursor *)
(* has one live item, unless two calls both found it missing before either *)
(* created it, or one call went all round on its cached pages: no          *)
(* constraint of the database backs the check.                             *)
ImportedOnce == \A h \in Hadiths : live[h] > 1 => h \in raced

(* Why: only what was missing gets details, and a hadith a call means to   *)
(* import is missing still, unless it was created meanwhile: by that call  *)
(* or by another, which has raced with it.                                 *)
Means(c, h) == \E k \in DOMAIN cache[c] : h \in NeedsDetail(cache[c][k])

OnceInv ==
  /\ \A c \in Calls : \A k \in DOMAIN cache[c] :
       cache[c][k].details \subseteq NeedsDetail(cache[c][k])
  /\ \A c \in Calls, h \in Hadiths :
       Means(c, h) /\ live[h] > 0 => h \in raced \cup made[c]
  /\ ImportedOnce

Before(p, q) ==
  \/ p.category < q.category
  \/ p.category = q.category /\ p.page < q.page
  \/ p.category = q.category /\ p.page = q.page /\ p.item < q.item

(* The positions of the hadiths of the catalogue in force. *)
Places ==
  UNION {UNION {{[category |-> i, page |-> p, item |-> n - 1] :
                   n \in DOMAIN listing[i].pages[p]} :
                 p \in DOMAIN listing[i].pages} :
         i \in flattenCategoryIds}

Dealt(h) == h \in imported \cup reported \cup Untranslated \cup Blank \cup Weak

(* The saved cursor never lies beyond a hadith that was neither imported,  *)
(* nor unsuitable, nor reported as an error, whatever failed or restarted  *)
(* and however two calls overwrite each other's cursor - as long as        *)
(* HadeethEnc's listing stays as it is.                                    *)
NothingSkipped ==
  ~changed =>
    \A p \in Places : Before(p, saved) =>
      Dealt(listing[p.category].pages[p.page][p.item + 1])

(* Why: a page is classified for good reason; and while the listing stays  *)
(* the same, so do the categories and pages that a call has read, and      *)
(* nothing before any call's cursor is left to do.                         *)
Covered(q) ==
  \A p \in Places : Before(p, q) =>
    Dealt(listing[p.category].pages[p.page][p.item + 1])

ClassInv ==
  /\ \A h \in Hadiths : live[h] > 0 => h \in imported
  /\ \A c \in Calls : \A k \in DOMAIN cache[c] : \A h \in DOMAIN cache[c][k].class :
       /\ cache[c][k].class[h] = "no-english" => h \in Untranslated
       /\ cache[c][k].class[h] = "duplicate" => h \in imported

Current(c) ==
  /\ at[c] \notin {"idle", "tree"} => ids[c] = flattenCategoryIds
  /\ \A k \in DOMAIN cache[c] :
       /\ cache[c][k].rows = Rows(k[1], k[2])
       /\ cache[c][k].last = LastPage(k[1])

CursorInv ==
  ~changed =>
    /\ Covered(saved)
    /\ \A c \in Calls : Covered(cursor[c]) /\ Current(c)

(* importNext always answers: unless new calls keep coming, all of them    *)
(* end - even when HadeethEnc counts hadiths in categories whose pages are *)
(* all empty, and the walk goes round without ever using up its count.     *)
CallsEnd ==
  []<>(\E c \in Calls : at[c] = "tree") \/ <>[](\A c \in Calls : at[c] = "idle")

(* As long as somebody keeps importing, every hadith that stays listed is  *)
(* dealt with sooner or later, although categories appear and disappear    *)
(* under the cursor and calls overwrite each other's.                      *)
EverythingReached ==
  []<>(\E c \in Calls : at[c] = "tree") => <>[](\A h \in Listed : Dealt(h))
=============================================================================
