---------------------------- MODULE SlackMessage ----------------------------
(***************************************************************************)
(* From an approved item to the messages stored for it: the renderers of   *)
(* src/slack/renderers as sequences of builder calls, SlackMessageBuilder  *)
(* carrying them out, and the three callers: the delivery run, the instant *)
(* commands and the preview.                                               *)
(*                                                                         *)
(* Rendering is one synchronous call; a step here is one builder call, or  *)
(* one turn of the loop of splitEscapedText.                               *)
(***************************************************************************)
EXTENDS SlackText

CONSTANTS
  Contents,      \* items to render: type, payload and sources
  SectionLimit,  \* SECTION_TEXT_LIMIT
  MaxBlocks,     \* MAX_BLOCKS
  SoftBudget,    \* SOFT_MESSAGE_BUDGET
  ShortMax,      \* SHORT_TEXT_MAX_LENGTH
  LongMax        \* LONG_TEXT_MAX_LENGTH

VARIABLES
  item,      \* the content item
  purpose,   \* "run", "instant" or "preview"
  english,   \* the locale of the render at hand is en
  todo,      \* builder calls to come
  lead,      \* label line that goes before the next piece
  rest,      \* text of the call at hand not emitted yet
  kind,      \* block type of the call at hand
  limit,     \* longest piece of it
  blocks, warnings, visible,
  stage,     \* "calls", "split", "built", or how it ended
  stored,    \* messages stored or posted: their locale and blocks
  renders    \* the builder calls of a render and the item's warnings, by whether it is in en

builder == <<todo, lead, rest, kind, limit, blocks, warnings, visible>>
renderVars == <<item, purpose, english, builder, stage, stored, renders>>

-----------------------------------------------------------------------------
(* The payloads.  A field a payload lacks is absent; the parts of the      *)
(* reason for revelation are fields of their own, and sababScope is the    *)
(* sentence its boolean stands for.                                        *)

AyahPayloadDto ==
  [short |-> {"surahNameArabic", "surahNameEnglish", "tafsirResourceName"},
   long |-> {"arabicText", "translation", "conciseTafsir", "sababSummary",
             "sababScope", "sababNote", "reflection", "practicalAction"},
   lists |-> {"wordMeanings"}]

HadithPayloadDto ==
  [short |-> {"narrator", "collection", "book", "hadithNumber", "grade", "grader"},
   long |-> {"arabicText", "translation", "conciseExplanation",
             "conciseExplanationTranslation", "reflection", "practicalAction"},
   lists |-> {"lessons", "lessonsTranslation"}]

CompanionStoryPayloadDto ==
  [short |-> {"title", "companionName", "arabicName"},
   long |-> {"story", "historicalContext", "reflection", "practicalAction"},
   lists |-> {"lessons"}]

BlessingReminderPayloadDto ==
  [short |-> {"title", "relatedAyahReference", "relatedHadithReference"},
   long |-> {"body", "reflection", "gratitudeAction"},
   lists |-> {"examples"}]

PayloadDto == [AYAH |-> AyahPayloadDto, HADITH |-> HadithPayloadDto,
               COMPANION_STORY |-> CompanionStoryPayloadDto,
               BLESSING_REMINDER |-> BlessingReminderPayloadDto]

(* The numbers of an ayah are 0 when absent. *)
Numbers == {"surahNumber", "ayahNumber"}

IsText(t, longest) == t \in Text /\ Len(t) <= longest

ValidField(dto, f, x) ==
  \/ f \in dto.short /\ IsText(x, ShortMax)
  \/ f \in dto.long /\ IsText(x, LongMax)
  \/ /\ f \in dto.lists \ {"wordMeanings"}
     /\ x \in Seq(Text) /\ \A i \in DOMAIN x : IsText(x[i], LongMax)
  \/ /\ f \in dto.lists \cap {"wordMeanings"}
     /\ x \in Seq(Text \X Text)
     /\ \A i \in DOMAIN x : Len(x[i][1]) <= ShortMax /\ Len(x[i][2]) <= ShortMax
  \/ f \in Numbers /\ x \in Nat

RenderableSource ==
  [title : Text, author : Text, volume : Text, page : Text, referenceNumber : Text, url : Text]

Valid(c) ==
  /\ c.type \in DOMAIN PayloadDto
  /\ \A f \in DOMAIN c.payload : ValidField(PayloadDto[c.type], f, c.payload[f])
  /\ c.sources \in Seq(RenderableSource)

(* The longest label is the one that names a tafsir; what it leaves of a   *)
(* section takes an entity.                                                *)
ASSUME MessageAssumption ==
  /\ \A c \in Contents : Valid(c)
  /\ ShortMax \in Nat /\ LongMax \in Nat
  /\ SectionLimit \in Nat /\ SectionLimit >= ShortMax + 4 + 4 + 5
  /\ MaxBlocks \in Nat \ {0}
  /\ SoftBudget \in Nat

-----------------------------------------------------------------------------
(* The renderers.  Every label the application writes is one character.    *)

Labelling == <<"L">>

Field(p, f) == IF f \in DOMAIN p THEN p[f] ELSE <<>>

Number(p, f) == IF f \in DOMAIN p THEN p[f] ELSE 0

Header == Call("header", <<>>, <<"H">>, 1)

Dash == <<" ", "-", " ">>

formatQuranReference(p) ==
  LET surah == IF hasText(Field(p, "surahNameArabic")) THEN Field(p, "surahNameArabic")
               ELSE IF Number(p, "surahNumber") # 0 THEN <<"s">> ELSE <<>>
      ayah == IF Number(p, "ayahNumber") # 0 THEN <<"a">> ELSE <<>>
      reference == joinParts(<<surah, ayah>>, Dash)
      name == Field(p, "surahNameEnglish")
  IN IF reference = <<>> \/ ~hasText(name) THEN reference
     ELSE reference \o <<" ", "(">> \o name \o <<")">>

(* Every surah but the first and the ninth opens with the Basmala. *)
showsBasmala(p) == Number(p, "ayahNumber") = 1 /\ Number(p, "surahNumber") \notin {0, 1, 9}

(* The translation when the reader's locale is en and there is one. *)
Localized(p, en, f, translated) ==
  IF en /\ hasText(Field(p, translated)) THEN Field(p, translated) ELSE Field(p, f)

TafsirLabel(p) ==
  LET name == Field(p, "tafsirResourceName") IN
  IF hasText(name) THEN Labelling \o <<" ", "(">> \o name \o <<")">> ELSE Labelling

(* Half an entry is no entry. *)
WordMeaning(e) ==
  IF hasText(e[1]) /\ hasText(e[2]) THEN <<e[1] \o Dash \o e[2]>> ELSE <<>>

wordMeanings(p) ==
  LET entries == Field(p, "wordMeanings") IN
  FlattenSeq([i \in DOMAIN entries |-> WordMeaning(entries[i])])

sababAlNuzul(p) ==
  IF ~hasText(Field(p, "sababSummary")) THEN <<>>
  ELSE joinParts(<<Field(p, "sababSummary"), Field(p, "sababScope"),
                   Field(p, "sababNote")>>, <<"\n">>)

textList(p, f) == present(Field(p, f))

Ayah(p, en) ==
  section(IF showsBasmala(p) THEN <<"b">> ELSE <<>>)
  \o section(Localized(p, en, "arabicText", "translation"))
  \o context(formatQuranReference(p))
  \o labelled(Labelling, IF en THEN <<>> ELSE Field(p, "translation"))
  \o labelled(TafsirLabel(p), Field(p, "conciseTafsir"))
  \o bullets(Labelling, IF en THEN wordMeanings(p) ELSE <<>>)
  \o labelled(Labelling, sababAlNuzul(p))
  \o labelled(Labelling, Field(p, "reflection"))
  \o labelled(Labelling, Field(p, "practicalAction"))

(* The citation of a hadith: its narrator, and where it is recorded. *)
HadithReference(p) ==
  LET number == Field(p, "hadithNumber") IN
  joinParts(<<Field(p, "narrator"),
              joinParts(<<Field(p, "collection"), Field(p, "book"),
                          IF hasText(number) THEN <<"n", " ">> \o number ELSE <<>>>>,
                        <<",", " ">>)>>, Dash)

(* Without a grade the grader is not named. *)
Grade(p) ==
  IF hasText(Field(p, "grade"))
  THEN joinParts(<<Field(p, "grade"), Field(p, "grader")>>, Dash) ELSE <<>>

Lessons(p, en) ==
  IF en /\ textList(p, "lessonsTranslation") # <<>>
  THEN textList(p, "lessonsTranslation") ELSE textList(p, "lessons")

Hadith(p, en) ==
  section(Localized(p, en, "arabicText", "translation"))
  \o context(HadithReference(p))
  \o labelled(Labelling, Grade(p))
  \o labelled(Labelling, IF en THEN <<>> ELSE Field(p, "translation"))
  \o labelled(Labelling,
              Localized(p, en, "conciseExplanation", "conciseExplanationTranslation"))
  \o bullets(Labelling, Lessons(p, en))
  \o labelled(Labelling, Field(p, "reflection"))
  \o labelled(Labelling, Field(p, "practicalAction"))

CompanionStory(p) ==
  section(Field(p, "title"))
  \o context(joinParts(<<Field(p, "companionName"), Field(p, "arabicName")>>, Dash))
  \o section(Field(p, "story"))
  \o labelled(Labelling, Field(p, "historicalContext"))
  \o bullets(Labelling, textList(p, "lessons"))
  \o labelled(Labelling, Field(p, "reflection"))
  \o labelled(Labelling, Field(p, "practicalAction"))

BlessingReminder(p) ==
  section(Field(p, "title"))
  \o section(Field(p, "body"))
  \o bullets(Labelling, textList(p, "examples"))
  \o labelled(Labelling, Field(p, "reflection"))
  \o labelled(Labelling, Field(p, "gratitudeAction"))
  \o context(joinParts(<<Field(p, "relatedAyahReference"),
                         Field(p, "relatedHadithReference")>>, <<" ", MiddleDot, " ">>))

(* What a message of each type consists of; a payload without fields says  *)
(* no more than its sources.                                               *)
Calls(c, en) ==
  Header
  \o (CASE c.type = "AYAH" -> Ayah(c.payload, en)
        [] c.type = "HADITH" -> Hadith(c.payload, en)
        [] c.type = "COMPANION_STORY" -> CompanionStory(c.payload)
        [] c.type = "BLESSING_REMINDER" -> BlessingReminder(c.payload))
  \o sources(c.sources)

(* The text a sequence of calls, or of blocks, puts on the screen. *)
TextOfCalls(list) ==
  FlattenSeq([i \in DOMAIN list |-> LabelLine(list[i].label) \o list[i].body])

TextOf(bs) == FlattenSeq([i \in DOMAIN bs |-> bs[i].text])

Primary(c, en) ==
  CASE c.type \in {"AYAH", "HADITH"} ->
         Localized(c.payload, en, "arabicText", "translation")
    [] c.type = "COMPANION_STORY" -> Field(c.payload, "story")
    [] c.type = "BLESSING_REMINDER" -> Field(c.payload, "body")

(* The warnings that depend on the item alone. *)
ContentWarnings(c, en) ==
  {w \in {"MISSING_PRIMARY_TEXT", "NO_SOURCES", "URL_NOT_LINKABLE"} :
     \/ w = "MISSING_PRIMARY_TEXT" /\ ~hasText(Primary(c, en))
     \/ w = "NO_SOURCES" /\ c.sources = <<>>
     \/ w = "URL_NOT_LINKABLE" /\ \E i \in DOMAIN c.sources :
          hasText(c.sources[i].url) /\ ~Linked(c.sources[i])}

-----------------------------------------------------------------------------
(* SlackMessageBuilder.                                                    *)

RenderInit ==
  /\ item \in Contents
  /\ purpose \in {"run", "instant", "preview"}
  /\ english \in BOOLEAN
  /\ renders = [en \in BOOLEAN |-> [calls |-> Calls(item, en),
                                    warnings |-> ContentWarnings(item, en)]]
  /\ todo = renders[english].calls
  /\ lead = <<>> /\ rest = <<>>
  /\ kind = "header"
  /\ limit = SectionLimit
  /\ blocks = <<>>
  /\ warnings = renders[english].warnings
  /\ visible = 0
  /\ stage = "calls"
  /\ stored = <<>>

(* Mutant: the length of a label is not taken off. *)
UnlabelledLimit(label) == SectionLimit

(* What is left for the first piece after the label line, whose two stars, *)
(* line end and one more are counted - but not what escaping adds.         *)
PieceLimit(label) ==
  IF label = <<>> THEN SectionLimit ELSE SectionLimit - Len(label) - 4

StartCall ==
  /\ stage = "calls"
  /\ todo # <<>>
  /\ LET c == Head(todo) IN
       /\ lead' = LabelLine(c.label)
       /\ rest' = c.body
       /\ kind' = c.block
       /\ limit' = PieceLimit(c.label)
       /\ visible' = visible + c.size
  /\ todo' = Tail(todo)
  /\ stage' = "split"
  /\ UNCHANGED <<item, purpose, english, blocks, warnings, stored, renders>>

Push(piece) == blocks' = Append(blocks, [block |-> kind, text |-> lead \o piece])

(* Mutant: the character at the cut is taken for a separator. *)
SplitDropping ==
  /\ stage = "split"
  /\ Len(rest) > limit
  /\ LET cut == SafeCut(rest, limit) IN
       /\ Push(SubSeq(rest, 1, cut - 1))
       /\ rest' = SubSeq(rest, cut + 1, Len(rest))
  /\ lead' = <<>>
  /\ warnings' = IF kind = "section" THEN warnings \cup {"SECTION_SPLIT"} ELSE warnings
  /\ UNCHANGED <<item, purpose, english, todo, kind, limit, visible, stage, stored, renders>>

(* One turn of the loop of splitEscapedText.  Sections warn of the split,  *)
(* context lines and sources do not.                                       *)
Split ==
  /\ stage = "split"
  /\ Len(rest) > limit
  /\ LET cut == SafeCut(rest, limit) IN
       /\ Push(SubSeq(rest, 1, cut))
       /\ rest' = SubSeq(rest, cut + 1, Len(rest))
  /\ lead' = <<>>
  /\ warnings' = IF kind = "section" THEN warnings \cup {"SECTION_SPLIT"} ELSE warnings
  /\ UNCHANGED <<item, purpose, english, todo, kind, limit, visible, stage, stored, renders>>

LastPiece ==
  /\ stage = "split"
  /\ Len(rest) <= limit
  /\ Push(rest)
  /\ rest' = <<>>
  /\ lead' = <<>>
  /\ stage' = "calls"
  /\ UNCHANGED <<item, purpose, english, todo, kind, limit, warnings, visible, stored, renders>>

(* Mutant: the surplus blocks go without a warning. *)
BuildSilently ==
  /\ stage = "calls"
  /\ todo = <<>>
  /\ stage' = "built"
  /\ blocks' = SubSeq(blocks, 1, Min({MaxBlocks, Len(blocks)}))
  /\ UNCHANGED <<item, purpose, english, todo, lead, rest, kind, limit, warnings, visible, stored, renders>>

build ==
  /\ stage = "calls"
  /\ todo = <<>>
  /\ stage' = "built"
  /\ blocks' = SubSeq(blocks, 1, Min({MaxBlocks, Len(blocks)}))
  /\ warnings' = warnings
       \cup {w \in {"BLOCK_COUNT"} : Len(blocks) > MaxBlocks}
       \cup {w \in {"SOFT_BUDGET"} : visible > SoftBudget}
  /\ UNCHANGED <<item, purpose, english, todo, lead, rest, kind, limit, visible, stored, renders>>

-----------------------------------------------------------------------------
(* The callers.                                                            *)

SEND_BLOCKING_WARNINGS == {"BLOCK_COUNT", "SECTION_SPLIT"}

Blocked == warnings \cap SEND_BLOCKING_WARNINGS # {}

Message == [english |-> english, blocks |-> blocks]

End(how) ==
  /\ stage' = how
  /\ UNCHANGED <<item, purpose, english, builder, stored, renders>>

(* createRun skips the cycle: the canonical render exceeds Slack's limits. *)
SkipRun ==
  /\ stage = "built"
  /\ purpose = "run"
  /\ stored = <<>>
  /\ Blocked
  /\ End("skipped")

(* The canonical render fits; the item is rendered once more, in en. *)
RenderEnglish ==
  /\ stage = "built"
  /\ purpose = "run"
  /\ stored = <<>>
  /\ ~Blocked
  /\ stored' = <<Message>>
  /\ english' = TRUE
  /\ todo' = renders[TRUE].calls
  /\ blocks' = <<>>
  /\ warnings' = renders[TRUE].warnings
  /\ visible' = 0
  /\ stage' = "calls"
  /\ UNCHANGED <<item, purpose, lead, rest, kind, limit, renders>>

(* Whatever its warnings, the en render is stored with the run. *)
CreateRun ==
  /\ stage = "built"
  /\ purpose = "run"
  /\ stored # <<>>
  /\ stored' = Append(stored, Message)
  /\ stage' = "stored"
  /\ UNCHANGED <<item, purpose, english, builder, renders>>

(* An instant command answers that the item is too large. *)
RefuseInstant ==
  /\ stage = "built"
  /\ purpose = "instant"
  /\ Blocked
  /\ End("refused")

PostInstant ==
  /\ stage = "built"
  /\ purpose = "instant"
  /\ ~Blocked
  /\ stored' = <<Message>>
  /\ stage' = "posted"
  /\ UNCHANGED <<item, purpose, english, builder, renders>>

(* The preview shows any item, with its warnings. *)
Preview ==
  /\ stage = "built"
  /\ purpose = "preview"
  /\ End("shown")

RenderNext ==
  \/ StartCall \/ Split \/ LastPiece \/ build
  \/ SkipRun \/ RenderEnglish \/ CreateRun
  \/ RefuseInstant \/ PostInstant \/ Preview

RenderSpec == RenderInit /\ [][RenderNext]_renderVars

-----------------------------------------------------------------------------
(* Properties.                                                             *)

(* Until the blocks are counted nothing is dropped: what has been emitted, *)
(* what is being split and what is to come make up the message, character  *)
(* by character.                                                           *)
NothingDropped ==
  stage \in {"calls", "split"} =>
    TextOf(blocks) \o lead \o rest \o TextOfCalls(todo)
      = TextOfCalls(renders[english].calls)

(* A label that escaping makes longer. *)
LabelGrows ==
  LET label == TafsirLabel(item.payload) IN escapeSlackText(label) # label

(* Every block fits Slack's limit, label and all - unless the name of the  *)
(* tafsir in a label has characters to escape, which the limit ignores.    *)
BlocksFit == \A i \in DOMAIN blocks : Len(blocks[i].text) <= SectionLimit \/ LabelGrows

Entities == {Entity(ch) : ch \in {"&", "<", ">"}}

(* An entity of t begins at or before its cutth character and ends after.  *)
Divides(t, cut) ==
  \E e \in Entities, i \in 1..cut :
    /\ i + Len(e) - 1 \in (cut + 1)..Len(t)
    /\ \A k \in 1..Len(e) : t[i + k - 1] = e[k]

(* No split step divides an entity between two blocks, be it one that the  *)
(* escaping made or one that stands in the address of a link.              *)
EntitiesWhole ==
  [][stage = "split" /\ rest' # <<>> => ~Divides(rest, Len(rest) - Len(rest'))]_renderVars

(* A word is divided only when the piece before the cut is one word: a     *)
(* split step that leaves a word's other half as rest found no whitespace  *)
(* in the window, but at its very start.                                   *)
WordsWhole ==
  [][/\ stage = "split"
     /\ rest' # <<>>
     /\ rest'[1] \notin Whitespace
     => LET piece == SubSeq(rest, 1, Len(rest) - Len(rest')) IN
        \/ piece[Len(piece)] \in Whitespace
        \/ \A i \in 2..limit : rest[i] \notin Whitespace]_renderVars

Of(type, list) == Cardinality({i \in DOMAIN list : list[i].block = type})

(* What a run stores as its canonical message, and what an instant command *)
(* posts, is complete: no block is missing and no section was split.       *)
Complete(en, sent) ==
  /\ TextOf(sent) = TextOfCalls(renders[en].calls)
  /\ Of("section", sent) = Of("section", renders[en].calls)

SentIsComplete == stored # <<>> => Complete(stored[1].english, stored[1].blocks)

(* splitEscapedText may be asked for pieces of any size.  However small a  *)
(* limit, and wherever in a text its loop stands, a turn of it cuts off at *)
(* least one character and no more than fit: in a window too small for an  *)
(* entity stepping back before it leaves nothing, and the loop would spin. *)
SplitAdvances == \A n \in 1..(Len(rest) - 1) : SafeCut(rest, n) \in 1..n

-----------------------------------------------------------------------------
(* The inductive invariant of the proofs.                                  *)

BlockTypes == {"header", "section", "context"}

LabelsOf(c) == {<<>>, Labelling, TafsirLabel(c.payload)}

CallsOf(c) == [block : BlockTypes, label : LabelsOf(c), body : Text, size : Nat]

Block == [block : BlockTypes, text : Text]

RenderTypeOK ==
  /\ item \in Contents
  /\ english \in BOOLEAN
  /\ \A en \in BOOLEAN : renders[en].calls \in Seq(CallsOf(item))
  /\ todo \in Seq(CallsOf(item))
  /\ lead \in Text /\ rest \in Text
  /\ kind \in BlockTypes
  /\ limit \in Nat
  /\ blocks \in Seq(Block)
  /\ stage \in {"calls", "split", "built", "skipped", "stored", "refused", "posted", "shown"}
  /\ stored \in Seq([english : BOOLEAN, blocks : Seq(Block)])

(* Nothing is left over between two calls; a piece and what stands before  *)
(* it have room in a block, an entity has room in a piece.                 *)
SplitBounds ==
  /\ stage # "split" => lead = <<>> /\ rest = <<>>
  /\ stage = "split" => /\ limit \in 5..SectionLimit
                        /\ Len(lead) + limit <= SectionLimit \/ LabelGrows

(* While no section has been split, each call makes the sections it asks.  *)
SectionsCounted ==
  stage \in {"calls", "split"} /\ "SECTION_SPLIT" \notin warnings =>
    Of("section", renders[english].calls)
      = Of("section", blocks) + Of("section", todo)
          + (IF stage = "split" /\ kind = "section" THEN 1 ELSE 0)

BuiltIsComplete == stage = "built" /\ ~Blocked => Complete(english, blocks)

RenderInv ==
  /\ RenderTypeOK /\ SplitBounds /\ NothingDropped /\ BlocksFit
  /\ SectionsCounted /\ BuiltIsComplete /\ SentIsComplete
=============================================================================
