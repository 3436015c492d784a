--------------------------- MODULE MCSlackMessage ---------------------------
EXTENDS SlackMessage

Alphabet == {"x", "&", " ", "\n", "."}

(* Every text of up to three characters, and of four with fewer kinds of   *)
(* them; escaped, up to twenty.                                            *)
Texts == UNION {[1..n -> Alphabet] : n \in 1..3} \cup [1..4 -> {"x", "&", " "}]

MCCharacters == Literals \cup {"x", ".", "^", "e", "h", "t", "v"}

Words == <<"x", "x", "^", " ", "x", ".", " ", "x", "^", "x", "\n", "x", "x", "\n", "\n", "x",
           " ", "x", "x", "x", " ", "x", "&", "x", " ", "x", "x", ".", " ", "x", "x", "x">>

Item(type, payload, list) == [type |-> type, payload |-> payload, sources |-> list]

Source(title, url) ==
  [title |-> title, author |-> <<>>, volume |-> <<"v">>, page |-> <<"p">>,
   referenceNumber |-> <<>>, url |-> url]

Cited == <<Source(<<"t">>, <<"h">>)>>

(* The limit of a named tafsir is five, the length of an entity. *)
Tafsirs ==
  {Item("AYAH", [arabicText |-> <<"x">>, conciseTafsir |-> t, tafsirResourceName |-> <<"x">>], <<>>) :
     t \in Texts}
  \cup {Item("AYAH", [conciseTafsir |-> Words, tafsirResourceName |-> <<name>>], Cited) :
     name \in {"x", "&"}}

Value(type, f, long) ==
  LET t == IF f = long THEN Words ELSE <<"x">> IN
  IF f \notin PayloadDto[type].lists THEN (IF f \in PayloadDto[type].short THEN <<"x">> ELSE t)
  ELSE IF f = "wordMeanings" THEN <<<<<<"x">>, <<"&">>>>, <<<<"x">>, <<>>>>>>
  ELSE <<t, <<" ">>, <<"x">>>>

(* Items with every field, one of them long, or none. *)
Filled ==
  UNION {LET fields == PayloadDto[type].short \cup PayloadDto[type].long
                         \cup PayloadDto[type].lists IN
         {Item(type, [f \in fields |-> Value(type, f, long)], Cited) :
            long \in fields \cup {"none"}}
         : type \in DOMAIN PayloadDto}

Numbered ==
  {Item("AYAH", [arabicText |-> <<"x">>, surahNumber |-> s, ayahNumber |-> a,
                 surahNameEnglish |-> <<"e">>], Cited) : s \in {0, 1, 2}, a \in {0, 1, 2}}

(* Nothing in the payload; citations too long for one block, and addresses *)
(* that cannot be linked; a draft whose source has only a blank title.     *)
Bare ==
  {Item(type, [f \in {} |-> <<>>], list) :
     type \in DOMAIN PayloadDto,
     list \in {<<>>, <<Source(Words, <<"h", "&">>), Source(<<"t">>, <<"h", "|">>)>>,
               <<Source(<<"t", "|">>, <<"h">>)>>,
               <<[f \in {"title", "author", "volume", "page", "referenceNumber", "url"} |->
                    IF f = "title" THEN <<" ">> ELSE <<>>]>>}}

MCContents == Tafsirs \cup Filled \cup Numbered \cup Bare
=============================================================================
