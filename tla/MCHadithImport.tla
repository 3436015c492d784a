--------------------------- MODULE MCHadithImport ---------------------------
EXTENDS HadithImport, TLC

CONSTANTS h1, h2, weak

MCCalls == {1, 2}
MCHadiths == {h1, h2, weak}

(* h2 is tagged into two categories; category 4 counts nothing. *)
Full == 1 :> [count |-> 3, pages |-> <<<<h1>>, <<h2>>>>]
        @@ 2 :> [count |-> 2, pages |-> <<<<h2, weak>>>>]
        @@ 4 :> [count |-> 0, pages |-> <<<<h1>>>>]

(* Hadiths are counted, but no page shows them; category 3 is only here. *)
Hollow == 1 :> [count |-> 1, pages |-> <<<<>>>>]
          @@ 3 :> [count |-> 2, pages |-> <<>>]

MCCatalogues == {Full, Hollow}
=============================================================================
