---------------------------- MODULE MCQuranImport ----------------------------
EXTENDS QuranImport, TLC

MCCalls == {1, 2}

(* A call of two verses, and one of a single verse beside it. *)
MCBatch == <<2, 1>>

MCAyahCounts == <<1, 1>>

=============================================================================
