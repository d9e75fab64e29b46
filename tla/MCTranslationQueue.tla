------------------------- MODULE MCTranslationQueue -------------------------
(***************************************************************************)
(* TranslationQueue for TLC: two kinds of behaviour.  In the first,        *)
(* everything happens, to one save; in the second, saves overtake one      *)
(* another and each gets to its enqueue.                                   *)
(***************************************************************************)
EXTENDS TranslationQueue

AnythingGoes == [may |-> EventKind, edits |-> 1, upsets |-> 2]
TextsInStep ==
    [may |-> {"crash", "error", "quota", "doubt", "person", "delete", "retry", "backfill"},
     edits |-> 2, upsets |-> 3]
Both == {AnythingGoes, TextsInStep}
=============================================================================
