------------------------- MODULE MCTranslationJournal -------------------------
(***************************************************************************)
(* Two clients, three translations, two originals.                         *)
(***************************************************************************)
EXTENDS TranslationJournal
=============================================================================
