---------------------------- MODULE MCChapterCache ----------------------------
(***************************************************************************)
(* A novel the server caches whole and a comic cached as it is read, whose *)
(* workers share the slot; requests that meet on a chapter or push another *)
(* aside; one of the books may be deleted.                                 *)
(***************************************************************************)
EXTENDS ChapterCache, TLC

CONSTANTS novel, comic, r1, r2

MCBooks == {novel, comic}
MCChapters == (novel :> {1, 2}) @@ (comic :> {1})
MCReaders == {r1, r2}
MCOneReader == {r1}
MCSymmetry == Permutations(MCReaders)
MCManaged == {novel}
MCNovel == {novel}
MCComic == {comic}
=============================================================================
