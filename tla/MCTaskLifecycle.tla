--------------------------- MODULE MCTaskLifecycle ---------------------------
(***************************************************************************)
(* Two users with one book each: the first queues a download, the second a *)
(* translation, each of two chapters; a download fetches both at once      *)
(* where Concurrency is 2.                                                 *)
(***************************************************************************)
EXTENDS TaskLifecycle

CONSTANTS alice, bob, novel, comic

MCOwners == {alice, bob}
MCBooks == {novel, comic}

MCBookOf == <<novel, comic>>
MCOwnerOf == <<alice, bob>>
MCKind == <<"download", "translate">>
MCSelected == <<{1, 2}, {1, 2}>>
=============================================================================
