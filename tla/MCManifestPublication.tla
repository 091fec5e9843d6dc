----------------------- MODULE MCManifestPublication -----------------------
(***************************************************************************)
(* A book imported with two chapters, to which a check may add a third.    *)
(***************************************************************************)
EXTENDS ManifestPublication
=============================================================================
