---------------------------- MODULE MCRestoreSwap ----------------------------
(***************************************************************************)
(* Two restores one after the other; three steps that fail: a failure, one *)
(* in its rollback and one in the reload after it, which takes the process *)
(* out of service; two crashes, one in the recovery from the other.        *)
(***************************************************************************)
EXTENDS RestoreSwap
=============================================================================
