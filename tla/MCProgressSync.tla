---------------------------- MODULE MCProgressSync ----------------------------
(***************************************************************************)
(* Two devices.                                                            *)
(***************************************************************************)
EXTENDS ProgressSync
=============================================================================
