------------------------------ MODULE MCLinkJobs ------------------------------
(***************************************************************************)
(* An operation with a key, requests without one, and fewer slots than     *)
(* jobs.                                                                   *)
(***************************************************************************)
EXTENDS LinkJobs
=============================================================================
