--------------------------- MODULE MCBackendUpdate ---------------------------
(***************************************************************************)
(* Two commits upstream, the second of which may come between the check    *)
(* and the update and the first of which installs a release that is not    *)
(* healthy; an accepted update, and two mishaps: steps that fail, deaths   *)
(* of the updater or the machine, ends of the service, runs by hand.       *)
(***************************************************************************)
EXTENDS BackendUpdate

CONSTANTS config, units

MCArtifacts == {config, units}
=============================================================================
