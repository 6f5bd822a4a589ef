---------------------------- MODULE MCIncidents ----------------------------
(***************************************************************************)
(* Small instances of Incidents.                                           *)
(***************************************************************************)
EXTENDS Incidents, TLC

CONSTANTS a, b

OneTask  == <<a>>
=============================================================================
