---------------------------- MODULE MCAcceptance ----------------------------
(* Small instances of Acceptance.                                          *)
EXTENDS Acceptance

CONSTANTS a, b, dispatcher, hook
=============================================================================
