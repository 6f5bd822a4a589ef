----------------------------- MODULE MCStaging -----------------------------
(***************************************************************************)
(* A small instance of Staging: two tasks that both may write two files.   *)
(***************************************************************************)
EXTENDS Staging

CONSTANTS t1, t2, p1, p2, visitor
=============================================================================
