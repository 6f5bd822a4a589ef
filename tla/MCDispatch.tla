----------------------------- MODULE MCDispatch -----------------------------
(***************************************************************************)
(* Dispatch with two reservations of the run, the second made by the first *)
(* one's completion or by the frontier, and two processes.                 *)
(***************************************************************************)
EXTENDS Dispatch

TwoReservations == 2
TwoProcesses    == 2
=============================================================================
