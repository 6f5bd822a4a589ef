------------------------------ MODULE MCMemory ------------------------------
(* Small instances of Memory.                                              *)
EXTENDS Memory

CONSTANTS p, q

ToolAndPage == {"tool", "external"}
=============================================================================
