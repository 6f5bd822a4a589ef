------------------------------ MODULE MCRepair ------------------------------
(* Small instances of Repair: two patches that share a module.             *)
EXTENDS Repair

TwoPatches == 1..2
SharedModule == [p \in TwoPatches |-> IF p = 1 THEN {"a", "b"} ELSE {"b"}]
=============================================================================
