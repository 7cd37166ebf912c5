----------------------------- MODULE MCVmMemory -----------------------------
(* An instance of VmMemory: a constant whose body mentions another.      *)
EXTENDS VmMemory

Mentioned(c) == IF c = 1 THEN {2} ELSE {}
=============================================================================
