------------------------- MODULE MCPayrollRegistry -------------------------
(* Two employees, two contracts and one period over a stack of two files.   *)
EXTENDS PayrollRegistry, TLC

Registered == Permutations(Employee) \cup Permutations(Contract)
=============================================================================
