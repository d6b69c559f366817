------------------------------ MODULE MCRunLock ------------------------------
EXTENDS RunLock, TLC

CONSTANTS p1, p2, p3, p4, m1, m2

FourProcesses == {p1, p2, p3, p4}
TwoMachines == {m1, m2}
Split == (p1 :> m1) @@ (p2 :> m1) @@ (p3 :> m1) @@ (p4 :> m2)
=============================================================================
