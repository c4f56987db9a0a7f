------------------------------ MODULE MCAtsNet ------------------------------
EXTENDS AtsNet, TLC
CONSTANTS t1, t2, a, b
Symmetric == Permutations(Tasks) \cup Permutations(Servers)
=============================================================================
