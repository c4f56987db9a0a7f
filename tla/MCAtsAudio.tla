----------------------------- MODULE MCAtsAudio -----------------------------
EXTENDS AtsAudio, TLC
CONSTANTS t1, t2
Symmetric == Permutations(Callers)
=============================================================================
