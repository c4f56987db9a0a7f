------------------------------ MODULE MCAtsRpc ------------------------------
EXTENDS AtsRpc, TLC
CONSTANTS t1, t2, t3, c1, c2
(* Tasks with a time limit are alike, and so are channels.                 *)
Symmetric == Permutations(Tasks \ Forever) \cup Permutations(Channels)
=============================================================================
