--------------------------- MODULE MCAtsServices ---------------------------
EXTENDS AtsServices, TLC

CONSTANTS t1, t2
Symmetric == Permutations(Senders)

(* Nothing, a payload that looks like a frame start and one that does not. *)
MCPayloads == {<<>>, <<SOF0, SOF1>>, <<7, SOF1>>}
(* A payload without bytes and one that looks like a frame start.          *)
MCUplinkPayloads == {<<>>, <<SOF0, SOF1>>}

(* From one pixel to sizes of which 5 bits hold the frame just so (11      *)
(* pixels), that wrap the frame (12), the buffer, the worst case, and the  *)
(* number of pixels.                                                       *)
MCSizes == {<<1, 1>>, <<2, 2>>, <<3, 3>>, <<2, 5>>, <<11, 1>>, <<3, 4>>,
            <<13, 1>>, <<2, 7>>, <<4, 8>>, <<6, 6>>, <<5, 7>>}
(* All of two colours; of the larger ones stripes and a plain one.         *)
MCImages == [n \in {s[1] * s[2] : s \in MCSizes} |->
               IF n <= 10 THEN [1 .. n -> 0 .. 1]
               ELSE {[i \in 1 .. n |-> i % 2], [i \in 1 .. n |-> 0],
                     [i \in 1 .. n |-> (i \div 2) % 2]}]
=============================================================================
