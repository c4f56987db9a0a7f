----------------------------- MODULE MCAtsHost -----------------------------
EXTENDS AtsHost
(* Cases named as their scripts.                                           *)
MCSameNames == [i \in Items |-> i]
(* As in scripts/config.xml: names for display, scripts of other names.    *)
MCDisplayNames == [i \in Items |-> <<"script of", i>>]
=============================================================================
