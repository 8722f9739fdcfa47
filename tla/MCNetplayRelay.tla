------------------------- MODULE MCNetplayRelay -------------------------
(* Instances of NetplayRelay for TLC. *)
EXTENDS NetplayRelay

Buttons == {0, 1}
ZeroPressesOnce == [p \in Players |-> IF p = 0 THEN {1} ELSE {}]
NoDelays == [p \in Players |-> {0}]
NoAuto == {}
FirstFrame == {0}
OneLossyPeer == [l \in Links |-> IF l \in {1, 3} THEN 2 ELSE 1]
===========================================================================
