--------------------------- MODULE MCNetplay ----------------------------
(* Instances of Netplay for TLC. *)
EXTENDS Netplay

Buttons == {0, 1}
PlayerZeroPresses == [p \in Players |-> IF p = 0 THEN {1, 3} ELSE {}]
UnevenDelays == [p \in Players |-> {p}]
SecondAuto == {1}
FirstFrame == {0}
TwoInFlight == [l \in Links |-> 2]
===========================================================================
