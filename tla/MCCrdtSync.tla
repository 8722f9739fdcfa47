----------------------------- MODULE MCCrdtSync -----------------------------
(* Instances of CrdtSync for TLC.                                          *)
EXTENDS CrdtSync

HubAndOne == {0, 1}
JustOne == {1}
Nobody == {}
Keys == {"k"}

Puts == {<<"put", "k">>}
NoSplices == {}
NoMarks == {}

HubMore == [r \in Replicas |-> IF r = Hub THEN 2 ELSE 1]
HubFirst == {<<0, 1>>}
=============================================================================
