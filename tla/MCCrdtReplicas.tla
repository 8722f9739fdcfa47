--------------------------- MODULE MCCrdtReplicas ---------------------------
(* Instances of CrdtReplicas for TLC.                                      *)
EXTENDS CrdtReplicas

Two == {1, 2}
Three == {1, 2, 3}
Keys == {"k", "n"}

\* Registers are put and deleted, counters only incremented.
AllMapEdits == {<<"put", "k">>, <<"delete", "k">>, <<"increment", "n">>}
\* A counter that is also put.
CounterPuts == {<<"put", "n">>, <<"increment", "n">>}

AllSplices == {<<0, 1>>, <<0, 2>>, <<1, 1>>}
NoSplices == {}
AllMarks == {"remove", "revive"}
NoMarks == {}

One == [r \in Replicas |-> 1]
=============================================================================
