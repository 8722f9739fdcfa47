-------------------------------- MODULE MCHub --------------------------------
(* Instances of Hub for TLC.                                               *)
EXTENDS Hub

CONSTANTS c1, c2

OneConn == {c1}
TwoConns == {c1, c2}
=============================================================================
