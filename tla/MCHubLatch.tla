------------------------------ MODULE MCHubLatch ------------------------------
(* Instances of HubLatch for TLC.                                          *)
EXTENDS HubLatch

CONSTANTS c1, c2, b1, b2, b3

TwoClients == {c1, c2}
OneClient == {c1}
ThreeCalls == {b1, b2, b3}
TwoCalls == {b1, b2}
OneFiltered == {b3}
NoneFiltered == {}
=============================================================================
