---------------------------- MODULE MCHubSnapshot ----------------------------
(* Instances of HubSnapshot for TLC.                                       *)
EXTENDS HubSnapshot

CONSTANTS d1, d2

TwoDeltas == {d1, d2}
=============================================================================
