---------------------------- MODULE MCHubObservers ----------------------------
(* Instances of HubObservers for TLC.                                      *)
EXTENDS HubObservers

CONSTANTS s1, s2, o1, g1

TwoSlots == {s1, s2}
OneSlot == {s1}
OneOwner == {o1}
OneGuest == {g1}
=============================================================================
