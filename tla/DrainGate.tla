------------------------------ MODULE DrainGate ------------------------------
(***************************************************************************)
(* What the shutdown of a component promises its caller: once it is        *)
(* stopping, no new unit of work is admitted, and completion is announced  *)
(* exactly when the last admitted unit has finished.  Scheduler and Hub    *)
(* implement it.                                                           *)
(***************************************************************************)
CONSTANT Units

VARIABLES
    live,      \* admitted and not yet finished
    stopping,  \* admission is closed
    drained    \* completion has been announced

vars == <<live, stopping, drained>>

Init == live = {} /\ stopping = FALSE /\ drained = FALSE

\* Before the stop, work comes and goes.
Change ==
    /\ ~stopping
    /\ live' \in SUBSET Units
    /\ UNCHANGED <<stopping, drained>>

\* The stop closes admission; it may leave work of its own behind.
Stop ==
    /\ ~stopping
    /\ stopping' = TRUE
    /\ live' \in SUBSET Units /\ live \subseteq live'
    /\ drained' = (live' = {})

\* After the stop, units only finish.
Finish ==
    /\ stopping
    /\ live' \in SUBSET live
    /\ drained' = (live' = {})
    /\ UNCHANGED stopping

Next == Change \/ Stop \/ Finish

Spec == Init /\ [][Next]_vars
=============================================================================
