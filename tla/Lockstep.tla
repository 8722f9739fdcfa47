---------------------------- MODULE Lockstep ----------------------------
(***************************************************************************)
(* What a rollback match promises (netplay/doc.go: "keeps both peers'      *)
(* confirmed state identical"), with no prediction in it.  Each player     *)
(* holds down one input per frame, which is never taken back, and each     *)
(* peer's confirmed state is the game run over the inputs both players     *)
(* gave: it only moves forward.                                            *)
(***************************************************************************)
EXTENDS Integers, Sequences, SequencesExt

CONSTANT Peers        \* the two players, 0 and 1

VARIABLES
    fault,            \* fault[p]: a frame peer p's build simulates wrongly, or -1
    given,            \* given[p]: the inputs player p has committed, by frame
    confirmed         \* confirmed[p]: peer p's newest confirmed state

vars == <<fault, given, confirmed>>

\* Peer p's game after n frames: the inputs of both players, frame by frame.
Run(p, n) ==
    [i \in 1 .. n |-> IF i - 1 = fault[p]
                      THEN <<given[0][i], given[1][i], "fault">>
                      ELSE <<given[0][i], given[1][i]>>]

Init ==
    /\ fault \in [Peers -> Nat \cup {-1}]
    /\ given = [p \in Peers |-> <<>>]
    /\ confirmed = [p \in Peers |-> <<>>]

\* One tick of peer p: it may commit inputs and confirm frames.
Tick(p) ==
    /\ fault' = fault
    /\ \A q \in Peers \ {p} : given'[q] = given[q] /\ confirmed'[q] = confirmed[q]
    /\ IsPrefix(given[p], given'[p])
    /\ \E n \in Len(confirmed[p]) .. Len(given'[p]) :
          /\ \A q \in Peers : n <= Len(given'[q])
          /\ confirmed'[p] = Run(p, n)'

Next == \E p \in Peers : Tick(p)

Spec == Init /\ [][Next]_vars
===========================================================================
