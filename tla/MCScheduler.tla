----------------------------- MODULE MCScheduler -----------------------------
(* Instances of Scheduler for TLC.                                         *)
EXTENDS Scheduler

CONSTANTS t1, j1, c1

OneTask == {t1}
OneJob == {j1}
OneCaller == {c1}
NoTasks == {}

Bounded == [t \in Tasks |-> 2]
Unlimited == [t \in Tasks |-> 0]
Single == [t \in Tasks |-> 1]
=============================================================================
