--------------------------- MODULE SchedulerProofs ---------------------------
(* Theorems about Scheduler, for every set of tasks, jobs and stoppers.    *)
EXTENDS Scheduler, FiniteSetTheorems, TLAPS

\* A step is a step of one action: the disjuncts of Next, by name.
LEMMA StepCases ==
  ASSUME Next
  PROVE  \/ \E t \in Tasks : Register(t)
         \/ \E t \in Tasks : LoopNextDue(t)
         \/ \E t \in Tasks : LoopStoreDue(t)
         \/ \E t \in Tasks : LoopUnwind(t)
         \/ \E t \in Tasks : LoopTimer(t)
         \/ \E t \in Tasks : LoopRecheck(t)
         \/ Start
         \/ \E j \in Jobs, t \in Tasks : Enqueue(j, t)
         \/ \E w \in Workers : AttemptBegin(w)
         \/ \E w \in Workers : AttemptStartLoad(w)
         \/ \E w \in Workers : AttemptStartSave(w)
         \/ \E w \in Workers : AttemptEnd(w)
         \/ \E w \in Workers : AttemptFinishLoad(w)
         \/ \E w \in Workers : AttemptFinishSave(w)
         \/ \E w \in Workers : BackoffUnwind(w)
         \/ \E w \in Workers : BackoffElapsed(w)
         \/ \E w \in Workers : WorkFinished(w)
         \/ \E w \in Workers : WatchdogExit(w)
         \/ \E w \in Workers : Cancel(w)
         \/ \E w \in Workers, err \in BOOLEAN : FnReturn(w, err)
         \/ \E w \in Workers, e \in {Stall, Timeout} : WatchdogFire(w, e)
         \/ ParentCancel
         \/ \E c \in Stoppers : StopEnter(c)
         \/ \E c \in Stoppers : StopGiveUp(c)
         \/ \E c \in Stoppers : StopWait(c)
         \/ \E c \in Stoppers : StopDrained(c)
         \/ \E c \in Stoppers : StopAgain(c)
         \/ \E c \in Stoppers, e \in StopCauses : StopperCtxEnds(c, e)
  BY DEF Next, LoopStep, RunStep, StopStep

\* A worker that has left "idle" runs a known task.
LEMMA TaskOfKnown ==
  ASSUME JobsHaveTasks, NEW w \in Workers, pc[w] # "idle"
  PROVE  TaskOf(w) \in Tasks
  BY DEF JobsHaveTasks, TaskOf, Workers

\* A status row stays a row under the updates the code makes.
LEMMA RowUpdates ==
  ASSUME NEW r \in Rows
  PROVE  /\ \A n \in Nat : [r EXCEPT !.nextDue = n] \in Rows
         /\ \A a \in 0..AttemptCap : [r EXCEPT !.attempt = a] \in Rows
         /\ \A a \in 0..AttemptCap, f \in BOOLEAN :
                [r EXCEPT !.attempt = a, !.failed = f] \in Rows
  BY DEF Rows

\* The row of a task that was never saved is a row.
LEMMA ZeroRowIsRow == ZeroRow \in Rows
  BY SchedulerAssumption DEF Rows, ZeroRow

\* There are finitely many workers.
LEMMA WorkersFinite == IsFiniteSet(Workers)
  BY SchedulerAssumption, FS_Union DEF Workers

\* So finitely many are active, and their number is a natural number.
LEMMA ActiveFinite == IsFiniteSet(Active)
  BY WorkersFinite, FS_Subset DEF Active

\* A worker in flight is counted.
LEMMA ActiveCounted ==
  ASSUME PendingCounts, NEW w \in Active
  PROVE  pending \in Nat /\ pending # 0
  <1>1. Active # {}
    OBVIOUS
  <1>2. QED
    BY <1>1, ActiveFinite, FS_CardinalityType, FS_EmptySet DEF PendingCounts

\* Every step preserves the types, given that a running job has a task.
LEMMA TypeStep ==
  ASSUME TypeOK, JobsHaveTasks, PendingCounts, [Next]_vars
  PROVE  TypeOK'
  <1> USE SchedulerAssumption DEF TypeOK, JobsHaveTasks, Workers, PCs, Causes, StopCauses, ZeroRow, None, Canceled, DeadlineExceeded, Stall, Timeout, Released, admission, running, work, status, callers
  <1>1. ASSUME NEW t \in Tasks, Register(t)
        PROVE  TypeOK'
    BY <1>1 DEF Register
  <1>2. ASSUME Start
        PROVE  TypeOK'
    <2>1. Cardinality(tasks) \in Nat
      BY FS_Subset, FS_CardinalityType
    <2>2. QED
      BY <1>2, <2>1 DEF Start
  <1>3. ASSUME NEW j \in Jobs, NEW t \in Tasks, Enqueue(j, t)
        PROVE  TypeOK'
    BY <1>3 DEF Enqueue, Goto
  <1>4. ASSUME NEW t \in Tasks, LoopNextDue(t)
        PROVE  TypeOK'
    BY <1>4 DEF LoopNextDue, Goto
  <1>5. ASSUME NEW t \in Tasks, LoopStoreDue(t)
        PROVE  TypeOK'
    <2>1. [row[t] EXCEPT !.nextDue = due[t]] \in Rows
      BY RowUpdates
    <2>2. QED
      BY <1>5, <2>1, ZeroRowIsRow DEF LoopStoreDue, Goto
  <1>6. ASSUME NEW t \in Tasks, LoopUnwind(t)
        PROVE  TypeOK'
    BY <1>6 DEF LoopUnwind, Goto
  <1>7. ASSUME NEW t \in Tasks, LoopTimer(t)
        PROVE  TypeOK'
    BY <1>7 DEF LoopTimer, Goto
  <1>8. ASSUME NEW t \in Tasks, LoopRecheck(t)
        PROVE  TypeOK'
    BY <1>8 DEF LoopRecheck, Goto
  <1>9. ASSUME NEW w \in Workers, AttemptBegin(w)
        PROVE  TypeOK'
    BY <1>9 DEF AttemptBegin, InitialCause, ParentDone, Goto
  <1>10. ASSUME NEW w \in Workers, AttemptStartLoad(w)
        PROVE  TypeOK'
    BY <1>10 DEF AttemptStartLoad, TaskOf, Goto
  <1>11. ASSUME NEW w \in Workers, AttemptStartSave(w)
        PROVE  TypeOK'
    <2>1. [row[w] EXCEPT !.attempt = attempt[w]] \in Rows
      BY RowUpdates
    <2>2. TaskOf(w) \in Tasks
      BY <1>11, TaskOfKnown DEF AttemptStartSave
    <2>3. QED
      BY <1>11, <2>1, <2>2, ZeroRowIsRow DEF AttemptStartSave, Goto
  <1>12. ASSUME NEW w \in Workers, NEW err \in BOOLEAN, FnReturn(w, err)
        PROVE  TypeOK'
    BY <1>12 DEF FnReturn, Cancelled, Goto
  <1>13. ASSUME NEW w \in Workers, AttemptEnd(w)
        PROVE  TypeOK'
    BY <1>13 DEF AttemptEnd, Goto
  <1>14. ASSUME NEW w \in Workers, AttemptFinishLoad(w)
        PROVE  TypeOK'
    BY <1>14 DEF AttemptFinishLoad, TaskOf, Goto
  <1>15. ASSUME NEW w \in Workers, AttemptFinishSave(w)
        PROVE  TypeOK'
    <2>1. [row[w] EXCEPT !.attempt = attempt[w], !.failed = failed[w]] \in Rows
      BY RowUpdates
    <2>2. TaskOf(w) \in Tasks
      BY <1>15, TaskOfKnown DEF AttemptFinishSave
    <2>3. QED
      BY <1>15, <2>1, <2>2, ZeroRowIsRow DEF AttemptFinishSave, RunReturn, Goto
  <1>16. ASSUME NEW w \in Workers, BackoffUnwind(w)
        PROVE  TypeOK'
    BY <1>16 DEF BackoffUnwind, RunReturn, ParentDone, Goto
  <1>17. ASSUME NEW w \in Workers, BackoffElapsed(w)
        PROVE  TypeOK'
    BY <1>17 DEF BackoffElapsed, Goto
  <1>18. ASSUME NEW w \in Workers, WorkFinished(w)
        PROVE  TypeOK'
    <2>1. pending # 0
      BY <1>18, ActiveCounted DEF WorkFinished, Active
    <2>2. QED
      BY <1>18, <2>1 DEF WorkFinished, FinishStopLocked, Goto
  <1>19. ASSUME NEW w \in Workers, NEW e \in {Stall, Timeout}, WatchdogFire(w, e)
        PROVE  TypeOK'
    BY <1>19 DEF WatchdogFire, Cancelled
  <1>20. ASSUME NEW w \in Workers, WatchdogExit(w)
        PROVE  TypeOK'
    BY <1>20 DEF WatchdogExit
  <1>21. ASSUME NEW w \in Workers, Cancel(w)
        PROVE  TypeOK'
    BY <1>21 DEF Cancel, Cancelled
  <1>22. ASSUME ParentCancel
        PROVE  TypeOK'
    BY <1>22 DEF ParentCancel, Cancelled
  <1>23. ASSUME NEW c \in Stoppers, StopEnter(c)
        PROVE  TypeOK'
    BY <1>23 DEF StopEnter, FinishStopLocked
  <1>24. ASSUME NEW c \in Stoppers, StopGiveUp(c)
        PROVE  TypeOK'
    BY <1>24 DEF StopGiveUp, CancelRuns, Cancelled
  <1>25. ASSUME NEW c \in Stoppers, StopWait(c)
        PROVE  TypeOK'
    BY <1>25 DEF StopWait
  <1>26. ASSUME NEW c \in Stoppers, StopDrained(c)
        PROVE  TypeOK'
    BY <1>26 DEF StopDrained
  <1>27. ASSUME NEW c \in Stoppers, NEW e \in StopCauses, StopperCtxEnds(c, e)
        PROVE  TypeOK'
    BY <1>27 DEF StopperCtxEnds
  <1>28. ASSUME NEW c \in Stoppers, StopAgain(c)
        PROVE  TypeOK'
    BY <1>28 DEF StopAgain
  <1>29. CASE UNCHANGED vars
    BY <1>29 DEF vars, admission, running, work, status, callers, TypeOK
  <1> HIDE DEF TypeOK, JobsHaveTasks, Workers, StopCauses, Stall, Timeout
  <1>30. QED
    BY <1>1, <1>2, <1>3, <1>4, <1>5, <1>6, <1>7, <1>8, <1>9, <1>10, <1>11, <1>12, <1>13, <1>14, <1>15, <1>16, <1>17, <1>18, <1>19, <1>20, <1>21, <1>22, <1>23, <1>24, <1>25, <1>26, <1>27, <1>28, <1>29, StepCases

\* The part of Consistent that follows a worker through one attempt.
LocalInv ==
    /\ Registered /\ LoopsAfterStart /\ JobsHaveTasks /\ WatchdogWithinRun
    /\ GiveUpReachesEveryRun

\* Every step keeps what can be said of one worker at a time: whether its run is
\* registered, watched and cancelled agrees with where it is.
LEMMA LocalStep ==
  ASSUME TypeOK, LocalInv, [Next]_vars
  PROVE  LocalInv'
  <1> USE SchedulerAssumption DEF TypeOK, LocalInv, Registered, LoopsAfterStart, JobsHaveTasks, WatchdogWithinRun, GiveUpReachesEveryRun,
        Workers, PCs, Causes, None, Canceled, DeadlineExceeded, Stall, Timeout, Released, StopCauses, admission, running, work, status, callers
  <1>1. ASSUME NEW t \in Tasks, Register(t)
        PROVE  LocalInv'
    BY <1>1 DEF Register
  <1>2. ASSUME Start
        PROVE  LocalInv'
    BY <1>2 DEF Start
  <1>3. ASSUME NEW j \in Jobs, NEW t \in Tasks, Enqueue(j, t)
        PROVE  LocalInv'
    BY <1>3 DEF Enqueue, TaskOf, Goto
  <1>4. ASSUME NEW t \in Tasks, LoopNextDue(t)
        PROVE  LocalInv'
    BY <1>4 DEF LoopNextDue, Goto
  <1>5. ASSUME NEW t \in Tasks, LoopStoreDue(t)
        PROVE  LocalInv'
    BY <1>5 DEF LoopStoreDue, Goto
  <1>6. ASSUME NEW t \in Tasks, LoopUnwind(t)
        PROVE  LocalInv'
    BY <1>6 DEF LoopUnwind, Goto
  <1>7. ASSUME NEW t \in Tasks, LoopTimer(t)
        PROVE  LocalInv'
    BY <1>7 DEF LoopTimer, Goto
  <1>8. ASSUME NEW t \in Tasks, LoopRecheck(t)
        PROVE  LocalInv'
    BY <1>8 DEF LoopRecheck, TaskOf, Goto
  <1>9. ASSUME NEW w \in Workers, AttemptBegin(w)
        PROVE  LocalInv'
    BY <1>9 DEF AttemptBegin, InitialCause, ParentDone, TaskOf, Goto
  <1>10. ASSUME NEW w \in Workers, AttemptStartLoad(w)
        PROVE  LocalInv'
    BY <1>10 DEF AttemptStartLoad, TaskOf, Goto
  <1>11. ASSUME NEW w \in Workers, AttemptStartSave(w)
        PROVE  LocalInv'
    BY <1>11 DEF AttemptStartSave, TaskOf, Goto
  <1>12. ASSUME NEW w \in Workers, NEW err \in BOOLEAN, FnReturn(w, err)
        PROVE  LocalInv'
    BY <1>12 DEF FnReturn, Cancelled, Goto
  <1>13. ASSUME NEW w \in Workers, AttemptEnd(w)
        PROVE  LocalInv'
    BY <1>13 DEF AttemptEnd, Goto
  <1>14. ASSUME NEW w \in Workers, AttemptFinishLoad(w)
        PROVE  LocalInv'
    BY <1>14 DEF AttemptFinishLoad, TaskOf, Goto
  <1>15. ASSUME NEW w \in Workers, AttemptFinishSave(w)
        PROVE  LocalInv'
    BY <1>15 DEF AttemptFinishSave, TaskOf, RunReturn, ShouldRetry, Goto
  <1>16. ASSUME NEW w \in Workers, BackoffUnwind(w)
        PROVE  LocalInv'
    BY <1>16 DEF BackoffUnwind, RunReturn, ParentDone, TaskOf, ShouldRetry, Goto
  <1>17. ASSUME NEW w \in Workers, BackoffElapsed(w)
        PROVE  LocalInv'
    BY <1>17 DEF BackoffElapsed, TaskOf, ShouldRetry, Goto
  <1>18. ASSUME NEW w \in Workers, WorkFinished(w)
        PROVE  LocalInv'
    BY <1>18 DEF WorkFinished, FinishStopLocked, Goto
  <1>19. ASSUME NEW w \in Workers, NEW e \in {Stall, Timeout}, WatchdogFire(w, e)
        PROVE  LocalInv'
    BY <1>19 DEF WatchdogFire, Cancelled
  <1>20. ASSUME NEW w \in Workers, WatchdogExit(w)
        PROVE  LocalInv'
    BY <1>20 DEF WatchdogExit
  <1>21. ASSUME NEW w \in Workers, Cancel(w)
        PROVE  LocalInv'
    BY <1>21 DEF Cancel, Cancelled
  <1>22. ASSUME ParentCancel
        PROVE  LocalInv'
    BY <1>22 DEF ParentCancel, Cancelled
  <1>23. ASSUME NEW c \in Stoppers, StopEnter(c)
        PROVE  LocalInv'
    BY <1>23 DEF StopEnter, FinishStopLocked
  <1>24. ASSUME NEW c \in Stoppers, StopGiveUp(c)
        PROVE  LocalInv'
    BY <1>24 DEF StopGiveUp, CancelRuns, Cancelled
  <1>25. ASSUME NEW c \in Stoppers, StopWait(c)
        PROVE  LocalInv'
    BY <1>25 DEF StopWait
  <1>26. ASSUME NEW c \in Stoppers, StopDrained(c)
        PROVE  LocalInv'
    BY <1>26 DEF StopDrained
  <1>27. ASSUME NEW c \in Stoppers, NEW e \in StopCauses, StopperCtxEnds(c, e)
        PROVE  LocalInv'
    BY <1>27 DEF StopperCtxEnds
  <1>28. ASSUME NEW c \in Stoppers, StopAgain(c)
        PROVE  LocalInv'
    BY <1>28 DEF StopAgain
  <1>29. CASE UNCHANGED vars
    BY <1>29 DEF vars, admission, running, work, status, callers
  <1> HIDE DEF TypeOK, LocalInv, Workers, StopCauses, Stall, Timeout
  <1>30. QED
    BY <1>1, <1>2, <1>3, <1>4, <1>5, <1>6, <1>7, <1>8, <1>9, <1>10, <1>11, <1>12, <1>13, <1>14, <1>15, <1>16, <1>17, <1>18, <1>19, <1>20, <1>21, <1>22, <1>23, <1>24, <1>25, <1>26, <1>27, <1>28, <1>29, StepCases

\* Attempts stay below the limit of the task while another one may follow.
LEMMA AttemptsStep ==
  ASSUME TypeOK, JobsHaveTasks, AttemptsLeft, [Next]_vars
  PROVE  AttemptsLeft'
  <1> USE SchedulerAssumption DEF TypeOK, JobsHaveTasks, AttemptsLeft, ShouldRetry, TaskOf,
        Workers, PCs, admission, running, work, status, callers
  <1>1. ASSUME NEW t \in Tasks, Register(t)
        PROVE  AttemptsLeft'
    BY <1>1 DEF Register
  <1>2. ASSUME Start
        PROVE  AttemptsLeft'
    BY <1>2 DEF Start
  <1>3. ASSUME NEW j \in Jobs, NEW t \in Tasks, Enqueue(j, t)
        PROVE  AttemptsLeft'
    BY <1>3 DEF Enqueue, TaskOf, Goto
  <1>4. ASSUME NEW t \in Tasks, LoopNextDue(t)
        PROVE  AttemptsLeft'
    BY <1>4 DEF LoopNextDue, Goto
  <1>5. ASSUME NEW t \in Tasks, LoopStoreDue(t)
        PROVE  AttemptsLeft'
    BY <1>5 DEF LoopStoreDue, Goto
  <1>6. ASSUME NEW t \in Tasks, LoopUnwind(t)
        PROVE  AttemptsLeft'
    BY <1>6 DEF LoopUnwind, Goto
  <1>7. ASSUME NEW t \in Tasks, LoopTimer(t)
        PROVE  AttemptsLeft'
    BY <1>7 DEF LoopTimer, Goto
  <1>8. ASSUME NEW t \in Tasks, LoopRecheck(t)
        PROVE  AttemptsLeft'
    BY <1>8 DEF LoopRecheck, TaskOf, Goto
  <1>9. ASSUME NEW w \in Workers, AttemptBegin(w)
        PROVE  AttemptsLeft'
    BY <1>9 DEF AttemptBegin, InitialCause, ParentDone, TaskOf, Goto
  <1>10. ASSUME NEW w \in Workers, AttemptStartLoad(w)
        PROVE  AttemptsLeft'
    BY <1>10 DEF AttemptStartLoad, TaskOf, Goto
  <1>11. ASSUME NEW w \in Workers, AttemptStartSave(w)
        PROVE  AttemptsLeft'
    BY <1>11 DEF AttemptStartSave, TaskOf, Goto
  <1>12. ASSUME NEW w \in Workers, NEW err \in BOOLEAN, FnReturn(w, err)
        PROVE  AttemptsLeft'
    BY <1>12 DEF FnReturn, Cancelled, Goto
  <1>13. ASSUME NEW w \in Workers, AttemptEnd(w)
        PROVE  AttemptsLeft'
    BY <1>13 DEF AttemptEnd, Goto
  <1>14. ASSUME NEW w \in Workers, AttemptFinishLoad(w)
        PROVE  AttemptsLeft'
    BY <1>14 DEF AttemptFinishLoad, TaskOf, Goto
  <1>15. ASSUME NEW w \in Workers, AttemptFinishSave(w)
        PROVE  AttemptsLeft'
    BY <1>15 DEF AttemptFinishSave, TaskOf, RunReturn, ShouldRetry, Goto
  <1>16. ASSUME NEW w \in Workers, BackoffUnwind(w)
        PROVE  AttemptsLeft'
    BY <1>16 DEF BackoffUnwind, RunReturn, ParentDone, TaskOf, ShouldRetry, Goto
  <1>17. ASSUME NEW w \in Workers, BackoffElapsed(w)
        PROVE  AttemptsLeft'
    BY <1>17 DEF BackoffElapsed, TaskOf, ShouldRetry, Goto
  <1>18. ASSUME NEW w \in Workers, WorkFinished(w)
        PROVE  AttemptsLeft'
    BY <1>18 DEF WorkFinished, FinishStopLocked, Goto
  <1>19. ASSUME NEW w \in Workers, NEW e \in {Stall, Timeout}, WatchdogFire(w, e)
        PROVE  AttemptsLeft'
    BY <1>19 DEF WatchdogFire, Cancelled
  <1>20. ASSUME NEW w \in Workers, WatchdogExit(w)
        PROVE  AttemptsLeft'
    BY <1>20 DEF WatchdogExit
  <1>21. ASSUME NEW w \in Workers, Cancel(w)
        PROVE  AttemptsLeft'
    BY <1>21 DEF Cancel, Cancelled
  <1>22. ASSUME ParentCancel
        PROVE  AttemptsLeft'
    BY <1>22 DEF ParentCancel, Cancelled
  <1>23. ASSUME NEW c \in Stoppers, StopEnter(c)
        PROVE  AttemptsLeft'
    BY <1>23 DEF StopEnter, FinishStopLocked
  <1>24. ASSUME NEW c \in Stoppers, StopGiveUp(c)
        PROVE  AttemptsLeft'
    BY <1>24 DEF StopGiveUp, CancelRuns, Cancelled
  <1>25. ASSUME NEW c \in Stoppers, StopWait(c)
        PROVE  AttemptsLeft'
    BY <1>25 DEF StopWait
  <1>26. ASSUME NEW c \in Stoppers, StopDrained(c)
        PROVE  AttemptsLeft'
    BY <1>26 DEF StopDrained
  <1>27. ASSUME NEW c \in Stoppers, NEW e \in StopCauses, StopperCtxEnds(c, e)
        PROVE  AttemptsLeft'
    BY <1>27 DEF StopperCtxEnds
  <1>28. ASSUME NEW c \in Stoppers, StopAgain(c)
        PROVE  AttemptsLeft'
    BY <1>28 DEF StopAgain
  <1>29. CASE UNCHANGED vars
    BY <1>29 DEF vars, admission, running, work, status, callers
  <1> HIDE DEF TypeOK, AttemptsLeft, Workers, JobsHaveTasks
  <1>30. QED
    BY <1>1, <1>2, <1>3, <1>4, <1>5, <1>6, <1>7, <1>8, <1>9, <1>10, <1>11, <1>12, <1>13, <1>14, <1>15, <1>16, <1>17, <1>18, <1>19, <1>20, <1>21, <1>22, <1>23, <1>24, <1>25, <1>26, <1>27, <1>28, <1>29, StepCases

\* What a step does to the set of accepted work and to the shutdown state: it
\* admits a set of workers, finishes one, stops, or leaves both alone.
Admits == \E S \in SUBSET Workers :
    /\ ~stopped /\ S \cap Active = {} /\ Active' = Active \cup S
    /\ pending' = pending + Cardinality(S)
    /\ UNCHANGED <<stopped, stopClosed, stopper>>
Finishes == \E w \in Active :
    /\ Active' = Active \ {w} /\ pending' = pending - 1
    /\ FinishStopLocked(stopped, pending - 1)
    /\ UNCHANGED <<stopped, stopper>>
Stops ==
    /\ Active' = Active /\ stopped' = TRUE /\ FinishStopLocked(TRUE, pending)
    /\ UNCHANGED pending
    /\ \A c \in Stoppers : stopper'[c] = "ok" => stopper[c] = "ok"
LeavesWork ==
    /\ Active' = Active
    /\ UNCHANGED <<pending, stopped, stopClosed>>
    /\ \A c \in Stoppers : stopper'[c] = "ok" => stopper[c] = "ok" \/ stopClosed
WorkEffect == Admits \/ Finishes \/ Stops \/ LeavesWork

\* Every step admits work before the stop, finishes one unit, stops, or leaves the
\* set of active workers alone.
LEMMA WorkStep ==
  ASSUME TypeOK, LoopsAfterStart, [Next]_vars
  PROVE  WorkEffect
  <1> USE SchedulerAssumption DEF TypeOK, WorkEffect, LoopsAfterStart, Active, PCs,
        admission, running, work, status, callers
  <1>1. ASSUME NEW t \in Tasks, Register(t)
        PROVE  WorkEffect
    BY <1>1 DEF Register, LeavesWork
  <1>2. ASSUME Start
        PROVE  WorkEffect
    <2>1. tasks \in SUBSET Workers
      BY DEF Workers
    <2>2. tasks \cap Active = {}
      BY <1>2, <2>1 DEF Start
    <2>3. Active' = Active \cup tasks
      BY <1>2, <2>1 DEF Start
    <2>4. Admits
      BY <1>2, <2>1, <2>2, <2>3 DEF Start, Admits
    <2>5. QED
      BY <2>4
  <1>3. ASSUME NEW j \in Jobs, NEW t \in Tasks, Enqueue(j, t)
        PROVE  WorkEffect
    <2>1. {j} \in SUBSET Workers /\ {j} \cap Active = {} /\ Active' = Active \cup {j}
      BY <1>3 DEF Enqueue, Goto, Workers
    <2>2. Cardinality({j}) = 1
      BY FS_Singleton
    <2>3. Admits
      BY <1>3, <2>1, <2>2 DEF Enqueue, Admits
    <2>4. QED
      BY <2>3
  <1>4. ASSUME NEW t \in Tasks, LoopNextDue(t)
        PROVE  WorkEffect
    BY <1>4 DEF LoopNextDue, Goto, Workers, LeavesWork
  <1>5. ASSUME NEW t \in Tasks, LoopStoreDue(t)
        PROVE  WorkEffect
    BY <1>5 DEF LoopStoreDue, Goto, Workers, LeavesWork
  <1>6. ASSUME NEW t \in Tasks, LoopUnwind(t)
        PROVE  WorkEffect
    BY <1>6 DEF LoopUnwind, Goto, Workers, LeavesWork
  <1>7. ASSUME NEW t \in Tasks, LoopTimer(t)
        PROVE  WorkEffect
    BY <1>7 DEF LoopTimer, Goto, Workers, LeavesWork
  <1>8. ASSUME NEW t \in Tasks, LoopRecheck(t)
        PROVE  WorkEffect
    BY <1>8 DEF LoopRecheck, Goto, Workers, LeavesWork
  <1>9. ASSUME NEW w \in Workers, AttemptBegin(w)
        PROVE  WorkEffect
    BY <1>9 DEF AttemptBegin, Goto, Workers, LeavesWork
  <1>10. ASSUME NEW w \in Workers, AttemptStartLoad(w)
        PROVE  WorkEffect
    BY <1>10 DEF AttemptStartLoad, Goto, Workers, LeavesWork
  <1>11. ASSUME NEW w \in Workers, AttemptStartSave(w)
        PROVE  WorkEffect
    BY <1>11 DEF AttemptStartSave, Goto, Workers, LeavesWork
  <1>12. ASSUME NEW w \in Workers, NEW err \in BOOLEAN, FnReturn(w, err)
        PROVE  WorkEffect
    BY <1>12 DEF FnReturn, Goto, Workers, LeavesWork
  <1>13. ASSUME NEW w \in Workers, AttemptEnd(w)
        PROVE  WorkEffect
    BY <1>13 DEF AttemptEnd, Goto, Workers, LeavesWork
  <1>14. ASSUME NEW w \in Workers, AttemptFinishLoad(w)
        PROVE  WorkEffect
    BY <1>14 DEF AttemptFinishLoad, Goto, Workers, LeavesWork
  <1>15. ASSUME NEW w \in Workers, AttemptFinishSave(w)
        PROVE  WorkEffect
    BY <1>15 DEF AttemptFinishSave, Goto, Workers, RunReturn, LeavesWork
  <1>16. ASSUME NEW w \in Workers, BackoffUnwind(w)
        PROVE  WorkEffect
    BY <1>16 DEF BackoffUnwind, Goto, Workers, RunReturn, LeavesWork
  <1>17. ASSUME NEW w \in Workers, BackoffElapsed(w)
        PROVE  WorkEffect
    BY <1>17 DEF BackoffElapsed, Goto, Workers, LeavesWork
  <1>18. ASSUME NEW w \in Workers, WorkFinished(w)
        PROVE  WorkEffect
    BY <1>18 DEF WorkFinished, Goto, Finishes
  <1>19. ASSUME NEW w \in Workers, NEW e \in {Stall, Timeout}, WatchdogFire(w, e)
        PROVE  WorkEffect
    BY <1>19 DEF WatchdogFire, LeavesWork
  <1>20. ASSUME NEW w \in Workers, WatchdogExit(w)
        PROVE  WorkEffect
    BY <1>20 DEF WatchdogExit, LeavesWork
  <1>21. ASSUME NEW w \in Workers, Cancel(w)
        PROVE  WorkEffect
    BY <1>21 DEF Cancel, LeavesWork
  <1>22. ASSUME ParentCancel
        PROVE  WorkEffect
    BY <1>22 DEF ParentCancel, LeavesWork
  <1>23. ASSUME NEW c \in Stoppers, StopEnter(c)
        PROVE  WorkEffect
    BY <1>23, ZenonT(30) DEF StopEnter, Stops
  <1>24. ASSUME NEW c \in Stoppers, StopGiveUp(c)
        PROVE  WorkEffect
    BY <1>24 DEF StopGiveUp, LeavesWork
  <1>25. ASSUME NEW c \in Stoppers, StopWait(c)
        PROVE  WorkEffect
    BY <1>25 DEF StopWait, LeavesWork
  <1>26. ASSUME NEW c \in Stoppers, StopDrained(c)
        PROVE  WorkEffect
    BY <1>26 DEF StopDrained, LeavesWork
  <1>27. ASSUME NEW c \in Stoppers, NEW e \in StopCauses, StopperCtxEnds(c, e)
        PROVE  WorkEffect
    BY <1>27 DEF StopperCtxEnds, LeavesWork
  <1>28. ASSUME NEW c \in Stoppers, StopAgain(c)
        PROVE  WorkEffect
    BY <1>28 DEF StopAgain, LeavesWork
  <1>29. CASE UNCHANGED vars
    BY <1>29 DEF vars, LeavesWork
  <1> HIDE DEF TypeOK, WorkEffect, LoopsAfterStart, Active, PCs
  <1>30. QED
    BY <1>1, <1>2, <1>3, <1>4, <1>5, <1>6, <1>7, <1>8, <1>9, <1>10, <1>11, <1>12, <1>13, <1>14, <1>15, <1>16, <1>17, <1>18, <1>19, <1>20, <1>21, <1>22, <1>23, <1>24, <1>25, <1>26, <1>27, <1>28, <1>29, StepCases

\* s.pending counts the accepted workers, and stopDone is closed exactly when the
\* scheduler is stopped and none of them is left.
CountInv == PendingCounts /\ ClosedExactly /\ OkAfterClose

\* Whichever of these it does, the pending count and the channels keep up with it.
LEMMA CountStep ==
  ASSUME TypeOK, LoopsAfterStart, CountInv, [Next]_vars
  PROVE  CountInv'
  <1>1. CASE Admits
    <2>1. PICK S \in SUBSET Workers :
             /\ ~stopped /\ S \cap Active = {} /\ Active' = Active \cup S
             /\ pending' = pending + Cardinality(S)
             /\ UNCHANGED <<stopped, stopClosed, stopper>>
      BY <1>1 DEF Admits
    <2>2. IsFiniteSet(S)
      BY <2>1, WorkersFinite, FS_Subset
    <2>3. Cardinality(Active \cup S) = Cardinality(Active) + Cardinality(S)
      <3>1. Cardinality(Active \cap S) = 0
        <4>1. Active \cap S = {}
          BY <2>1
        <4>2. QED
          BY <4>1, FS_EmptySet
      <3>2. Cardinality(Active \cup S)
              = Cardinality(Active) + Cardinality(S) - Cardinality(Active \cap S)
        BY <2>2, ActiveFinite, FS_Union
      <3>3. Cardinality(Active) \in Nat /\ Cardinality(S) \in Nat
        BY <2>2, ActiveFinite, FS_CardinalityType
      <3>4. QED
        BY <3>1, <3>2, <3>3
    <2>4. QED
      BY <2>1, <2>3 DEF CountInv, PendingCounts, ClosedExactly, OkAfterClose
  <1>2. CASE Finishes
    <2>1. PICK w \in Active :
             /\ Active' = Active \ {w} /\ pending' = pending - 1
             /\ FinishStopLocked(stopped, pending - 1)
             /\ UNCHANGED <<stopped, stopper>>
      BY <1>2 DEF Finishes
    <2>2. Cardinality(Active \ {w}) = Cardinality(Active) - 1
      BY <2>1, ActiveFinite, FS_RemoveElement
    <2>3. Active \ {w} = {} <=> Cardinality(Active \ {w}) = 0
      BY ActiveFinite, FS_RemoveElement, FS_EmptySet
    <2>4. QED
      BY <2>1, <2>2, <2>3
      DEF CountInv, PendingCounts, ClosedExactly, OkAfterClose, FinishStopLocked, TypeOK
  <1>3. CASE Stops
    <2>1. Active = {} <=> Cardinality(Active) = 0
      BY ActiveFinite, FS_EmptySet
    <2>2. QED
      BY <1>3, <2>1
      DEF Stops, CountInv, PendingCounts, ClosedExactly, OkAfterClose, FinishStopLocked, TypeOK
  <1>4. CASE LeavesWork
    BY <1>4 DEF LeavesWork, CountInv, PendingCounts, ClosedExactly, OkAfterClose
  <1>5. QED
    BY <1>1, <1>2, <1>3, <1>4, WorkStep DEF WorkEffect

\* A new scheduler is consistent.
LEMMA InitConsistent == Init => TypeOK /\ Consistent
  <1> SUFFICES ASSUME Init
               PROVE  TypeOK /\ Consistent
    OBVIOUS
  <1>1. TypeOK
    <2>1. 0 \in 0..AttemptCap
      BY SchedulerAssumption
    <2>2. /\ pc \in [Workers -> PCs] /\ jobTask \in [Jobs -> Tasks \cup {None}]
          /\ attempt \in [Workers -> 0..AttemptCap] /\ failed \in [Workers -> BOOLEAN]
          /\ cause \in [Workers -> Causes] /\ row \in [Workers -> Rows]
          /\ due \in [Tasks -> Nat] /\ store \in [Tasks -> Rows]
      BY <2>1, ZeroRowIsRow DEF Init, PCs, Causes
    <2>3. /\ watchdog \in [Workers -> {"off", "watching"}]
          /\ stopper \in [Stoppers -> {"idle", "entered", "waiting", "ok", "err"}]
          /\ ctxErr \in [Stoppers -> StopCauses \cup {None}]
          /\ round \in [Stoppers -> {1, 2}]
      BY DEF Init
    <2>4. /\ started \in BOOLEAN /\ stopped \in BOOLEAN /\ stopClosed \in BOOLEAN
          /\ parentDone \in BOOLEAN
      BY DEF Init
    <2>5. tasks \subseteq Tasks /\ runs \subseteq Workers /\ pending \in Nat
          /\ stopCause \in StopCauses \cup {None}
      BY DEF Init
    <2>6. QED
      BY <2>2, <2>3, <2>4, <2>5 DEF TypeOK
  <1>2. Active = {}
    BY DEF Init, Active
  <1>3. Cardinality(Active) = 0
    BY <1>2, FS_EmptySet
  <1>4. QED
    BY <1>1, <1>2, <1>3
    DEF Init, Consistent, Registered, LoopsAfterStart, JobsHaveTasks, PendingCounts,
        ClosedExactly, OkAfterClose, WatchdogWithinRun, GiveUpReachesEveryRun,
        AttemptsLeft, Workers

\* Every step keeps the scheduler consistent.
LEMMA StepConsistent ==
  TypeOK /\ Consistent /\ [Next]_vars => TypeOK' /\ Consistent'
  BY TypeStep, LocalStep, AttemptsStep, CountStep DEF Consistent, LocalInv, CountInv

\* The scheduler's state is well typed and consistent in every reachable state:
\* the run map, the pending count and the channels agree with the goroutines.
THEOREM SchedulerConsistent == Spec => []TypeOK /\ []Consistent
  <1>1. Init => TypeOK /\ Consistent
    BY InitConsistent
  <1>2. TypeOK /\ Consistent /\ [Next]_vars => TypeOK' /\ Consistent'
    BY StepConsistent
  <1>3. QED
    BY <1>1, <1>2, PTL DEF Spec

\* StopContext returns nil, and stopDone is closed, only once every accepted loop
\* and job, its registered run and its watchdog are gone.
THEOREM StopMeansDrained == Spec => []DrainedWhenStopped
  <1>1. TypeOK /\ Consistent => DrainedWhenStopped
    <2> SUFFICES ASSUME TypeOK, Consistent,
                        stopClosed \/ (\E c \in Stoppers : stopper[c] = "ok")
                 PROVE  /\ stopped
                        /\ \A w \in Workers :
                              pc[w] \in {"idle", "done"} /\ watchdog[w] # "watching"
                        /\ runs = {}
      BY DEF DrainedWhenStopped
    <2>1. stopped /\ Active = {}
      BY DEF Consistent, OkAfterClose, ClosedExactly
    <2>2. \A w \in Workers : pc[w] \in {"idle", "done"}
      BY <2>1 DEF Active
    <2>3. runs = {}
      BY <2>2 DEF Consistent, Registered, TypeOK
    <2>4. QED
      BY <2>1, <2>2, <2>3 DEF Consistent, WatchdogWithinRun
  <1>2. QED
    BY <1>1, SchedulerConsistent, PTL

\* The invariant of the scheduler, for any tasks, jobs and callers of Stop: work is
\* counted exactly, and a Stop that reports success left nothing running.
THEOREM SchedulerSafe == Spec => []SchedulerInv
  <1>1. TypeOK /\ Consistent /\ DrainedWhenStopped => SchedulerInv
    BY DEF SchedulerInv
  <1>2. QED
    BY <1>1, SchedulerConsistent, StopMeansDrained, PTL

\* Once a stopper gave up, no registered run is left with a live context.
THEOREM GiveUpCancels == Spec => []GiveUpReachesEveryRun
  <1>1. Consistent => GiveUpReachesEveryRun
    BY DEF Consistent
  <1>2. QED
    BY <1>1, SchedulerConsistent, PTL

\* One more attempt stays within the limit, because a worker is about to make one
\* only while it is below it (AttemptsLeft), and only a failed run backs off.
LEMMA RetriesStep ==
  ASSUME TypeOK, LoopsAfterStart, JobsHaveTasks, AttemptsLeft, RetriesBounded, [Next]_vars
  PROVE  RetriesBounded'
  <1> USE SchedulerAssumption DEF TypeOK, JobsHaveTasks, AttemptsLeft, RetriesBounded, TaskOf,
        Workers, PCs, admission, running, work, status, callers
  <1>1. ASSUME NEW t \in Tasks, Register(t)
        PROVE  RetriesBounded'
    BY <1>1 DEF Register
  <1>2. ASSUME Start
        PROVE  RetriesBounded'
    BY <1>2 DEF Start, LoopsAfterStart
  <1>3. ASSUME NEW j \in Jobs, NEW t \in Tasks, Enqueue(j, t)
        PROVE  RetriesBounded'
    BY <1>3 DEF Enqueue, TaskOf, Goto
  <1>4. ASSUME NEW t \in Tasks, LoopNextDue(t)
        PROVE  RetriesBounded'
    BY <1>4 DEF LoopNextDue, Goto
  <1>5. ASSUME NEW t \in Tasks, LoopStoreDue(t)
        PROVE  RetriesBounded'
    BY <1>5 DEF LoopStoreDue, Goto
  <1>6. ASSUME NEW t \in Tasks, LoopUnwind(t)
        PROVE  RetriesBounded'
    BY <1>6 DEF LoopUnwind, Goto
  <1>7. ASSUME NEW t \in Tasks, LoopTimer(t)
        PROVE  RetriesBounded'
    BY <1>7 DEF LoopTimer, Goto
  <1>8. ASSUME NEW t \in Tasks, LoopRecheck(t)
        PROVE  RetriesBounded'
    BY <1>8 DEF LoopRecheck, TaskOf, Goto
  <1>9. ASSUME NEW w \in Workers, AttemptBegin(w)
        PROVE  RetriesBounded'
    BY <1>9 DEF AttemptBegin, InitialCause, ParentDone, TaskOf, Goto
  <1>10. ASSUME NEW w \in Workers, AttemptStartLoad(w)
        PROVE  RetriesBounded'
    BY <1>10 DEF AttemptStartLoad, TaskOf, Goto
  <1>11. ASSUME NEW w \in Workers, AttemptStartSave(w)
        PROVE  RetriesBounded'
    BY <1>11 DEF AttemptStartSave, TaskOf, Goto
  <1>12. ASSUME NEW w \in Workers, NEW err \in BOOLEAN, FnReturn(w, err)
        PROVE  RetriesBounded'
    BY <1>12 DEF FnReturn, Cancelled, Goto
  <1>13. ASSUME NEW w \in Workers, AttemptEnd(w)
        PROVE  RetriesBounded'
    BY <1>13 DEF AttemptEnd, Goto
  <1>14. ASSUME NEW w \in Workers, AttemptFinishLoad(w)
        PROVE  RetriesBounded'
    BY <1>14 DEF AttemptFinishLoad, TaskOf, Goto
  <1>15. ASSUME NEW w \in Workers, AttemptFinishSave(w)
        PROVE  RetriesBounded'
    BY <1>15 DEF AttemptFinishSave, TaskOf, RunReturn, ShouldRetry, Goto
  <1>16. ASSUME NEW w \in Workers, BackoffUnwind(w)
        PROVE  RetriesBounded'
    BY <1>16 DEF BackoffUnwind, RunReturn, ParentDone, TaskOf, ShouldRetry, Goto
  <1>17. ASSUME NEW w \in Workers, BackoffElapsed(w)
        PROVE  RetriesBounded'
    BY <1>17 DEF BackoffElapsed, TaskOf, ShouldRetry, Goto
  <1>18. ASSUME NEW w \in Workers, WorkFinished(w)
        PROVE  RetriesBounded'
    BY <1>18 DEF WorkFinished, FinishStopLocked, Goto
  <1>19. ASSUME NEW w \in Workers, NEW e \in {Stall, Timeout}, WatchdogFire(w, e)
        PROVE  RetriesBounded'
    BY <1>19 DEF WatchdogFire, Cancelled
  <1>20. ASSUME NEW w \in Workers, WatchdogExit(w)
        PROVE  RetriesBounded'
    BY <1>20 DEF WatchdogExit
  <1>21. ASSUME NEW w \in Workers, Cancel(w)
        PROVE  RetriesBounded'
    BY <1>21 DEF Cancel, Cancelled
  <1>22. ASSUME ParentCancel
        PROVE  RetriesBounded'
    BY <1>22 DEF ParentCancel, Cancelled
  <1>23. ASSUME NEW c \in Stoppers, StopEnter(c)
        PROVE  RetriesBounded'
    BY <1>23 DEF StopEnter, FinishStopLocked
  <1>24. ASSUME NEW c \in Stoppers, StopGiveUp(c)
        PROVE  RetriesBounded'
    BY <1>24 DEF StopGiveUp, CancelRuns, Cancelled
  <1>25. ASSUME NEW c \in Stoppers, StopWait(c)
        PROVE  RetriesBounded'
    BY <1>25 DEF StopWait
  <1>26. ASSUME NEW c \in Stoppers, StopDrained(c)
        PROVE  RetriesBounded'
    BY <1>26 DEF StopDrained
  <1>27. ASSUME NEW c \in Stoppers, NEW e \in StopCauses, StopperCtxEnds(c, e)
        PROVE  RetriesBounded'
    BY <1>27 DEF StopperCtxEnds
  <1>28. ASSUME NEW c \in Stoppers, StopAgain(c)
        PROVE  RetriesBounded'
    BY <1>28 DEF StopAgain
  <1>29. CASE UNCHANGED vars
    BY <1>29 DEF vars, admission, running, work, status, callers
  <1> HIDE DEF TypeOK, AttemptsLeft, RetriesBounded, Workers, JobsHaveTasks
  <1>30. QED
    BY <1>1, <1>2, <1>3, <1>4, <1>5, <1>6, <1>7, <1>8, <1>9, <1>10, <1>11, <1>12, <1>13, <1>14, <1>15, <1>16, <1>17, <1>18, <1>19, <1>20, <1>21, <1>22, <1>23, <1>24, <1>25, <1>26, <1>27, <1>28, <1>29, StepCases

\* No run is attempted more often than its task allows, and none is retried after
\* it succeeded, however stops, cancels and watchdogs interleave with the retries.
THEOREM RetriesStayBounded == Spec => []RetriesBounded
  <1>1. Init => RetriesBounded
    BY SchedulerAssumption DEF Init, RetriesBounded, Workers
  <1>2. TypeOK /\ Consistent /\ RetriesBounded /\ [Next]_vars => RetriesBounded'
    BY RetriesStep DEF Consistent
  <1>3. QED
    BY <1>1, <1>2, SchedulerConsistent, PTL DEF Spec

\* The scheduler implements the abstract shutdown: after the stop the accepted
\* work only shrinks, and stopDone is closed exactly when the last of it ends.
THEOREM SchedulerImplementsGate == Spec => RefinesDrainGate
  <1>1. Init => Gate!Init
    BY DEF Init, Gate!Init, Active
  <1>2. TypeOK /\ Consistent /\ [Next]_vars => [Gate!Next]_(Gate!vars)
    <2> SUFFICES ASSUME TypeOK, Consistent, [Next]_vars
                 PROVE  [Gate!Next]_(Gate!vars)
      OBVIOUS
    <2>0. Active \in SUBSET Workers /\ Active' \in SUBSET Workers
      BY DEF Active
    <2>1. (stopClosed <=> stopped /\ Active = {}) /\ (stopClosed' <=> stopped' /\ Active' = {})
      BY StepConsistent DEF Consistent, ClosedExactly
    <2>2. stopClosed \in BOOLEAN /\ stopClosed' \in BOOLEAN /\ stopped \in BOOLEAN /\ stopped' \in BOOLEAN
      BY StepConsistent DEF TypeOK
    <2>3. CASE Admits
      BY <2>0, <2>3 DEF Admits, Gate!Next, Gate!Change
    <2>4. CASE Finishes
      BY <2>0, <2>1, <2>2, <2>4 DEF Finishes, Gate!Next, Gate!Change, Gate!Finish
    <2>5. CASE Stops
      BY <2>0, <2>1, <2>2, <2>5 DEF Stops, Gate!Next, Gate!Stop, Gate!vars
    <2>6. CASE LeavesWork
      BY <2>6 DEF LeavesWork, Gate!vars
    <2>7. QED
      BY <2>3, <2>4, <2>5, <2>6, WorkStep DEF WorkEffect, Consistent
  <1>3. QED
    BY <1>1, <1>2, SchedulerConsistent, PTL DEF Spec, RefinesDrainGate, Gate!Spec
=============================================================================
