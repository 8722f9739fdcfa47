------------------------------ MODULE Scheduler ------------------------------
(***************************************************************************)
(* Package scheduled: background tasks on schedules, out-of-schedule       *)
(* enqueues, bounded retry, per-run watchdogs and a draining shutdown.     *)
(*                                                                         *)
(* Every unit of accepted work is a goroutine, a worker here: one schedule *)
(* loop per task registered when Start is called, and one job per accepted *)
(* Enqueue.  A section of the code under s.mu, and every Load and Save of  *)
(* the status store, is one atomic step; everything between is             *)
(* interleaved.  Time is abstract: a timer may fire at any moment.         *)
(***************************************************************************)
EXTENDS Integers, FiniteSets

CONSTANTS
    Tasks,        \* names a caller may register; a task names its loop worker
    Jobs,         \* goroutines of accepted Enqueues: bounds their number
    Stoppers,     \* callers of StopContext, and of Stop
    GraceStoppers,\* the Stoppers that call Stop(grace): a second bounded wait
    OneShot,      \* tasks whose Schedule is Once(); the others are intervals
    Watched,      \* tasks with a Timeout or a ProgressTimeout
    Delayed,      \* tasks whose backoff delay is positive
    MaxAttempts,  \* MaxAttempts[t], 0 for unlimited retries
    AttemptCap,   \* attempt numbers at and above the cap are not told apart
    MaxFires      \* bounds how often the timer of one schedule loop fires

ASSUME SchedulerAssumption ==
    /\ IsFiniteSet(Tasks) /\ IsFiniteSet(Jobs)
    /\ Tasks \cap Jobs = {}
    /\ GraceStoppers \subseteq Stoppers
    /\ OneShot \subseteq Tasks /\ Watched \subseteq Tasks /\ Delayed \subseteq Tasks
    /\ AttemptCap \in Nat \ {0} /\ MaxFires \in Nat
    /\ MaxAttempts \in [Tasks -> 0..AttemptCap]

Workers == Tasks \cup Jobs

None == "none"
\* Why a context ended: a caller's or parent's cancel, a deadline, a watchdog
\* verdict, or cancelCause(nil) once the task function has returned.
Canceled == "canceled"
DeadlineExceeded == "deadline"
Stall == "stall"
Timeout == "timeout"
Released == "released"
StopCauses == {Canceled, DeadlineExceeded}
Causes == {None, Canceled, DeadlineExceeded, Stall, Timeout, Released}

VARIABLES
    tasks,      \* s.tasks
    started,    \* s.started
    stopped,    \* s.stopped; stopCh is closed with it
    pending,    \* s.pending
    stopCause,  \* s.stopCause
    stopClosed, \* s.stopClosed; stopDone is closed with it
    runs,       \* s.runs, by the worker whose attempt it is
    parentDone, \* the context given to Start is done
    pc,         \* where each worker goroutine is
    jobTask,    \* the task a job runs
    attempt,    \* attempts made by the worker's current runOnceWithID
    failed,     \* what the last call of Fn returned: TRUE for an error
    cause,      \* why the worker's registered run context is done, or None
    watchdog,   \* the watchdog goroutine of the worker's run
    due,        \* due times computed by a loop so far; 0 is the zero time
    store,      \* the status row of each task
    row,        \* the row a worker has loaded and not yet saved, else ZeroRow
    stopper,    \* where each StopContext caller is
    ctxErr,     \* the error of that caller's context
    round       \* 2 once Stop(grace) makes its second StopContext call

admission == <<tasks, started, stopped, pending, stopCause, stopClosed>>
running == <<runs, cause, watchdog>>
work == <<pc, jobTask, attempt, failed, due>>
status == <<store, row>>
callers == <<stopper, ctxErr, round>>
vars == <<admission, running, work, status, callers, parentDone>>

ZeroRow == [nextDue |-> 0, attempt |-> 0, failed |-> FALSE]
Rows == [nextDue : Nat, attempt : 0..AttemptCap, failed : BOOLEAN]

PCs == {"idle", "next", "dueSave", "wait", "recheck", "attempt", "startLoad",
        "startSave", "fn", "join", "finishLoad", "finishSave", "backoff",
        "exit", "done"}

\* Workers counted by s.pending: accepted, and not yet through workFinished.
Active == {w \in Workers : pc[w] \notin {"idle", "done"}}

TaskOf(w) == IF w \in Tasks THEN w ELSE jobTask[w]

\* A loop runs under the context given to Start, a job under Background.
ParentDone(w) == w \in Tasks /\ parentDone

Goto(w, l) == pc' = [pc EXCEPT ![w] = l]

-----------------------------------------------------------------------------
(* Admission                                                               *)

Init ==
    /\ tasks = {} /\ started = FALSE /\ stopped = FALSE /\ pending = 0
    /\ stopCause = None /\ stopClosed = FALSE
    /\ runs = {} /\ parentDone = FALSE
    /\ pc = [w \in Workers |-> "idle"]
    /\ jobTask = [j \in Jobs |-> None]
    /\ attempt = [w \in Workers |-> 0]
    /\ failed = [w \in Workers |-> FALSE]
    /\ cause = [w \in Workers |-> None]
    /\ watchdog = [w \in Workers |-> "off"]
    /\ due = [t \in Tasks |-> 0]
    /\ store = [t \in Tasks |-> ZeroRow]
    /\ row = [w \in Workers |-> ZeroRow]
    /\ stopper = [c \in Stoppers |-> "idle"]
    /\ ctxErr = [c \in Stoppers |-> None]
    /\ round = [c \in Stoppers |-> 1]

\* Register: refused once stopped or for a known name.  The row it seeds is the
\* zero row that Load answers for a task without one.
Register(t) ==
    /\ ~stopped /\ t \notin tasks
    /\ tasks' = tasks \cup {t}
    /\ UNCHANGED <<started, stopped, pending, stopCause, stopClosed, running,
                   work, status, callers, parentDone>>

\* Start: idempotent, a no-op after Stop; one loop per task known by now.
Start ==
    /\ ~started /\ ~stopped
    /\ started' = TRUE
    /\ pending' = pending + Cardinality(tasks)
    /\ pc' = [w \in Workers |-> IF w \in tasks THEN "next" ELSE pc[w]]
    /\ UNCHANGED <<tasks, stopped, stopCause, stopClosed, running, jobTask,
                   attempt, failed, due, status, callers, parentDone>>

\* Enqueue: ErrStopped once stopped, an error for an unknown task.  The
\* goroutine it spawns is the job.
Enqueue(j, t) ==
    /\ ~stopped /\ t \in tasks /\ pc[j] = "idle"
    /\ pending' = pending + 1
    /\ jobTask' = [jobTask EXCEPT ![j] = t]
    /\ Goto(j, "attempt")
    /\ UNCHANGED <<tasks, started, stopped, stopCause, stopClosed, running,
                   attempt, failed, due, status, callers, parentDone>>

-----------------------------------------------------------------------------
(* The schedule loop of a task                                             *)

\* NextDue: a one-shot answers once, an interval always.  The loop then loads
\* the row it will publish the due time in.  due = 0 after an exhausted answer.
LoopNextDue(t) ==
    /\ pc[t] = "next"
    /\ IF t \in OneShot /\ due[t] > 0
       THEN due' = [due EXCEPT ![t] = 0]
       ELSE due' = [due EXCEPT ![t] = @ + 1]
    /\ row' = [row EXCEPT ![t] = store[t]]
    /\ Goto(t, "dueSave")
    /\ UNCHANGED <<admission, running, jobTask, attempt, failed, store,
                   callers, parentDone>>

\* storeNextDue's Save; an exhausted loop returns.
LoopStoreDue(t) ==
    /\ pc[t] = "dueSave"
    /\ store' = [store EXCEPT ![t] = [row[t] EXCEPT !.nextDue = due[t]]]
    /\ row' = [row EXCEPT ![t] = ZeroRow]
    /\ Goto(t, IF due[t] = 0 THEN "exit" ELSE "wait")
    /\ UNCHANGED <<admission, running, jobTask, attempt, failed, due,
                   callers, parentDone>>

LoopUnwindOnStopOnly(t) ==
    /\ pc[t] = "wait" /\ stopped
    /\ Goto(t, "exit")
    /\ UNCHANGED <<admission, running, jobTask, attempt, failed, due, status,
                   callers, parentDone>>

\* The select: shutdown or the parent context ends the loop ...
LoopUnwind(t) ==
    /\ pc[t] = "wait" /\ (stopped \/ parentDone)
    /\ Goto(t, "exit")
    /\ UNCHANGED <<admission, running, jobTask, attempt, failed, due, status,
                   callers, parentDone>>

\* ... or the timer fires, possibly when the others are ready too.
LoopTimer(t) ==
    /\ pc[t] = "wait" /\ due[t] <= MaxFires
    /\ Goto(t, "recheck")
    /\ UNCHANGED <<admission, running, jobTask, attempt, failed, due, status,
                   callers, parentDone>>

\* Admission is checked again under s.mu before runOnce.
LoopRecheck(t) ==
    /\ pc[t] = "recheck"
    /\ Goto(t, IF stopped THEN "exit" ELSE "attempt")
    /\ attempt' = [attempt EXCEPT ![t] = 0]
    /\ UNCHANGED <<admission, running, jobTask, failed, due, status, callers,
                   parentDone>>

-----------------------------------------------------------------------------
(* One attempt of a run                                                    *)

\* The context of a new attempt: done already when its parent is, or when a
\* stopper has given up on the drain.
InitialCause(w) == IF ParentDone(w) THEN Canceled ELSE stopCause

\* runAttempt up to the registration of the run, under s.mu.
AttemptBegin(w) ==
    /\ pc[w] = "attempt"
    /\ attempt' = [attempt EXCEPT ![w] = IF @ < AttemptCap THEN @ + 1 ELSE @]
    /\ runs' = runs \cup {w}
    /\ cause' = [cause EXCEPT ![w] = InitialCause(w)]
    /\ Goto(w, "startLoad")
    /\ UNCHANGED <<admission, watchdog, jobTask, failed, due, status, callers,
                   parentDone>>

\* updateStatus is a Load and a Save, with nothing held in between.
AttemptStartLoad(w) ==
    /\ pc[w] = "startLoad"
    /\ row' = [row EXCEPT ![w] = store[TaskOf(w)]]
    /\ Goto(w, "startSave")
    /\ UNCHANGED <<admission, running, jobTask, attempt, failed, due, store,
                   callers, parentDone>>

\* The Save of the run's start, then startWatchdog and the call of Fn.
AttemptStartSave(w) ==
    /\ pc[w] = "startSave"
    /\ store' = [store EXCEPT ![TaskOf(w)] = [row[w] EXCEPT !.attempt = attempt[w]]]
    /\ row' = [row EXCEPT ![w] = ZeroRow]
    /\ watchdog' = [watchdog EXCEPT ![w] =
                       IF TaskOf(w) \in Watched THEN "watching" ELSE "off"]
    /\ Goto(w, "fn")
    /\ UNCHANGED <<admission, runs, cause, jobTask, attempt, failed, due,
                   callers, parentDone>>

\* context.CancelCauseFunc: only the first cause of a context sticks.
Cancelled(w, e) == IF cause[w] = None THEN e ELSE cause[w]

\* Fn, the caller's function, returns; then cancelCause(nil) and <-wdDone.
FnReturn(w, err) ==
    /\ pc[w] = "fn"
    /\ failed' = [failed EXCEPT ![w] = err]
    /\ cause' = [cause EXCEPT ![w] = Cancelled(w, Released)]
    /\ Goto(w, "join")
    /\ UNCHANGED <<admission, runs, watchdog, jobTask, attempt, due, status,
                   callers, parentDone>>

\* The run is dropped only after its watchdog has exited.
AttemptEnd(w) ==
    /\ pc[w] = "join" /\ watchdog[w] # "watching"
    /\ runs' = runs \ {w}
    /\ cause' = [cause EXCEPT ![w] = None]
    /\ Goto(w, "finishLoad")
    /\ UNCHANGED <<admission, watchdog, jobTask, attempt, failed, due,
                   status, callers, parentDone>>

AttemptFinishLoad(w) ==
    /\ pc[w] = "finishLoad"
    /\ row' = [row EXCEPT ![w] = store[TaskOf(w)]]
    /\ Goto(w, "finishSave")
    /\ UNCHANGED <<admission, running, jobTask, attempt, failed, due, store,
                   callers, parentDone>>

ShouldRetry(n, max) == max = 0 \/ n < max

\* Where runOnceWithID returns to: a loop computes its next due time, a job ends.
RunReturn(w) == IF w \in Tasks THEN "next" ELSE "exit"

\* The Save of the run's outcome, then runOnceWithID decides on a retry.
AttemptFinishSave(w) ==
    /\ pc[w] = "finishSave"
    /\ store' = [store EXCEPT ![TaskOf(w)] =
                    [row[w] EXCEPT !.attempt = attempt[w], !.failed = failed[w]]]
    /\ row' = [row EXCEPT ![w] = ZeroRow]
    /\ Goto(w, IF failed[w] /\ ShouldRetry(attempt[w], MaxAttempts[TaskOf(w)])
               THEN "backoff" ELSE RunReturn(w))
    /\ UNCHANGED <<admission, running, jobTask, attempt, failed, due,
                   callers, parentDone>>

\* The backoff select: stopCh or the parent context ends the run ...
BackoffUnwind(w) ==
    /\ pc[w] = "backoff" /\ (stopped \/ ParentDone(w))
    /\ Goto(w, RunReturn(w))
    /\ UNCHANGED <<admission, running, jobTask, attempt, failed, due, status,
                   callers, parentDone>>

\* ... or the next attempt follows.  A select with a positive delay may take the
\* timer although the others are ready; one without a delay takes its default
\* only when neither is.
BackoffElapsed(w) ==
    /\ pc[w] = "backoff"
    /\ TaskOf(w) \in Delayed \/ ~(stopped \/ ParentDone(w))
    /\ Goto(w, "attempt")
    /\ UNCHANGED <<admission, running, jobTask, attempt, failed, due, status,
                   callers, parentDone>>

-----------------------------------------------------------------------------
(* Cancellation: the watchdog, Cancel and the parent context               *)

\* The watchdog finds its run past a threshold, cancels it and exits.
WatchdogFire(w, e) ==
    /\ watchdog[w] = "watching"
    /\ cause' = [cause EXCEPT ![w] = Cancelled(w, e)]
    /\ watchdog' = [watchdog EXCEPT ![w] = "off"]
    /\ UNCHANGED <<admission, runs, work, status, callers, parentDone>>

\* The watchdog finds the run context done and exits.
WatchdogExit(w) ==
    /\ watchdog[w] = "watching" /\ cause[w] # None
    /\ watchdog' = [watchdog EXCEPT ![w] = "off"]
    /\ UNCHANGED <<admission, runs, cause, work, status, callers, parentDone>>

\* Cancel(runID) of a registered run.
Cancel(w) ==
    /\ w \in runs
    /\ cause' = [cause EXCEPT ![w] = Cancelled(w, Canceled)]
    /\ UNCHANGED <<admission, runs, watchdog, work, status, callers, parentDone>>

\* The context given to Start is cancelled, and with it its runs.
ParentCancel ==
    /\ started /\ ~parentDone
    /\ parentDone' = TRUE
    /\ cause' = [w \in Workers |->
                    IF w \in runs \cap Tasks THEN Cancelled(w, Canceled) ELSE cause[w]]
    /\ UNCHANGED <<admission, runs, watchdog, work, status, callers>>

-----------------------------------------------------------------------------
(* Shutdown                                                                *)

FinishStopEarly(stop, left) == stopClosed' = (stopClosed \/ stop)

\* finishStopLocked: the last of the stop and the end of the work closes stopDone.
FinishStopLocked(stop, left) == stopClosed' = (stopClosed \/ (stop /\ left = 0))

WorkFinishedSilently(w) ==
    /\ pc[w] = "exit"
    /\ pending' = pending - 1
    /\ Goto(w, "done")
    /\ UNCHANGED <<tasks, started, stopped, stopCause, stopClosed, running,
                   jobTask, attempt, failed, due, status, callers, parentDone>>

\* workFinished, deferred by every worker goroutine.
WorkFinished(w) ==
    /\ pc[w] = "exit"
    /\ pending' = pending - 1
    /\ FinishStopLocked(stopped, pending - 1)
    /\ Goto(w, "done")
    /\ UNCHANGED <<tasks, started, stopped, stopCause, running, jobTask,
                   attempt, failed, due, status, callers, parentDone>>

\* StopContext under s.mu.
StopEnter(c) ==
    /\ stopper[c] = "idle"
    /\ stopped' = TRUE
    /\ FinishStopLocked(TRUE, pending)
    /\ stopper' = [stopper EXCEPT ![c] = "entered"]
    /\ UNCHANGED <<tasks, started, pending, stopCause, running, work, status,
                   ctxErr, round, parentDone>>

CancelRunsNewestOnly(e) ==
    /\ stopCause' = IF stopCause = None THEN e ELSE stopCause
    /\ UNCHANGED cause

\* cancelRuns: the first cause is kept for every later attempt too.
CancelRuns(e) ==
    /\ stopCause' = IF stopCause = None THEN e ELSE stopCause
    /\ cause' = [w \in Workers |->
                    IF w \in runs THEN Cancelled(w, stopCause') ELSE cause[w]]

StopGiveUpOnEntryOnly(c) ==
    /\ stopper[c] = "entered" /\ ctxErr[c] # None
    /\ CancelRuns(ctxErr[c])
    /\ stopper' = [stopper EXCEPT ![c] = "err"]
    /\ UNCHANGED <<tasks, started, stopped, pending, stopClosed, runs, watchdog,
                   work, status, ctxErr, round, parentDone>>

\* Both ctx.Err() != nil paths that cancel: on entry and out of the select.
StopGiveUp(c) ==
    /\ stopper[c] \in {"entered", "waiting"} /\ ctxErr[c] # None
    /\ CancelRuns(ctxErr[c])
    /\ stopper' = [stopper EXCEPT ![c] = "err"]
    /\ UNCHANGED <<tasks, started, stopped, pending, stopClosed, runs, watchdog,
                   work, status, ctxErr, round, parentDone>>

\* ctx.Err() was nil: wait in the select.
StopWait(c) ==
    /\ stopper[c] = "entered" /\ ctxErr[c] = None
    /\ stopper' = [stopper EXCEPT ![c] = "waiting"]
    /\ UNCHANGED <<admission, running, work, status, ctxErr, round, parentDone>>

\* stopDone is closed; a context that ended meanwhile is still reported.
StopDrained(c) ==
    /\ stopper[c] = "waiting" /\ stopClosed
    /\ stopper' = [stopper EXCEPT ![c] = IF ctxErr[c] = None THEN "ok" ELSE "err"]
    /\ UNCHANGED <<admission, running, work, status, ctxErr, round, parentDone>>

\* The caller's context ends.  Stop(grace) cancels its own in the first round and
\* lets a deadline expire in the second.
StopperCtxEnds(c, e) ==
    /\ stopper[c] \notin {"ok", "err"} /\ ctxErr[c] = None
    /\ c \in GraceStoppers => e = (IF round[c] = 1 THEN Canceled ELSE DeadlineExceeded)
    /\ ctxErr' = [ctxErr EXCEPT ![c] = e]
    /\ UNCHANGED <<admission, running, work, status, stopper, round, parentDone>>

\* Stop(grace) calls StopContext again, with a fresh context, after an error.
StopAgain(c) ==
    /\ c \in GraceStoppers /\ stopper[c] = "err" /\ round[c] = 1
    /\ round' = [round EXCEPT ![c] = 2]
    /\ ctxErr' = [ctxErr EXCEPT ![c] = None]
    /\ stopper' = [stopper EXCEPT ![c] = "idle"]
    /\ UNCHANGED <<admission, running, work, status, parentDone>>

-----------------------------------------------------------------------------

LoopStep(t) ==
    \/ LoopNextDue(t) \/ LoopStoreDue(t) \/ LoopUnwind(t) \/ LoopTimer(t)
    \/ LoopRecheck(t)

RunStep(w) ==
    \/ AttemptBegin(w) \/ AttemptStartLoad(w) \/ AttemptStartSave(w)
    \/ AttemptEnd(w) \/ AttemptFinishLoad(w) \/ AttemptFinishSave(w)
    \/ BackoffUnwind(w) \/ BackoffElapsed(w) \/ WorkFinished(w)

StopStep(c) == StopGiveUp(c) \/ StopWait(c) \/ StopDrained(c)

Next ==
    \/ \E t \in Tasks : Register(t) \/ LoopStep(t)
    \/ Start
    \/ \E j \in Jobs, t \in Tasks : Enqueue(j, t)
    \/ \E w \in Workers : RunStep(w) \/ WatchdogExit(w) \/ Cancel(w)
    \/ \E w \in Workers, err \in BOOLEAN : FnReturn(w, err)
    \/ \E w \in Workers, e \in {Stall, Timeout} : WatchdogFire(w, e)
    \/ ParentCancel
    \/ \E c \in Stoppers : StopEnter(c) \/ StopStep(c) \/ StopAgain(c)
    \/ \E c \in Stoppers, e \in StopCauses : StopperCtxEnds(c, e)

Spec == Init /\ [][Next]_vars

\* What the Go runtime guarantees whatever the tasks do: goroutines that can run
\* do, timers fire, and a select that is offered a ready case again and again
\* takes it (it chooses at random).
RuntimeFairness ==
    /\ \A t \in Tasks : WF_vars(LoopStep(t)) /\ SF_vars(LoopUnwind(t))
    /\ \A w \in Workers : /\ WF_vars(RunStep(w)) /\ SF_vars(BackoffUnwind(w))
                          /\ WF_vars(WatchdogExit(w))
    /\ \A c \in Stoppers : WF_vars(StopStep(c))
    /\ \A c \in GraceStoppers :
          /\ WF_vars(\E e \in StopCauses : StopperCtxEnds(c, e))
          /\ WF_vars(StopAgain(c)) /\ WF_vars(StopEnter(c) /\ round[c] = 2)

\* A task function that returns once its context is done.
Cooperative ==
    \A w \in Workers : WF_vars(cause[w] # None /\ \E err \in BOOLEAN : FnReturn(w, err))

FairSpec == Spec /\ RuntimeFairness

-----------------------------------------------------------------------------
(* Properties                                                              *)

\* Every variable keeps its type.
TypeOK ==
    /\ tasks \subseteq Tasks
    /\ started \in BOOLEAN /\ stopped \in BOOLEAN /\ stopClosed \in BOOLEAN
    /\ parentDone \in BOOLEAN
    /\ pending \in Nat
    /\ stopCause \in StopCauses \cup {None}
    /\ runs \subseteq Workers
    /\ pc \in [Workers -> PCs]
    /\ jobTask \in [Jobs -> Tasks \cup {None}]
    /\ attempt \in [Workers -> 0..AttemptCap]
    /\ failed \in [Workers -> BOOLEAN]
    /\ cause \in [Workers -> Causes]
    /\ watchdog \in [Workers -> {"off", "watching"}]
    /\ due \in [Tasks -> Nat]
    /\ store \in [Tasks -> Rows]
    /\ row \in [Workers -> Rows]
    /\ stopper \in [Stoppers -> {"idle", "entered", "waiting", "ok", "err"}]
    /\ ctxErr \in [Stoppers -> StopCauses \cup {None}]
    /\ round \in [Stoppers -> {1, 2}]

\* Shutdown keeps the promise of DrainGate: the admitted units are the accepted
\* loops and jobs, StopContext closes admission and stopDone announces the end.
Gate == INSTANCE DrainGate WITH
            Units <- Workers, live <- Active, stopping <- stopped, drained <- stopClosed

RefinesDrainGate == Gate!Spec

\* StopContext returns nil, or stopDone is seen closed, only when every accepted
\* loop and job has finished: nothing is running, registered or watching any
\* more, and a second StopContext may rely on it.
DrainedWhenStopped ==
    stopClosed \/ (\E c \in Stoppers : stopper[c] = "ok") =>
        /\ stopped
        /\ \A w \in Workers : pc[w] \in {"idle", "done"} /\ watchdog[w] # "watching"
        /\ runs = {}

\* Once a stopper has given up on the drain, every registered run has its context
\* cancelled, also the ones that registered after cancelRuns went over the map.
GiveUpReachesEveryRun == stopCause # None => \A w \in runs : cause[w] # None

\* A watchdog goroutine lives only as long as the run it watches is registered,
\* so that it can never cancel a later attempt of the same worker.
WatchdogWithinRun ==
    \A w \in Workers : watchdog[w] = "watching" => w \in runs /\ pc[w] \in {"fn", "join"}

\* A run is retried at most MaxAttempts times, and never after it succeeded.
RetriesBounded ==
    \A w \in Workers :
        /\ pc[w] = "backoff" => failed[w]
        /\ pc[w] \notin {"idle", "done"} /\ TaskOf(w) \in Tasks /\ MaxAttempts[TaskOf(w)] > 0
              => attempt[w] <= MaxAttempts[TaskOf(w)]

\* Giving up on the drain ends it when the tasks cooperate: every run sees a done
\* context, unlimited retries included, and the completion channel is closed.
GiveUpDrains == Cooperative => (stopCause # None ~> stopClosed)

\* Stop(grace) returns whatever the tasks do: after at most two grace windows.
StopReturns ==
    \A c \in GraceStoppers :
        stopper[c] = "entered" ~>
            (stopper[c] = "ok" \/ (stopper[c] = "err" /\ round[c] = 2))

\* Cancelling the context given to Start unwinds every schedule loop when the
\* tasks cooperate.
ParentCancelUnwinds ==
    Cooperative => (parentDone ~> \A t \in Tasks : pc[t] \in {"idle", "done"})

\* The inductive strengthening of the safety properties above.
Registered == \A w \in Workers :
    w \in runs <=> pc[w] \in {"startLoad", "startSave", "fn", "join"}
LoopsAfterStart == ~started => \A t \in Tasks : pc[t] = "idle"
JobsHaveTasks == \A j \in Jobs : pc[j] # "idle" => jobTask[j] \in Tasks
PendingCounts == pending = Cardinality(Active)
ClosedExactly == stopClosed <=> stopped /\ Active = {}
OkAfterClose == \A c \in Stoppers : stopper[c] = "ok" => stopClosed
AttemptsLeft == \A w \in Workers :
    /\ pc[w] = "idle" => attempt[w] = 0
    /\ pc[w] = "backoff" => ShouldRetry(attempt[w], MaxAttempts[TaskOf(w)])
    /\ pc[w] = "attempt" => MaxAttempts[TaskOf(w)] = 0 \/ attempt[w] < MaxAttempts[TaskOf(w)]

\* What s.mu protects: the counters, the run map and the channels agree with
\* where the goroutines are, in every reachable state.
Consistent ==
    /\ Registered /\ LoopsAfterStart /\ JobsHaveTasks /\ PendingCounts
    /\ ClosedExactly /\ OkAfterClose /\ WatchdogWithinRun
    /\ GiveUpReachesEveryRun /\ AttemptsLeft

\* The comment on updateStatus: NextDueAt is owned by the schedule loop and is
\* preserved by loading the row first, which avoids racing the loop.  While a loop
\* waits, its task's row holds the due time the loop stored last.
NextDueAtOwnedByLoop ==
    \A t \in Tasks : pc[t] = "wait" => store[t].nextDue = due[t]

\* What holds of the scheduler in every state: the counter of pending work and the
\* registered runs agree with the goroutines (Consistent), so a Stop that reports
\* success left nothing running, and one that gave up has cancelled every run.
SchedulerInv == TypeOK /\ Consistent /\ DrainedWhenStopped
=============================================================================
