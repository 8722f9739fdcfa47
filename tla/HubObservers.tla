----------------------------- MODULE HubObservers -----------------------------
(***************************************************************************)
(* Package hub, observer.go: dispatch to observers, their detachment and   *)
(* the end of Hub.Close.                                                   *)
(*                                                                         *)
(* A subscriber's slot holds one atomic word: a retired bit and the number *)
(* of callbacks admitted by observeConcurrent.  Pumps and reserved         *)
(* upgrades (Owners) hold back finishClose by themselves and dispatch      *)
(* through observe, which only reads the retired bit; broadcasts, sends    *)
(* and unreserved rejections (Guests) dispatch through observeConcurrent,  *)
(* which counts itself in.  A callback that panics detaches its subscriber *)
(* and tells the others from inside the same dispatch, hence the stacks.   *)
(* A compare-and-swap loop is one atomic step: its successful iteration.   *)
(***************************************************************************)
EXTENDS Integers, FiniteSets, Sequences

CONSTANTS
    Slots,      \* subscribers
    Telemetry,  \* the ones registered through UseTelemetryObserver
    Owners,     \* goroutines that Close waits for
    Guests,     \* goroutines it does not know of
    None

Goroutines == Owners \cup Guests

ASSUME ObserversAssumption ==
    /\ IsFiniteSet(Slots) /\ IsFiniteSet(Goroutines)
    /\ Telemetry \subseteq Slots /\ Owners \cap Guests = {} /\ None \notin Slots

VARIABLES
    list,       \* h.observers
    telemetry,  \* h.telemetryObserver
    used,       \* subscribers accepted by useObserver so far
    served,     \* h.served
    closing,    \* h.closing
    unit,       \* owner -> "new", "live" (holds a reservation or a pump), "gone"
    count,      \* slot.state without its retired bit
    retired,    \* the retired bit
    drained,    \* slot.drained is closed
    detaching,  \* subscribers whose detach has retired but not yet unlisted them
    stack,      \* goroutine -> its dispatches in progress, the innermost first
    closer,     \* where finishClose is
    closeList,  \* the slots finishClose swapped out
    swept,      \* those its first loop has passed
    active,     \* those it retired itself
    told        \* those whose Closed callback has been invoked

hubState == <<list, telemetry, used, served, closing, unit>>
words == <<count, retired, drained>>
finish == <<closer, closeList, swept, active, told>>
vars == <<hubState, words, detaching, stack, finish>>

Dispatching(l, guarded) == [todo |-> l, at |-> None, pc |-> "visit", guarded |-> guarded]

Init ==
    /\ list = {} /\ telemetry = None /\ used = {} /\ served = FALSE /\ closing = FALSE
    /\ unit = [g \in Owners |-> "new"]
    /\ count = [s \in Slots |-> 0]
    /\ retired = [s \in Slots |-> FALSE]
    /\ drained = [s \in Slots |-> FALSE]
    /\ detaching = {}
    /\ stack = [g \in Goroutines |-> <<>>]
    /\ closer = "idle" /\ closeList = {} /\ swept = {} /\ active = {} /\ told = {}

-----------------------------------------------------------------------------
(* Registration, owners and detachment                                     *)

\* useObserver: refused once the hub serves or closes, or for a second telemetry.
Use(s) ==
    /\ s \notin used /\ ~closing /\ ~served
    /\ s \in Telemetry => telemetry = None
    /\ used' = used \cup {s} /\ list' = list \cup {s}
    /\ telemetry' = IF s \in Telemetry THEN s ELSE telemetry
    /\ UNCHANGED <<served, closing, unit, words, detaching, stack, finish>>

\* reserveClientSlot: an owner is admitted while the hub is not closing.
OwnerStarts(g) ==
    /\ unit[g] = "new" /\ ~closing
    /\ unit' = [unit EXCEPT ![g] = "live"] /\ served' = TRUE
    /\ UNCHANGED <<list, telemetry, used, closing, words, detaching, stack, finish>>

\* pumpFinished or releaseClientSlot: only after the owner's callbacks returned.
OwnerLeaves(g) ==
    /\ unit[g] = "live" /\ stack[g] = <<>>
    /\ unit' = [unit EXCEPT ![g] = "gone"]
    /\ UNCHANGED <<list, telemetry, used, served, closing, words, detaching, stack,
                   finish>>

BeginClose ==
    /\ ~closing /\ closing' = TRUE
    /\ UNCHANGED <<list, telemetry, used, served, unit, words, detaching, stack, finish>>

\* retire, for a slot that is not retired yet.
Retire(s) ==
    /\ retired' = [retired EXCEPT ![s] = TRUE]
    /\ drained' = [drained EXCEPT ![s] = count[s] = 0]
    /\ UNCHANGED count

\* The rest of detachObserver, under h.mu.
Unlist(s) ==
    /\ telemetry' = IF telemetry = s THEN None ELSE telemetry
    /\ list' = list \ {s}

\* The detach function of UseObserver, called by the application.
Detach(s) ==
    /\ s \in used /\ ~retired[s]
    /\ Retire(s)
    /\ detaching' = detaching \cup {s}
    /\ UNCHANGED <<hubState, stack, finish>>

DetachUnlists(s) ==
    /\ s \in detaching
    /\ detaching' = detaching \ {s}
    /\ Unlist(s)
    /\ UNCHANGED <<used, served, closing, unit, words, stack, finish>>

-----------------------------------------------------------------------------
(* Dispatch                                                                *)

Top(g) == Head(stack[g])
Running(g, pc) == stack[g] # <<>> /\ Top(g).pc = pc
SetTop(g, f) == stack' = [stack EXCEPT ![g] = <<f>> \o Tail(@)]

\* observe by an owner, observeConcurrent by a guest.
Dispatch(g) ==
    /\ stack[g] = <<>> /\ list # {}
    /\ g \in Owners => unit[g] = "live"
    /\ stack' = [stack EXCEPT ![g] = <<Dispatching(list, g \in Guests)>>]
    /\ UNCHANGED <<hubState, words, detaching, finish>>

VisitUncounted(g, s) ==
    /\ Running(g, "visit") /\ s \in Top(g).todo /\ ~retired[s]
    /\ SetTop(g, [Top(g) EXCEPT !.todo = @ \ {s}, !.at = s, !.pc = "call",
                                !.guarded = FALSE])
    /\ UNCHANGED <<hubState, words, detaching, finish>>

\* visitObserver admits a guest by counting it, observe just looks at the bit.
Visit(g, s) ==
    /\ Running(g, "visit") /\ s \in Top(g).todo /\ ~retired[s]
    /\ count' = IF Top(g).guarded THEN [count EXCEPT ![s] = @ + 1] ELSE count
    /\ SetTop(g, [Top(g) EXCEPT !.todo = @ \ {s}, !.at = s, !.pc = "call"])
    /\ UNCHANGED <<hubState, retired, drained, detaching, finish>>

Skip(g, s) ==
    /\ Running(g, "visit") /\ s \in Top(g).todo /\ retired[s]
    /\ SetTop(g, [Top(g) EXCEPT !.todo = @ \ {s}])
    /\ UNCHANGED <<hubState, words, detaching, finish>>

LeaveForgetsDrain(s) ==
    /\ count' = [count EXCEPT ![s] = @ - 1]
    /\ UNCHANGED drained

\* leave: the last callback out of a retired slot closes drained.
Leave(s) ==
    /\ count' = [count EXCEPT ![s] = @ - 1]
    /\ drained' = [drained EXCEPT ![s] = @ \/ (retired[s] /\ count[s] = 1)]

\* The callback is over and its deferred leave, if any, has run.
VisitDone(g) ==
    LET f == Top(g) IN
    /\ IF f.guarded THEN Leave(f.at) ELSE UNCHANGED <<count, drained>>
    /\ SetTop(g, [f EXCEPT !.at = None, !.pc = "visit"])

Return(g) ==
    /\ Running(g, "call")
    /\ VisitDone(g)
    /\ UNCHANGED <<hubState, retired, detaching, finish>>

\* The callback panics: the recover of invokeObserver detaches the subscriber ...
Panic(g) ==
    /\ Running(g, "call")
    /\ LET s == Top(g).at IN
          IF retired[s]
          THEN /\ SetTop(g, [Top(g) EXCEPT !.pc = "tell"])
               /\ UNCHANGED words
          ELSE /\ SetTop(g, [Top(g) EXCEPT !.pc = "unlist"])
               /\ Retire(s)
    /\ UNCHANGED <<hubState, detaching, finish>>

PanicUnlists(g) ==
    /\ Running(g, "unlist")
    /\ Unlist(Top(g).at)
    /\ SetTop(g, [Top(g) EXCEPT !.pc = "tell"])
    /\ UNCHANGED <<used, served, closing, unit, words, detaching, finish>>

\* ... and notifies the others through a nested observeConcurrent.
PanicTells(g) ==
    /\ Running(g, "tell")
    /\ stack' = [stack EXCEPT ![g] = <<Dispatching(list, TRUE),
                                       [Top(g) EXCEPT !.pc = "telling"]>> \o Tail(@)]
    /\ UNCHANGED <<hubState, words, detaching, finish>>

PanicTold(g) ==
    /\ Running(g, "telling")
    /\ VisitDone(g)
    /\ UNCHANGED <<hubState, retired, detaching, finish>>

DispatchDone(g) ==
    /\ Running(g, "visit") /\ Top(g).todo = {}
    /\ stack' = [stack EXCEPT ![g] = Tail(@)]
    /\ UNCHANGED <<hubState, words, detaching, finish>>

-----------------------------------------------------------------------------
(* finishClose                                                             *)

FinishSwap ==
    /\ closer = "idle" /\ closing /\ \A g \in Owners : unit[g] # "live"
    /\ closer' = "retire" /\ closeList' = list
    /\ list' = {} /\ telemetry' = None
    /\ UNCHANGED <<used, served, closing, unit, words, detaching, stack, swept, active,
                   told>>

FinishRetires(s) ==
    /\ closer = "retire" /\ s \in closeList \ swept
    /\ swept' = swept \cup {s}
    /\ IF retired[s] THEN UNCHANGED <<words, active>>
                     ELSE Retire(s) /\ active' = active \cup {s}
    /\ UNCHANGED <<hubState, detaching, stack, closer, closeList, told>>

\* Every slot of the list is retired and has drained, an inactive one too.
FinishWaits ==
    /\ closer = "retire" /\ swept = closeList /\ \A s \in closeList : drained[s]
    /\ closer' = "tell"
    /\ UNCHANGED <<hubState, words, detaching, stack, closeList, swept, active, told>>

FinishTellsAll(s) ==
    /\ closer = "tell" /\ s \in closeList \ told
    /\ told' = told \cup {s}
    /\ UNCHANGED <<hubState, words, detaching, stack, closer, closeList, swept, active>>

\* The Closed callback.  If it panics, its slot is retired and the list is nil.
FinishTells(s) ==
    /\ closer = "tell" /\ s \in active \ told
    /\ told' = told \cup {s}
    /\ UNCHANGED <<hubState, words, detaching, stack, closer, closeList, swept, active>>

\* close(h.closeDone): Close returns nil.
FinishDone ==
    /\ closer = "tell" /\ active \subseteq told
    /\ closer' = "done"
    /\ UNCHANGED <<hubState, words, detaching, stack, closeList, swept, active, told>>

-----------------------------------------------------------------------------

DispatchStep(g) ==
    \/ \E s \in Slots : Visit(g, s) \/ Skip(g, s)
    \/ Return(g) \/ PanicUnlists(g) \/ PanicTells(g) \/ PanicTold(g) \/ DispatchDone(g)

FinishStep ==
    \/ FinishSwap \/ FinishWaits \/ FinishDone
    \/ \E s \in Slots : FinishRetires(s) \/ FinishTells(s)

Next ==
    \/ BeginClose \/ FinishStep
    \/ \E s \in Slots : Use(s) \/ Detach(s) \/ DetachUnlists(s)
    \/ \E g \in Owners : OwnerStarts(g) \/ OwnerLeaves(g)
    \/ \E g \in Goroutines : Dispatch(g) \/ DispatchStep(g) \/ Panic(g)

Spec == Init /\ [][Next]_vars

\* Callbacks are bounded, as the Observer contract demands; goroutines that can
\* run do; the pumps of a closing hub end (Hub!CloseCompletes), although an owner
\* may dispatch any number of times before.
Fairness ==
    /\ WF_vars(FinishStep)
    /\ \A g \in Goroutines : WF_vars(DispatchStep(g))
    /\ \A g \in Owners : SF_vars(closing /\ OwnerLeaves(g))

FairSpec == Spec /\ Fairness

-----------------------------------------------------------------------------
(* Properties                                                              *)

Frames == [todo : SUBSET Slots, at : Slots \cup {None},
           pc : {"visit", "call", "unlist", "tell", "telling"}, guarded : BOOLEAN]

\* Every variable keeps its type.
TypeOK ==
    /\ list \subseteq used /\ used \subseteq Slots /\ detaching \subseteq Slots
    /\ telemetry \in Telemetry \cup {None} /\ unit \in [Owners -> {"new", "live", "gone"}]
    /\ served \in BOOLEAN /\ closing \in BOOLEAN
    /\ count \in [Slots -> Nat] /\ retired \in [Slots -> BOOLEAN]
    /\ drained \in [Slots -> BOOLEAN]
    /\ \A g \in Goroutines : \A i \in DOMAIN stack[g] : stack[g][i] \in Frames
    /\ closer \in {"idle", "retire", "tell", "done"}
    /\ closeList \subseteq used /\ swept \subseteq closeList
    /\ active \subseteq swept /\ told \subseteq used

\* The goroutines inside a callback of subscriber s.
Inside(s) ==
    {g \in Goroutines : \E i \in DOMAIN stack[g] : stack[g][i].at = s /\ stack[g][i].pc = "call"}

\* The Observer contract and docs/hub-observers.md: Closed is the final callback of
\* a subscriber.  When it is invoked no other callback of that subscriber is in
\* progress, counted or not, and none starts afterwards, not even from a broadcast
\* or a panic notification that loaded the list before the close.
ClosedIsLast == \A s \in told : Inside(s) = {}

\* A subscriber that was detached, by the application or for panicking, is not told
\* Closed: whoever retired the slot first decides.
DetachedIsNotTold ==
    \A s \in told : s \notin detaching
        /\ \A g \in Goroutines : ~(Running(g, "unlist") /\ Top(g).at = s)

\* drained is closed exactly when a retired slot has no counted callback left, so
\* finishClose neither passes too early nor waits for ever.
DrainedIffIdle == \A s \in Slots : drained[s] <=> retired[s] /\ count[s] = 0

\* The counters of the observer registry against the goroutines inside callbacks:
\* a slot is drained exactly when it is retired and idle, and a subscriber that was
\* detached before the close is not told Closed.
ObserversInv == TypeOK /\ DetachedIsNotTold /\ DrainedIffIdle

\* The close of the hub finishes although callbacks may panic, be detached and
\* notify each other while it waits for them.
CloseFinishes == closing ~> closer = "done"

\* docs/hub-observers.md: Close waits for reservations, both pumps and admitted
\* observer callbacks.
CloseWaitsForCallbacks == closer = "done" => \A s \in Slots : Inside(s) = {}
=============================================================================
