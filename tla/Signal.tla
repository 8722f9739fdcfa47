------------------------------- MODULE Signal -------------------------------
(***************************************************************************)
(* Reactive values of package signal (signal/signal.go, batch.go, track.go) *)
(* used from several goroutines: base signals that are written, Computed    *)
(* values that cache a function of other nodes, Effects that rerun, and     *)
(* raw subscribers, here called watchers.                                   *)
(*                                                                         *)
(* No lock is held while a callback runs, so what a goroutine has still to  *)
(* do is a stack of calls, stack[g]; each step runs one critical section of *)
(* the call on top and replaces that call by the calls it leads to.         *)
(*                                                                         *)
(* A subscription is named by its subscriber: two entries of one effect on  *)
(* one signal have the same callback and are not told apart.                *)
(***************************************************************************)
EXTENDS Integers, Sequences, FiniteSets, SequencesExt

CONSTANTS
    Goroutines,     \* the goroutines of the application
    Bases,          \* signals made by New
    Derived,        \* values made by Derive
    Effects,        \* effects made by Watch
    Watchers,       \* callbacks given to Subscribe
    WatchedBy(_),   \* the node a watcher subscribes to
    Starts,         \* initial states: the value of every base signal, and the derived
                    \* values, effects and watchers in the order they were made
    Values(_),      \* what a base signal may hold
    Source(_, _),   \* the node a function reads after reading these values, if any
    Result(_, _),   \* the value a function returns after reading these values
    Batchers,       \* the goroutines that use Batch
    Keepers,        \* the goroutines that derive, stop and dispose
    None,
    MaxOps,         \* bound: operations a goroutine starts outside Batch
    MaxTotal,       \* bound: operations all of them start, inside Batch too
    MaxReads,       \* bound: nodes one function reads
    MaxPanics       \* bound: computations that panic

ASSUME SignalAssumption ==
    /\ IsFiniteSet(Goroutines) /\ Goroutines # {} /\ Batchers \cup Keepers \subseteq Goroutines
    /\ IsFiniteSet(Watchers) /\ None \notin Goroutines
    /\ Derived \cap (Bases \cup Effects \cup Watchers) = {} /\ Effects \cap Watchers = {}
    /\ \A start \in Starts : /\ start.made \in Seq(Derived \cup Effects \cup Watchers)
                             /\ IsInjective(start.made) /\ Effects \subseteq Range(start.made)
                             /\ \A s \in Bases : start.first \in Values(s)
    /\ \A w \in Watchers : WatchedBy(w) \in Bases \cup Derived
    /\ MaxOps \in Nat /\ MaxTotal \in Nat
    /\ MaxReads \in Nat /\ MaxPanics \in Nat

Nodes == Bases \cup Derived

VARIABLES
    node,     \* Signal: value, rev, and subs, the subscribers in order
    comp,     \* Computed: dirty, refreshing, stopped, deps, the holder of mu, stage
    effect,   \* Effect: dead, unsubs, the holder of mu, read (what its last run read)
    batch,    \* batchDepth and batchQueue
    stack,    \* the calls each goroutine has still to make
    seen,     \* the value each watcher read last
    ops,      \* operations started by each goroutine
    panics,   \* computations that panicked
    lone      \* history: callbacks per watcher in a Set nobody else overlaps

vars == <<node, comp, effect, batch, stack, seen, ops, panics, lone>>

-----------------------------------------------------------------------------
(* What the functions read and compute. *)

\* recordDependency: the first read of a node is the one that counts.
Record(deps, read) ==
    IF \E i \in DOMAIN deps : deps[i].source = read.source THEN deps
    ELSE Append(deps, [source |-> read.source, rev |-> read.rev])

Deps(reads) == FoldLeft(Record, <<>>, reads)

Vals(reads) == [i \in DOMAIN reads |-> reads[i].value]

SourcesOf(deps) == [i \in DOMAIN deps |-> deps[i].source]

\* What the function of n reads when the nodes hold value.
Reading(n, value) ==
    LET reads[k \in 0..MaxReads] ==
            IF k = 0 THEN <<>>
            ELSE LET s == Source(n, Vals(reads[k - 1]))
                 IN IF s \in Nodes
                    THEN Append(reads[k - 1], [source |-> s, rev |-> 0, value |-> value[s]])
                    ELSE reads[k - 1]
    IN reads[MaxReads]

\* What every node is worth, given what the base signals and the stopped
\* values hold.
Worth(fixed) ==
    LET worth[n \in Nodes] ==
            IF n \in DOMAIN fixed THEN fixed[n] ELSE Result(n, Vals(Reading(n, worth)))
    IN worth

WorthNow ==
    Worth([n \in Bases \cup {c \in Derived : comp[c].stopped} |-> node[n].value])

-----------------------------------------------------------------------------
(* Calls. *)

Call(op, at, args) == [op |-> op, at |-> at, args |-> args]

Calls(op, at, args) == [i \in 1..Len(at) |-> Call(op, at[i], args)]

\* Calling a subscriber: onDepChange, Effect.run or an application callback.
CallOf(who) ==
    Call(CASE who \in Derived -> "onDepChange"
           [] who \in Effects -> "run"
           [] OTHER -> "callback", who, <<>>)

CallsOf(subs) == [i \in 1..Len(subs) |-> CallOf(subs[i])]

\* The subscribers that have an invalidator.
Computeds(subs) ==
    LET among[k \in 0..Len(subs)] ==
            IF k = 0 THEN <<>>
            ELSE IF subs[k] \in Derived THEN Append(among[k - 1], subs[k]) ELSE among[k - 1]
    IN among[Len(subs)]

\* What a write calls once its lock is released: the invalidators of the
\* subscribers, then the subscribers.
PublishWithoutInvalidation(subs) ==
    IF subs = <<>> THEN <<>> ELSE <<Call("batchNotify", None, subs)>>

Publish(subs) ==
    Calls("invalidate", Computeds(subs), <<>>)
    \o (IF subs = <<>> THEN <<>> ELSE <<Call("batchNotify", None, subs)>>)

\* Cached reads of a node: a derived one is refreshed first.
Refresh(n) == IF n \in Derived THEN <<Call("refresh", n, <<>>)>> ELSE <<>>

Idle(g) == stack[g] = <<>>

Top(g) == Head(stack[g])

At(g, op) == ~Idle(g) /\ Top(g).op = op

\* The call on top of g's stack is replaced by these calls.
Goes(g, calls) == stack' = [stack EXCEPT ![g] = calls \o Tail(@)]

OwnsBatch(g) == \E i \in DOMAIN stack[g] : stack[g][i].op = "endBatch"

\* What a panic leaves of a stack: the deferred ends of the Batches under way.
Deferred(calls) ==
    LET ends == {i \in DOMAIN calls : calls[i].op = "endBatch"}
    IN [k \in 1..Cardinality(ends) |-> Call("endBatch", None, <<>>)]

\* g is inside a Set or a Batch.
Writing(g) == \E i \in DOMAIN stack[g] : stack[g][i].op \in {"endBatch", "endSet"}

-----------------------------------------------------------------------------
(* Init: Derive, Watch and Subscribe have been called in the order made.    *)

\* The dependencies of who when the nodes hold value.
FirstDeps(who, value) == Deps(Reading(who, value))

\* Subscriber who joins the nodes it depends on.
Join(nodes, who) ==
    LET value == [n \in Nodes |-> nodes[n].value]
        uses == IF who \in Watchers THEN {WatchedBy(who)}
                ELSE Range(SourcesOf(FirstDeps(who, value)))
    IN [n \in Nodes |-> IF n \in uses THEN [nodes[n] EXCEPT !.subs = Append(@, who)]
                        ELSE nodes[n]]

Init == \E start \in Starts :
    LET made == start.made
        value == Worth([s \in Bases |-> start.first])
        reads(e) == SourcesOf(FirstDeps(e, value))
    IN
    /\ node = FoldLeft(Join, [n \in Nodes |-> [value |-> value[n], rev |-> 0, subs |-> <<>>]],
                       made)
    /\ comp = [c \in Derived |->
                 [dirty |-> FALSE, refreshing |-> FALSE, stopped |-> FALSE, mu |-> None,
                  stage |-> IF c \in Range(made) THEN "live" ELSE "new",
                  deps |-> IF c \in Range(made) THEN FirstDeps(c, value) ELSE <<>>]]
    /\ effect = [e \in Effects |->
                   [dead |-> FALSE, mu |-> None, unsubs |-> reads(e), read |-> reads(e)]]
    /\ batch = [depth |-> 0, queue |-> <<>>]
    /\ stack = [g \in Goroutines |-> <<>>]
    /\ seen = [w \in Watchers |-> value[WatchedBy(w)]]
    /\ ops = [g \in Goroutines |-> 0]
    /\ panics = 0
    /\ lone = [by |-> None, calls |-> [w \in Watchers |-> 0]]

-----------------------------------------------------------------------------
(* Operations the application starts, each up to the end of its first        *)
(* critical section. It starts them one after the other, and inside the      *)
(* function of a Batch.                                                      *)

Begins(g, calls) ==
    /\ (Idle(g) /\ ops[g] < MaxOps) \/ At(g, "endBatch")
    /\ FoldFunction(LAMBDA x, y : x + y, 0, ops) < MaxTotal
    /\ ops' = [ops EXCEPT ![g] = @ + 1]
    /\ stack' = [stack EXCEPT ![g] = calls \o @]

NotAlone == lone' = [lone EXCEPT !.by = None]

\* Set and Update. While a Batch is open only its goroutine writes.
Set(g, s, v) ==
    /\ \A h \in Goroutines \ {g} : ~OwnsBatch(h)
    /\ v # node[s].value
    /\ node' = [node EXCEPT ![s].value = v, ![s].rev = @ + 1]
    /\ Begins(g, Publish(node[s].subs) \o <<Call("endSet", None, <<>>)>>)
    /\ lone' = [by |-> IF \A h \in Goroutines : Idle(h) THEN g ELSE None,
                calls |-> [w \in Watchers |-> 0]]
    /\ UNCHANGED <<comp, effect, batch, seen, panics>>

Get(g, c) ==
    /\ comp[c].stage = "live"
    /\ Begins(g, Refresh(c))
    /\ NotAlone
    /\ UNCHANGED <<node, comp, effect, batch, seen, panics>>

\* Batch up to the call of its function.
Batch(g) ==
    /\ \A h \in Goroutines \ {g} : ~Writing(h)
    /\ batch' = [batch EXCEPT !.depth = @ + 1]
    /\ Begins(g, <<Call("endBatch", None, <<>>)>>)
    /\ NotAlone
    /\ UNCHANGED <<node, comp, effect, seen, panics>>

\* Derive, followed by Subscribe for the watchers of the new value.
Derive(g, c) ==
    /\ comp[c].stage = "new"
    /\ comp' = [comp EXCEPT ![c].stage = "deriving"]
    /\ Begins(g, <<Call("track", c, <<>>)>>)
    /\ NotAlone
    /\ UNCHANGED <<node, effect, batch, seen, panics>>

Stop(g, c) ==
    /\ comp[c].stage = "live" /\ ~comp[c].stopped /\ comp[c].mu = None
    /\ comp' = [comp EXCEPT ![c].stopped = TRUE, ![c].deps = <<>>]
    /\ Begins(g, [i \in DOMAIN comp[c].deps |-> Call("off", comp[c].deps[i].source, c)])
    /\ NotAlone
    /\ UNCHANGED <<node, effect, batch, seen, panics>>

Dispose(g, e) ==
    /\ ~effect[e].dead /\ effect[e].mu = None
    /\ effect' = [effect EXCEPT ![e].dead = TRUE, ![e].unsubs = <<>>]
    /\ Begins(g, Calls("off", effect[e].unsubs, e))
    /\ NotAlone
    /\ UNCHANGED <<node, comp, batch, seen, panics>>

-----------------------------------------------------------------------------
(* Notification. *)

\* Computed.invalidate: staleness spreads before anything is notified.
Invalidate(g) ==
    /\ At(g, "invalidate")
    /\ LET c == Top(g).at IN
       /\ comp[c].mu = None
       /\ IF comp[c].stopped \/ comp[c].dirty
          THEN Goes(g, <<>>) /\ UNCHANGED comp
          ELSE /\ comp' = [comp EXCEPT ![c].dirty = TRUE]
               /\ Goes(g, <<Call("invalidateSubscribers", c, <<>>)>>)
    /\ UNCHANGED <<node, effect, batch, seen, ops, panics, lone>>

InvalidateSubscribers(g) ==
    /\ At(g, "invalidateSubscribers")
    /\ Goes(g, Calls("invalidate", Computeds(node[Top(g).at].subs), <<>>))
    /\ UNCHANGED <<node, comp, effect, batch, seen, ops, panics, lone>>

BatchNotify(g) ==
    /\ At(g, "batchNotify")
    /\ IF batch.depth > 0
       THEN /\ batch' = [batch EXCEPT !.queue = @ \o Top(g).args]
            /\ Goes(g, <<>>)
       ELSE Goes(g, CallsOf(Top(g).args)) /\ UNCHANGED batch
    /\ UNCHANGED <<node, comp, effect, seen, ops, panics, lone>>

\* The function of a Batch returns or panics: the outermost one delivers.
EndBatch(g) ==
    /\ At(g, "endBatch")
    /\ IF batch.depth = 1
       THEN batch' = [depth |-> 0, queue |-> <<>>] /\ Goes(g, CallsOf(batch.queue))
       ELSE batch' = [batch EXCEPT !.depth = @ - 1] /\ Goes(g, <<>>)
    /\ UNCHANGED <<node, comp, effect, seen, ops, panics, lone>>

EndSet(g) ==
    /\ At(g, "endSet")
    /\ Goes(g, <<>>)
    /\ lone' = [by |-> None, calls |-> [w \in Watchers |-> 0]]
    /\ UNCHANGED <<node, comp, effect, batch, seen, ops, panics>>

OnDepChangeOnce(g) ==
    /\ At(g, "onDepChange")
    /\ LET c == Top(g).at IN
       /\ comp[c].mu = None
       /\ IF comp[c].stopped \/ comp[c].dirty
          THEN Goes(g, <<>>) /\ UNCHANGED comp
          ELSE /\ comp' = [comp EXCEPT ![c].dirty = TRUE]
               /\ Goes(g, <<Call("wake", c, <<>>)>>)
    /\ UNCHANGED <<node, effect, batch, seen, ops, panics, lone>>

OnDepChange(g) ==
    /\ At(g, "onDepChange")
    /\ LET c == Top(g).at IN
       /\ comp[c].mu = None
       /\ IF comp[c].stopped
          THEN Goes(g, <<>>) /\ UNCHANGED comp
          ELSE /\ comp' = [comp EXCEPT ![c].dirty = TRUE]
               /\ Goes(g, <<Call("wake", c, <<>>)>>)
    /\ UNCHANGED <<node, effect, batch, seen, ops, panics, lone>>

\* A derived value nobody subscribes to stays dirty until it is read.
Wake(g) ==
    /\ At(g, "wake")
    /\ Goes(g, IF node[Top(g).at].subs = <<>> THEN <<>> ELSE Refresh(Top(g).at))
    /\ UNCHANGED <<node, comp, effect, batch, seen, ops, panics, lone>>

\* An application callback reads the node it watches.
Callback(g) ==
    /\ At(g, "callback")
    /\ LET w == Top(g).at IN
       /\ lone' = [lone EXCEPT !.calls[w] = IF lone.by = None THEN @ ELSE @ + 1]
       /\ Goes(g, Refresh(WatchedBy(w)) \o <<Call("look", w, <<>>)>>)
    /\ UNCHANGED <<node, comp, effect, batch, seen, ops, panics>>

Look(g) ==
    /\ At(g, "look")
    /\ LET w == Top(g).at IN seen' = [seen EXCEPT ![w] = node[WatchedBy(w)].value]
    /\ Goes(g, <<>>)
    /\ UNCHANGED <<node, comp, effect, batch, ops, panics, lone>>

Unsubscribe(g) ==
    /\ At(g, "off")
    /\ node' = [node EXCEPT ![Top(g).at].subs = RemoveFirst(@, Top(g).args)]
    /\ Goes(g, <<>>)
    /\ UNCHANGED <<comp, effect, batch, seen, ops, panics, lone>>

Subscribe(g) ==
    /\ At(g, "on")
    /\ node' = [node EXCEPT ![Top(g).at].subs = Append(@, Top(g).args)]
    /\ Goes(g, <<>>)
    /\ UNCHANGED <<comp, effect, batch, seen, ops, panics, lone>>

-----------------------------------------------------------------------------
(* Computed.refresh. *)

BeginRefresh(g) ==
    /\ At(g, "refresh")
    /\ LET c == Top(g).at IN
       /\ comp[c].mu = None
       /\ IF comp[c].stopped \/ ~comp[c].dirty \/ comp[c].refreshing
          THEN Goes(g, <<>>) /\ UNCHANGED comp
          ELSE /\ comp' = [comp EXCEPT ![c].refreshing = TRUE]
               /\ Goes(g, <<Call("loop", c, <<>>)>>)
    /\ UNCHANGED <<node, effect, batch, seen, ops, panics, lone>>

LoopKeepsDirty(g) ==
    /\ At(g, "loop")
    /\ LET c == Top(g).at IN
       /\ comp[c].mu = None
       /\ IF comp[c].stopped \/ ~comp[c].dirty
          THEN comp' = [comp EXCEPT ![c].refreshing = FALSE] /\ Goes(g, <<>>)
          ELSE UNCHANGED comp /\ Goes(g, <<Call("check", c, [deps |-> comp[c].deps, changed |-> FALSE])>>)
    /\ UNCHANGED <<node, effect, batch, seen, ops, panics, lone>>

Loop(g) ==
    /\ At(g, "loop")
    /\ LET c == Top(g).at IN
       /\ comp[c].mu = None
       /\ IF comp[c].stopped \/ ~comp[c].dirty
          THEN /\ comp' = [comp EXCEPT ![c].refreshing = FALSE]
               /\ Goes(g, <<>>)
          ELSE /\ comp' = [comp EXCEPT ![c].dirty = FALSE]
               /\ Goes(g, <<Call("check", c, [deps |-> comp[c].deps, changed |-> FALSE])>>)
    /\ UNCHANGED <<node, effect, batch, seen, ops, panics, lone>>

\* The dependencies left to check, once the first one has been compared.
Compared(args) ==
    [deps |-> Tail(args.deps),
     changed |-> args.changed \/ node[Head(args.deps).source].rev # Head(args.deps).rev]

\* Each dependency is refreshed and its revision compared; only a changed one
\* makes the function run.
Check(g) ==
    /\ At(g, "check")
    /\ LET c == Top(g).at
           args == Top(g).args
       IN Goes(g, IF args.deps = <<>>
                  THEN <<IF args.changed THEN Call("track", c, <<>>) ELSE Call("loop", c, <<>>)>>
                  ELSE IF Head(args.deps).source \in Derived
                  THEN Append(Refresh(Head(args.deps).source), Call("compare", c, args))
                  ELSE <<Call("check", c, Compared(args))>>)
    /\ UNCHANGED <<node, comp, effect, batch, seen, ops, panics, lone>>

Compare(g) ==
    /\ At(g, "compare")
    /\ Goes(g, <<Call("check", Top(g).at, Compared(Top(g).args))>>)
    /\ UNCHANGED <<node, comp, effect, batch, seen, ops, panics, lone>>

\* A tracked read: value and revision are taken under one lock.
ReadOf(n) == [source |-> n, rev |-> node[n].rev, value |-> node[n].value]

\* trackDependencies: the function of a derived value or an effect reads its
\* next source.
Track(g) ==
    /\ At(g, "track")
    /\ LET who == Top(g).at
           reads == Top(g).args
           s == Source(who, Vals(reads))
       IN /\ s \in Nodes
          /\ Goes(g, IF s \in Derived
                     THEN Append(Refresh(s), Call("take", who, reads))
                     ELSE <<Call("track", who, Append(reads, ReadOf(s)))>>)
    /\ UNCHANGED <<node, comp, effect, batch, seen, ops, panics, lone>>

Take(g) ==
    /\ At(g, "take")
    /\ LET who == Top(g).at
           reads == Top(g).args
       IN Goes(g, <<Call("track", who, Append(reads, ReadOf(Source(who, Vals(reads)))))>>)
    /\ UNCHANGED <<node, comp, effect, batch, seen, ops, panics, lone>>

\* The function on top of g's stack has read all it reads.
Tracked(g) == At(g, "track") /\ Source(Top(g).at, Vals(Top(g).args)) \notin Nodes

\* subscribeToDepsLocked: live subscriptions to the same sources are kept.
Resubscribe(c, deps) ==
    LET old == SourcesOf(comp[c].deps)
        new == SourcesOf(deps)
    IN IF old = new THEN <<>> ELSE Calls("off", old, c) \o Calls("on", new, c)

\* The function of derived value c has returned: its mutex is taken and its
\* subscriptions are brought up to date, unless it was stopped meanwhile.
SettleAnyway(g) ==
    /\ Tracked(g)
    /\ LET c == Top(g).at
           deps == Deps(Top(g).args)
       IN
       /\ c \in Derived /\ comp[c].refreshing /\ comp[c].mu = None
       /\ comp' = [comp EXCEPT ![c].mu = g, ![c].deps = deps]
       /\ Goes(g, Append(Resubscribe(c, deps), Call("recheck", c, Result(c, Vals(Top(g).args)))))
    /\ UNCHANGED <<node, effect, batch, seen, ops, panics, lone>>

Settle(g) ==
    /\ Tracked(g)
    /\ LET c == Top(g).at
           deps == Deps(Top(g).args)
       IN
       /\ c \in Derived /\ comp[c].refreshing /\ comp[c].mu = None
       /\ IF comp[c].stopped
          THEN comp' = [comp EXCEPT ![c].refreshing = FALSE] /\ Goes(g, <<>>)
          ELSE /\ comp' = [comp EXCEPT ![c].mu = g, ![c].deps = deps]
               /\ Goes(g, Append(Resubscribe(c, deps),
                                 Call("recheck", c, Result(c, Vals(Top(g).args)))))
    /\ UNCHANGED <<node, effect, batch, seen, ops, panics, lone>>

\* A source that was published since it was read makes the value stale.
RecheckNothing(g) ==
    /\ At(g, "recheck")
    /\ Goes(g, <<Call("commit", Top(g).at, Top(g).args)>>)
    /\ UNCHANGED <<node, comp, effect, batch, seen, ops, panics, lone>>

Recheck(g) ==
    /\ At(g, "recheck")
    /\ LET c == Top(g).at IN
       IF \A i \in DOMAIN comp[c].deps : node[comp[c].deps[i].source].rev = comp[c].deps[i].rev
       THEN Goes(g, <<Call("commit", c, Top(g).args)>>) /\ UNCHANGED comp
       ELSE /\ comp' = [comp EXCEPT ![c].dirty = TRUE, ![c].mu = None]
            /\ Goes(g, <<Call("loop", c, <<>>)>>)
    /\ UNCHANGED <<node, effect, batch, seen, ops, panics, lone>>

\* The value is committed before the refresh is over, and published after.
Commit(g) ==
    /\ At(g, "commit")
    /\ LET c == Top(g).at
           v == Top(g).args
       IN
       /\ comp' = [comp EXCEPT ![c].refreshing = FALSE, ![c].mu = None]
       /\ IF v = node[c].value
          THEN Goes(g, <<>>) /\ UNCHANGED node
          ELSE /\ node' = [node EXCEPT ![c].value = v, ![c].rev = @ + 1]
               /\ Goes(g, Publish(node[c].subs))
    /\ UNCHANGED <<effect, batch, seen, ops, panics, lone>>

\* The function of a derived value panics, and the application recovers: every
\* refresh under way is undone and every Batch under way still delivers.
Panic(g) ==
    /\ At(g, "track") /\ Top(g).at \in Derived
    /\ panics < MaxPanics
    /\ \A c \in Derived : comp[c].stage # "deriving"
    /\ LET undone == {stack[g][i].at : i \in {j \in DOMAIN stack[g] :
                         stack[g][j].op \in {"loop", "check", "compare", "track", "take"}}}
       IN comp' = [c \in Derived |-> IF c \in undone
                                     THEN [comp[c] EXCEPT !.refreshing = FALSE, !.dirty = TRUE]
                                     ELSE comp[c]]
    /\ stack' = [stack EXCEPT ![g] = Deferred(@)]
    /\ panics' = panics + 1
    /\ NotAlone
    /\ UNCHANGED <<node, effect, batch, seen, ops>>

-----------------------------------------------------------------------------
(* The rest of Derive, and Effect.run. *)

\* Derive keeps the first value and subscribes to what the function read.
DeriveTracked(g) ==
    /\ Tracked(g)
    /\ LET c == Top(g).at
           deps == Deps(Top(g).args)
       IN
       /\ c \in Derived /\ ~comp[c].refreshing /\ comp[c].mu = None
       /\ node' = [node EXCEPT ![c].value = Result(c, Vals(Top(g).args))]
       /\ comp' = [comp EXCEPT ![c].mu = g, ![c].deps = deps]
       /\ Goes(g, Append(Calls("on", SourcesOf(deps), c), Call("born", c, <<>>)))
    /\ UNCHANGED <<effect, batch, seen, ops, panics, lone>>

\* What changed before it was subscribed is found by a first refresh.
Born(g) ==
    /\ At(g, "born")
    /\ LET c == Top(g).at IN
       /\ comp' = [comp EXCEPT ![c].dirty = TRUE, ![c].mu = None]
       /\ Goes(g, Append(Refresh(c), Call("share", c, <<>>)))
    /\ UNCHANGED <<node, effect, batch, seen, ops, panics, lone>>

\* The application gets the new value, subscribes its watchers and reads it.
Share(g) ==
    /\ At(g, "share")
    /\ LET c == Top(g).at
           ws == SetToSeq({w \in Watchers : WatchedBy(w) = c})
       IN
       /\ comp' = [comp EXCEPT ![c].stage = "live"]
       /\ Goes(g, [i \in DOMAIN ws |-> Call("on", c, ws[i])] \o CallsOf(ws))
    /\ UNCHANGED <<node, effect, batch, seen, ops, panics, lone>>

Run(g) ==
    /\ At(g, "run")
    /\ LET e == Top(g).at IN
       /\ effect[e].mu = None
       /\ IF effect[e].dead
          THEN Goes(g, <<>>) /\ UNCHANGED effect
          ELSE /\ effect' = [effect EXCEPT ![e].unsubs = <<>>]
               /\ Goes(g, Append(Calls("off", effect[e].unsubs, e), Call("track", e, <<>>)))
    /\ UNCHANGED <<node, comp, batch, seen, ops, panics, lone>>

\* The effect's function has returned: it subscribes to what it read.
Ran(g) ==
    /\ Tracked(g)
    /\ LET e == Top(g).at
           read == SourcesOf(Deps(Top(g).args))
       IN
       /\ e \in Effects /\ effect[e].mu = None
       /\ IF effect[e].dead
          THEN Goes(g, <<>>) /\ UNCHANGED effect
          ELSE /\ effect' = [effect EXCEPT ![e].mu = g, ![e].unsubs = @ \o read, ![e].read = read]
               /\ Goes(g, Append(Calls("on", read, e), Call("unlock", e, <<>>)))
    /\ UNCHANGED <<node, comp, batch, seen, ops, panics, lone>>

Unlock(g) ==
    /\ At(g, "unlock")
    /\ effect' = [effect EXCEPT ![Top(g).at].mu = None]
    /\ Goes(g, <<>>)
    /\ UNCHANGED <<node, comp, batch, seen, ops, panics, lone>>

-----------------------------------------------------------------------------
(* The system. *)

Operation(g) ==
    \/ \E s \in Bases : \E v \in Values(s) : Set(g, s, v)
    \/ \E c \in Derived : Get(g, c)
    \/ g \in Batchers /\ Batch(g)
    \/ g \in Keepers /\ \E c \in Derived : Derive(g, c) \/ Stop(g, c)
    \/ g \in Keepers /\ \E e \in Effects : Dispose(g, e)

Step(g) ==
    \/ Invalidate(g) \/ InvalidateSubscribers(g) \/ BatchNotify(g) \/ EndBatch(g) \/ EndSet(g)
    \/ OnDepChange(g) \/ Wake(g) \/ Callback(g) \/ Look(g) \/ Unsubscribe(g) \/ Subscribe(g)
    \/ BeginRefresh(g) \/ Loop(g) \/ Check(g) \/ Compare(g) \/ Track(g) \/ Take(g)
    \/ Settle(g) \/ Recheck(g) \/ Commit(g)
    \/ DeriveTracked(g) \/ Born(g) \/ Share(g) \/ Run(g) \/ Ran(g) \/ Unlock(g)

Next == \E g \in Goroutines : Operation(g) \/ Step(g) \/ Panic(g)

Spec == Init /\ [][Next]_vars

\* A goroutine that has a call to make is scheduled, and the function of a
\* Batch returns.
Fairness == \A g \in Goroutines : WF_vars(Step(g))

FairSpec == Spec /\ Fairness

-----------------------------------------------------------------------------
(* Properties. *)

Live(c) == comp[c].stage = "live" /\ ~comp[c].stopped

\* Every goroutine is outside the package: idle, or in the function of a Batch.
AtRest == \A g \in Goroutines : Idle(g) \/ At(g, "endBatch")

\* The Batch calls still to end: a goroutine and a place in its stack.
OpenBatches ==
    UNION {{<<g, i>> : i \in {j \in DOMAIN stack[g] : stack[g][j].op = "endBatch"}} :
              g \in Goroutines}

\* Every variable keeps its type, and the batch depth is the number of Batch
\* calls still to end, a panic out of one included (the deferred end of Batch).
TypeOK ==
    /\ \A n \in Nodes : /\ node[n].rev \in Nat
                         /\ Range(node[n].subs) \subseteq Derived \cup Effects \cup Watchers
    /\ \A c \in Derived :
         /\ {comp[c].dirty, comp[c].refreshing, comp[c].stopped} \subseteq BOOLEAN
         /\ comp[c].mu \in Goroutines \cup {None}
         /\ Range(SourcesOf(comp[c].deps)) \subseteq Nodes
    /\ \A e \in Effects : effect[e].dead \in BOOLEAN /\ Range(effect[e].unsubs) \subseteq Nodes
    /\ batch.depth = Cardinality(OpenBatches)

\* One goroutine has made all the calls.
Alone == \E g \in Goroutines : \A h \in Goroutines \ {g} : ops[h] = 0

\* What n holds is what its function returns on what its sources hold.
Consistent(n) ==
    n \in Derived
      => node[n].value = Result(n, Vals(Reading(n, [m \in Nodes |-> node[m].value])))

\* Once every call has returned, and in the function of a Batch, no refresh is
\* left open and a clean cache is what the function returns on the caches of its
\* sources, whatever Sets, refreshes and stops overlapped. If one goroutine made
\* all the calls it is then what the function returns on current values: Get
\* never returns a stale one (Computed.refresh and invalidate).
CleanIsCurrent ==
    AtRest => \A c \in Derived :
                Live(c) => /\ ~comp[c].refreshing
                           /\ \/ comp[c].dirty \/ panics > 0
                              \/ Consistent(c) /\ (Alone => node[c].value = WorthNow[c])

\* Once every call has returned and no Batch is open, each subscriber was called
\* after the last publication of what it watches, and that was published after
\* the last change of its sources (Set, Computed.refresh, Batch, batchNotify).
\* If one goroutine made all the calls the subscriber knows the current value.
WatchersUpToDate ==
    (\A g \in Goroutines : Idle(g)) /\ panics = 0
        => \A w \in Watchers :
              LET n == WatchedBy(w)
              IN (n \in Bases \/ Live(n))
                   => seen[w] = node[n].value /\ Consistent(n) /\ (Alone => seen[w] = WorthNow[n])

\* "Get returns the current computed value" (signal.go:277), also when the
\* goroutines that wrote have all returned.
GetIsCurrent ==
    (\A g \in Goroutines : Idle(g)) /\ panics = 0
        => \A c \in Derived : Live(c) => comp[c].dirty \/ node[c].value = WorthNow[c]

\* "One change to a base signal produces exactly one notification per dependent
\* Computed value" (signal.go:16), also where the value depends on the signal
\* along two paths: at most one for a Set nothing else overlaps.
OneNotificationPerChange ==
    lone.by # None => \A w \in Watchers : WatchedBy(w) \in Derived => lone.calls[w] <= 1

\* A stopped derived value and a disposed effect leave no subscription behind,
\* even when a refresh or a run was under way (Stop, Dispose, and the checks of
\* stopped and dead in refresh and run).
StoppedHoldNothing ==
    AtRest => \A n \in Nodes : \A i \in DOMAIN node[n].subs :
                 LET who == node[n].subs[i]
                 IN /\ who \in Derived => ~comp[who].stopped
                    /\ who \in Effects => ~effect[who].dead

\* An effect that is not disposed is still subscribed to everything its last
\* run read, even when two runs overlapped (Effect.run).
EffectsStaySubscribed ==
    AtRest /\ panics = 0
        => \A e \in Effects : ~effect[e].dead
              => \A n \in Range(effect[e].read) : e \in Range(node[n].subs)

\* A clean cache was computed from, or checked against, the present revisions of
\* all its dependencies, although they are read, subscribed to and checked again
\* one by one and nothing is locked in between (refresh, invalidate).
CleanIsChecked ==
    AtRest => \A c \in Derived :
                ~comp[c].stopped /\ ~comp[c].dirty
                  => \A i \in DOMAIN comp[c].deps :
                       node[comp[c].deps[i].source].rev = comp[c].deps[i].rev

\* The subscription graph in every state: well-formed, nothing stopped is
\* subscribed at rest, and a live effect is subscribed to what it last read.
SignalInv == TypeOK /\ StoppedHoldNothing /\ EffectsStaySubscribed /\ CleanIsChecked

\* Every operation returns: no goroutine waits for ever on a mutex or keeps
\* refreshing (the loop of Computed.refresh).
CallsReturn == \A g \in Goroutines : stack[g] # <<>> ~> stack[g] = <<>>
=============================================================================
