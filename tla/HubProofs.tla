------------------------------ MODULE HubProofs ------------------------------
(* Theorems about Hub, for every set of connections, limit and queue size. *)
EXTENDS Hub, FiniteSetTheorems, TLAPS

\* A step is a step of one action: the disjuncts of Next, by name.
LEMMA StepCases ==
  ASSUME Next
  PROVE  \/ BeginClose
         \/ CloserSnapshot
         \/ \E c \in Conns : CloserCloses(c)
         \/ CloserDone
         \/ FinishClose
         \/ \E c \in Conns : Reserve(c)
         \/ \E c \in Conns : Refuse(c)
         \/ \E c \in Conns : UpgradeFails(c)
         \/ \E c \in Conns : Register(c)
         \/ \E c \in Conns : RegisterRefused(c)
         \/ \E c \in Conns : RefusedCloses(c)
         \/ \E c \in Conns : AddPresence(c)
         \/ \E c \in Conns : Welcome(c)
         \/ \E c \in Conns : Replay(c)
         \/ \E c \in Conns : StartPumps(c)
         \/ Broadcast
         \/ \E c \in Conns : Send(c)
         \/ \E c \in Conns : Disconnect(c)
         \/ \E c \in Conns : ReaderBreaks(c)
         \/ \E c \in Conns : RemoveCloses(c)
         \/ \E c \in Conns : RemoveDeletes(c)
         \/ \E c \in Conns : RemoveLeaves(c)
         \/ \E c \in Conns : ReaderCloses(c)
         \/ \E c \in Conns : ReaderFinishes(c)
         \/ \E c \in Conns : WriterSends(c)
         \/ \E c \in Conns : WriterReturns(c)
         \/ \E c \in Conns : WriterFinishes(c)
  BY DEF Next, CloserStep, ServeStep, ReaderStep

\* What the hub counts is finite.
LEMMA CountedFinite ==
  /\ IsFiniteSet(Reservations) /\ Cardinality(Reservations) \in Nat
  /\ IsFiniteSet(Readers) /\ Cardinality(Readers) \in Nat
  /\ IsFiniteSet(Writers) /\ Cardinality(Writers) \in Nat
  <1>1. IsFiniteSet(Reservations) /\ IsFiniteSet(Readers) /\ IsFiniteSet(Writers)
    BY HubAssumption, FS_Subset DEF Reservations, Readers, Writers
  <1>2. QED
    BY <1>1, FS_CardinalityType

\* A set that has a member does not count as zero.
LEMMA Positive ==
  ASSUME NEW S, IsFiniteSet(S), NEW x \in S
  PROVE  Cardinality(S) \in Nat \ {0}
  BY FS_CardinalityType, FS_EmptySet

\* A reservation holds the pending count above zero, a pump the other.
LEMMA Holding ==
  ASSUME CountsExact, NEW c \in Conns
  PROVE  /\ pendingClients \in Nat /\ pumps \in Nat
         /\ c \in Reservations => pendingClients # 0
         /\ c \in Readers \/ c \in Writers => pumps # 0
  <1>1. c \in Reservations => Cardinality(Reservations) # 0
    BY CountedFinite, Positive
  <1>2. c \in Readers => Cardinality(Readers) # 0
    BY CountedFinite, Positive
  <1>3. c \in Writers => Cardinality(Writers) # 0
    BY CountedFinite, Positive
  <1>4. QED
    BY <1>1, <1>2, <1>3, CountedFinite DEF CountsExact

\* Every step preserves the types; a counter is not taken below zero because
\* whoever takes it down is counted.
LEMMA TypeStep ==
  ASSUME TypeOK, PumpsFollowServe, CountsExact, Next \/ UNCHANGED vars
  PROVE  TypeOK'
  <1> USE HubAssumption DEF TypeOK, ServeStates, ReaderStates, WriterStates, registry,
          shutdown, traffic
  <1>1. ASSUME BeginClose
        PROVE  TypeOK'
    BY <1>1 DEF BeginClose
  <1>2. ASSUME CloserSnapshot
        PROVE  TypeOK'
    BY <1>2 DEF CloserSnapshot
  <1>3. ASSUME NEW c \in Conns, CloserCloses(c)
        PROVE  TypeOK'
    BY <1>3 DEF CloserCloses, CloseConn
  <1>4. ASSUME CloserDone
        PROVE  TypeOK'
    BY <1>4 DEF CloserDone, FinishCloseLocked, MayFinish
  <1>5. ASSUME FinishClose
        PROVE  TypeOK'
    BY <1>5 DEF FinishClose
  <1>6. ASSUME NEW c \in Conns, Reserve(c)
        PROVE  TypeOK'
    BY <1>6 DEF Reserve, Goto
  <1>7. ASSUME NEW c \in Conns, Refuse(c)
        PROVE  TypeOK'
    BY <1>7 DEF Refuse, Goto
  <1>8. ASSUME NEW c \in Conns, UpgradeFails(c)
        PROVE  TypeOK'
    <2>1. pendingClients - 1 \in Nat
      BY <1>8, Holding DEF UpgradeFails, Reservations
    <2>2. QED
      BY <1>8, <2>1 DEF UpgradeFails, FinishCloseLocked, MayFinish, Goto
  <1>9. ASSUME NEW c \in Conns, Register(c)
        PROVE  TypeOK'
    <2>1. pendingClients - 1 \in Nat
      BY <1>9, Holding DEF Register, Reservations
    <2>2. QED
      BY <1>9, <2>1 DEF Register, Goto
  <1>10. ASSUME NEW c \in Conns, RegisterRefused(c)
        PROVE  TypeOK'
    <2>1. pendingClients - 1 \in Nat
      BY <1>10, Holding DEF RegisterRefused, Reservations
    <2>2. QED
      BY <1>10, <2>1 DEF RegisterRefused, FinishCloseLocked, MayFinish, Goto
  <1>11. ASSUME NEW c \in Conns, RefusedCloses(c)
        PROVE  TypeOK'
    BY <1>11 DEF RefusedCloses, CloseConn, Goto
  <1>12. ASSUME NEW c \in Conns, AddPresence(c)
        PROVE  TypeOK'
    BY <1>12 DEF AddPresence, Goto
  <1>13. ASSUME NEW c \in Conns, Welcome(c)
        PROVE  TypeOK'
    BY <1>13 DEF Welcome, Goto
  <1>14. ASSUME NEW c \in Conns, Replay(c)
        PROVE  TypeOK'
    BY <1>14 DEF Replay, Enqueue, Goto
  <1>15. ASSUME NEW c \in Conns, StartPumps(c)
        PROVE  TypeOK'
    BY <1>15 DEF StartPumps, Goto
  <1>16. ASSUME Broadcast
        PROVE  TypeOK'
    BY <1>16 DEF Broadcast, Enqueue
  <1>17. ASSUME NEW c \in Conns, Send(c)
        PROVE  TypeOK'
    BY <1>17 DEF Send, Enqueue
  <1>18. ASSUME NEW c \in Conns, Disconnect(c)
        PROVE  TypeOK'
    BY <1>18 DEF Disconnect, CloseConn
  <1>19. ASSUME NEW c \in Conns, ReaderBreaks(c)
        PROVE  TypeOK'
    BY <1>19 DEF ReaderBreaks, Goto
  <1>20. ASSUME NEW c \in Conns, RemoveCloses(c)
        PROVE  TypeOK'
    BY <1>20 DEF RemoveCloses, Goto
  <1>21. ASSUME NEW c \in Conns, RemoveDeletes(c)
        PROVE  TypeOK'
    BY <1>21 DEF RemoveDeletes, Goto
  <1>22. ASSUME NEW c \in Conns, RemoveLeaves(c)
        PROVE  TypeOK'
    BY <1>22 DEF RemoveLeaves, Goto
  <1>23. ASSUME NEW c \in Conns, ReaderCloses(c)
        PROVE  TypeOK'
    BY <1>23 DEF ReaderCloses, CloseConn, Goto
  <1>24. ASSUME NEW c \in Conns, ReaderFinishes(c)
        PROVE  TypeOK'
    <2>1. pumps - 1 \in Nat
      BY <1>24, Holding DEF ReaderFinishes, Readers, Registered, PumpsFollowServe
    <2>2. QED
      BY <1>24, <2>1 DEF ReaderFinishes, PumpFinished, FinishCloseLocked, MayFinish, Goto
  <1>25. ASSUME NEW c \in Conns, WriterSends(c)
        PROVE  TypeOK'
    BY <1>25 DEF WriterSends
  <1>26. ASSUME NEW c \in Conns, WriterReturns(c)
        PROVE  TypeOK'
    BY <1>26 DEF WriterReturns, CloseConn, Goto
  <1>27. ASSUME NEW c \in Conns, WriterFinishes(c)
        PROVE  TypeOK'
    <2>1. pumps - 1 \in Nat
      BY <1>27, Holding DEF WriterFinishes, Writers, Registered, PumpsFollowServe
    <2>2. QED
      BY <1>27, <2>1 DEF WriterFinishes, PumpFinished, FinishCloseLocked, MayFinish, Goto
  <1>28. CASE UNCHANGED vars
    BY <1>28 DEF vars
  <1>29. QED
    BY <1>1, <1>2, <1>3, <1>4, <1>5, <1>6, <1>7, <1>8, <1>9, <1>10, <1>11, <1>12, <1>13, <1>14, <1>15, <1>16, <1>17, <1>18, <1>19, <1>20, <1>21, <1>22, <1>23, <1>24, <1>25, <1>26, <1>27, <1>28, StepCases

\* Every step keeps the records of a connection in line with its goroutines.
LEMMA LocalStep ==
  ASSUME TypeOK, PumpsFollowServe, RecordsExact, LeavesClosed, Next \/ UNCHANGED vars
  PROVE  PumpsFollowServe' /\ RecordsExact' /\ LeavesClosed'
  <1> USE DEF TypeOK, PumpsFollowServe, RecordsExact, LeavesClosed, Registered, ServeStates,
          ReaderStates, WriterStates, registry, shutdown, traffic
  <1>1. ASSUME BeginClose
        PROVE  PumpsFollowServe' /\ RecordsExact' /\ LeavesClosed'
    BY <1>1 DEF BeginClose
  <1>2. ASSUME CloserSnapshot
        PROVE  PumpsFollowServe' /\ RecordsExact' /\ LeavesClosed'
    BY <1>2 DEF CloserSnapshot
  <1>3. ASSUME NEW c \in Conns, CloserCloses(c)
        PROVE  PumpsFollowServe' /\ RecordsExact' /\ LeavesClosed'
    BY <1>3 DEF CloserCloses, CloseConn
  <1>4. ASSUME CloserDone
        PROVE  PumpsFollowServe' /\ RecordsExact' /\ LeavesClosed'
    BY <1>4 DEF CloserDone, FinishCloseLocked, MayFinish
  <1>5. ASSUME FinishClose
        PROVE  PumpsFollowServe' /\ RecordsExact' /\ LeavesClosed'
    BY <1>5 DEF FinishClose
  <1>6. ASSUME NEW c \in Conns, Reserve(c)
        PROVE  PumpsFollowServe' /\ RecordsExact' /\ LeavesClosed'
    BY <1>6 DEF Reserve, Goto
  <1>7. ASSUME NEW c \in Conns, Refuse(c)
        PROVE  PumpsFollowServe' /\ RecordsExact' /\ LeavesClosed'
    BY <1>7 DEF Refuse, Goto
  <1>8. ASSUME NEW c \in Conns, UpgradeFails(c)
        PROVE  PumpsFollowServe' /\ RecordsExact' /\ LeavesClosed'
    BY <1>8 DEF UpgradeFails, FinishCloseLocked, MayFinish, Goto
  <1>9. ASSUME NEW c \in Conns, Register(c)
        PROVE  PumpsFollowServe' /\ RecordsExact' /\ LeavesClosed'
    BY <1>9 DEF Register, Goto
  <1>10. ASSUME NEW c \in Conns, RegisterRefused(c)
        PROVE  PumpsFollowServe' /\ RecordsExact' /\ LeavesClosed'
    BY <1>10 DEF RegisterRefused, FinishCloseLocked, MayFinish, Goto
  <1>11. ASSUME NEW c \in Conns, RefusedCloses(c)
        PROVE  PumpsFollowServe' /\ RecordsExact' /\ LeavesClosed'
    BY <1>11 DEF RefusedCloses, CloseConn, Goto
  <1>12. ASSUME NEW c \in Conns, AddPresence(c)
        PROVE  PumpsFollowServe' /\ RecordsExact' /\ LeavesClosed'
    BY <1>12 DEF AddPresence, Goto
  <1>13. ASSUME NEW c \in Conns, Welcome(c)
        PROVE  PumpsFollowServe' /\ RecordsExact' /\ LeavesClosed'
    BY <1>13 DEF Welcome, Goto
  <1>14. ASSUME NEW c \in Conns, Replay(c)
        PROVE  PumpsFollowServe' /\ RecordsExact' /\ LeavesClosed'
    BY <1>14 DEF Replay, Enqueue, Goto
  <1>15. ASSUME NEW c \in Conns, StartPumps(c)
        PROVE  PumpsFollowServe' /\ RecordsExact' /\ LeavesClosed'
    BY <1>15 DEF StartPumps, Goto
  <1>16. ASSUME Broadcast
        PROVE  PumpsFollowServe' /\ RecordsExact' /\ LeavesClosed'
    BY <1>16 DEF Broadcast, Enqueue
  <1>17. ASSUME NEW c \in Conns, Send(c)
        PROVE  PumpsFollowServe' /\ RecordsExact' /\ LeavesClosed'
    BY <1>17 DEF Send, Enqueue
  <1>18. ASSUME NEW c \in Conns, Disconnect(c)
        PROVE  PumpsFollowServe' /\ RecordsExact' /\ LeavesClosed'
    BY <1>18 DEF Disconnect, CloseConn
  <1>19. ASSUME NEW c \in Conns, ReaderBreaks(c)
        PROVE  PumpsFollowServe' /\ RecordsExact' /\ LeavesClosed'
    BY <1>19 DEF ReaderBreaks, Goto
  <1>20. ASSUME NEW c \in Conns, RemoveCloses(c)
        PROVE  PumpsFollowServe' /\ RecordsExact' /\ LeavesClosed'
    BY <1>20 DEF RemoveCloses, Goto
  <1>21. ASSUME NEW c \in Conns, RemoveDeletes(c)
        PROVE  PumpsFollowServe' /\ RecordsExact' /\ LeavesClosed'
    BY <1>21 DEF RemoveDeletes, Goto
  <1>22. ASSUME NEW c \in Conns, RemoveLeaves(c)
        PROVE  PumpsFollowServe' /\ RecordsExact' /\ LeavesClosed'
    BY <1>22 DEF RemoveLeaves, Goto
  <1>23. ASSUME NEW c \in Conns, ReaderCloses(c)
        PROVE  PumpsFollowServe' /\ RecordsExact' /\ LeavesClosed'
    BY <1>23 DEF ReaderCloses, CloseConn, Goto
  <1>24. ASSUME NEW c \in Conns, ReaderFinishes(c)
        PROVE  PumpsFollowServe' /\ RecordsExact' /\ LeavesClosed'
    BY <1>24 DEF ReaderFinishes, PumpFinished, FinishCloseLocked, MayFinish, Goto
  <1>25. ASSUME NEW c \in Conns, WriterSends(c)
        PROVE  PumpsFollowServe' /\ RecordsExact' /\ LeavesClosed'
    BY <1>25 DEF WriterSends
  <1>26. ASSUME NEW c \in Conns, WriterReturns(c)
        PROVE  PumpsFollowServe' /\ RecordsExact' /\ LeavesClosed'
    BY <1>26 DEF WriterReturns, CloseConn, Goto
  <1>27. ASSUME NEW c \in Conns, WriterFinishes(c)
        PROVE  PumpsFollowServe' /\ RecordsExact' /\ LeavesClosed'
    BY <1>27 DEF WriterFinishes, PumpFinished, FinishCloseLocked, MayFinish, Goto
  <1>28. CASE UNCHANGED vars
    BY <1>28 DEF vars
  <1>29. QED
    BY <1>1, <1>2, <1>3, <1>4, <1>5, <1>6, <1>7, <1>8, <1>9, <1>10, <1>11, <1>12, <1>13, <1>14, <1>15, <1>16, <1>17, <1>18, <1>19, <1>20, <1>21, <1>22, <1>23, <1>24, <1>25, <1>26, <1>27, <1>28, StepCases

\* Every step that may have been the last looks whether it was: h.finalizing is set
\* exactly when nobody is left.
LEMMA FinalStep ==
  ASSUME TypeOK, PumpsFollowServe, CountsExact, FinalExactly, Next \/ UNCHANGED vars
  PROVE  FinalExactly'
  <1> USE DEF TypeOK, FinalExactly, registry, shutdown, traffic
  <1>1. ASSUME BeginClose
        PROVE  FinalExactly'
    BY <1>1 DEF BeginClose
  <1>2. ASSUME CloserSnapshot
        PROVE  FinalExactly'
    BY <1>2 DEF CloserSnapshot
  <1>3. ASSUME NEW c \in Conns, CloserCloses(c)
        PROVE  FinalExactly'
    BY <1>3 DEF CloserCloses, CloseConn
  <1>4. ASSUME CloserDone
        PROVE  FinalExactly'
    BY <1>4 DEF CloserDone, FinishCloseLocked, MayFinish
  <1>5. ASSUME FinishClose
        PROVE  FinalExactly'
    BY <1>5 DEF FinishClose
  <1>6. ASSUME NEW c \in Conns, Reserve(c)
        PROVE  FinalExactly'
    BY <1>6 DEF Reserve, Goto
  <1>7. ASSUME NEW c \in Conns, Refuse(c)
        PROVE  FinalExactly'
    BY <1>7 DEF Refuse, Goto
  <1>8. ASSUME NEW c \in Conns, UpgradeFails(c)
        PROVE  FinalExactly'
    <2>1. pendingClients \in Nat \ {0}
      BY <1>8, Holding DEF UpgradeFails, Reservations
    <2>2. QED
      BY <1>8, <2>1 DEF UpgradeFails, FinishCloseLocked, MayFinish, Goto
  <1>9. ASSUME NEW c \in Conns, Register(c)
        PROVE  FinalExactly'
    <2>1. pendingClients \in Nat \ {0}
      BY <1>9, Holding DEF Register, Reservations
    <2>2. QED
      BY <1>9, <2>1 DEF Register, Goto
  <1>10. ASSUME NEW c \in Conns, RegisterRefused(c)
        PROVE  FinalExactly'
    <2>1. pendingClients \in Nat \ {0}
      BY <1>10, Holding DEF RegisterRefused, Reservations
    <2>2. QED
      BY <1>10, <2>1 DEF RegisterRefused, FinishCloseLocked, MayFinish, Goto
  <1>11. ASSUME NEW c \in Conns, RefusedCloses(c)
        PROVE  FinalExactly'
    BY <1>11 DEF RefusedCloses, CloseConn, Goto
  <1>12. ASSUME NEW c \in Conns, AddPresence(c)
        PROVE  FinalExactly'
    BY <1>12 DEF AddPresence, Goto
  <1>13. ASSUME NEW c \in Conns, Welcome(c)
        PROVE  FinalExactly'
    BY <1>13 DEF Welcome, Goto
  <1>14. ASSUME NEW c \in Conns, Replay(c)
        PROVE  FinalExactly'
    BY <1>14 DEF Replay, Enqueue, Goto
  <1>15. ASSUME NEW c \in Conns, StartPumps(c)
        PROVE  FinalExactly'
    BY <1>15 DEF StartPumps, Goto
  <1>16. ASSUME Broadcast
        PROVE  FinalExactly'
    BY <1>16 DEF Broadcast, Enqueue
  <1>17. ASSUME NEW c \in Conns, Send(c)
        PROVE  FinalExactly'
    BY <1>17 DEF Send, Enqueue
  <1>18. ASSUME NEW c \in Conns, Disconnect(c)
        PROVE  FinalExactly'
    BY <1>18 DEF Disconnect, CloseConn
  <1>19. ASSUME NEW c \in Conns, ReaderBreaks(c)
        PROVE  FinalExactly'
    BY <1>19 DEF ReaderBreaks, Goto
  <1>20. ASSUME NEW c \in Conns, RemoveCloses(c)
        PROVE  FinalExactly'
    BY <1>20 DEF RemoveCloses, Goto
  <1>21. ASSUME NEW c \in Conns, RemoveDeletes(c)
        PROVE  FinalExactly'
    BY <1>21 DEF RemoveDeletes, Goto
  <1>22. ASSUME NEW c \in Conns, RemoveLeaves(c)
        PROVE  FinalExactly'
    BY <1>22 DEF RemoveLeaves, Goto
  <1>23. ASSUME NEW c \in Conns, ReaderCloses(c)
        PROVE  FinalExactly'
    BY <1>23 DEF ReaderCloses, CloseConn, Goto
  <1>24. ASSUME NEW c \in Conns, ReaderFinishes(c)
        PROVE  FinalExactly'
    <2>1. pumps \in Nat \ {0}
      BY <1>24, Holding DEF ReaderFinishes, Readers, Registered, PumpsFollowServe
    <2>2. QED
      BY <1>24, <2>1 DEF ReaderFinishes, PumpFinished, FinishCloseLocked, MayFinish, Goto
  <1>25. ASSUME NEW c \in Conns, WriterSends(c)
        PROVE  FinalExactly'
    BY <1>25 DEF WriterSends
  <1>26. ASSUME NEW c \in Conns, WriterReturns(c)
        PROVE  FinalExactly'
    BY <1>26 DEF WriterReturns, CloseConn, Goto
  <1>27. ASSUME NEW c \in Conns, WriterFinishes(c)
        PROVE  FinalExactly'
    <2>1. pumps \in Nat \ {0}
      BY <1>27, Holding DEF WriterFinishes, Writers, Registered, PumpsFollowServe
    <2>2. QED
      BY <1>27, <2>1 DEF WriterFinishes, PumpFinished, FinishCloseLocked, MayFinish, Goto
  <1>28. CASE UNCHANGED vars
    BY <1>28 DEF vars
  <1>29. QED
    BY <1>1, <1>2, <1>3, <1>4, <1>5, <1>6, <1>7, <1>8, <1>9, <1>10, <1>11, <1>12, <1>13, <1>14, <1>15, <1>16, <1>17, <1>18, <1>19, <1>20, <1>21, <1>22, <1>23, <1>24, <1>25, <1>26, <1>27, <1>28, StepCases

-----------------------------------------------------------------------------
(* The effect of a step on what the hub counts                             *)

waited == <<Reservations, Readers, Writers, pendingClients, pumps, closingConnections>>

\* A request reserves a slot.
Reserves ==
  /\ ~closing /\ HasRoom
  /\ \E c \in Conns : c \notin Reservations /\ Reservations' = Reservations \cup {c}
  /\ pendingClients' = pendingClients + 1
  /\ UNCHANGED <<Readers, Writers, pumps, clients, closing, closingConnections, finalizing>>

\* A reservation is given back.
Releases ==
  /\ \E c \in Reservations : Reservations' = Reservations \ {c}
  /\ pendingClients' = pendingClients - 1
  /\ UNCHANGED <<Readers, Writers, pumps, clients, closing, closingConnections>>
  /\ ~closing => UNCHANGED finalizing

\* A reservation becomes a client and two pumps.
Joins ==
  /\ ~closing
  /\ \E c \in Reservations :
        /\ c \notin Readers /\ c \notin Writers /\ c \notin clients
        /\ Reservations' = Reservations \ {c} /\ clients' = clients \cup {c}
        /\ Readers' = Readers \cup {c} /\ Writers' = Writers \cup {c}
  /\ pendingClients' = pendingClients - 1 /\ pumps' = pumps + 2
  /\ UNCHANGED <<closing, closingConnections, finalizing>>

\* A pump reports its end.
PumpEnds ==
  /\ \/ (\E c \in Readers : Readers' = Readers \ {c}) /\ UNCHANGED Writers
     \/ (\E c \in Writers : Writers' = Writers \ {c}) /\ UNCHANGED Readers
  /\ pumps' = pumps - 1
  /\ UNCHANGED <<Reservations, pendingClients, clients, closing, closingConnections>>
  /\ ~closing => UNCHANGED finalizing

\* The close begins, or its goroutine ends.
Closes ==
  /\ \/ ~closing /\ closing' = TRUE /\ closingConnections' = TRUE /\ UNCHANGED finalizing
     \/ closing /\ closingConnections' = FALSE /\ UNCHANGED closing
  /\ UNCHANGED <<Reservations, Readers, Writers, pendingClients, pumps, clients>>

\* Nothing that is counted changes, except that a client may leave the map.
Keeps ==
  /\ clients' \subseteq clients
  /\ UNCHANGED <<waited, closing, finalizing>>

Effect == Reserves \/ Releases \/ Joins \/ PumpEnds \/ Closes \/ Keeps

\* Every step has one of these effects.
LEMMA EffectOf ==
  ASSUME TypeOK, PumpsFollowServe, RecordsExact, FinalExactly, Next \/ UNCHANGED vars
  PROVE  Effect
  <1> USE DEF TypeOK, PumpsFollowServe, RecordsExact, FinalExactly, Registered, ServeStates, registry, shutdown, traffic
  <1>1. ASSUME BeginClose
        PROVE  Effect
    BY <1>1 DEF BeginClose, Reservations, Readers, Writers, Closes, Effect
  <1>2. ASSUME CloserSnapshot
        PROVE  Effect
    BY <1>2 DEF CloserSnapshot, Reservations, Readers, Writers, Keeps, waited, Effect
  <1>3. ASSUME NEW c \in Conns, CloserCloses(c)
        PROVE  Effect
    BY <1>3 DEF CloserCloses, CloseConn, Reservations, Readers, Writers, Keeps, waited, Effect
  <1>4. ASSUME CloserDone
        PROVE  Effect
    BY <1>4 DEF CloserDone, FinishCloseLocked, MayFinish, Reservations, Readers, Writers, Closes, Effect
  <1>5. ASSUME FinishClose
        PROVE  Effect
    BY <1>5 DEF FinishClose, Reservations, Readers, Writers, Keeps, waited, Effect
  <1>6. ASSUME NEW c \in Conns, Reserve(c)
        PROVE  Effect
    <2>1. c \notin Reservations /\ Reservations' = Reservations \cup {c}
      BY <1>6 DEF Reserve, Goto, Reservations, Readers, Writers
    <2>2. Readers' = Readers /\ Writers' = Writers
      BY <1>6 DEF Reserve, Goto, Reservations, Readers, Writers
    <2>3. QED
      BY <1>6, <2>1, <2>2 DEF Reserve, Goto, Reserves, Effect
  <1>7. ASSUME NEW c \in Conns, Refuse(c)
        PROVE  Effect
    <2>1. Reservations' = Reservations
      BY <1>7 DEF Refuse, Goto, Reservations, Readers, Writers
    <2>2. Readers' = Readers /\ Writers' = Writers
      BY <1>7 DEF Refuse, Goto, Reservations, Readers, Writers
    <2>3. QED
      BY <1>7, <2>1, <2>2 DEF Refuse, Goto, Keeps, waited, Effect
  <1>8. ASSUME NEW c \in Conns, UpgradeFails(c)
        PROVE  Effect
    <2>1. c \in Reservations /\ Reservations' = Reservations \ {c}
      BY <1>8 DEF UpgradeFails, FinishCloseLocked, MayFinish, Goto, Reservations, Readers, Writers
    <2>2. Readers' = Readers /\ Writers' = Writers
      BY <1>8 DEF UpgradeFails, FinishCloseLocked, MayFinish, Goto, Reservations, Readers, Writers
    <2>3. QED
      BY <1>8, <2>1, <2>2 DEF UpgradeFails, FinishCloseLocked, MayFinish, Goto, Releases, Effect
  <1>9. ASSUME NEW c \in Conns, Register(c)
        PROVE  Effect
    <2>1. c \in Reservations /\ Reservations' = Reservations \ {c}
      BY <1>9 DEF Register, Goto, Reservations, Readers, Writers
    <2>2. c \notin Readers /\ c \notin Writers /\ c \notin clients
      BY <1>9 DEF Register, Goto, Reservations, Readers, Writers
    <2>3. Readers' = Readers \cup {c} /\ Writers' = Writers \cup {c}
      BY <1>9 DEF Register, Goto, Reservations, Readers, Writers
    <2>4. QED
      BY <1>9, <2>1, <2>2, <2>3 DEF Register, Goto, Joins, Effect
  <1>10. ASSUME NEW c \in Conns, RegisterRefused(c)
        PROVE  Effect
    <2>1. c \in Reservations /\ Reservations' = Reservations \ {c}
      BY <1>10 DEF RegisterRefused, FinishCloseLocked, MayFinish, Goto, Reservations, Readers, Writers
    <2>2. Readers' = Readers /\ Writers' = Writers
      BY <1>10 DEF RegisterRefused, FinishCloseLocked, MayFinish, Goto, Reservations, Readers, Writers
    <2>3. QED
      BY <1>10, <2>1, <2>2 DEF RegisterRefused, FinishCloseLocked, MayFinish, Goto, Releases, Effect
  <1>11. ASSUME NEW c \in Conns, RefusedCloses(c)
        PROVE  Effect
    <2>1. Reservations' = Reservations
      BY <1>11 DEF RefusedCloses, CloseConn, Goto, Reservations, Readers, Writers
    <2>2. Readers' = Readers /\ Writers' = Writers
      BY <1>11 DEF RefusedCloses, CloseConn, Goto, Reservations, Readers, Writers
    <2>3. QED
      BY <1>11, <2>1, <2>2 DEF RefusedCloses, CloseConn, Goto, Keeps, waited, Effect
  <1>12. ASSUME NEW c \in Conns, AddPresence(c)
        PROVE  Effect
    <2>1. Reservations' = Reservations
      BY <1>12 DEF AddPresence, Goto, Reservations, Readers, Writers
    <2>2. Readers' = Readers /\ Writers' = Writers
      BY <1>12 DEF AddPresence, Goto, Reservations, Readers, Writers
    <2>3. QED
      BY <1>12, <2>1, <2>2 DEF AddPresence, Goto, Keeps, waited, Effect
  <1>13. ASSUME NEW c \in Conns, Welcome(c)
        PROVE  Effect
    <2>1. Reservations' = Reservations
      BY <1>13 DEF Welcome, Goto, Reservations, Readers, Writers
    <2>2. Readers' = Readers /\ Writers' = Writers
      BY <1>13 DEF Welcome, Goto, Reservations, Readers, Writers
    <2>3. QED
      BY <1>13, <2>1, <2>2 DEF Welcome, Goto, Keeps, waited, Effect
  <1>14. ASSUME NEW c \in Conns, Replay(c)
        PROVE  Effect
    <2>1. Reservations' = Reservations
      BY <1>14 DEF Replay, Enqueue, Goto, Reservations, Readers, Writers
    <2>2. Readers' = Readers /\ Writers' = Writers
      BY <1>14 DEF Replay, Enqueue, Goto, Reservations, Readers, Writers
    <2>3. QED
      BY <1>14, <2>1, <2>2 DEF Replay, Enqueue, Goto, Keeps, waited, Effect
  <1>15. ASSUME NEW c \in Conns, StartPumps(c)
        PROVE  Effect
    <2>1. Reservations' = Reservations
      BY <1>15 DEF StartPumps, Goto, Reservations, Readers, Writers
    <2>2. Readers' = Readers /\ Writers' = Writers
      BY <1>15 DEF StartPumps, Goto, Reservations, Readers, Writers
    <2>3. QED
      BY <1>15, <2>1, <2>2 DEF StartPumps, Goto, Keeps, waited, Effect
  <1>16. ASSUME Broadcast
        PROVE  Effect
    BY <1>16 DEF Broadcast, Enqueue, Reservations, Readers, Writers, Keeps, waited, Effect
  <1>17. ASSUME NEW c \in Conns, Send(c)
        PROVE  Effect
    BY <1>17 DEF Send, Enqueue, Reservations, Readers, Writers, Keeps, waited, Effect
  <1>18. ASSUME NEW c \in Conns, Disconnect(c)
        PROVE  Effect
    BY <1>18 DEF Disconnect, CloseConn, Reservations, Readers, Writers, Keeps, waited, Effect
  <1>19. ASSUME NEW c \in Conns, ReaderBreaks(c)
        PROVE  Effect
    <2>1. Reservations' = Reservations
      BY <1>19 DEF ReaderBreaks, Goto, Reservations, Readers, Writers
    <2>2. Readers' = Readers /\ Writers' = Writers
      BY <1>19 DEF ReaderBreaks, Goto, Reservations, Readers, Writers
    <2>3. QED
      BY <1>19, <2>1, <2>2 DEF ReaderBreaks, Goto, Keeps, waited, Effect
  <1>20. ASSUME NEW c \in Conns, RemoveCloses(c)
        PROVE  Effect
    <2>1. Reservations' = Reservations
      BY <1>20 DEF RemoveCloses, Goto, Reservations, Readers, Writers
    <2>2. Readers' = Readers /\ Writers' = Writers
      BY <1>20 DEF RemoveCloses, Goto, Reservations, Readers, Writers
    <2>3. QED
      BY <1>20, <2>1, <2>2 DEF RemoveCloses, Goto, Keeps, waited, Effect
  <1>21. ASSUME NEW c \in Conns, RemoveDeletes(c)
        PROVE  Effect
    <2>1. Reservations' = Reservations
      BY <1>21 DEF RemoveDeletes, Goto, Reservations, Readers, Writers
    <2>2. Readers' = Readers /\ Writers' = Writers
      BY <1>21 DEF RemoveDeletes, Goto, Reservations, Readers, Writers
    <2>3. QED
      BY <1>21, <2>1, <2>2 DEF RemoveDeletes, Goto, Keeps, waited, Effect
  <1>22. ASSUME NEW c \in Conns, RemoveLeaves(c)
        PROVE  Effect
    <2>1. Reservations' = Reservations
      BY <1>22 DEF RemoveLeaves, Goto, Reservations, Readers, Writers
    <2>2. Readers' = Readers /\ Writers' = Writers
      BY <1>22 DEF RemoveLeaves, Goto, Reservations, Readers, Writers
    <2>3. QED
      BY <1>22, <2>1, <2>2 DEF RemoveLeaves, Goto, Keeps, waited, Effect
  <1>23. ASSUME NEW c \in Conns, ReaderCloses(c)
        PROVE  Effect
    <2>1. Reservations' = Reservations
      BY <1>23 DEF ReaderCloses, CloseConn, Goto, Reservations, Readers, Writers
    <2>2. Readers' = Readers /\ Writers' = Writers
      BY <1>23 DEF ReaderCloses, CloseConn, Goto, Reservations, Readers, Writers
    <2>3. QED
      BY <1>23, <2>1, <2>2 DEF ReaderCloses, CloseConn, Goto, Keeps, waited, Effect
  <1>24. ASSUME NEW c \in Conns, ReaderFinishes(c)
        PROVE  Effect
    <2>1. c \in Readers /\ Readers' = Readers \ {c}
      BY <1>24 DEF ReaderFinishes, PumpFinished, FinishCloseLocked, MayFinish, Goto, Reservations, Readers, Writers
    <2>2. Reservations' = Reservations /\ Writers' = Writers
      BY <1>24 DEF ReaderFinishes, PumpFinished, FinishCloseLocked, MayFinish, Goto, Reservations, Readers, Writers
    <2>3. QED
      BY <1>24, <2>1, <2>2 DEF ReaderFinishes, PumpFinished, FinishCloseLocked, MayFinish, Goto, PumpEnds, Effect
  <1>25. ASSUME NEW c \in Conns, WriterSends(c)
        PROVE  Effect
    BY <1>25 DEF WriterSends, Reservations, Readers, Writers, Keeps, waited, Effect
  <1>26. ASSUME NEW c \in Conns, WriterReturns(c)
        PROVE  Effect
    <2>1. Reservations' = Reservations
      BY <1>26 DEF WriterReturns, CloseConn, Goto, Reservations, Readers, Writers
    <2>2. Readers' = Readers /\ Writers' = Writers
      BY <1>26 DEF WriterReturns, CloseConn, Goto, Reservations, Readers, Writers
    <2>3. QED
      BY <1>26, <2>1, <2>2 DEF WriterReturns, CloseConn, Goto, Keeps, waited, Effect
  <1>27. ASSUME NEW c \in Conns, WriterFinishes(c)
        PROVE  Effect
    <2>1. c \in Writers /\ Writers' = Writers \ {c}
      BY <1>27 DEF WriterFinishes, PumpFinished, FinishCloseLocked, MayFinish, Goto, Reservations, Readers, Writers
    <2>2. Reservations' = Reservations /\ Readers' = Readers
      BY <1>27 DEF WriterFinishes, PumpFinished, FinishCloseLocked, MayFinish, Goto, Reservations, Readers, Writers
    <2>3. QED
      BY <1>27, <2>1, <2>2 DEF WriterFinishes, PumpFinished, FinishCloseLocked, MayFinish, Goto, PumpEnds, Effect
  <1>28. CASE UNCHANGED vars
    BY <1>28 DEF vars, Reservations, Readers, Writers, Keeps, waited, Effect
  <1>29. QED
    BY <1>1, <1>2, <1>3, <1>4, <1>5, <1>6, <1>7, <1>8, <1>9, <1>10, <1>11, <1>12, <1>13, <1>14, <1>15, <1>16, <1>17, <1>18, <1>19, <1>20, <1>21, <1>22, <1>23, <1>24, <1>25, <1>26, <1>27, <1>28, StepCases

-----------------------------------------------------------------------------
(* The counters and the capacity                                           *)

\* The counters keep up with the goroutines.
LEMMA CountStep ==
  ASSUME CountsExact, Effect
  PROVE  CountsExact'
  <1> USE CountedFinite DEF CountsExact
  <1>1. CASE Reserves
    <2>1. PICK c \in Conns : c \notin Reservations /\ Reservations' = Reservations \cup {c}
      BY <1>1 DEF Reserves
    <2>2. Cardinality(Reservations') = Cardinality(Reservations) + 1
      BY <2>1, FS_AddElement
    <2>3. QED
      BY <1>1, <2>2 DEF Reserves
  <1>2. CASE Releases
    <2>1. PICK c \in Reservations : Reservations' = Reservations \ {c}
      BY <1>2 DEF Releases
    <2>2. Cardinality(Reservations') = Cardinality(Reservations) - 1
      BY <2>1, FS_RemoveElement
    <2>3. QED
      BY <1>2, <2>2 DEF Releases
  <1>3. CASE Joins
    <2>1. PICK c \in Reservations :
             /\ c \notin Readers /\ c \notin Writers
             /\ Reservations' = Reservations \ {c}
             /\ Readers' = Readers \cup {c} /\ Writers' = Writers \cup {c}
      BY <1>3 DEF Joins
    <2>2. Cardinality(Reservations') = Cardinality(Reservations) - 1
      BY <2>1, FS_RemoveElement
    <2>3. Cardinality(Readers') = Cardinality(Readers) + 1
      BY <2>1, FS_AddElement
    <2>4. Cardinality(Writers') = Cardinality(Writers) + 1
      BY <2>1, FS_AddElement
    <2>5. QED
      BY <1>3, <2>2, <2>3, <2>4 DEF Joins
  <1>4. CASE PumpEnds
    <2>1. CASE (\E c \in Readers : Readers' = Readers \ {c}) /\ UNCHANGED Writers
      <3>1. Cardinality(Readers') = Cardinality(Readers) - 1
        BY <2>1, FS_RemoveElement
      <3>2. QED
        BY <1>4, <2>1, <3>1 DEF PumpEnds
    <2>2. CASE (\E c \in Writers : Writers' = Writers \ {c}) /\ UNCHANGED Readers
      <3>1. Cardinality(Writers') = Cardinality(Writers) - 1
        BY <2>2, FS_RemoveElement
      <3>2. QED
        BY <1>4, <2>2, <3>1 DEF PumpEnds
    <2>3. QED
      BY <1>4, <2>1, <2>2 DEF PumpEnds
  <1>5. CASE Closes
    BY <1>5 DEF Closes
  <1>6. CASE Keeps
    BY <1>6 DEF Keeps, waited
  <1>7. QED
    BY <1>1, <1>2, <1>3, <1>4, <1>5, <1>6 DEF Effect

\* MaxClients is fixed before the hub is used.
LimitKnown == maxClients \in Limits

\* A reservation takes its room under the lock that counts the clients, and a join
\* exchanges it for a place in the map.
LEMMA CapacityStep ==
  ASSUME TypeOK, CountsExact, LimitKnown, WithinCapacity, Effect, UNCHANGED maxClients
  PROVE  WithinCapacity'
  <1>0. /\ IsFiniteSet(clients) /\ Cardinality(clients) \in Nat
        /\ pendingClients \in Nat /\ maxClients \in Nat
    BY HubAssumption, FS_Subset, FS_CardinalityType DEF TypeOK, LimitKnown
  <1> USE <1>0 DEF WithinCapacity
  <1>1. CASE Reserves
    BY <1>1 DEF Reserves, HasRoom
  <1>2. CASE Releases
    BY <1>2 DEF Releases
  <1>3. CASE Joins
    <2>1. Cardinality(clients') = Cardinality(clients) + 1
      BY <1>3, FS_AddElement DEF Joins
    <2>2. QED
      BY <1>3, <2>1 DEF Joins
  <1>4. CASE PumpEnds
    BY <1>4 DEF PumpEnds
  <1>5. CASE Closes
    BY <1>5 DEF Closes
  <1>6. CASE Keeps
    <2>1. Cardinality(clients') \in Nat /\ Cardinality(clients') <= Cardinality(clients)
      BY <1>6, FS_Subset, FS_CardinalityType DEF Keeps
    <2>2. QED
      BY <1>6, <2>1 DEF Keeps, waited
  <1>7. QED
    BY <1>1, <1>2, <1>3, <1>4, <1>5, <1>6 DEF Effect

-----------------------------------------------------------------------------
(* Theorems                                                                *)

\* The inductive invariant: the rest of HubInv follows from it.
IInv == TypeOK /\ Consistent /\ LimitKnown /\ WithinCapacity

\* A new hub is consistent.
LEMMA InitIInv == Init => IInv
  <1> SUFFICES ASSUME Init PROVE IInv
    OBVIOUS
  <1>1. TypeOK
    <2>1. 0 \in 0..MaxCasts /\ 0 \in 0..QueueCap
      BY HubAssumption
    <2>2. /\ serve \in [Conns -> ServeStates] /\ reader \in [Conns -> ReaderStates]
          /\ writer \in [Conns -> WriterStates] /\ closed \in [Conns -> BOOLEAN]
      BY DEF Init, ServeStates, ReaderStates, WriterStates
    <2>3. conn \in [Conns -> {"none", "open", "closed"}] /\ queue \in [Conns -> 0..QueueCap]
      BY <2>1 DEF Init
    <2>4. /\ closing \in BOOLEAN /\ closingConnections \in BOOLEAN
          /\ finalizing \in BOOLEAN /\ closeDone \in BOOLEAN
      BY DEF Init
    <2>5. QED
      BY <2>1, <2>2, <2>3, <2>4 DEF Init, TypeOK
  <1>2. Reservations = {} /\ Readers = {} /\ Writers = {}
    BY DEF Init, Reservations, Readers, Writers, Registered
  <1>3. Cardinality({}) = 0
    BY FS_EmptySet
  <1>4. CountsExact
    BY <1>2, <1>3 DEF Init, CountsExact
  <1>5. PumpsFollowServe /\ RecordsExact /\ LeavesClosed /\ FinalExactly
    BY DEF Init, PumpsFollowServe, RecordsExact, LeavesClosed, FinalExactly, Registered
  <1>6. LimitKnown /\ WithinCapacity
    BY <1>3, HubAssumption DEF Init, LimitKnown, WithinCapacity
  <1>7. QED
    BY <1>1, <1>4, <1>5, <1>6 DEF IInv, Consistent

HubNext == Next /\ UNCHANGED maxClients

\* What a step of the specification is.
LEMMA Steps ==
  ASSUME [HubNext]_<<vars, maxClients>>
  PROVE  (Next \/ UNCHANGED vars) /\ UNCHANGED maxClients
  BY DEF HubNext

\* Every step keeps the hub consistent and within its capacity.
LEMMA IInvStep == IInv /\ [HubNext]_<<vars, maxClients>> => IInv'
  <1> SUFFICES ASSUME IInv, [HubNext]_<<vars, maxClients>> PROVE IInv'
    OBVIOUS
  <1>1. (Next \/ UNCHANGED vars) /\ UNCHANGED maxClients
    BY Steps
  <1>2. Effect
    BY <1>1, EffectOf DEF IInv, Consistent
  <1>3. TypeOK'
    BY <1>1, TypeStep DEF IInv, Consistent
  <1>4. PumpsFollowServe' /\ RecordsExact' /\ LeavesClosed'
    BY <1>1, LocalStep DEF IInv, Consistent
  <1>5. FinalExactly'
    BY <1>1, FinalStep DEF IInv, Consistent
  <1>6. CountsExact'
    BY <1>2, CountStep DEF IInv, Consistent
  <1>7. LimitKnown' /\ WithinCapacity'
    BY <1>1, <1>2, CapacityStep DEF IInv, Consistent, LimitKnown
  <1>8. QED
    BY <1>3, <1>4, <1>5, <1>6, <1>7 DEF IInv, Consistent

\* Nobody is waited for exactly when the counters are zero.
LEMMA DrainedCounts ==
  ASSUME CountsExact
  PROVE  pendingClients = 0 /\ pumps = 0 <=> Reservations = {} /\ Readers = {} /\ Writers = {}
  <1>1. \A S : IsFiniteSet(S) => (Cardinality(S) = 0 <=> S = {})
    BY FS_EmptySet
  <1>2. QED
    BY <1>1, CountedFinite DEF CountsExact

\* h.finalizing in the terms of DrainGate.
GateExactly == finalizing <=> closing /\ Live = {}

\* The counters and flags of the hub say what DrainGate's drained says.
LEMMA GateFollows == IInv => GateExactly
  <1> SUFFICES ASSUME IInv PROVE GateExactly
    OBVIOUS
  <1>1. Live = {} <=> Reservations = {} /\ Readers = {} /\ Writers = {} /\ ~closingConnections
    <2>1. ASSUME NEW c \in Reservations PROVE <<"serve", c>> \in Live
      BY DEF Live
    <2>2. ASSUME NEW c \in Readers PROVE <<"read", c>> \in Live
      BY DEF Live
    <2>3. ASSUME NEW c \in Writers PROVE <<"write", c>> \in Live
      BY DEF Live
    <2>4. closingConnections => <<"closer">> \in Live
      BY DEF Live
    <2>5. Reservations = {} /\ Readers = {} /\ Writers = {} /\ ~closingConnections => Live = {}
      BY DEF Live
    <2>6. QED
      BY <2>1, <2>2, <2>3, <2>4, <2>5
  <1>2. QED
    BY <1>1, DrainedCounts DEF IInv, Consistent, FinalExactly, GateExactly

\* A consistent hub whose close is done has no client left anywhere.
LEMMA EmptyAfterClose == IInv => ClosedHubIsEmpty
  <1> SUFFICES ASSUME IInv, closeDone PROVE ClosedHubIsEmpty
    BY DEF ClosedHubIsEmpty
  <1>1. Readers = {} /\ Writers = {}
    BY DrainedCounts DEF IInv, Consistent, FinalExactly
  <1>2. \A c \in Conns : serve[c] \in Registered => reader[c] = "gone" /\ writer[c] = "gone"
    BY <1>1 DEF Readers, Writers
  <1>3. \A c \in Conns : serve[c] \in Registered => conn[c] = "closed"
    BY <1>2 DEF IInv, Consistent, LeavesClosed
  <1>4. clients = {} /\ presence = {}
    BY <1>2 DEF IInv, Consistent, RecordsExact
  <1>5. QED
    BY <1>2, <1>3, <1>4 DEF ClosedHubIsEmpty

\* Spec in terms of its step.
LEMMA SpecSteps == Spec => Init /\ [][HubNext]_<<vars, maxClients>>
  BY PTL DEF Spec, HubNext

\* The hub in every state, for any connections, limit and traffic: its counters are
\* exact, MaxClients holds, nobody who left is recorded, and a Close that returned
\* nil left an empty hub.
THEOREM HubSafe == Spec => []HubInv
  <1>1. IInv => HubInv
    <2>1. IInv => NoGhosts
      BY DEF IInv, Consistent, RecordsExact, NoGhosts
    <2>2. QED
      BY <2>1, EmptyAfterClose DEF IInv, HubInv
  <1>2. QED
    BY <1>1, InitIInv, IInvStep, SpecSteps, PTL

\* No goroutine sends on a channel that removeClient has closed: enqueue looks at
\* Client.closed under the lock, and the unguarded welcome precedes the reader,
\* which alone closes it.
THEOREM SendsAreSafe == Spec => NoSendAfterClose
  <1>1. IInv /\ [HubNext]_<<vars, maxClients>>
          => [\A c \in Conns : queue'[c] > queue[c] => ~closed[c]]_vars
    <2> SUFFICES ASSUME IInv, [HubNext]_<<vars, maxClients>>
                 PROVE  [\A c \in Conns : queue'[c] > queue[c] => ~closed[c]]_vars
      OBVIOUS
    <2> USE HubAssumption DEF IInv, TypeOK
    <2>1. ASSUME NEW S, Enqueue(S)
          PROVE  \A c \in Conns : queue'[c] > queue[c] => ~closed[c]
      BY <2>1 DEF Enqueue
    <2>2. ASSUME NEW c \in Conns, Welcome(c)
          PROVE  \A d \in Conns : queue'[d] > queue[d] => ~closed[d]
      BY <2>2 DEF Welcome, Consistent, LeavesClosed, PumpsFollowServe
    <2>3. ASSUME NEW c \in Conns, WriterSends(c) \/ WriterReturns(c)
          PROVE  \A d \in Conns : queue'[d] > queue[d] => ~closed[d]
      BY <2>3 DEF WriterSends, WriterReturns
    <2>4. CASE UNCHANGED queue
      BY <2>4
    <2>5. QED
      BY <2>1, <2>2, <2>3, <2>4, StepCases, Steps
      DEF BeginClose, CloserSnapshot, CloserCloses, CloserDone, FinishClose, Reserve,
          Refuse, UpgradeFails, Register, RegisterRefused, RefusedCloses, AddPresence,
          Replay, StartPumps, Broadcast, Send, Disconnect, ReaderBreaks, RemoveCloses,
          RemoveDeletes, RemoveLeaves, ReaderCloses, ReaderFinishes, WriterFinishes,
          vars, traffic
  <1>2. QED
    BY <1>1, InitIInv, IInvStep, SpecSteps, PTL DEF NoSendAfterClose

\* The hub implements the abstract shutdown: once it is closing, nothing is admitted,
\* and the last reservation, pump or closer to end finishes the close.
THEOREM HubImplementsGate == Spec => RefinesDrainGate
  <1>1. Init => Gate!Init
    BY DEF Init, Gate!Init, Live, Reservations, Readers, Writers, Registered
  <1>2. IInv /\ GateExactly /\ GateExactly' /\ [HubNext]_<<vars, maxClients>>
          => [Gate!Next]_(Gate!vars)
    <2> SUFFICES ASSUME IInv, GateExactly, GateExactly', [HubNext]_<<vars, maxClients>>
                 PROVE  [Gate!Next]_(Gate!vars)
      OBVIOUS
    <2>1. Effect
      BY Steps, EffectOf DEF IInv, Consistent
    <2>2. Live \in SUBSET Units /\ Live' \in SUBSET Units
      BY DEF Live, Units, Reservations, Readers, Writers
    <2>3. finalizing <=> closing /\ Live = {}
      BY DEF GateExactly
    <2>4. finalizing' <=> closing' /\ Live' = {}
      BY DEF GateExactly
    <2>5. /\ finalizing \in BOOLEAN /\ finalizing' \in BOOLEAN
          /\ closing \in BOOLEAN /\ closing' \in BOOLEAN
      BY IInvStep DEF IInv, TypeOK
    <2>6. CASE Reserves
      BY <2>2, <2>6 DEF Reserves, Gate!Next, Gate!Change
    <2>7. CASE Releases \/ PumpEnds
      <3>1. Live' \subseteq Live
        BY <2>7 DEF Releases, PumpEnds, Live
      <3>2. QED
        BY <2>2, <2>4, <2>5, <2>7, <3>1
        DEF Releases, PumpEnds, Gate!Next, Gate!Change, Gate!Finish
    <2>8. CASE Joins
      BY <2>2, <2>8 DEF Joins, Gate!Next, Gate!Change
    <2>9. CASE Closes
      <3>1. CASE ~closing
        <4>1. Live \subseteq Live'
          BY <2>9, <3>1 DEF Closes, Live
        <4>2. QED
          BY <2>2, <2>4, <2>5, <2>9, <3>1, <4>1 DEF Closes, Gate!Next, Gate!Stop
      <3>2. CASE closing
        <4>1. Live' \subseteq Live
          BY <2>9, <3>2 DEF Closes, Live
        <4>2. QED
          BY <2>2, <2>4, <2>5, <2>9, <3>2, <4>1 DEF Closes, Gate!Next, Gate!Finish
      <3>3. QED
        BY <2>5, <3>1, <3>2
    <2>10. CASE Keeps
      BY <2>10 DEF Keeps, waited, Live, Gate!vars
    <2>11. QED
      BY <2>1, <2>6, <2>7, <2>8, <2>9, <2>10 DEF Effect
  <1>3. QED
    BY <1>1, <1>2, GateFollows, InitIInv, IInvStep, SpecSteps, PTL
    DEF RefinesDrainGate, Gate!Spec
=============================================================================
