-------------------------- MODULE LifecycleProofs --------------------------
(***************************************************************************)
(* Proofs that the factory closes its storage only when nobody is inside   *)
(* it, and that a closed log stays closed, for any goroutines and logs.    *)
(***************************************************************************)
EXTENDS Lifecycle, FiniteSetTheorems, TLAPS

\* The goroutines between begin and end of log n.
Inside(n) == {p \in Procs : pc[p] \in CallPlaces /\ arg[p] = n}

\* Who holds which lock.
LockInv ==
    /\ \A p \in Procs : mu = p <=> pc[p] = "open"
    /\ \A g \in Goroutines : gcMu = g <=> pc[g] \in {"gcRecheck", "gcRun", "closeRoot"}
    /\ \A p \in Procs, n \in Names :
         lifeMu[n] = p <=> pc[p] \in {"lcDispatcher", "lcWait"} /\ arg[p] = n

\* active counts the calls that are inside.
CountInv == \A n \in Names : active[n] = Cardinality(Inside(n))

\* A call is on a log that was opened; the closing flag goes with a closed
\* dispatcher except while close holds lifeMu in between.
LogInv ==
    /\ \A p \in Procs :
         /\ pc[p] \in CallPlaces \cup LogClosePlaces \cup {"begin"} => arg[p] \in logs
         /\ pc[p] = "lcDispatcher" => closing[arg[p]]
         /\ pc[p] \in {"lcWait", "lcParked", "lcWoken"} => closing[arg[p]] /\ shut[arg[p]]
    /\ \A n \in Names :
         closing[n] => shut[n] \/ \E p \in Procs : pc[p] = "lcDispatcher" /\ arg[p] = n
    /\ \A n \in quiet : closing[n] /\ shut[n] /\ active[n] = 0
    /\ todo \subseteq logs

CloserPlaces == {"cancel", "join", "closeLogs", "closeRoot", "finish"}
Ended == pc[Worker] \in {"none", "done"}

\* One goroutine closes the factory, once; how far it has come.
CloserInv ==
    /\ \A p \in Procs : pc[p] \in CloserPlaces => closer = p
    /\ closer # Nobody => closed /\ pc[closer] \in CloserPlaces \cup LogClosePlaces
    /\ closed <=> closer # Nobody \/ closeDone
    /\ closeDone => closer = Nobody /\ root = "closed"
    /\ cancelled \/ pc[Worker] = "done" => closed
    /\ closed => mu = Nobody
    /\ closer # Nobody /\ pc[closer] \notin {"cancel", "join"} => Ended
    /\ closer # Nobody =>
         \A n \in logs :
           n \in todo \/ n \in quiet \/ (pc[closer] \in LogClosePlaces /\ n = arg[closer])
    /\ closer # Nobody /\ pc[closer] \in {"closeRoot", "finish"} => todo = {}

\* The storage, and what Close has returned.
RootInv ==
    /\ root # "open" =>
         /\ closed /\ Ended /\ logs \subseteq quiet
         /\ closer # Nobody => pc[closer] \in {"closeRoot", "finish"}
    /\ closer # Nobody /\ pc[closer] = "finish" => root = "closed"
    /\ \A g \in Goroutines : pc[g] = "gcRun" => root = "open"
    /\ results # {} => closeDone
    /\ results \subseteq {closeErr}

IInv == TypeOK /\ LockInv /\ CountInv /\ LogInv /\ CloserInv /\ RootInv

\* A call inside a log is counted: end finds active above zero.
LEMMA Counted ==
    ASSUME TypeOK, CountInv, NEW p \in Procs, pc[p] \in CallPlaces
    PROVE  active[arg[p]] \in Nat \ {0}
<1>1. p \in Inside(arg[p]) /\ arg[p] \in Names
    BY DEF TypeOK, Inside
<1>2. IsFiniteSet(Inside(arg[p]))
    BY GoroutineAssumption, FS_Subset DEF Inside
<1>3. Cardinality(Inside(arg[p])) \in Nat \ {0}
    BY <1>1, <1>2, FS_CardinalityType, FS_EmptySet
<1>4. QED
    BY <1>1, <1>3 DEF CountInv

\* Every step keeps the state well typed.
LEMMA TypeStep ==
    TypeOK /\ CountInv /\ [Next]_vars => TypeOK'
<1> SUFFICES ASSUME TypeOK, CountInv, [Next]_vars PROVE TypeOK'
    OBVIOUS
<1> USE GoroutineAssumption DEF Goto, Move, Goroutines, factory, flags, log,
        queue, local, history, TypeOK, ProcPlaces, WorkerPlaces
<1>1. ASSUME NEW p \in Procs, NEW n \in Names, NEW place \in Calls,
             CallFactory(p, place, n) PROVE TypeOK'
    BY <1>1 DEF CallFactory, FactoryCalls, LogCalls, ClosePlaces,
    MaintenancePlaces, LogClosePlaces
<1>2. ASSUME NEW p \in Procs, NEW n \in Names, NEW place \in Calls,
             CallLog(p, place, n) PROVE TypeOK'
    BY <1>2 DEF CallLog, FactoryCalls, LogCalls, ClosePlaces,
    MaintenancePlaces, LogClosePlaces
<1>3. ASSUME NEW p \in Procs, OpenKnown(p) PROVE TypeOK'
    BY <1>3 DEF OpenKnown
<1>4. ASSUME NEW p \in Procs, OpenLock(p) PROVE TypeOK'
    BY <1>4 DEF OpenLock
<1>5. ASSUME NEW p \in Procs, OpenReturn(p) PROVE TypeOK'
    BY <1>5 DEF OpenReturn
<1>6. ASSUME NEW p \in Procs, begin(p) PROVE TypeOK'
    BY <1>6 DEF begin, CallPlaces
<1>7. ASSUME NEW p \in Procs, beginClosed(p) PROVE TypeOK'
    BY <1>7 DEF beginClosed, CallPlaces
<1>8. ASSUME NEW p \in Procs, end(p) PROVE TypeOK'
  <2>1. active[arg[p]] \in Nat \ {0}
    BY <1>8, Counted DEF end, CallPlaces
  <2>2. active' \in [Names -> Nat]
    BY <1>8, <2>1 DEF end
  <2>3. pc' \in [Goroutines -> ProcPlaces \cup WorkerPlaces]
    BY <1>8 DEF end, Broadcast, LogClosePlaces
  <2>4. pc'[Worker] \in WorkerPlaces
    BY <1>8 DEF end, Broadcast
  <2>5. \A q \in Procs : pc'[q] \in ProcPlaces
    BY <1>8 DEF end, Broadcast, LogClosePlaces
  <2>6. QED
    BY <1>8, <2>2, <2>3, <2>4, <2>5 DEF end
<1>9. ASSUME NEW p \in Procs, StoreDone(p) PROVE TypeOK'
    BY <1>9 DEF StoreDone, CallPlaces
<1>10. ASSUME NEW p \in Procs, Notify(p) PROVE TypeOK'
    BY <1>10 DEF Notify, CallPlaces
<1>11. ASSUME NEW p \in Procs, CompleteLock(p) PROVE TypeOK'
    BY <1>11 DEF CompleteLock, CallPlaces
<1>12. ASSUME NEW p \in Procs, CompleteDone(p) PROVE TypeOK'
    BY <1>12 DEF CompleteDone, CallPlaces
<1>13. ASSUME NEW p \in Procs, ReadLoop(p) PROVE TypeOK'
    BY <1>13 DEF ReadLoop, CallPlaces
<1>14. ASSUME NEW p \in Procs, ScanDone(p) PROVE TypeOK'
    BY <1>14 DEF ScanDone, CallPlaces
<1>15. ASSUME NEW p \in Procs, ReadWake(p) PROVE TypeOK'
    BY <1>15 DEF ReadWake, CallPlaces
<1>16. ASSUME NEW p \in Procs, ReadTimeout(p) PROVE TypeOK'
    BY <1>16 DEF ReadTimeout, CallPlaces
<1>17. ASSUME NEW p \in Procs, lcLock(p) PROVE TypeOK'
    BY <1>17 DEF lcLock, LogClosePlaces, ClosePlaces
<1>18. ASSUME NEW p \in Procs, lcDispatcher(p) PROVE TypeOK'
    BY <1>18 DEF lcDispatcher, LogClosePlaces, ClosePlaces
<1>19. ASSUME NEW p \in Procs, lcPark(p) PROVE TypeOK'
    BY <1>19 DEF lcPark, LogClosePlaces, ClosePlaces
<1>20. ASSUME NEW p \in Procs, lcRelock(p) PROVE TypeOK'
    BY <1>20 DEF lcRelock, LogClosePlaces, ClosePlaces
<1>21. ASSUME NEW p \in Procs, lcReturn(p) PROVE TypeOK'
    BY <1>21 DEF lcReturn, LogClosePlaces, ClosePlaces
<1>22. ASSUME NEW p \in Procs, CloseFirst(p) PROVE TypeOK'
    BY <1>22 DEF CloseFirst, ClosePlaces
<1>23. ASSUME NEW p \in Procs, CloseAgain(p) PROVE TypeOK'
    BY <1>23 DEF CloseAgain, ClosePlaces
<1>24. ASSUME NEW p \in Procs, CloseAwait(p) PROVE TypeOK'
    BY <1>24 DEF CloseAwait, ClosePlaces
<1>25. ASSUME NEW p \in Procs, CloseCancel(p) PROVE TypeOK'
    BY <1>25 DEF CloseCancel, ClosePlaces
<1>26. ASSUME NEW p \in Procs, CloseJoin(p) PROVE TypeOK'
    BY <1>26 DEF CloseJoin, ClosePlaces
<1>27. ASSUME NEW p \in Procs, NEW n \in Names, CloseLog(p, n) PROVE TypeOK'
    BY <1>27 DEF CloseLog, LogClosePlaces, ClosePlaces
<1>28. ASSUME NEW p \in Procs, CloseRoot(p) PROVE TypeOK'
    BY <1>28 DEF CloseRoot, ClosePlaces
<1>29. ASSUME NEW p \in Procs, CloseRootDone(p) PROVE TypeOK'
    BY <1>29 DEF CloseRootDone, ClosePlaces
<1>30. ASSUME NEW p \in Procs, CloseFinish(p) PROVE TypeOK'
    BY <1>30 DEF CloseFinish, ClosePlaces
<1>31. ASSUME WorkerTick PROVE TypeOK'
    BY <1>31 DEF WorkerTick, MaintenancePlaces
<1>32. ASSUME WorkerStop PROVE TypeOK'
    BY <1>32 DEF WorkerStop, MaintenancePlaces
<1>33. ASSUME NEW g \in Goroutines, GcCheck(g) PROVE TypeOK'
    BY <1>33 DEF GcCheck, Stopped, MaintenancePlaces
<1>34. ASSUME NEW g \in Goroutines, GcLock(g) PROVE TypeOK'
    BY <1>34 DEF GcLock, MaintenancePlaces
<1>35. ASSUME NEW g \in Goroutines, GcRecheck(g) PROVE TypeOK'
    BY <1>35 DEF GcRecheck, Stopped, MaintenancePlaces
<1>36. ASSUME NEW g \in Goroutines, GcEnd(g) PROVE TypeOK'
    BY <1>36 DEF GcEnd, Passed, MaintenancePlaces
<1>37. ASSUME NEW g \in Goroutines, GcPanic(g) PROVE TypeOK'
    BY <1>37 DEF GcPanic, Passed, MaintenancePlaces
<1>38. CASE UNCHANGED vars
    BY <1>38 DEF vars
<1> HIDE DEF Goto, Move, factory, flags, log, queue, local, history, TypeOK,
         ProcPlaces, WorkerPlaces
<1>39. QED
    BY <1>1, <1>2, <1>3, <1>4, <1>5, <1>6, <1>7, <1>8, <1>9, <1>10, <1>11,
    <1>12, <1>13, <1>14, <1>15, <1>16, <1>17, <1>18, <1>19, <1>20, <1>21,
    <1>22, <1>23, <1>24, <1>25, <1>26, <1>27, <1>28, <1>29, <1>30, <1>31,
    <1>32, <1>33, <1>34, <1>35, <1>36, <1>37, <1>38 DEF Next, Step, OpenStep,
    CallStep, LogCloseStep, CloseStep, Maintain, Pass, Goroutines

\* Every step keeps the locks with the goroutines at the places that hold them.
LEMMA LockStep ==
    TypeOK /\ LockInv /\ [Next]_vars => LockInv'
<1> SUFFICES ASSUME TypeOK, LockInv, [Next]_vars PROVE LockInv'
    OBVIOUS
<1> USE GoroutineAssumption DEF Goto, Move, Goroutines, factory, flags, log,
        queue, local, history, TypeOK, LockInv
<1>1. ASSUME NEW p \in Procs, NEW n \in Names, NEW place \in Calls,
             CallFactory(p, place, n) PROVE LockInv'
    BY <1>1 DEF CallFactory, FactoryCalls
<1>2. ASSUME NEW p \in Procs, NEW n \in Names, NEW place \in Calls,
             CallLog(p, place, n) PROVE LockInv'
    BY <1>2 DEF CallLog, LogCalls
<1>3. ASSUME NEW p \in Procs, OpenKnown(p) PROVE LockInv'
    BY <1>3 DEF OpenKnown
<1>4. ASSUME NEW p \in Procs, OpenLock(p) PROVE LockInv'
    BY <1>4 DEF OpenLock
<1>5. ASSUME NEW p \in Procs, OpenReturn(p) PROVE LockInv'
    BY <1>5 DEF OpenReturn
<1>6. ASSUME NEW p \in Procs, begin(p) PROVE LockInv'
    BY <1>6 DEF begin
<1>7. ASSUME NEW p \in Procs, beginClosed(p) PROVE LockInv'
    BY <1>7 DEF beginClosed
<1>8. ASSUME NEW p \in Procs, end(p) PROVE LockInv'
    BY <1>8 DEF end, Broadcast
<1>9. ASSUME NEW p \in Procs, StoreDone(p) PROVE LockInv'
    BY <1>9 DEF StoreDone
<1>10. ASSUME NEW p \in Procs, Notify(p) PROVE LockInv'
    BY <1>10 DEF Notify
<1>11. ASSUME NEW p \in Procs, CompleteLock(p) PROVE LockInv'
    BY <1>11 DEF CompleteLock
<1>12. ASSUME NEW p \in Procs, CompleteDone(p) PROVE LockInv'
    BY <1>12 DEF CompleteDone
<1>13. ASSUME NEW p \in Procs, ReadLoop(p) PROVE LockInv'
    BY <1>13 DEF ReadLoop
<1>14. ASSUME NEW p \in Procs, ScanDone(p) PROVE LockInv'
    BY <1>14 DEF ScanDone
<1>15. ASSUME NEW p \in Procs, ReadWake(p) PROVE LockInv'
    BY <1>15 DEF ReadWake
<1>16. ASSUME NEW p \in Procs, ReadTimeout(p) PROVE LockInv'
    BY <1>16 DEF ReadTimeout
<1>17. ASSUME NEW p \in Procs, lcLock(p) PROVE LockInv'
    BY <1>17 DEF lcLock
<1>18. ASSUME NEW p \in Procs, lcDispatcher(p) PROVE LockInv'
    BY <1>18 DEF lcDispatcher
<1>19. ASSUME NEW p \in Procs, lcPark(p) PROVE LockInv'
    BY <1>19 DEF lcPark
<1>20. ASSUME NEW p \in Procs, lcRelock(p) PROVE LockInv'
    BY <1>20 DEF lcRelock
<1>21. ASSUME NEW p \in Procs, lcReturn(p) PROVE LockInv'
    BY <1>21 DEF lcReturn
<1>22. ASSUME NEW p \in Procs, CloseFirst(p) PROVE LockInv'
    BY <1>22 DEF CloseFirst
<1>23. ASSUME NEW p \in Procs, CloseAgain(p) PROVE LockInv'
    BY <1>23 DEF CloseAgain
<1>24. ASSUME NEW p \in Procs, CloseAwait(p) PROVE LockInv'
    BY <1>24 DEF CloseAwait
<1>25. ASSUME NEW p \in Procs, CloseCancel(p) PROVE LockInv'
    BY <1>25 DEF CloseCancel
<1>26. ASSUME NEW p \in Procs, CloseJoin(p) PROVE LockInv'
    BY <1>26 DEF CloseJoin
<1>27. ASSUME NEW p \in Procs, NEW n \in Names, CloseLog(p, n) PROVE LockInv'
    BY <1>27 DEF CloseLog
<1>28. ASSUME NEW p \in Procs, CloseRoot(p) PROVE LockInv'
    BY <1>28 DEF CloseRoot
<1>29. ASSUME NEW p \in Procs, CloseRootDone(p) PROVE LockInv'
    BY <1>29 DEF CloseRootDone
<1>30. ASSUME NEW p \in Procs, CloseFinish(p) PROVE LockInv'
    BY <1>30 DEF CloseFinish
<1>31. ASSUME WorkerTick PROVE LockInv'
    BY <1>31 DEF WorkerTick
<1>32. ASSUME WorkerStop PROVE LockInv'
    BY <1>32 DEF WorkerStop
<1>33. ASSUME NEW g \in Goroutines, GcCheck(g) PROVE LockInv'
    BY <1>33 DEF GcCheck, Stopped
<1>34. ASSUME NEW g \in Goroutines, GcLock(g) PROVE LockInv'
    BY <1>34 DEF GcLock
<1>35. ASSUME NEW g \in Goroutines, GcRecheck(g) PROVE LockInv'
    BY <1>35 DEF GcRecheck, Stopped
<1>36. ASSUME NEW g \in Goroutines, GcEnd(g) PROVE LockInv'
    BY <1>36 DEF GcEnd, Passed
<1>37. ASSUME NEW g \in Goroutines, GcPanic(g) PROVE LockInv'
    BY <1>37 DEF GcPanic, Passed
<1>38. CASE UNCHANGED vars
    BY <1>38 DEF vars
<1> HIDE DEF Goto, Move, factory, flags, log, queue, local, history, TypeOK,
         LockInv
<1>39. QED
    BY <1>1, <1>2, <1>3, <1>4, <1>5, <1>6, <1>7, <1>8, <1>9, <1>10, <1>11,
    <1>12, <1>13, <1>14, <1>15, <1>16, <1>17, <1>18, <1>19, <1>20, <1>21,
    <1>22, <1>23, <1>24, <1>25, <1>26, <1>27, <1>28, <1>29, <1>30, <1>31,
    <1>32, <1>33, <1>34, <1>35, <1>36, <1>37, <1>38 DEF Next, Step, OpenStep,
    CallStep, LogCloseStep, CloseStep, Maintain, Pass, Goroutines

\* The count stands if nobody enters or leaves a log.
LEMMA CountSame ==
    ASSUME CountInv, active' = active,
           \A q \in Procs : /\ pc'[q] \in CallPlaces <=> pc[q] \in CallPlaces
                            /\ pc[q] \in CallPlaces => arg'[q] = arg[q]
    PROVE  CountInv'
<1>1. \A n \in Names : Inside(n)' = Inside(n)
    BY DEF Inside
<1>2. QED
    BY <1>1 DEF CountInv

\* Every step keeps active equal to the number of calls inside.
LEMMA CountStep ==
    TypeOK /\ CountInv /\ [Next]_vars => CountInv'
<1> SUFFICES ASSUME TypeOK, CountInv, [Next]_vars PROVE CountInv'
    OBVIOUS
<1> USE GoroutineAssumption DEF Goto, Move, Goroutines, factory, flags, log,
        queue, local, history, TypeOK, CallPlaces
<1>1. ASSUME NEW p \in Procs, NEW n \in Names, NEW place \in Calls,
             CallFactory(p, place, n) PROVE CountInv'
    BY <1>1, CountSame DEF CallFactory, FactoryCalls
<1>2. ASSUME NEW p \in Procs, NEW n \in Names, NEW place \in Calls,
             CallLog(p, place, n) PROVE CountInv'
    BY <1>2, CountSame DEF CallLog, LogCalls
<1>3. ASSUME NEW p \in Procs, OpenKnown(p) PROVE CountInv'
    BY <1>3, CountSame DEF OpenKnown
<1>4. ASSUME NEW p \in Procs, OpenLock(p) PROVE CountInv'
    BY <1>4, CountSame DEF OpenLock
<1>5. ASSUME NEW p \in Procs, OpenReturn(p) PROVE CountInv'
    BY <1>5, CountSame DEF OpenReturn
<1>6. ASSUME NEW p \in Procs, begin(p) PROVE CountInv'
  <2> DEFINE n == arg[p]
  <2>1. n \in Names /\ IsFiniteSet(Inside(n)) /\ p \notin Inside(n)
    BY <1>6, FS_Subset DEF begin, Inside
  <2>2. Inside(n)' = Inside(n) \cup {p}
    BY <1>6 DEF begin, Inside
  <2>3. \A m \in Names \ {n} : Inside(m)' = Inside(m)
    BY <1>6 DEF begin, Inside
  <2>4. Cardinality(Inside(n)') = Cardinality(Inside(n)) + 1
    BY <2>1, <2>2, FS_AddElement, Zenon
  <2>5. QED
    BY <1>6, <2>1, <2>3, <2>4 DEF begin, CountInv
<1>7. ASSUME NEW p \in Procs, beginClosed(p) PROVE CountInv'
    BY <1>7, CountSame DEF beginClosed
<1>8. ASSUME NEW p \in Procs, end(p) PROVE CountInv'
  <2> DEFINE n == arg[p]
  <2>1. n \in Names /\ IsFiniteSet(Inside(n)) /\ p \in Inside(n)
    BY <1>8, FS_Subset DEF end, Inside
  <2>2. Inside(n)' = Inside(n) \ {p}
    BY <1>8 DEF end, Broadcast, Inside
  <2>3. \A m \in Names \ {n} : Inside(m)' = Inside(m)
    BY <1>8 DEF end, Broadcast, Inside
  <2>4. Cardinality(Inside(n)') = Cardinality(Inside(n)) - 1
    BY <2>1, <2>2, FS_RemoveElement, Zenon
  <2>5. QED
    BY <1>8, <2>1, <2>3, <2>4 DEF end, CountInv
<1>9. ASSUME NEW p \in Procs, StoreDone(p) PROVE CountInv'
    BY <1>9, CountSame DEF StoreDone
<1>10. ASSUME NEW p \in Procs, Notify(p) PROVE CountInv'
    BY <1>10, CountSame DEF Notify
<1>11. ASSUME NEW p \in Procs, CompleteLock(p) PROVE CountInv'
    BY <1>11, CountSame DEF CompleteLock
<1>12. ASSUME NEW p \in Procs, CompleteDone(p) PROVE CountInv'
    BY <1>12, CountSame DEF CompleteDone
<1>13. ASSUME NEW p \in Procs, ReadLoop(p) PROVE CountInv'
    BY <1>13, CountSame DEF ReadLoop
<1>14. ASSUME NEW p \in Procs, ScanDone(p) PROVE CountInv'
    BY <1>14, CountSame DEF ScanDone
<1>15. ASSUME NEW p \in Procs, ReadWake(p) PROVE CountInv'
    BY <1>15, CountSame DEF ReadWake
<1>16. ASSUME NEW p \in Procs, ReadTimeout(p) PROVE CountInv'
    BY <1>16, CountSame DEF ReadTimeout
<1>17. ASSUME NEW p \in Procs, lcLock(p) PROVE CountInv'
    BY <1>17, CountSame DEF lcLock
<1>18. ASSUME NEW p \in Procs, lcDispatcher(p) PROVE CountInv'
    BY <1>18, CountSame DEF lcDispatcher
<1>19. ASSUME NEW p \in Procs, lcPark(p) PROVE CountInv'
    BY <1>19, CountSame DEF lcPark
<1>20. ASSUME NEW p \in Procs, lcRelock(p) PROVE CountInv'
    BY <1>20, CountSame DEF lcRelock
<1>21. ASSUME NEW p \in Procs, lcReturn(p) PROVE CountInv'
    BY <1>21, CountSame DEF lcReturn
<1>22. ASSUME NEW p \in Procs, CloseFirst(p) PROVE CountInv'
    BY <1>22, CountSame DEF CloseFirst
<1>23. ASSUME NEW p \in Procs, CloseAgain(p) PROVE CountInv'
    BY <1>23, CountSame DEF CloseAgain
<1>24. ASSUME NEW p \in Procs, CloseAwait(p) PROVE CountInv'
    BY <1>24, CountSame DEF CloseAwait
<1>25. ASSUME NEW p \in Procs, CloseCancel(p) PROVE CountInv'
    BY <1>25, CountSame DEF CloseCancel
<1>26. ASSUME NEW p \in Procs, CloseJoin(p) PROVE CountInv'
    BY <1>26, CountSame DEF CloseJoin
<1>27. ASSUME NEW p \in Procs, NEW n \in Names, CloseLog(p, n) PROVE CountInv'
    BY <1>27, CountSame DEF CloseLog
<1>28. ASSUME NEW p \in Procs, CloseRoot(p) PROVE CountInv'
    BY <1>28, CountSame DEF CloseRoot
<1>29. ASSUME NEW p \in Procs, CloseRootDone(p) PROVE CountInv'
    BY <1>29, CountSame DEF CloseRootDone
<1>30. ASSUME NEW p \in Procs, CloseFinish(p) PROVE CountInv'
    BY <1>30, CountSame DEF CloseFinish
<1>31. ASSUME WorkerTick PROVE CountInv'
    BY <1>31, CountSame DEF WorkerTick
<1>32. ASSUME WorkerStop PROVE CountInv'
    BY <1>32, CountSame DEF WorkerStop
<1>33. ASSUME NEW g \in Goroutines, GcCheck(g) PROVE CountInv'
    BY <1>33, CountSame DEF GcCheck, Stopped
<1>34. ASSUME NEW g \in Goroutines, GcLock(g) PROVE CountInv'
    BY <1>34, CountSame DEF GcLock
<1>35. ASSUME NEW g \in Goroutines, GcRecheck(g) PROVE CountInv'
    BY <1>35, CountSame DEF GcRecheck, Stopped
<1>36. ASSUME NEW g \in Goroutines, GcEnd(g) PROVE CountInv'
    BY <1>36, CountSame DEF GcEnd, Passed
<1>37. ASSUME NEW g \in Goroutines, GcPanic(g) PROVE CountInv'
    BY <1>37, CountSame DEF GcPanic, Passed
<1>38. CASE UNCHANGED vars
    BY <1>38, CountSame DEF vars
<1> HIDE DEF Goto, Move, factory, flags, log, queue, local, history, TypeOK,
         CallPlaces
<1>39. QED
    BY <1>1, <1>2, <1>3, <1>4, <1>5, <1>6, <1>7, <1>8, <1>9, <1>10, <1>11,
    <1>12, <1>13, <1>14, <1>15, <1>16, <1>17, <1>18, <1>19, <1>20, <1>21,
    <1>22, <1>23, <1>24, <1>25, <1>26, <1>27, <1>28, <1>29, <1>30, <1>31,
    <1>32, <1>33, <1>34, <1>35, <1>36, <1>37, <1>38 DEF Next, Step, OpenStep,
    CallStep, LogCloseStep, CloseStep, Maintain, Pass, Goroutines

\* Every step keeps each call on an opened log, and a closed log closed.
LEMMA LogStep ==
    TypeOK /\ LockInv /\ CountInv /\ LogInv /\ [Next]_vars => LogInv'
<1> SUFFICES ASSUME TypeOK, LockInv, CountInv, LogInv, [Next]_vars PROVE LogInv'
    OBVIOUS
<1> USE GoroutineAssumption DEF Goto, Move, Goroutines, factory, flags, log,
        queue, local, history, TypeOK, LogInv, CallPlaces, LogClosePlaces
<1>1. ASSUME NEW p \in Procs, NEW n \in Names, NEW place \in Calls,
             CallFactory(p, place, n) PROVE LogInv'
    BY <1>1 DEF CallFactory, FactoryCalls
<1>2. ASSUME NEW p \in Procs, NEW n \in Names, NEW place \in Calls,
             CallLog(p, place, n) PROVE LogInv'
    BY <1>2 DEF CallLog, LogCalls
<1>3. ASSUME NEW p \in Procs, OpenKnown(p) PROVE LogInv'
    BY <1>3 DEF OpenKnown
<1>4. ASSUME NEW p \in Procs, OpenLock(p) PROVE LogInv'
    BY <1>4 DEF OpenLock
<1>5. ASSUME NEW p \in Procs, OpenReturn(p) PROVE LogInv'
    BY <1>5 DEF OpenReturn
<1>6. ASSUME NEW p \in Procs, begin(p) PROVE LogInv'
    BY <1>6 DEF begin
<1>7. ASSUME NEW p \in Procs, beginClosed(p) PROVE LogInv'
    BY <1>7 DEF beginClosed
<1>8. ASSUME NEW p \in Procs, end(p) PROVE LogInv'
    BY <1>8, Counted DEF end, Broadcast
<1>9. ASSUME NEW p \in Procs, StoreDone(p) PROVE LogInv'
    BY <1>9 DEF StoreDone
<1>10. ASSUME NEW p \in Procs, Notify(p) PROVE LogInv'
    BY <1>10 DEF Notify
<1>11. ASSUME NEW p \in Procs, CompleteLock(p) PROVE LogInv'
    BY <1>11 DEF CompleteLock
<1>12. ASSUME NEW p \in Procs, CompleteDone(p) PROVE LogInv'
    BY <1>12 DEF CompleteDone
<1>13. ASSUME NEW p \in Procs, ReadLoop(p) PROVE LogInv'
    BY <1>13 DEF ReadLoop
<1>14. ASSUME NEW p \in Procs, ScanDone(p) PROVE LogInv'
    BY <1>14 DEF ScanDone
<1>15. ASSUME NEW p \in Procs, ReadWake(p) PROVE LogInv'
    BY <1>15 DEF ReadWake
<1>16. ASSUME NEW p \in Procs, ReadTimeout(p) PROVE LogInv'
    BY <1>16 DEF ReadTimeout
<1>17. ASSUME NEW p \in Procs, lcLock(p) PROVE LogInv'
  <2>1. closing[arg[p]] => shut[arg[p]]
    BY <1>17 DEF lcLock, LockInv
  <2>2. QED
    BY <1>17, <2>1 DEF lcLock
<1>18. ASSUME NEW p \in Procs, lcDispatcher(p) PROVE LogInv'
    BY <1>18 DEF lcDispatcher
<1>19. ASSUME NEW p \in Procs, lcPark(p) PROVE LogInv'
    BY <1>19 DEF lcPark
<1>20. ASSUME NEW p \in Procs, lcRelock(p) PROVE LogInv'
    BY <1>20 DEF lcRelock
<1>21. ASSUME NEW p \in Procs, lcReturn(p) PROVE LogInv'
    BY <1>21 DEF lcReturn
<1>22. ASSUME NEW p \in Procs, CloseFirst(p) PROVE LogInv'
    BY <1>22 DEF CloseFirst
<1>23. ASSUME NEW p \in Procs, CloseAgain(p) PROVE LogInv'
    BY <1>23 DEF CloseAgain
<1>24. ASSUME NEW p \in Procs, CloseAwait(p) PROVE LogInv'
    BY <1>24 DEF CloseAwait
<1>25. ASSUME NEW p \in Procs, CloseCancel(p) PROVE LogInv'
    BY <1>25 DEF CloseCancel
<1>26. ASSUME NEW p \in Procs, CloseJoin(p) PROVE LogInv'
    BY <1>26 DEF CloseJoin
<1>27. ASSUME NEW p \in Procs, NEW n \in Names, CloseLog(p, n) PROVE LogInv'
    BY <1>27 DEF CloseLog
<1>28. ASSUME NEW p \in Procs, CloseRoot(p) PROVE LogInv'
    BY <1>28 DEF CloseRoot
<1>29. ASSUME NEW p \in Procs, CloseRootDone(p) PROVE LogInv'
    BY <1>29 DEF CloseRootDone
<1>30. ASSUME NEW p \in Procs, CloseFinish(p) PROVE LogInv'
    BY <1>30 DEF CloseFinish
<1>31. ASSUME WorkerTick PROVE LogInv'
    BY <1>31 DEF WorkerTick
<1>32. ASSUME WorkerStop PROVE LogInv'
    BY <1>32 DEF WorkerStop
<1>33. ASSUME NEW g \in Goroutines, GcCheck(g) PROVE LogInv'
    BY <1>33 DEF GcCheck, Stopped
<1>34. ASSUME NEW g \in Goroutines, GcLock(g) PROVE LogInv'
    BY <1>34 DEF GcLock
<1>35. ASSUME NEW g \in Goroutines, GcRecheck(g) PROVE LogInv'
    BY <1>35 DEF GcRecheck, Stopped
<1>36. ASSUME NEW g \in Goroutines, GcEnd(g) PROVE LogInv'
    BY <1>36 DEF GcEnd, Passed
<1>37. ASSUME NEW g \in Goroutines, GcPanic(g) PROVE LogInv'
    BY <1>37 DEF GcPanic, Passed
<1>38. CASE UNCHANGED vars
    BY <1>38 DEF vars
<1> HIDE DEF Goto, Move, factory, flags, log, queue, local, history, TypeOK,
         LogInv, CallPlaces, LogClosePlaces
<1>39. QED
    BY <1>1, <1>2, <1>3, <1>4, <1>5, <1>6, <1>7, <1>8, <1>9, <1>10, <1>11,
    <1>12, <1>13, <1>14, <1>15, <1>16, <1>17, <1>18, <1>19, <1>20, <1>21,
    <1>22, <1>23, <1>24, <1>25, <1>26, <1>27, <1>28, <1>29, <1>30, <1>31,
    <1>32, <1>33, <1>34, <1>35, <1>36, <1>37, <1>38 DEF Next, Step, OpenStep,
    CallStep, LogCloseStep, CloseStep, Maintain, Pass, Goroutines

\* Every step keeps what is known of the goroutine that closes the factory.
LEMMA CloserStep ==
    TypeOK /\ LockInv /\ LogInv /\ CloserInv /\ RootInv /\ [Next]_vars => CloserInv'
<1> SUFFICES ASSUME TypeOK, LockInv, LogInv, CloserInv, RootInv, [Next]_vars PROVE CloserInv'
    OBVIOUS
<1> USE GoroutineAssumption DEF Goto, Move, Goroutines, factory, flags, log,
        queue, local, history, TypeOK, LockInv, CloserInv, CloserPlaces,
        LogClosePlaces, Ended
<1>1. ASSUME NEW p \in Procs, NEW n \in Names, NEW place \in Calls,
             CallFactory(p, place, n) PROVE CloserInv'
    BY <1>1 DEF CallFactory, FactoryCalls
<1>2. ASSUME NEW p \in Procs, NEW n \in Names, NEW place \in Calls,
             CallLog(p, place, n) PROVE CloserInv'
    BY <1>2 DEF CallLog, LogCalls
<1>3. ASSUME NEW p \in Procs, OpenKnown(p) PROVE CloserInv'
    BY <1>3 DEF OpenKnown
<1>4. ASSUME NEW p \in Procs, OpenLock(p) PROVE CloserInv'
    BY <1>4 DEF OpenLock
<1>5. ASSUME NEW p \in Procs, OpenReturn(p) PROVE CloserInv'
    BY <1>5 DEF OpenReturn
<1>6. ASSUME NEW p \in Procs, begin(p) PROVE CloserInv'
    BY <1>6 DEF begin
<1>7. ASSUME NEW p \in Procs, beginClosed(p) PROVE CloserInv'
    BY <1>7 DEF beginClosed
<1>8. ASSUME NEW p \in Procs, end(p) PROVE CloserInv'
    BY <1>8 DEF end, Broadcast
<1>9. ASSUME NEW p \in Procs, StoreDone(p) PROVE CloserInv'
    BY <1>9 DEF StoreDone
<1>10. ASSUME NEW p \in Procs, Notify(p) PROVE CloserInv'
    BY <1>10 DEF Notify
<1>11. ASSUME NEW p \in Procs, CompleteLock(p) PROVE CloserInv'
    BY <1>11 DEF CompleteLock
<1>12. ASSUME NEW p \in Procs, CompleteDone(p) PROVE CloserInv'
    BY <1>12 DEF CompleteDone
<1>13. ASSUME NEW p \in Procs, ReadLoop(p) PROVE CloserInv'
    BY <1>13 DEF ReadLoop
<1>14. ASSUME NEW p \in Procs, ScanDone(p) PROVE CloserInv'
    BY <1>14 DEF ScanDone
<1>15. ASSUME NEW p \in Procs, ReadWake(p) PROVE CloserInv'
    BY <1>15 DEF ReadWake
<1>16. ASSUME NEW p \in Procs, ReadTimeout(p) PROVE CloserInv'
    BY <1>16 DEF ReadTimeout
<1>17. ASSUME NEW p \in Procs, lcLock(p) PROVE CloserInv'
    BY <1>17 DEF lcLock
<1>18. ASSUME NEW p \in Procs, lcDispatcher(p) PROVE CloserInv'
    BY <1>18 DEF lcDispatcher
<1>19. ASSUME NEW p \in Procs, lcPark(p) PROVE CloserInv'
    BY <1>19 DEF lcPark
<1>20. ASSUME NEW p \in Procs, lcRelock(p) PROVE CloserInv'
    BY <1>20 DEF lcRelock
<1>21. ASSUME NEW p \in Procs, lcReturn(p) PROVE CloserInv'
    BY <1>21 DEF lcReturn
<1>22. ASSUME NEW p \in Procs, CloseFirst(p) PROVE CloserInv'
    BY <1>22 DEF CloseFirst
<1>23. ASSUME NEW p \in Procs, CloseAgain(p) PROVE CloserInv'
    BY <1>23 DEF CloseAgain
<1>24. ASSUME NEW p \in Procs, CloseAwait(p) PROVE CloserInv'
    BY <1>24 DEF CloseAwait
<1>25. ASSUME NEW p \in Procs, CloseCancel(p) PROVE CloserInv'
    BY <1>25 DEF CloseCancel
<1>26. ASSUME NEW p \in Procs, CloseJoin(p) PROVE CloserInv'
    BY <1>26 DEF CloseJoin
<1>27. ASSUME NEW p \in Procs, NEW n \in Names, CloseLog(p, n) PROVE CloserInv'
    BY <1>27 DEF CloseLog
<1>28. ASSUME NEW p \in Procs, CloseRoot(p) PROVE CloserInv'
    BY <1>28 DEF CloseRoot
<1>29. ASSUME NEW p \in Procs, CloseRootDone(p) PROVE CloserInv'
    BY <1>29 DEF CloseRootDone
<1>30. ASSUME NEW p \in Procs, CloseFinish(p) PROVE CloserInv'
    BY <1>30 DEF CloseFinish, RootInv
<1>31. ASSUME WorkerTick PROVE CloserInv'
    BY <1>31 DEF WorkerTick
<1>32. ASSUME WorkerStop PROVE CloserInv'
    BY <1>32 DEF WorkerStop
<1>33. ASSUME NEW g \in Goroutines, GcCheck(g) PROVE CloserInv'
    BY <1>33 DEF GcCheck, Stopped
<1>34. ASSUME NEW g \in Goroutines, GcLock(g) PROVE CloserInv'
    BY <1>34 DEF GcLock
<1>35. ASSUME NEW g \in Goroutines, GcRecheck(g) PROVE CloserInv'
    BY <1>35 DEF GcRecheck, Stopped
<1>36. ASSUME NEW g \in Goroutines, GcEnd(g) PROVE CloserInv'
    BY <1>36 DEF GcEnd, Passed
<1>37. ASSUME NEW g \in Goroutines, GcPanic(g) PROVE CloserInv'
    BY <1>37 DEF GcPanic, Passed
<1>38. CASE UNCHANGED vars
    BY <1>38 DEF vars
<1> HIDE DEF Goto, Move, factory, flags, log, queue, local, history, TypeOK,
         LockInv, CloserInv, CloserPlaces, LogClosePlaces, Ended
<1>39. QED
    BY <1>1, <1>2, <1>3, <1>4, <1>5, <1>6, <1>7, <1>8, <1>9, <1>10, <1>11,
    <1>12, <1>13, <1>14, <1>15, <1>16, <1>17, <1>18, <1>19, <1>20, <1>21,
    <1>22, <1>23, <1>24, <1>25, <1>26, <1>27, <1>28, <1>29, <1>30, <1>31,
    <1>32, <1>33, <1>34, <1>35, <1>36, <1>37, <1>38 DEF Next, Step, OpenStep,
    CallStep, LogCloseStep, CloseStep, Maintain, Pass, Goroutines

\* Every step keeps what is known of the storage and of the results of Close.
LEMMA RootStep ==
    TypeOK /\ LockInv /\ CloserInv /\ RootInv /\ [Next]_vars => RootInv'
<1> SUFFICES ASSUME TypeOK, LockInv, CloserInv, RootInv, [Next]_vars PROVE RootInv'
    OBVIOUS
<1> USE GoroutineAssumption DEF Goto, Move, Goroutines, factory, flags, log,
        queue, local, history, TypeOK, LockInv, CloserInv, RootInv, CloserPlaces,
        LogClosePlaces, Ended
<1>1. ASSUME NEW p \in Procs, NEW n \in Names, NEW place \in Calls,
             CallFactory(p, place, n) PROVE RootInv'
    BY <1>1 DEF CallFactory, FactoryCalls
<1>2. ASSUME NEW p \in Procs, NEW n \in Names, NEW place \in Calls,
             CallLog(p, place, n) PROVE RootInv'
    BY <1>2 DEF CallLog, LogCalls
<1>3. ASSUME NEW p \in Procs, OpenKnown(p) PROVE RootInv'
    BY <1>3 DEF OpenKnown
<1>4. ASSUME NEW p \in Procs, OpenLock(p) PROVE RootInv'
    BY <1>4 DEF OpenLock
<1>5. ASSUME NEW p \in Procs, OpenReturn(p) PROVE RootInv'
    BY <1>5 DEF OpenReturn
<1>6. ASSUME NEW p \in Procs, begin(p) PROVE RootInv'
    BY <1>6 DEF begin
<1>7. ASSUME NEW p \in Procs, beginClosed(p) PROVE RootInv'
    BY <1>7 DEF beginClosed
<1>8. ASSUME NEW p \in Procs, end(p) PROVE RootInv'
    BY <1>8 DEF end, Broadcast
<1>9. ASSUME NEW p \in Procs, StoreDone(p) PROVE RootInv'
    BY <1>9 DEF StoreDone
<1>10. ASSUME NEW p \in Procs, Notify(p) PROVE RootInv'
    BY <1>10 DEF Notify
<1>11. ASSUME NEW p \in Procs, CompleteLock(p) PROVE RootInv'
    BY <1>11 DEF CompleteLock
<1>12. ASSUME NEW p \in Procs, CompleteDone(p) PROVE RootInv'
    BY <1>12 DEF CompleteDone
<1>13. ASSUME NEW p \in Procs, ReadLoop(p) PROVE RootInv'
    BY <1>13 DEF ReadLoop
<1>14. ASSUME NEW p \in Procs, ScanDone(p) PROVE RootInv'
    BY <1>14 DEF ScanDone
<1>15. ASSUME NEW p \in Procs, ReadWake(p) PROVE RootInv'
    BY <1>15 DEF ReadWake
<1>16. ASSUME NEW p \in Procs, ReadTimeout(p) PROVE RootInv'
    BY <1>16 DEF ReadTimeout
<1>17. ASSUME NEW p \in Procs, lcLock(p) PROVE RootInv'
    BY <1>17 DEF lcLock
<1>18. ASSUME NEW p \in Procs, lcDispatcher(p) PROVE RootInv'
    BY <1>18 DEF lcDispatcher
<1>19. ASSUME NEW p \in Procs, lcPark(p) PROVE RootInv'
    BY <1>19 DEF lcPark
<1>20. ASSUME NEW p \in Procs, lcRelock(p) PROVE RootInv'
    BY <1>20 DEF lcRelock
<1>21. ASSUME NEW p \in Procs, lcReturn(p) PROVE RootInv'
    BY <1>21 DEF lcReturn
<1>22. ASSUME NEW p \in Procs, CloseFirst(p) PROVE RootInv'
    BY <1>22 DEF CloseFirst
<1>23. ASSUME NEW p \in Procs, CloseAgain(p) PROVE RootInv'
    BY <1>23 DEF CloseAgain
<1>24. ASSUME NEW p \in Procs, CloseAwait(p) PROVE RootInv'
    BY <1>24 DEF CloseAwait
<1>25. ASSUME NEW p \in Procs, CloseCancel(p) PROVE RootInv'
    BY <1>25 DEF CloseCancel
<1>26. ASSUME NEW p \in Procs, CloseJoin(p) PROVE RootInv'
    BY <1>26 DEF CloseJoin
<1>27. ASSUME NEW p \in Procs, NEW n \in Names, CloseLog(p, n) PROVE RootInv'
    BY <1>27 DEF CloseLog
<1>28. ASSUME NEW p \in Procs, CloseRoot(p) PROVE RootInv'
    BY <1>28 DEF CloseRoot
<1>29. ASSUME NEW p \in Procs, CloseRootDone(p) PROVE RootInv'
    BY <1>29 DEF CloseRootDone
<1>30. ASSUME NEW p \in Procs, CloseFinish(p) PROVE RootInv'
    BY <1>30 DEF CloseFinish
<1>31. ASSUME WorkerTick PROVE RootInv'
    BY <1>31 DEF WorkerTick
<1>32. ASSUME WorkerStop PROVE RootInv'
    BY <1>32 DEF WorkerStop
<1>33. ASSUME NEW g \in Goroutines, GcCheck(g) PROVE RootInv'
    BY <1>33 DEF GcCheck, Stopped
<1>34. ASSUME NEW g \in Goroutines, GcLock(g) PROVE RootInv'
    BY <1>34 DEF GcLock
<1>35. ASSUME NEW g \in Goroutines, GcRecheck(g) PROVE RootInv'
    BY <1>35 DEF GcRecheck, Stopped
<1>36. ASSUME NEW g \in Goroutines, GcEnd(g) PROVE RootInv'
    BY <1>36 DEF GcEnd, Passed
<1>37. ASSUME NEW g \in Goroutines, GcPanic(g) PROVE RootInv'
    BY <1>37 DEF GcPanic, Passed
<1>38. CASE UNCHANGED vars
    BY <1>38 DEF vars
<1> HIDE DEF Goto, Move, factory, flags, log, queue, local, history, TypeOK,
         LockInv, CloserInv, RootInv, CloserPlaces, LogClosePlaces, Ended
<1>39. QED
    BY <1>1, <1>2, <1>3, <1>4, <1>5, <1>6, <1>7, <1>8, <1>9, <1>10, <1>11,
    <1>12, <1>13, <1>14, <1>15, <1>16, <1>17, <1>18, <1>19, <1>20, <1>21,
    <1>22, <1>23, <1>24, <1>25, <1>26, <1>27, <1>28, <1>29, <1>30, <1>31,
    <1>32, <1>33, <1>34, <1>35, <1>36, <1>37, <1>38 DEF Next, Step, OpenStep,
    CallStep, LogCloseStep, CloseStep, Maintain, Pass, Goroutines

-----------------------------------------------------------------------------
\* A new factory satisfies the invariant.
LEMMA InitInv == Init => IInv
<1> SUFFICES ASSUME Init PROVE IInv
    OBVIOUS
<1> USE GoroutineAssumption DEF Init, Goroutines
<1>1. TypeOK
    BY DEF TypeOK, ProcPlaces, WorkerPlaces
<1>2. \A n \in Names : Inside(n) = {}
    BY DEF Inside, CallPlaces
<1>3. CountInv
    BY <1>2, FS_EmptySet, Zenon DEF CountInv
<1>4. LockInv
    BY DEF LockInv
<1>5. LogInv
    BY DEF LogInv, CallPlaces, LogClosePlaces
<1>6. CloserInv
    BY DEF CloserInv, CloserPlaces, Ended
<1>7. RootInv
    BY DEF RootInv
<1>8. QED
    BY <1>1, <1>3, <1>4, <1>5, <1>6, <1>7 DEF IInv

\* The invariant holds in every reachable state: the locks are held at the
\* places that hold them, active counts the calls, a closed log stays closed,
\* one goroutine closes the factory and the storage is closed last.
THEOREM Invariant == Spec => []IInv
<1>1. IInv /\ [Next]_vars => IInv'
    BY TypeStep, LockStep, CountStep, LogStep, CloserStep, RootStep DEF IInv
<1>2. QED
    BY InitInv, <1>1, PTL DEF Spec

\* The state of factory and logs keeps its type; active never drops below zero.
THEOREM TypeCorrect == Spec => []TypeOK
<1>1. IInv => TypeOK
    BY DEF IInv
<1>2. QED
    BY Invariant, <1>1, PTL

\* factory.Close closes the storage only when nobody is inside it, for any
\* number of goroutines, logs, callers of Close and of RunMaintenance.
THEOREM StorageSafe == Spec => []StorageOpenWhileUsed
<1>1. IInv => StorageOpenWhileUsed
  <2> SUFFICES ASSUME IInv, NEW g \in Goroutines, pc[g] \in UsesStorage, root # "open"
               PROVE  FALSE
    BY DEF StorageOpenWhileUsed
  <2> USE DEF IInv, RootInv
  <2>1. closed /\ mu = Nobody /\ logs \subseteq quiet
    BY DEF CloserInv
  <2>2. g \in Procs /\ pc[g] \in {"open", "store", "persist", "scan"}
    BY DEF TypeOK, Goroutines, UsesStorage, WorkerPlaces, MaintenancePlaces
  <2>3. pc[g] # "open"
    BY <2>1, <2>2, GoroutineAssumption DEF LockInv
  <2>4. pc[g] \in CallPlaces
    BY <2>2, <2>3 DEF CallPlaces
  <2>5. active[arg[g]] # 0
    BY <2>2, <2>4, Counted
  <2>6. QED
    BY <2>1, <2>2, <2>4, <2>5 DEF LogInv
<1>2. QED
    BY Invariant, <1>1, PTL

\* A log whose close has returned is quiet for good: begin lets nobody in.
THEOREM ClosedLogStaysClosed == Spec => []QuietForGood
<1>1. IInv => QuietForGood
  <2> SUFFICES ASSUME IInv PROVE QuietForGood
    OBVIOUS
  <2>1. \A p \in Procs : pc[p] \in CallPlaces => active[arg[p]] # 0
    BY Counted DEF IInv
  <2>2. QED
    BY <2>1 DEF IInv, LogInv, QuietForGood
<1>2. QED
    BY Invariant, <1>1, PTL

\* When a call of factory.Close has returned, everything is closed, and every
\* call returns the same result.
THEOREM CloseComplete == Spec => []CloseIsComplete
<1>1. IInv => CloseIsComplete
  <2> SUFFICES ASSUME IInv, results # {}
               PROVE  /\ logs \subseteq quiet /\ root = "closed" /\ mu = Nobody
                      /\ pc[Worker] \in {"none", "done"}
                      /\ Cardinality(results) = 1
    BY DEF CloseIsComplete
  <2>1. results = {closeErr}
    BY DEF IInv, RootInv
  <2>2. Cardinality(results) = 1
    BY <2>1, FS_Singleton, Zenon
  <2>3. QED
    BY <2>2 DEF IInv, RootInv, CloserInv, Ended
<1>2. QED
    BY Invariant, <1>1, PTL

\* The maintenance worker ends only after Close has begun, whatever its passes do.
THEOREM WorkerOutlivesPasses == Spec => []WorkerEndsOnClose
<1>1. IInv => WorkerEndsOnClose
    BY DEF IInv, CloserInv, WorkerEndsOnClose
<1>2. QED
    BY Invariant, <1>1, PTL

=============================================================================
