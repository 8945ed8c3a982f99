----------------------------- MODULE Lifecycle -----------------------------
(***************************************************************************)
(* Opening, using and closing a factory and its logs (factory.go, log.go). *)
(*                                                                         *)
(* Goroutines call Open, Close and RunMaintenance of one factory and the   *)
(* methods of its logs; one more goroutine is the maintenance worker.      *)
(* They share the factory lock mu, the garbage-collection lock gcMu, and   *)
(* for each log the lock lifeMu with its condition variable and the        *)
(* dispatcher's lock.  A goroutine's pc says what it does or waits for     *)
(* next; a critical section without storage access is one step.            *)
(* What a log call does inside its dispatcher is Dispatcher's subject;     *)
(* here it matters which locks it takes and when it touches the storage.   *)
(***************************************************************************)
EXTENDS Naturals, FiniteSets

CONSTANTS
    Names,      \* names of logs
    Procs,      \* goroutines of the program that uses the factory
    Worker,     \* the goroutine of maintenanceLoop
    Roles,      \* which calls each of them makes; "read" for Read
    Nobody      \* no goroutine

\* The calls of a program, by the place where each begins.
FactoryCalls == {"openLock", "close", "gcCheck"}
LogCalls == {"begin", "lcLock"}
Calls == FactoryCalls \cup LogCalls \cup {"read"}

ASSUME GoroutineAssumption ==
    /\ IsFiniteSet(Procs) /\ Roles \in [Procs -> SUBSET Calls]
    /\ Worker \notin Procs /\ Nobody \notin Procs \cup {Worker}

VARIABLES
    \* the factory; cancelled: maintenanceCancel has been called
    closed, closeDone, closeErr, logs, mu, gcMu, cancelled,
    \* the Root and its database
    root,
    \* each log: closing, active, its lock, and its dispatcher's closed flag,
    \* signal channel and lock
    closing, active, lifeMu, shut, signal, dmu,
    \* each goroutine's place, the log its call is on, the goroutine that is
    \* inside the closing branch of factory.Close and the logs it has yet to close
    pc, arg, closer, todo,
    \* history: logs a close of which has returned, what Close has returned
    quiet, results

flags   == <<closed, closeDone, closeErr, cancelled>>
factory == <<flags, logs, mu, gcMu, root>>
queue   == <<shut, signal, dmu>>
log     == <<closing, active, lifeMu, queue>>
local   == <<arg, closer, todo>>
history == <<quiet, results>>
vars == <<factory, log, pc, local, history>>

Goroutines == Procs \cup {Worker}

\* Places of a goroutine, by what it is inside of.
CallPlaces  == {"store", "notify", "complete", "persist", "read", "scan", "blocked", "end"}
ClosePlaces == {"close", "cancel", "join", "closeLogs", "closeRoot", "finish", "await"}
LogClosePlaces == {"lcLock", "lcDispatcher", "lcWait", "lcParked", "lcWoken"}
MaintenancePlaces == {"gcCheck", "gcLock", "gcRecheck", "gcRun"}
ProcPlaces  == {"idle", "openLock", "open", "begin"} \cup CallPlaces
                 \cup ClosePlaces \cup LogClosePlaces \cup MaintenancePlaces
WorkerPlaces == {"none", "select", "done"} \cup MaintenancePlaces

TypeOK ==
    /\ closed \in BOOLEAN /\ closeDone \in BOOLEAN /\ cancelled \in BOOLEAN
    /\ closeErr \in {"nil", "storage"} /\ results \subseteq {"nil", "storage"}
    /\ logs \subseteq Names /\ todo \subseteq Names /\ quiet \subseteq Names
    /\ mu \in Procs \cup {Nobody} /\ closer \in Procs \cup {Nobody}
    /\ gcMu \in Goroutines \cup {Nobody}
    /\ root \in {"open", "closing", "closed"}
    /\ closing \in [Names -> BOOLEAN] /\ active \in [Names -> Nat]
    /\ shut \in [Names -> BOOLEAN] /\ signal \in [Names -> BOOLEAN]
    /\ lifeMu \in [Names -> Procs \cup {Nobody}] /\ dmu \in [Names -> Procs \cup {Nobody}]
    /\ pc \in [Goroutines -> ProcPlaces \cup WorkerPlaces] /\ arg \in [Procs -> Names]
    /\ pc[Worker] \in WorkerPlaces /\ \A p \in Procs : pc[p] \in ProcPlaces

\* New; without a maintenance interval there is no worker.
Init ==
    /\ closed = FALSE /\ closeDone = FALSE /\ closeErr = "nil" /\ cancelled = FALSE
    /\ logs = {} /\ mu = Nobody /\ gcMu = Nobody /\ root = "open"
    /\ closing = [n \in Names |-> FALSE] /\ active = [n \in Names |-> 0]
    /\ lifeMu = [n \in Names |-> Nobody] /\ dmu = [n \in Names |-> Nobody]
    /\ shut = [n \in Names |-> FALSE] /\ signal = [n \in Names |-> FALSE]
    /\ \E start \in {"select", "none"} :
         pc = [g \in Goroutines |-> IF g = Worker THEN start ELSE "idle"]
    /\ arg \in [Procs -> Names] /\ \A p, q \in Procs : arg[p] = arg[q]
    /\ closer = Nobody /\ todo = {}
    /\ quiet = {} /\ results = {}

Goto(g, place) == pc' = [pc EXCEPT ![g] = place]

\* A step that only moves g on.
Move(g, from, to) ==
    /\ pc[g] = from /\ Goto(g, to)
    /\ UNCHANGED <<factory, log, local, history>>

(***************************************************************************)
(* A call begins: on the factory, or on a log the factory has returned.    *)
(***************************************************************************)
CallFactory(p, place, n) ==
    /\ pc[p] = "idle" /\ place \in FactoryCalls \cap Roles[p]
    /\ Goto(p, place) /\ arg' = [arg EXCEPT ![p] = n]
    /\ UNCHANGED <<factory, log, closer, todo, history>>

CallLog(p, place, n) ==
    /\ pc[p] = "idle" /\ place \in LogCalls \cap Roles[p] /\ n \in logs
    /\ Goto(p, place) /\ arg' = [arg EXCEPT ![p] = n]
    /\ UNCHANGED <<factory, log, closer, todo, history>>

(***************************************************************************)
(* Open holds mu while the Root loads the stream.                          *)
(***************************************************************************)
\* ErrClosed, or the log opened before, closed or not.
OpenKnown(p) ==
    mu = Nobody /\ (closed \/ arg[p] \in logs) /\ Move(p, "openLock", "idle")

OpenLockAnyway(p) ==                \* mutant: closed is not tested
    /\ pc[p] = "openLock" /\ mu = Nobody /\ arg[p] \notin logs
    /\ mu' = p /\ Goto(p, "open")
    /\ UNCHANGED <<flags, logs, gcMu, root, log, local, history>>
OpenLockBehind(p) ==                \* mutant: waits for a pass to end
    /\ pc[p] = "openLock" /\ mu = Nobody /\ gcMu = Nobody /\ ~closed /\ arg[p] \notin logs
    /\ mu' = p /\ Goto(p, "open")
    /\ UNCHANGED <<flags, logs, gcMu, root, log, local, history>>
OpenLock(p) ==
    /\ pc[p] = "openLock" /\ mu = Nobody /\ ~closed /\ arg[p] \notin logs
    /\ mu' = p /\ Goto(p, "open")
    /\ UNCHANGED <<flags, logs, gcMu, root, log, local, history>>

\* The Root returns the stream, or an error and nothing is kept.
OpenReturn(p) ==
    /\ pc[p] = "open"
    /\ logs' \in {logs, logs \cup {arg[p]}}
    /\ mu' = Nobody /\ Goto(p, "idle")
    /\ UNCHANGED <<flags, gcMu, root, log, local, history>>

(***************************************************************************)
(* The methods of a log, between begin and end.                            *)
(***************************************************************************)
BeginUnchecked(p) ==                \* mutant: closing is not tested
    LET n == arg[p] IN
    /\ pc[p] = "begin" /\ lifeMu[n] = Nobody
    /\ active' = [active EXCEPT ![n] = @ + 1]
    /\ \E place \in {"store", "complete"} \cup (Roles[p] \cap {"read"}) :
         Goto(p, place)
    /\ UNCHANGED <<factory, queue, closing, lifeMu, local, history>>
BeginUncounted(p) ==                \* mutant: active is not counted up
    /\ lifeMu[arg[p]] = Nobody /\ ~closing[arg[p]]
    /\ \E place \in {"store", "complete"} : Move(p, "begin", place)
begin(p) ==
    LET n == arg[p] IN
    /\ pc[p] = "begin" /\ lifeMu[n] = Nobody /\ ~closing[n]
    /\ active' = [active EXCEPT ![n] = @ + 1]
    /\ \E place \in {"store", "complete"} \cup (Roles[p] \cap {"read"}) :
         Goto(p, place)
    /\ UNCHANGED <<factory, queue, closing, lifeMu, local, history>>

beginClosed(p) ==
    lifeMu[arg[p]] = Nobody /\ closing[arg[p]] /\ Move(p, "begin", "idle")

\* Wakes every goroutine that waits on the condition variable of log n.
Broadcast(n, p) ==
    pc' = [g \in Goroutines |->
             IF g = p THEN "idle"
             ELSE IF g \in Procs /\ pc[g] = "lcParked" /\ arg[g] = n THEN "lcWoken" ELSE pc[g]]

endSignal(p) ==                     \* mutant: Signal instead of Broadcast
    LET n == arg[p]
        waiting == {q \in Procs : pc[q] = "lcParked" /\ arg[q] = n} IN
    /\ pc[p] = "end" /\ lifeMu[n] = Nobody
    /\ active' = [active EXCEPT ![n] = @ - 1]
    /\ IF active[n] = 1 /\ waiting # {}
       THEN \E q \in waiting : pc' = [pc EXCEPT ![p] = "idle", ![q] = "lcWoken"]
       ELSE Goto(p, "idle")
    /\ UNCHANGED <<factory, queue, closing, lifeMu, local, history>>
end(p) ==
    LET n == arg[p] IN
    /\ pc[p] = "end" /\ lifeMu[n] = Nobody
    /\ active' = [active EXCEPT ![n] = @ - 1]
    /\ IF active[n] = 1 THEN Broadcast(n, p) ELSE Goto(p, "idle")
    /\ UNCHANGED <<factory, queue, closing, lifeMu, local, history>>

\* Write, BatchWrite, Requeue, DeadLetters and Stats: the transaction, and
\* then Notify, or Snapshot, which sends nothing, or neither.
StoreDone(p) == \E place \in {"notify", "end"} : Move(p, "store", place)

Notify(p) ==
    /\ pc[p] = "notify" /\ dmu[arg[p]] = Nobody
    /\ \E sent \in BOOLEAN : signal' = [signal EXCEPT ![arg[p]] = @ \/ sent]
    /\ Goto(p, "end")
    /\ UNCHANGED <<factory, closing, active, lifeMu, shut, dmu, local, history>>

\* Commit and DeadLetter persist while they hold the dispatcher's lock.
CompleteLock(p) ==
    /\ pc[p] = "complete" /\ dmu[arg[p]] = Nobody
    /\ \/ /\ shut[arg[p]]
          /\ Goto(p, "end") /\ UNCHANGED dmu
       \/ /\ ~shut[arg[p]]
          /\ Goto(p, "persist") /\ dmu' = [dmu EXCEPT ![arg[p]] = p]
    /\ UNCHANGED <<factory, closing, active, lifeMu, shut, signal, local, history>>

\* An error leaves the signal alone.
CompleteDone(p) ==
    /\ pc[p] = "persist"
    /\ dmu' = [dmu EXCEPT ![arg[p]] = Nobody]
    /\ \E sent \in BOOLEAN : signal' = [signal EXCEPT ![arg[p]] = @ \/ sent]
    /\ Goto(p, "end")
    /\ UNCHANGED <<factory, closing, active, lifeMu, shut, local, history>>

\* Read returns if the dispatcher is closed or it has leased something, and
\* otherwise scans the storage and blocks.
ReadLoop(p) ==
    /\ dmu[arg[p]] = Nobody
    /\ \E place \in {"end", "scan"} :
         (place = "scan" => ~shut[arg[p]]) /\ Move(p, "read", place)

ScanDone(p) == \E place \in {"read", "blocked", "end"} : Move(p, "scan", place)

ReadWake(p) ==
    /\ pc[p] = "blocked" /\ signal[arg[p]]
    /\ signal' = [signal EXCEPT ![arg[p]] = FALSE]
    /\ Goto(p, "read")
    /\ UNCHANGED <<factory, closing, active, lifeMu, shut, dmu, local, history>>

\* Its timer fires, or its context ends.
ReadTimeout(p) == \E place \in {"read", "end"} : Move(p, "blocked", place)

(***************************************************************************)
(* close of a log, called by Log.Close and by factory.Close.               *)
(***************************************************************************)
lcLock(p) ==
    LET n == arg[p] IN
    /\ pc[p] = "lcLock" /\ lifeMu[n] = Nobody
    /\ lifeMu' = [lifeMu EXCEPT ![n] = p]
    /\ closing' = [closing EXCEPT ![n] = TRUE]
    /\ Goto(p, IF closing[n] THEN "lcWait" ELSE "lcDispatcher")
    /\ UNCHANGED <<factory, queue, active, local, history>>

\* dispatcher.Close, with lifeMu held.
lcDispatcher(p) ==
    LET n == arg[p] IN
    /\ pc[p] = "lcDispatcher" /\ dmu[n] = Nobody
    /\ shut' = [shut EXCEPT ![n] = TRUE]
    /\ signal' = [signal EXCEPT ![n] = @ \/ ~shut[n]]
    /\ Goto(p, "lcWait")
    /\ UNCHANGED <<factory, closing, active, lifeMu, dmu, local, history>>

\* life.Wait releases lifeMu and takes it again once it is woken.
lcPark(p) ==
    LET n == arg[p] IN
    /\ pc[p] = "lcWait" /\ active[n] > 0
    /\ lifeMu' = [lifeMu EXCEPT ![n] = Nobody]
    /\ Goto(p, "lcParked")
    /\ UNCHANGED <<factory, queue, closing, active, local, history>>

lcRelock(p) ==
    LET n == arg[p] IN
    /\ pc[p] = "lcWoken" /\ lifeMu[n] = Nobody
    /\ lifeMu' = [lifeMu EXCEPT ![n] = p]
    /\ Goto(p, "lcWait")
    /\ UNCHANGED <<factory, queue, closing, active, local, history>>

lcReturn(p) ==
    LET n == arg[p] IN
    /\ pc[p] = "lcWait" /\ active[n] = 0
    /\ lifeMu' = [lifeMu EXCEPT ![n] = Nobody]
    /\ quiet' = quiet \cup {n}
    /\ Goto(p, IF p = closer THEN "closeLogs" ELSE "idle")
    /\ UNCHANGED <<factory, queue, closing, active, local, results>>

(***************************************************************************)
(* factory.Close.  The first call does the work, outside mu; later calls   *)
(* wait for it.                                                            *)
(***************************************************************************)
CloseFirst(p) ==
    /\ pc[p] = "close" /\ mu = Nobody /\ ~closed
    /\ closed' = TRUE /\ closer' = p /\ todo' = logs
    /\ Goto(p, "cancel")
    /\ UNCHANGED <<logs, mu, gcMu, root, closeDone, closeErr, cancelled, log, arg,
                   history>>

CloseAgain(p) == mu = Nobody /\ closed /\ Move(p, "close", "await")

CloseAwait(p) ==
    /\ pc[p] = "await" /\ closeDone
    /\ results' = results \cup {closeErr}
    /\ Goto(p, "idle")
    /\ UNCHANGED <<factory, log, local, quiet>>

CloseCancel(p) ==
    /\ pc[p] = "cancel"
    /\ cancelled' = TRUE
    /\ Goto(p, "join")
    /\ UNCHANGED <<logs, mu, gcMu, root, closed, closeDone, closeErr, log, local,
                   history>>

\* maintenanceDone is closed from the start if there is no worker.
CloseJoin(p) == pc[Worker] \in {"none", "done"} /\ Move(p, "join", "closeLogs")

CloseLog(p, n) ==
    /\ pc[p] = "closeLogs" /\ n \in todo
    /\ todo' = todo \ {n}
    /\ arg' = [arg EXCEPT ![p] = n]
    /\ Goto(p, "lcLock")
    /\ UNCHANGED <<factory, log, closer, history>>

CloseRoot(p) ==
    /\ pc[p] = "closeLogs" /\ todo = {} /\ gcMu = Nobody
    /\ gcMu' = p /\ root' = "closing"
    /\ Goto(p, "closeRoot")
    /\ UNCHANGED <<flags, logs, mu, log, local, history>>

CloseRootDone(p) ==
    /\ pc[p] = "closeRoot"
    /\ gcMu' = Nobody /\ root' = "closed"
    /\ Goto(p, "finish")
    /\ UNCHANGED <<flags, logs, mu, log, local, history>>

CloseFinish(p) ==
    /\ pc[p] = "finish" /\ mu = Nobody
    /\ closeDone' = TRUE /\ closeErr' \in {"nil", "storage"}
    /\ results' = results \cup {closeErr'}
    /\ closer' = Nobody /\ Goto(p, "idle")
    /\ UNCHANGED <<logs, mu, gcMu, root, closed, cancelled, log, arg, todo, quiet>>

(***************************************************************************)
(* RunMaintenance, by a caller or by the worker, and the worker's loop.    *)
(***************************************************************************)
\* Where RunMaintenance returns to; the worker ends on ErrClosed and on a
\* cancelled context, and on nothing else.
Stopped(g) == IF g = Worker THEN "done" ELSE "idle"
Passed(g)  == IF g = Worker THEN "select" ELSE "idle"

WorkerTick == Move(Worker, "select", "gcCheck")
WorkerStop == cancelled /\ Move(Worker, "select", "done")

\* The worker's context and then closed are tested; closed is set first.
GcCheck(g) == mu = Nobody /\ Move(g, "gcCheck", IF closed THEN Stopped(g) ELSE "gcLock")

GcLock(g) ==
    /\ pc[g] = "gcLock" /\ gcMu = Nobody
    /\ gcMu' = g /\ Goto(g, "gcRecheck")
    /\ UNCHANGED <<flags, logs, mu, root, log, local, history>>

GcRecheckNot(g) ==                  \* mutant: closed is not tested again
    mu = Nobody /\ Move(g, "gcRecheck", "gcRun")
GcRecheck(g) ==
    /\ pc[g] = "gcRecheck" /\ mu = Nobody
    /\ \/ /\ closed
          /\ gcMu' = Nobody /\ Goto(g, Stopped(g))
       \/ /\ ~closed
          /\ Goto(g, "gcRun") /\ UNCHANGED gcMu
    /\ UNCHANGED <<flags, logs, mu, root, log, local, history>>

\* The pass succeeds, finds nothing to rewrite, or fails.
GcEnd(g) ==
    /\ pc[g] = "gcRun"
    /\ gcMu' = Nobody /\ Goto(g, Passed(g))
    /\ UNCHANGED <<flags, logs, mu, root, log, local, history>>

\* The pass panics: the deferred unlock runs, and the worker recovers.
GcPanicStops(g) ==                  \* mutant: the recovered panic ends the worker
    /\ pc[g] = "gcRun"
    /\ gcMu' = Nobody /\ Goto(g, Stopped(g))
    /\ UNCHANGED <<flags, logs, mu, root, log, local, history>>
GcPanic(g) ==
    /\ pc[g] = "gcRun"
    /\ gcMu' = Nobody /\ Goto(g, Passed(g))
    /\ UNCHANGED <<flags, logs, mu, root, log, local, history>>

-----------------------------------------------------------------------------
OpenStep(p) == OpenKnown(p) \/ OpenLock(p) \/ OpenReturn(p)
CallStep(p) ==
    \/ begin(p) \/ beginClosed(p) \/ end(p)
    \/ StoreDone(p) \/ Notify(p) \/ CompleteLock(p) \/ CompleteDone(p)
    \/ ReadLoop(p) \/ ScanDone(p) \/ ReadWake(p)
LogCloseStep(p) == lcLock(p) \/ lcDispatcher(p) \/ lcPark(p) \/ lcRelock(p) \/ lcReturn(p)
CloseStep(p) ==
    \/ CloseFirst(p) \/ CloseAgain(p) \/ CloseAwait(p) \/ CloseCancel(p) \/ CloseJoin(p)
    \/ \E n \in Names : CloseLog(p, n)
    \/ CloseRoot(p) \/ CloseRootDone(p) \/ CloseFinish(p)
Maintain(g) == GcCheck(g) \/ GcLock(g) \/ GcRecheck(g)
Pass(g) == GcEnd(g) \/ GcPanic(g)

\* The next step of the code a goroutine runs, unless it waits for an event
\* outside the factory: the end of a pass, a timer, a context.
Step(p) ==
    \/ OpenStep(p) \/ CallStep(p) \/ LogCloseStep(p) \/ CloseStep(p) \/ Maintain(p)

Next ==
    \/ \E p \in Procs :
         \/ \E n \in Names, place \in Calls : CallFactory(p, place, n) \/ CallLog(p, place, n)
         \/ Step(p) \/ ReadTimeout(p)
    \/ WorkerTick \/ WorkerStop \/ Maintain(Worker)
    \/ \E g \in Goroutines : Pass(g)

Spec == Init /\ [][Next]_vars

(***************************************************************************)
(* Fairness: code that has begun goes on, and a goroutine waiting for a    *)
(* mutex gets it although others take it again and again.  Nobody is       *)
(* obliged to call anything, a pass need not end, and a blocked Read need  *)
(* not time out.                                                           *)
(***************************************************************************)
Fairness ==
    /\ \A p \in Procs : SF_vars(Step(p))
    /\ SF_vars(Maintain(Worker)) /\ SF_vars(WorkerStop)

FairSpec == Spec /\ Fairness

PassesEnd == \A g \in Goroutines : WF_vars(Pass(g))

-----------------------------------------------------------------------------
UsesStorage == {"open", "store", "persist", "scan", "gcRun"}

\* Nobody is inside the storage once factory.Close has begun to close it: not
\* a log call that began before its log was closed, not an Open that passed
\* its test of closed, not a garbage-collection pass of the worker or of a
\* caller that waited for gcMu while Close went by.
StorageOpenWhileUsed ==
    \A g \in Goroutines : pc[g] \in UsesStorage => root = "open"

\* When a close of a log has returned, whoever called it and whoever else was
\* closing it, no call is inside the log, its dispatcher is closed, and that
\* is so for good: no later call of begin gets in.
QuietForGood ==
    \A n \in quiet :
      /\ closing[n] /\ shut[n] /\ active[n] = 0
      /\ \A p \in Procs : arg[p] = n => pc[p] \notin CallPlaces

\* When any call of factory.Close has returned, every log the factory ever
\* returned is closed, the storage is closed, the worker has ended, and every
\* call of Close returns the same result.
CloseIsComplete ==
    results # {} =>
      /\ logs \subseteq quiet /\ root = "closed" /\ mu = Nobody
      /\ pc[Worker] \in {"none", "done"}
      /\ Cardinality(results) = 1

\* The worker outlives failing and panicking passes: it ends only after Close
\* has begun.
WorkerEndsOnClose == pc[Worker] = "done" => closed

\* Every call of factory.Close and of Log.Close returns, as long as passes end
\* and at most one goroutine at a time is in Read on a log (Close leaves one token
\* for all of them), whatever else is closing, opening, collecting or inside a
\* log; a pass that panics does not keep Close from the storage.
CloseReturns ==
    PassesEnd => \A p \in Procs :
                   pc[p] \in ClosePlaces \cup LogClosePlaces ~> pc[p] = "idle"

\* Open returns although a pass, or a Close waiting for one, never ends.
OpenReturns == \A p \in Procs : pc[p] \in {"openLock", "open"} ~> pc[p] = "idle"

=============================================================================
