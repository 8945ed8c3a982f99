------------------------------- MODULE Stream -------------------------------
(***************************************************************************)
(* One log of the program: the methods of logStream (log.go) over the      *)
(* store and the dispatcher, across restarts.                              *)
(*                                                                         *)
(* Store and Dispatcher are composed by what they share.  The records the  *)
(* dispatcher schedules are the keys of the store's directory; a writer's  *)
(* transaction and its Notify are two steps; a completion is one step of   *)
(* both, because the dispatcher holds its mutex while it persists.  The    *)
(* directory survives the end of the process, the dispatcher does not: it  *)
(* begins again, empty, and scans the directory from its start.            *)
(***************************************************************************)
EXTENDS Integers, Sequences, FiniteSets, Functions

CONSTANTS
    Callers, NoCaller, Payloads, Times,                     \* see Store
    Readers, NoReader, Receipts, MaxAttempt, PrefetchCapacity, MaxInFlight,
    VisibilityTimeout, RetryDelay(_), Counts, Extensions, Cancellable,
    Faults, MaxLease,                                       \* see Dispatcher
    MaxSeq, MaxBatch,                                       \* of both
    MaxHandles          \* bound: how often the log is opened

ASSUME StoreAssumption ==
    MaxSeq \in Nat \ {0} /\ MaxBatch \in Nat \ {0} /\ NoCaller \notin Callers
ASSUME DispatcherAssumption ==
    /\ PrefetchCapacity \in Nat \ {0} /\ MaxInFlight \in Nat \ {0}
    /\ VisibilityTimeout \in Nat \ {0} /\ MaxAttempt \in Nat \ {0}
    /\ \A a \in 1..MaxAttempt : RetryDelay(a) \in Nat
    /\ Counts \subseteq Nat \ {0} /\ Extensions \subseteq Nat \ {0}
    /\ Faults \subseteq {"receipt", "scan", "persist"}
    /\ Cancellable \subseteq Readers /\ NoReader \notin Readers
    /\ MaxLease \in Nat /\ VisibilityTimeout <= MaxLease

VARIABLES
    \* Store
    schema, tailKey, pending, dead, open, loadErr, tail, mu, pc, call,
    written, acked, done,
    \* Dispatcher; its mutex and the readers' places have names of their own
    closed, cursor, scanDone, scanEmpty, fresh, retries, inFlight, states,
    preferRetry, signal, expireAt, dmu, scanMu, limit, selected,
    originalPreference, scan, rpc, count, ctxDone, wakeAt, filling,
    \* the log: the handle in use, and the callers whose records are stored
    \* and who have yet to call Notify
    handle, notifying,
    \* history: the deliveries handed to callers, and those that completed
    handed, completed

storeVars == <<schema, tailKey, pending, dead, open, loadErr, tail, mu, pc, call,
               written, acked, done>>
dispatchVars == <<closed, cursor, scanDone, scanEmpty, fresh, retries, inFlight, states,
                  preferRetry, signal, expireAt, dmu, scanMu, limit, selected,
                  originalPreference, scan, rpc, count, ctxDone, wakeAt, filling>>
logVars == <<handle, notifying, handed, completed>>
vars == <<storeVars, dispatchVars, logVars>>

\* A caller's delivery: wrap adds the payload, and the handle as the owner.
wrap(d) == [payload |-> pending[d.seq].payload, owner |-> handle,
            seq |-> d.seq, attempt |-> d.attempt, receipt |-> d.receipt]
Inner(h) == [seq |-> h.seq, attempt |-> h.attempt, receipt |-> h.receipt]
Issued == {Inner(h) : h \in {x \in handed : x.owner = handle}}

S == INSTANCE Store
D == INSTANCE Dispatcher WITH
       pending <- DOMAIN pending, tail <- tailKey,
       unnotified <- Cardinality({c \in Callers : pc[c] = "written" \/ notifying[c]}),
       mu <- dmu, pc <- rpc, issued <- Issued, AppendBound <- MaxSeq

Init ==
    /\ S!Init
    /\ handle = 1 /\ notifying = [c \in Callers |-> FALSE]
    /\ handed = {} /\ completed = {}
    /\ D!Init

\* factory.Open, for the first time in this process.
Open == S!Load /\ UNCHANGED <<dispatchVars, logVars>>

\* begin: the log is open and nobody has closed it.
begin == open /\ ~closed

(***************************************************************************)
(* Write and BatchWrite, and Requeue: the store's call, then Notify.       *)
(***************************************************************************)
Write(c, batch, now) ==
    /\ begin /\ ~notifying[c] /\ S!AppendLock(c, batch, now)
    /\ UNCHANGED <<dispatchVars, logVars>>

Requeue(c, s) ==
    /\ begin /\ ~notifying[c] /\ S!RequeueLock(c, s)
    /\ UNCHANGED <<dispatchVars, logVars>>

StoreStep(c) ==
    /\ S!AppendTxn(c) \/ S!RequeueTxn(c) \/ S!TxnFail(c)
    /\ UNCHANGED <<dispatchVars, logVars>>

StoreReturnQuiet(c) ==              \* mutant: Notify is forgotten
    S!Return(c) /\ UNCHANGED <<dispatchVars, logVars>>
StoreReturn(c) ==
    /\ S!Return(c)
    /\ notifying' = [notifying EXCEPT ![c] = TRUE]
    /\ UNCHANGED <<dispatchVars, handle, handed, completed>>

Notify(c) ==
    /\ notifying[c]
    /\ notifying' = [notifying EXCEPT ![c] = FALSE]
    /\ UNCHANGED <<storeVars, handle, handed, completed>>
    /\ D!Notify

(***************************************************************************)
(* Read.                                                                   *)
(***************************************************************************)
StartRead(r, n) ==
    begin /\ UNCHANGED <<storeVars, logVars>> /\ D!StartRead(r, n)

\* The dispatcher's Read goes on; the step that returns hands out what it took.
ReadStep(r) ==
    /\ handed' \in {handed, handed \cup {wrap(selected[i]) : i \in DOMAIN selected}}
    /\ UNCHANGED <<storeVars, handle, notifying, completed>>
    /\ D!ReadStep(r)

Cancel(r) == UNCHANGED <<storeVars, logVars>> /\ D!Cancel(r)

(***************************************************************************)
(* Commit, DeadLetter, Retry and Extend, on deliveries of this or of an    *)
(* earlier handle.                                                         *)
(***************************************************************************)
unwrapAny(h) == TRUE                \* mutant: the owner is not tested
unwrap(h) == h.owner = handle
Calls ==
    {H \in SUBSET handed : Cardinality(H) \in 1..MaxBatch /\ \A h \in H : unwrap(h)}

\* The lease of delivery h: deliveries that differ in the receipt alone are one.
Lease(h) == [payload |-> h.payload, position |-> h.seq, owner |-> h.owner,
             attempt |-> h.attempt]

Commit(H) ==
    /\ begin /\ S!Commit({h.seq : h \in H})
    /\ completed' = completed \cup {Lease(h) : h \in H}
    /\ UNCHANGED <<handle, notifying, handed>>
    /\ D!Commit({Inner(h) : h \in H})

DeadLetter(h) ==
    /\ begin /\ S!DeadLetter(h.seq)
    /\ completed' = completed \cup {Lease(h)}
    /\ UNCHANGED <<handle, notifying, handed>>
    /\ D!DeadLetter(Inner(h))

Reschedule(H) ==
    /\ begin /\ UNCHANGED <<storeVars, logVars>>
    /\ LET I == {Inner(h) : h \in H} IN
         D!Retry(I) \/ D!Reject(I) \/ \E e \in Extensions : D!Extend(I, e)

(***************************************************************************)
(* Stats, the clock, Close, and the end of the process.                    *)
(***************************************************************************)
Stats == begin /\ UNCHANGED <<storeVars, logVars>> /\ D!Snapshot

Tick == open /\ UNCHANGED <<storeVars, logVars>> /\ D!Tick

Close == begin /\ UNCHANGED <<storeVars, logVars>> /\ D!Close

\* Where the first scan begins.
FirstScanAtTail == IF tailKey = 0 THEN 1 ELSE tailKey   \* mutant: at the tail
FirstScan == 1

\* dispatch.New: nothing of the earlier dispatcher is left.
DispatcherNew ==
    /\ closed' = FALSE /\ cursor' = FirstScan /\ scanDone' = FALSE /\ scanEmpty' = FALSE
    /\ fresh' = <<>> /\ retries' = {} /\ inFlight' = D!NoFlights
    /\ states' = [s \in D!Seqs |-> "untracked"]
    /\ preferRetry' = FALSE /\ signal' = FALSE /\ expireAt' = 0
    /\ dmu' = NoReader /\ scanMu' = NoReader
    /\ limit' = 0 /\ selected' = <<>> /\ originalPreference' = FALSE
    /\ scan' = D!NoScan
    /\ rpc' = [r \in Readers |-> "idle"] /\ count' = [r \in Readers |-> 0]
    /\ ctxDone' = [r \in Readers |-> FALSE] /\ wakeAt' = [r \in Readers |-> D!NoWake]
    /\ filling' = [r \in Readers |-> "loop"]

\* The process ends, or the factory is closed and the deliveries it handed out
\* stay with their holders; the next Open makes a new handle.
Restart ==
    /\ handle < MaxHandles /\ S!Crash
    /\ DispatcherNew
    /\ handle' = handle + 1 /\ notifying' = [c \in Callers |-> FALSE]
    /\ UNCHANGED <<handed, completed>>

-----------------------------------------------------------------------------
Next ==
    \/ Open \/ Restart \/ Close \/ Stats \/ Tick
    \/ \E c \in Callers :
         \/ \E batch \in S!Batches, now \in Times : Write(c, batch, now)
         \/ \E s \in S!Seqs : Requeue(c, s)
         \/ StoreStep(c) \/ StoreReturn(c) \/ Notify(c)
    \/ \E r \in Readers :
         ReadStep(r) \/ Cancel(r) \/ \E n \in Counts : StartRead(r, n)
    \/ \E H \in Calls : Commit(H) \/ Reschedule(H)
    \/ \E h \in handed : unwrap(h) /\ DeadLetter(h)

Spec == Init /\ [][Next]_vars

-----------------------------------------------------------------------------
(***************************************************************************)
(* Fairness: the log is opened again, calls go on, a goroutine waiting for *)
(* a mutex gets it, time passes, and readers read again.  Nobody is        *)
(* obliged to write or to complete anything, or to close the log.          *)
(***************************************************************************)
Fairness ==
    /\ WF_vars(Open) /\ SF_vars(Tick)
    /\ \A c \in Callers :
         WF_vars(StoreStep(c) \/ StoreReturn(c)) /\ SF_vars(Notify(c))
    /\ \A r \in Readers :
         SF_vars(ReadStep(r)) /\ WF_vars(\E n \in Counts : StartRead(r, n))

FairSpec == Spec /\ Fairness

-----------------------------------------------------------------------------
LiveLeases ==
    {Lease(h) : h \in {x \in handed : x.owner = handle /\ D!Holds(Inner(x))}}

P == INSTANCE AtLeastOnce WITH
       LastAttempt <- MaxAttempt, queued <- S!PayloadsOf(pending),
       buried <- S!PayloadsOf(dead), live <- LiveLeases,
       given <- {Lease(h) : h \in handed}, winners <- completed

\* The log keeps its promise across restarts: no record is lost or delivered
\* once it is completed, a record is leased to one reader at a time, and only
\* the delivery that holds the lease, of this handle, completes it.
KeepsPromise == P!PSpec

\* Store and log are the environment the dispatcher is verified in: whatever
\* writers, completions and restarts do, the dispatcher sees records appended
\* at the tail and announced afterwards, or begins anew.
SoundEnvironment ==
    [][D!Next \/ (handle' # handle /\ D!Init')]_(D!vars)

\* A record whose writer was told it is safe reaches a reader, in spite of
\* restarts, expired leases and failing transactions, as long as readers read.
AckedIsDelivered ==
    \A p \in Payloads : p \in acked ~> (closed \/ \E h \in handed : h.payload = p)
=============================================================================
