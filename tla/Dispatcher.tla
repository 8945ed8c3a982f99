----------------------------- MODULE Dispatcher -----------------------------
(***************************************************************************)
(* The process-local scheduler of one stream (internal/dispatch).          *)
(*                                                                         *)
(* A pending record is untracked, waits in the fresh lane, waits in the    *)
(* retry lane, or is in flight under a lease.  Several goroutines run Read *)
(* at once, each at its own place in Read, fillFresh, takeLocked or wait;  *)
(* all share one mutex (mu), one scan mutex (scanMu) and one wake-up token *)
(* (the signal channel of capacity one).                                   *)
(*                                                                         *)
(* A critical section is one step, except the loops of takeLocked,         *)
(* rollbackSelectionLocked and fillFresh, which take one step an iteration *)
(* while mu stays held.  The clock is read under mu, so holding mu stops   *)
(* it.  Every instant is a number of ticks from now.                       *)
(***************************************************************************)
EXTENDS Integers, Sequences, FiniteSets, Functions, FiniteSetsExt

CONSTANTS
    Readers,            \* goroutines that may call Read
    Receipts,           \* the receipts newReceipt can draw
    MaxSeq,             \* math.MaxUint64
    MaxAttempt,         \* math.MaxUint32
    PrefetchCapacity, MaxInFlight, VisibilityTimeout,   \* Config
    RetryDelay(_),      \* retryDelay, see Backoff
    Counts,             \* the counts passed to Read
    Extensions,         \* the durations passed to Extend
    Cancellable,        \* readers whose context may end
    Faults,             \* which calls may fail: "receipt", "scan", "persist"
    AppendBound,        \* bound: largest sequence appended
    MaxBatch,           \* bound: records of a BatchWrite, deliveries of a call
    MaxLease,           \* bound: ticks an extended lease may have left
    NoReader            \* nobody

ASSUME ConfigAssumption ==
    /\ PrefetchCapacity \in Nat \ {0} /\ MaxInFlight \in Nat \ {0}
    /\ VisibilityTimeout \in Nat \ {0}
ASSUME WidthAssumption ==
    /\ MaxSeq \in Nat \ {0} /\ MaxAttempt \in Nat \ {0}
    /\ \A a \in 1..MaxAttempt : RetryDelay(a) \in Nat
ASSUME InputAssumption ==
    /\ Counts \subseteq Nat \ {0} /\ Extensions \subseteq Nat \ {0}
    /\ Faults \subseteq {"receipt", "scan", "persist"}
    /\ Cancellable \subseteq Readers /\ NoReader \notin Readers
ASSUME BoundAssumption ==
    /\ AppendBound \in 0..MaxSeq /\ MaxBatch \in Nat
    /\ MaxLease \in Nat /\ VisibilityTimeout <= MaxLease

VARIABLES
    \* the durable stream, and the writers between their commit and Notify
    pending, tail, unnotified,
    \* the Dispatcher struct
    closed, cursor, scanDone, scanEmpty, fresh, retries, inFlight, states,
    preferRetry, signal, expireAt, mu, scanMu,
    \* the locals of takeLocked, owned by the holder of mu
    limit, selected, originalPreference,
    \* the locals of fillFresh, owned by the holder of scanMu
    scan,
    \* each reader's place in Read, and its arguments and locals
    pc, count, ctxDone, wakeAt, filling,
    \* the deliveries Read has returned (history)
    issued

storeVars  == <<pending, tail, unnotified>>
laneVars   == <<fresh, retries, inFlight, states, expireAt>>
scanVars   == <<cursor, scanDone, scanEmpty, scan>>
takeVars   == <<limit, selected, originalPreference>>
readerVars == <<pc, count, ctxDone, wakeAt, filling>>
vars == <<storeVars, laneVars, scanVars, takeVars, readerVars,
          closed, preferRetry, signal, mu, scanMu, issued>>

Seqs      == 1..MaxSeq
Attempts  == 1..MaxAttempt
FarFuture == MaxLease + 1
NoWake    == -1
NoFlights == [r \in {} |-> 0]
States    == {"untracked", "fresh", "retry", "inflight"}

Queued  == [seq : Seqs, attempt : Attempts, readyAt : Int]
Flight  == [seq : Seqs, attempt : Attempts, deadline : 0..MaxLease]
Issue   == [seq : Seqs, attempt : Attempts, receipt : Receipts]
\* An item takeLocked selected: its receipt, and the lane to restore it to.
Selection ==
    [seq : Seqs, attempt : Attempts, readyAt : Int, lane : {"fresh", "retry"},
     receipt : Receipts]
\* fillFresh: "none" outside it, "scan" before the snapshot, "scanned" after.
Scan ==
    [phase : {"none", "scan", "scanned", "merge"}, free : Nat,
     records : Seq(Seqs), progress : BOOLEAN]
NoScan == [phase |-> "none", free |-> 0, records |-> <<>>, progress |-> FALSE]

TypeOK ==
    /\ pending \subseteq Seqs /\ tail \in 0..MaxSeq /\ unnotified \in Nat
    /\ closed \in BOOLEAN /\ cursor \in Seqs
    /\ scanDone \in BOOLEAN /\ scanEmpty \in BOOLEAN
    /\ fresh \in Seq(Seqs) /\ retries \subseteq Queued
    /\ DOMAIN inFlight \subseteq Receipts /\ inFlight \in [DOMAIN inFlight -> Flight]
    /\ states \in [Seqs -> States]
    /\ preferRetry \in BOOLEAN /\ signal \in BOOLEAN
    /\ expireAt \in 0..FarFuture
    /\ mu \in Readers \cup {NoReader} /\ scanMu \in Readers \cup {NoReader}
    /\ limit \in Int /\ selected \in Seq(Selection)
    /\ originalPreference \in BOOLEAN
    /\ scan \in Scan
    /\ pc \in [Readers -> {"idle", "loop", "take", "rollback", "fill", "scan",
                           "merge", "wait", "parked"}]
    /\ count \in [Readers -> Nat] /\ ctxDone \in [Readers -> BOOLEAN]
    /\ wakeAt \in [Readers -> Nat \cup {NoWake}]
    /\ filling \in [Readers -> {"loop", "wait"}]
    /\ issued \subseteq Issue

(***************************************************************************)
(* New, over whatever an earlier process left pending.                     *)
(***************************************************************************)
Init ==
    /\ tail \in 0..AppendBound /\ pending \in SUBSET (1..tail) /\ unnotified = 0
    /\ closed = FALSE /\ cursor = 1 /\ scanDone = FALSE /\ scanEmpty = FALSE
    /\ fresh = <<>> /\ retries = {} /\ inFlight = NoFlights
    /\ states = [s \in Seqs |-> "untracked"]
    /\ preferRetry = FALSE /\ signal = FALSE /\ expireAt = 0
    /\ mu = NoReader /\ scanMu = NoReader
    /\ limit = 0 /\ selected = <<>> /\ originalPreference = FALSE
    /\ scan = NoScan
    /\ pc = [r \in Readers |-> "idle"] /\ count = [r \in Readers |-> 0]
    /\ ctxDone = [r \in Readers |-> FALSE]
    /\ wakeAt = [r \in Readers |-> NoWake]
    /\ filling = [r \in Readers |-> "loop"]
    /\ issued = {}

(***************************************************************************)
(* expireLocked: unless the watermark proves that no lease is due, every   *)
(* due lease returns to the retry lane.  The operators below are the       *)
(* Dispatcher's lanes as the sweep leaves them.                            *)
(***************************************************************************)
NextAttemptOverflows(a) == a + 1    \* mutant: no saturation
NextAttemptSame(a) == a             \* mutant: a redelivery keeps its number
nextAttempt(a) == IF a = MaxAttempt THEN a ELSE a + 1

Due == IF expireAt > 0 THEN {}
       ELSE {r \in DOMAIN inFlight : inFlight[r].deadline <= 0}
Live == Restrict(inFlight, DOMAIN inFlight \ Due)
SweptRetries ==
    retries \cup {[seq |-> inFlight[r].seq,
                   attempt |-> nextAttempt(inFlight[r].attempt),
                   readyAt |-> 0] : r \in Due}
SweptStatesStale == states          \* mutant: the sweep forgets states
SweptStates ==
    [s \in Seqs |-> IF \E r \in Due : inFlight[r].seq = s THEN "retry" ELSE states[s]]
EarliestForgets == FarFuture        \* mutant: live leases do not count
Earliest == Min({FarFuture} \cup {Live[r].deadline : r \in DOMAIN Live})
SweptWatermark == IF expireAt > 0 THEN expireAt ELSE Earliest

expireLocked ==
    /\ inFlight' = Live
    /\ retries' = SweptRetries
    /\ states' = SweptStates
    /\ expireAt' = SweptWatermark
    /\ UNCHANGED fresh

(***************************************************************************)
(* The writers.  Write, BatchWrite and Requeue commit records durably and  *)
(* only then call Notify; readers run in between.                          *)
(***************************************************************************)
AppendBatch(n) ==
    /\ tail + n <= AppendBound
    /\ tail' = tail + n
    /\ pending' = pending \cup (tail + 1)..(tail + n)
    /\ unnotified' = unnotified + 1
    /\ UNCHANGED <<laneVars, scanVars, takeVars, readerVars, closed,
                   preferRetry, signal, mu, scanMu, issued>>

\* mutant: the cached "no more records" survives an append
NotifyKeepsFlag ==
    /\ mu = NoReader /\ unnotified > 0
    /\ unnotified' = unnotified - 1
    /\ signal' = TRUE
    /\ UNCHANGED <<pending, tail, laneVars, scanVars, takeVars, readerVars, closed,
                   preferRetry, mu, scanMu, issued>>

Notify ==
    /\ mu = NoReader /\ unnotified > 0
    /\ unnotified' = unnotified - 1
    /\ scanEmpty' = FALSE
    /\ signal' = TRUE
    /\ UNCHANGED <<pending, tail, laneVars, cursor, scanDone, scan, takeVars,
                   readerVars, closed, preferRetry, mu, scanMu, issued>>

(***************************************************************************)
(* Read: the top of its loop.                                              *)
(***************************************************************************)
Goto(r, place) == pc' = [pc EXCEPT ![r] = place]

\* Read returns: its locals are gone.
Return(r) ==
    /\ Goto(r, "idle")
    /\ count' = [count EXCEPT ![r] = 0]
    /\ ctxDone' = [ctxDone EXCEPT ![r] = FALSE]
    /\ wakeAt' = [wakeAt EXCEPT ![r] = NoWake]
    /\ filling' = [filling EXCEPT ![r] = "loop"]

StartRead(r, n) ==
    /\ pc[r] = "idle"
    /\ Goto(r, "loop")
    /\ count' = [count EXCEPT ![r] = n]
    /\ UNCHANGED <<storeVars, laneVars, scanVars, takeVars, ctxDone, wakeAt, filling,
                   closed, preferRetry, signal, mu, scanMu, issued>>

\* The caller's context ends.
Cancel(r) ==
    /\ r \in Cancellable /\ pc[r] # "idle" /\ ~ctxDone[r]
    /\ ctxDone' = [ctxDone EXCEPT ![r] = TRUE]
    /\ UNCHANGED <<storeVars, laneVars, scanVars, takeVars, pc, count, wakeAt,
                   filling, closed, preferRetry, signal, mu, scanMu, issued>>

ReadClosed(r) ==
    /\ pc[r] = "loop" /\ mu = NoReader /\ closed
    /\ Return(r)
    /\ UNCHANGED <<storeVars, laneVars, scanVars, takeVars, closed, preferRetry,
                   signal, mu, scanMu, issued>>

\* Retries alone must not keep later records out: top up the fresh lane first.
TopUpFirst ==
    /\ fresh = <<>> /\ SweptRetries # {}
    /\ Cardinality(DOMAIN Live) < MaxInFlight
    /\ ~scanDone /\ ~scanEmpty

ReadTopUp(r) ==
    /\ pc[r] = "loop" /\ mu = NoReader /\ ~closed /\ TopUpFirst
    /\ expireLocked
    /\ Goto(r, "fill")
    /\ filling' = [filling EXCEPT ![r] = "loop"]
    /\ UNCHANGED <<storeVars, scanVars, takeVars, count, ctxDone, wakeAt,
                   closed, preferRetry, signal, mu, scanMu, issued>>

\* Enter takeLocked.
ReadTake(r) ==
    /\ pc[r] = "loop" /\ mu = NoReader /\ ~closed /\ ~TopUpFirst
    /\ expireLocked
    /\ mu' = r
    /\ LET availableSlots == MaxInFlight - Cardinality(DOMAIN Live) IN
         limit' = IF count[r] > availableSlots THEN availableSlots ELSE count[r]
    /\ selected' = <<>>
    /\ originalPreference' = preferRetry
    /\ Goto(r, "take")
    /\ UNCHANGED <<storeVars, scanVars, count, ctxDone, wakeAt, filling,
                   closed, preferRetry, signal, scanMu, issued>>

(***************************************************************************)
(* takeLocked: one step for each record leased, alternating between the    *)
(* lanes when both are ready.                                              *)
(***************************************************************************)
RetryReady == \E q \in retries : q.readyAt <= 0
FreshReadyUnbounded == fresh # <<>> \* mutant: the retry lane is not counted
FreshReady ==
    /\ fresh # <<>>
    /\ Cardinality(retries) + Cardinality(DOMAIN inFlight) < PrefetchCapacity + MaxInFlight

\* The order of retryHeap, and the item at its head.
Less(q1, q2) == q1.readyAt < q2.readyAt \/ (q1.readyAt = q2.readyAt /\ q1.seq < q2.seq)
IsHead(q) == q \in retries /\ \A other \in retries \ {q} : Less(q, other)

MoreToTake == Len(selected) < limit /\ (RetryReady \/ FreshReady)

Lease(item, lane, receipt) ==
    /\ inFlight' = [x \in DOMAIN inFlight \cup {receipt} |->
                      IF x = receipt
                      THEN [seq |-> item.seq, attempt |-> item.attempt,
                            deadline |-> VisibilityTimeout]
                      ELSE inFlight[x]]
    /\ expireAt' = IF VisibilityTimeout < expireAt THEN VisibilityTimeout ELSE expireAt
    /\ states' = [states EXCEPT ![item.seq] = "inflight"]
    /\ selected' = Append(selected,
                          [seq |-> item.seq, attempt |-> item.attempt,
                           readyAt |-> item.readyAt, lane |-> lane, receipt |-> receipt])

TakeRetry(r, q, receipt) ==
    /\ pc[r] = "take" /\ mu = r /\ MoreToTake
    /\ RetryReady /\ (FreshReady => preferRetry)
    /\ IsHead(q)
    /\ receipt \notin DOMAIN inFlight
    /\ Lease(q, "retry", receipt)
    /\ retries' = retries \ {q}
    /\ preferRetry' = IF FreshReady THEN FALSE ELSE preferRetry
    /\ UNCHANGED <<storeVars, fresh, scanVars, limit, originalPreference,
                   readerVars, closed, signal, mu, scanMu, issued>>

TakeFresh(r, receipt) ==
    /\ pc[r] = "take" /\ mu = r /\ MoreToTake
    /\ FreshReady /\ (RetryReady => ~preferRetry)
    /\ receipt \notin DOMAIN inFlight
    /\ Lease([seq |-> Head(fresh), attempt |-> 1, readyAt |-> 0], "fresh", receipt)
    /\ fresh' = Tail(fresh)
    /\ preferRetry' = IF RetryReady THEN TRUE ELSE preferRetry
    /\ UNCHANGED <<storeVars, retries, scanVars, limit, originalPreference,
                   readerVars, closed, signal, mu, scanMu, issued>>

\* newReceipt fails, or collides receiptCollisionLimit times.
TakeNoReceipt(r) ==
    /\ pc[r] = "take" /\ mu = r /\ MoreToTake
    /\ "receipt" \in Faults
    /\ Goto(r, "rollback")
    /\ UNCHANGED <<storeVars, laneVars, scanVars, takeVars, count, ctxDone, wakeAt,
                   filling, closed, preferRetry, signal, mu, scanMu, issued>>

\* Where rollback puts a fresh record: back at the head of the lane.
PushBack(s) == Append(fresh, s)     \* mutant: at its end
PushFront(s) == <<s>> \o fresh

\* rollbackSelectionLocked undoes the newest selection first.
RollbackOne(r) ==
    /\ pc[r] = "rollback" /\ mu = r /\ selected # <<>>
    /\ LET last == selected[Len(selected)] IN
         /\ inFlight' = Restrict(inFlight, DOMAIN inFlight \ {last.receipt})
         /\ states' = [states EXCEPT ![last.seq] = last.lane]
         /\ \/ /\ last.lane = "retry"
               /\ retries' = retries \cup {[seq |-> last.seq, attempt |-> last.attempt,
                                            readyAt |-> last.readyAt]}
               /\ UNCHANGED fresh
            \/ /\ last.lane = "fresh"
               /\ fresh' = PushFront(last.seq)
               /\ UNCHANGED retries
    /\ selected' = SubSeq(selected, 1, Len(selected) - 1)
    /\ UNCHANGED <<storeVars, expireAt, scanVars, limit, originalPreference,
                   readerVars, closed, preferRetry, signal, mu, scanMu, issued>>

Unlock ==
    /\ mu' = NoReader
    /\ limit' = 0 /\ selected' = <<>> /\ originalPreference' = FALSE

RollbackDone(r) ==
    /\ pc[r] = "rollback" /\ mu = r /\ selected = <<>>
    /\ preferRetry' = originalPreference
    /\ Unlock
    /\ Return(r)
    /\ UNCHANGED <<storeVars, laneVars, scanVars, closed, signal, scanMu, issued>>

\* Read returns the deliveries.
TakeDone(r) ==
    /\ pc[r] = "take" /\ mu = r /\ ~MoreToTake /\ selected # <<>>
    /\ issued' = issued \cup {[seq |-> selected[i].seq, attempt |-> selected[i].attempt,
                               receipt |-> selected[i].receipt] : i \in DOMAIN selected}
    /\ Unlock
    /\ Return(r)
    /\ UNCHANGED <<storeVars, laneVars, scanVars, closed, preferRetry, signal, scanMu>>

NextWakeNoRetries ==                \* mutant: sleeps past a due retry
    LET instants == {inFlight[x].deadline : x \in DOMAIN inFlight}
    IN  IF instants = {} THEN NoWake ELSE Min(instants)
NextWakeNoDeadlines ==              \* mutant: sleeps past an expired lease
    LET instants == {q.readyAt : q \in retries}
    IN  IF instants = {} THEN NoWake
        ELSE IF \E t \in instants : t <= 0 THEN 0 ELSE Min(instants)
nextWakeLocked ==
    LET instants == {q.readyAt : q \in retries}
                      \cup {inFlight[x].deadline : x \in DOMAIN inFlight}
    IN  IF instants = {} THEN NoWake
        ELSE IF \E t \in instants : t <= 0 THEN 0 ELSE Min(instants)

\* Nothing to deliver: remember when to wake, and scan once more.
TakeNone(r) ==
    /\ pc[r] = "take" /\ mu = r /\ ~MoreToTake /\ selected = <<>>
    /\ wakeAt' = [wakeAt EXCEPT ![r] = nextWakeLocked]
    /\ filling' = [filling EXCEPT ![r] = "wait"]
    /\ Unlock
    /\ Goto(r, "fill")
    /\ UNCHANGED <<storeVars, laneVars, scanVars, count, ctxDone, closed,
                   preferRetry, signal, scanMu, issued>>

(***************************************************************************)
(* fillFresh.  scanEmpty is raised before the snapshot and lowered again   *)
(* by a full batch, by an error, or by a Notify that arrives meanwhile.    *)
(***************************************************************************)
FillSkip(r) ==
    /\ pc[r] = "fill" /\ scanMu = NoReader /\ mu = NoReader
    /\ closed \/ scanDone \/ scanEmpty \/ Len(fresh) >= PrefetchCapacity
    /\ Goto(r, filling[r])
    /\ UNCHANGED <<storeVars, laneVars, scanVars, takeVars, count, ctxDone, wakeAt,
                   filling, closed, preferRetry, signal, mu, scanMu, issued>>

FillStart(r) ==
    /\ pc[r] = "fill" /\ scanMu = NoReader /\ mu = NoReader
    /\ ~closed /\ ~scanDone /\ ~scanEmpty /\ Len(fresh) < PrefetchCapacity
    /\ scanMu' = r
    /\ scanEmpty' = TRUE
    /\ scan' = [NoScan EXCEPT !.phase = "scan", !.free = PrefetchCapacity - Len(fresh)]
    /\ Goto(r, "scan")
    /\ UNCHANGED <<storeVars, laneVars, cursor, scanDone, takeVars, count, ctxDone,
                   wakeAt, filling, closed, preferRetry, signal, mu, issued>>

\* Store.ScanBatch: the first records from the cursor on, at most free of them.
\* The cursor moves only under scanMu, so it is still the one FillStart read.
IsBatchPast(batch) ==               \* mutant: seeks past the cursor
    LET ahead == {s \in pending : s > cursor} IN
    /\ Len(batch) <= scan.free
    /\ \A i \in DOMAIN batch : batch[i] \in ahead
    /\ \A i, j \in DOMAIN batch : i < j => batch[i] < batch[j]
    /\ \A s \in ahead :
         (\A i \in DOMAIN batch : batch[i] # s) =>
           Len(batch) = scan.free /\ \A i \in DOMAIN batch : batch[i] < s
IsBatch(batch) ==
    LET ahead == {s \in pending : s >= cursor} IN
    /\ Len(batch) <= scan.free
    /\ \A i \in DOMAIN batch : batch[i] \in ahead
    /\ \A i, j \in DOMAIN batch : i < j => batch[i] < batch[j]
    /\ \A s \in ahead :
         (\A i \in DOMAIN batch : batch[i] # s) =>
           Len(batch) = scan.free /\ \A i \in DOMAIN batch : batch[i] < s

Batches == UNION {[1..n -> Seqs] : n \in 0..PrefetchCapacity}

ScanBatch(r) ==
    /\ pc[r] = "scan" /\ scan.phase = "scan"
    /\ \E batch \in Batches :
         /\ IsBatch(batch)
         /\ scan' = [scan EXCEPT !.phase = "scanned", !.records = batch]
    /\ UNCHANGED <<storeVars, laneVars, cursor, scanDone, scanEmpty, takeVars,
                   readerVars, closed, preferRetry, signal, mu, scanMu, issued>>

ScanError(r) ==
    /\ pc[r] = "scan" /\ scan.phase = "scan" /\ mu = NoReader
    /\ "scan" \in Faults
    /\ scanEmpty' = FALSE
    /\ scan' = NoScan /\ scanMu' = NoReader
    /\ Return(r)
    /\ UNCHANGED <<storeVars, laneVars, cursor, scanDone, takeVars, closed,
                   preferRetry, signal, mu, issued>>

MergeStart(r) ==
    /\ pc[r] = "scan" /\ scan.phase = "scanned" /\ mu = NoReader
    /\ mu' = r
    /\ scanEmpty' = IF Len(scan.records) = scan.free THEN FALSE ELSE scanEmpty
    /\ scan' = [scan EXCEPT !.phase = "merge"]
    /\ Goto(r, "merge")
    /\ UNCHANGED <<storeVars, laneVars, cursor, scanDone, takeVars, count, ctxDone,
                   wakeAt, filling, closed, preferRetry, signal, scanMu, issued>>

MergeRecord(r) ==
    /\ pc[r] = "merge" /\ mu = r /\ scan.records # <<>>
    /\ LET seq == Head(scan.records)  stale == seq < cursor IN
         /\ scan' = [scan EXCEPT !.records = Tail(@), !.progress = @ \/ ~stale]
         /\ scanDone' = IF ~stale /\ seq = MaxSeq THEN TRUE ELSE scanDone
         /\ cursor' = IF ~stale /\ seq # MaxSeq THEN seq + 1 ELSE cursor
         /\ \/ /\ ~stale /\ states[seq] = "untracked"
               /\ states' = [states EXCEPT ![seq] = "fresh"]
               /\ fresh' = Append(fresh, seq)
            \/ /\ stale \/ states[seq] # "untracked"
               /\ UNCHANGED <<states, fresh>>
    /\ UNCHANGED <<storeVars, retries, inFlight, expireAt, scanEmpty, takeVars,
                   readerVars, closed, preferRetry, signal, mu, scanMu, issued>>

MergeDone(r) ==
    /\ pc[r] = "merge" /\ mu = r /\ scan.records = <<>>
    /\ mu' = NoReader /\ scanMu' = NoReader
    /\ scan' = NoScan
    /\ Goto(r, IF scan.progress THEN "loop" ELSE filling[r])
    /\ UNCHANGED <<storeVars, laneVars, cursor, scanDone, scanEmpty, takeVars, count,
                   ctxDone, wakeAt, filling, closed, preferRetry, signal, issued>>

(***************************************************************************)
(* wait.  A wake-up time already past returns at once.                     *)
(***************************************************************************)
Resume(r) ==
    /\ Goto(r, "loop")
    /\ wakeAt' = [wakeAt EXCEPT ![r] = NoWake]
    /\ filling' = [filling EXCEPT ![r] = "loop"]
    /\ UNCHANGED <<count, ctxDone>>

WaitOver(r) ==
    /\ pc[r] = "wait" /\ wakeAt[r] = 0
    /\ Resume(r)
    /\ UNCHANGED <<storeVars, laneVars, scanVars, takeVars, closed, preferRetry,
                   signal, mu, scanMu, issued>>

Park(r) ==
    /\ pc[r] = "wait" /\ wakeAt[r] # 0
    /\ Goto(r, "parked")
    /\ UNCHANGED <<storeVars, laneVars, scanVars, takeVars, count, ctxDone, wakeAt,
                   filling, closed, preferRetry, signal, mu, scanMu, issued>>

WakeSignal(r) ==
    /\ pc[r] = "parked" /\ signal
    /\ signal' = FALSE
    /\ Resume(r)
    /\ UNCHANGED <<storeVars, laneVars, scanVars, takeVars, closed, preferRetry,
                   mu, scanMu, issued>>

WakeTimer(r) ==
    /\ pc[r] = "parked" /\ wakeAt[r] = 0
    /\ Resume(r)
    /\ UNCHANGED <<storeVars, laneVars, scanVars, takeVars, closed, preferRetry,
                   signal, mu, scanMu, issued>>

\* mutant: the wait without a deadline does not watch the context
WakeContextTimed(r) ==
    /\ pc[r] = "parked" /\ ctxDone[r] /\ wakeAt[r] # NoWake
    /\ Return(r)
    /\ UNCHANGED <<storeVars, laneVars, scanVars, takeVars, closed, preferRetry,
                   signal, mu, scanMu, issued>>

WakeContext(r) ==
    /\ pc[r] = "parked" /\ ctxDone[r]
    /\ Return(r)
    /\ UNCHANGED <<storeVars, laneVars, scanVars, takeVars, closed, preferRetry,
                   signal, mu, scanMu, issued>>

(***************************************************************************)
(* Commit, Retry, Extend and DeadLetter on deliveries Read returned.  Each *)
(* sweeps first, then validates, then persists, then releases.             *)
(***************************************************************************)
Valid(d) ==
    /\ d.receipt \in DOMAIN Live
    /\ Live[d.receipt].seq = d.seq /\ Live[d.receipt].attempt = d.attempt

SeqsOf(D)     == {d.seq : d \in D}
ReceiptsOf(D) == {d.receipt : d \in D}
Accepted(D)   == mu = NoReader /\ ~closed /\ \A d \in D : Valid(d)

\* The records leave the lanes and, by the persist callback, the stream.
Release(D) ==
    /\ Accepted(D)
    /\ SeqsOf(D) \subseteq pending
    /\ pending' = pending \ SeqsOf(D)
    /\ inFlight' = Restrict(Live, DOMAIN Live \ ReceiptsOf(D))
    /\ states' = [s \in Seqs |-> IF s \in SeqsOf(D) THEN "untracked" ELSE SweptStates[s]]
    /\ retries' = SweptRetries
    /\ expireAt' = SweptWatermark
    /\ signal' = TRUE
    /\ UNCHANGED <<tail, unnotified, fresh, scanVars, takeVars, readerVars, closed,
                   preferRetry, mu, scanMu, issued>>

Commit(D)     == Release(D)
DeadLetter(d) == Release({d})

Retry(D) ==
    /\ Accepted(D)
    /\ inFlight' = Restrict(Live, DOMAIN Live \ ReceiptsOf(D))
    /\ states' = [s \in Seqs |-> IF s \in SeqsOf(D) THEN "retry" ELSE SweptStates[s]]
    /\ retries' = SweptRetries \cup {[seq |-> d.seq, attempt |-> nextAttempt(d.attempt),
                                      readyAt |-> RetryDelay(d.attempt)] : d \in D}
    /\ expireAt' = SweptWatermark
    /\ signal' = TRUE
    /\ UNCHANGED <<storeVars, fresh, scanVars, takeVars, readerVars, closed,
                   preferRetry, mu, scanMu, issued>>

Extend(D, extension) ==
    /\ Accepted(D)
    /\ \A d \in D : Live[d.receipt].deadline + extension <= MaxLease
    /\ inFlight' = [x \in DOMAIN Live |->
                      IF x \in ReceiptsOf(D)
                      THEN [Live[x] EXCEPT !.deadline = @ + extension] ELSE Live[x]]
    /\ retries' = SweptRetries
    /\ states' = SweptStates
    /\ expireAt' = SweptWatermark
    /\ signal' = TRUE
    /\ UNCHANGED <<storeVars, fresh, scanVars, takeVars, readerVars, closed,
                   preferRetry, mu, scanMu, issued>>

\* ErrStaleDelivery, or the persist callback fails: only the sweep remains.
\* (A delivery named twice in one call is refused with the same effect.)
Reject(D) ==
    /\ mu = NoReader /\ ~closed
    /\ (\E d \in D : ~Valid(d)) \/ "persist" \in Faults \/ ~(SeqsOf(D) \subseteq pending)
    /\ expireLocked
    /\ UNCHANGED <<storeVars, scanVars, takeVars, readerVars, closed, preferRetry,
                   signal, mu, scanMu, issued>>

Snapshot ==
    /\ mu = NoReader
    /\ expireLocked
    /\ UNCHANGED <<storeVars, scanVars, takeVars, readerVars, closed, preferRetry,
                   signal, mu, scanMu, issued>>

\* mutant: no wake-up
CloseSilent ==
    /\ mu = NoReader /\ ~closed
    /\ closed' = TRUE
    /\ UNCHANGED <<storeVars, laneVars, scanVars, takeVars, readerVars, preferRetry,
                   signal, mu, scanMu, issued>>

Close ==
    /\ mu = NoReader /\ ~closed
    /\ closed' = TRUE
    /\ signal' = TRUE
    /\ UNCHANGED <<storeVars, laneVars, scanVars, takeVars, readerVars, preferRetry,
                   mu, scanMu, issued>>

(***************************************************************************)
(* One tick of the clock.  Deadlines, the watermark and wake-up times stop *)
(* at zero, where they are past.  Retries past due keep their order: the   *)
(* heap serves the longest due first.                                      *)
(***************************************************************************)
Less1(t) == IF t > 0 THEN t - 1 ELSE t

PastOrder(t) ==
    IF t > 0 THEN t - 1
    ELSE -Cardinality({q \in retries : t <= q.readyAt /\ q.readyAt <= 0})

Tick ==
    /\ mu = NoReader
    /\ inFlight' = [x \in DOMAIN inFlight |-> [inFlight[x] EXCEPT !.deadline = Less1(@)]]
    /\ retries' = {[q EXCEPT !.readyAt = PastOrder(@)] : q \in retries}
    /\ expireAt' = IF expireAt = FarFuture THEN FarFuture ELSE Less1(expireAt)
    /\ wakeAt' = [r \in Readers |-> Less1(wakeAt[r])]
    /\ UNCHANGED <<storeVars, fresh, states, scanVars, takeVars, pc, count, ctxDone,
                   filling, closed, preferRetry, signal, mu, scanMu, issued>>

-----------------------------------------------------------------------------
\* One step of the code of a Read in progress.
ReadStep(r) ==
    \/ ReadClosed(r) \/ ReadTopUp(r) \/ ReadTake(r)
    \/ \E receipt \in Receipts :
         TakeFresh(r, receipt) \/ \E q \in retries : TakeRetry(r, q, receipt)
    \/ TakeNoReceipt(r) \/ RollbackOne(r) \/ RollbackDone(r)
    \/ TakeDone(r) \/ TakeNone(r)
    \/ FillSkip(r) \/ FillStart(r) \/ ScanBatch(r) \/ ScanError(r)
    \/ MergeStart(r) \/ MergeRecord(r) \/ MergeDone(r)
    \/ WaitOver(r) \/ Park(r) \/ WakeSignal(r) \/ WakeTimer(r) \/ WakeContext(r)

\* The arguments of one call: some deliveries Read returned, at most MaxBatch.
Calls == {D \in SUBSET issued : Cardinality(D) \in 1..MaxBatch}

Complete ==
    \/ \E D \in Calls : Commit(D) \/ Retry(D) \/ Reject(D)
    \/ \E D \in Calls, e \in Extensions : Extend(D, e)
    \/ \E d \in issued : DeadLetter(d)

Next ==
    \/ \E n \in 1..MaxBatch : AppendBatch(n)
    \/ Notify
    \/ \E r \in Readers :
         ReadStep(r) \/ Cancel(r) \/ \E n \in Counts : StartRead(r, n)
    \/ Complete
    \/ Snapshot \/ Close \/ Tick

Spec == Init /\ [][Next]_vars

(***************************************************************************)
(* Fairness.  Code that has begun goes on: a goroutine waiting for a mutex *)
(* gets it (sync.Mutex does not starve a waiter), and the clock advances.  *)
(* Nobody is obliged to call Read, Commit, Retry, Extend or Close.         *)
(***************************************************************************)
Fairness ==
    /\ \A r \in Readers : SF_vars(ReadStep(r))
    /\ SF_vars(Notify)
    /\ SF_vars(Tick)

FairSpec == Spec /\ Fairness

\* Consumers that always read again.
LiveSpec == FairSpec /\ \A r \in Readers : WF_vars(\E n \in Counts : StartRead(r, n))

-----------------------------------------------------------------------------
\* Lanes f, R and F hold each record that st tracks once, where st says.
LanesAgree(f, R, F, st) ==
    /\ \A i, j \in DOMAIN f : f[i] = f[j] => i = j
    /\ \A q1, q2 \in R : q1.seq = q2.seq => q1 = q2
    /\ \A x, y \in DOMAIN F : F[x].seq = F[y].seq => x = y
    /\ \A s \in Seqs :
         /\ st[s] = "fresh" <=> \E i \in DOMAIN f : f[i] = s
         /\ st[s] = "retry" <=> \E q \in R : q.seq = s
         /\ st[s] = "inflight" <=> \E x \in DOMAIN F : F[x].seq = s

\* Each tracked record waits in exactly the one lane that its entry in states
\* names, once, under one receipt: no interleaving of Read, fillFresh, the
\* sweep, rollback and the completions duplicates or drops a record.
LaneConsistency == LanesAgree(fresh, retries, inFlight, states)

\* A tracked record is durably pending, so the persist callback of a valid
\* Commit or DeadLetter never meets ErrNotFound; and a pending record is
\* tracked unless the scan cursor has yet to reach it, so fillFresh, whatever
\* is appended or completed around its snapshot, skips nothing.
NothingLost ==
    \A s \in Seqs :
      /\ states[s] # "untracked" => s \in pending
      /\ s \in pending /\ states[s] = "untracked" => s >= cursor /\ ~scanDone

\* The configured limits hold whatever scan, sweep, retry and rollback
\* interleave.  takeLocked relies on the second: make would panic on a
\* negative number of free slots.
Bounded ==
    /\ Len(fresh) <= PrefetchCapacity
    /\ Cardinality(DOMAIN inFlight) <= MaxInFlight
    /\ Cardinality(retries) + Cardinality(DOMAIN inFlight) <= PrefetchCapacity + MaxInFlight

\* While scanEmpty stops fillFresh from scanning, every pending record ahead of
\* the cursor belongs to a writer that has yet to call Notify or to the batch
\* being merged: a scan never hides an append that raced with it.
NoHiddenAppend ==
    scanEmpty /\ ~scanDone /\ unnotified = 0 /\ scan.phase # "scan"
      /\ ~(scan.phase = "scanned" /\ Len(scan.records) = scan.free) =>
        \A s \in pending : s >= cursor => \E i \in DOMAIN scan.records : scan.records[i] = s

\* A delivery whose lease is over is never accepted: the watermark expireAt
\* never lets expireLocked skip a lease that is due.
NoLateCompletion ==
    \A d \in issued : Valid(d) => inFlight[d.receipt].deadline > 0

\* Attempts of one record are numbered without gaps and, below saturation,
\* never reused: a rolled-back selection burns no attempt and an expired or
\* retried one exactly one.
AttemptsContiguous ==
    \A d \in issued :
      /\ d.attempt > 1 => \E e \in issued : e.seq = d.seq /\ e.attempt = d.attempt - 1
      /\ d.attempt < MaxAttempt =>
           \A e \in issued : e.seq = d.seq /\ e.attempt = d.attempt => e = d

\* First deliveries follow sequence order: the fresh lane ascends, and all it
\* holds comes after every record ever delivered, rollbacks included.
FirstDeliveryInOrder ==
    /\ \A i, j \in DOMAIN fresh : i < j => fresh[i] < fresh[j]
    /\ \A i \in DOMAIN fresh, d \in issued : d.seq < fresh[i]

Holds(d) ==
    /\ d.receipt \in DOMAIN inFlight
    /\ inFlight[d.receipt].seq = d.seq /\ inFlight[d.receipt].attempt = d.attempt

\* A delivery that has lost its lease never regains one, even when newReceipt
\* draws its receipt again: a late Commit cannot complete a redelivery.  (At
\* the saturated attempt number only the receipt's randomness protects.)
StaleStaysStale ==
    [][\A d \in issued : d.attempt < MaxAttempt /\ ~Holds(d) => ~Holds(d)']_vars

\* A pending record is delivered again and again until it is completed, as
\* long as consumers keep reading: leases that nobody completes, poison
\* records that are always retried and a full in-flight table only delay it.
EventuallyDelivered ==
    \A s \in Seqs :
      (s \in pending /\ states[s] # "inflight") ~>
        (s \notin pending \/ states[s] = "inflight" \/ closed)

\* An abandoned lease is noticed: it ends, and its record is delivered again.
AbandonedLeaseEnds ==
    \A s \in Seqs : states[s] = "inflight" ~> (states[s] # "inflight" \/ closed)

\* Close wakes blocked readers: every Read in progress returns.
CloseReturns == \A r \in Readers : closed ~> pc[r] = "idle"

\* A Read whose context has ended returns.
CancelReturns == \A r \in Readers : ctxDone[r] ~> pc[r] = "idle"

\* A Read whose context has ended returns or comes to a wait that watches the
\* context: it does not go round the loop of Read for ever.
ContextWatched ==
    \A r \in Readers :
      ctxDone[r] ~> (pc[r] \in {"idle", "parked"} \/ wakeAt[r] > 0)

\* A record that was announced, was never leased and could be leased at once.
Deliverable ==
    /\ ~closed /\ Cardinality(DOMAIN inFlight) < MaxInFlight
    /\ FreshReady \/ (unnotified = 0 /\ \E s \in pending : states[s] = "untracked")

\* A blocked Read does not stay blocked beside a record it could deliver.
NoLostWakeup ==
    \A r \in Readers :
      (pc[r] = "parked" /\ Deliverable) ~> (pc[r] # "parked" \/ ~Deliverable)

\* A blocked Read notices a lease that has run out.
ExpiryNoticed ==
    \A r \in Readers :
      (pc[r] = "parked" /\ \E x \in DOMAIN inFlight : inFlight[x].deadline = 0) ~>
        (pc[r] # "parked" \/ \A x \in DOMAIN inFlight : inFlight[x].deadline > 0)

=============================================================================
