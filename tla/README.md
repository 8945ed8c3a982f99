# Verification of teak

teak is an embedded durable work queue: one Go process, one Badger database,
any number of named streams. This directory holds TLA+ models of it, the TLC
configurations that check them on small instances, and TLAPS proofs that hold
for every value of the constants.

## 1. The system

| Part | Source | State | Operations |
|---|---|---|---|
| dispatcher | `internal/dispatch/dispatch.go` | fresh lane, retry heap, in-flight table, states map, scan cursor and its flags, expiry watermark, one-token signal channel, two mutexes | `Read`, `Notify`, `Commit`, `Retry`, `Extend`, `DeadLetter`, `Snapshot`, `Close` |
| retry backoff | `dispatch.go`, `retryDelay` | none | delay of an attempt |
| durable stream | `internal/store/store.go` | keys of the directory (`m/schema`, `m/tail`, pending `d/`, dead `x/`), cached tail under a mutex | `Stream`/`load`, `Append`, `AppendBatch`, `Commit`, `DeadLetter`, `Requeue`, `ScanBatch`, `DeadLetters`, `Counts` |
| envelope, keys | `envelope.go`, `keys.go` | none | encode, decode |
| log facade | `log.go` | closing flag, active count, counters | every public call: `begin`, store and dispatcher calls, `end`; `Close` |
| factory | `factory.go` | open logs, closed flag, GC mutex, maintenance goroutine | `New`, `Open`, `Close`, `RunMaintenance`, the worker |
| options | `options.go` | none | normalise, merge, validate |
| typed wrapper | `typed/typed.go` | none | encode and decode around the log |

How they interact: the facade writes to the store and only then calls `Notify`.
The dispatcher scans the store outside its mutex and keeps leases in memory.
`Commit` and `DeadLetter` hold the dispatcher's mutex across the store's
transaction. A restart forgets every lease and scans from the first position.

What is hard here, and hard to test:

- several goroutines in `Read`, each between any two of its critical sections,
  sharing one wake-up token and a scan that runs without the mutex;
- a clock that moves between the moment a wake-up time is computed and the
  moment it is used, and leases that run out while a completion is on its way;
- batches that fail half-way and are rolled back into two lanes;
- crashes between a transaction, the cached tail and the acknowledgement, and
  restarts that leave old deliveries in the hands of consumers;
- a factory that is closed while others open logs, are inside them, collect the
  value log or close it too, with four kinds of locks and a condition variable;
- the ends of the sequence space and of the attempt counter.

`PROJECT.json` lists each hazard at the line where it bites and the properties
that guard it.

## 2. Modules

| Module | What it is |
|---|---|
| `Dispatcher` | the scheduler of one stream with its concurrent readers, writers, consumers and clock |
| `MCDispatcher` | `Dispatcher` for TLC: symmetry, the retry delay taken from `Backoff`, and a stream that starts empty |
| `DispatcherLanes` | the inductive invariant of `Dispatcher`; that every step keeps types, locks and lanes |
| `DispatcherSteps` | the same for the scan, the watermark and the attempts |
| `DispatcherProofs` | the theorems about `Dispatcher`, with the lemmas on the order of first deliveries, hidden appends and limits |
| `WorkQueue` | the abstract durable queue: what a stream's directory promises |
| `Store`, `MCStore` | the durable layer of one stream over Badger, with crashes |
| `StoreQueue` | the refinement mapping from `Store` to `WorkQueue` |
| `StoreProofs` | safety of the durable layer and its refinement of `WorkQueue`, proved |
| `AtLeastOnce` | the abstract log: what a user of `Log` is promised |
| `Stream`, `MCStream` | the log facade: `Store` and `Dispatcher` composed, with restarts |
| `StreamSteps` | what the components of the log need of each other; how its steps look to the dispatcher, and what reads and completions do to leases |
| `StreamProofs` | that every step of the log is one its callers may see and keeps what is used of it, the components' invariants in the composition, and the theorems about the log |
| `Lifecycle`, `MCLifecycle` | the factory, the closing of logs, maintenance |
| `LifecycleProofs` | the inductive invariant of `Lifecycle`, its lemmas, and the theorems |
| `Powers` | powers of a number, used by the next two |
| `Backoff` | `retryDelay` as a function, with its rounding |
| `Envelope` | the stored form of records: encoders and decoders |
| `KeySpace` | keys, names, and the iterations over ordered keys |
| `Options` | merging, validation and copying of the configuration |
| `Typed` | the typed wrapper around a failing codec |
| `MCData` | the last five for TLC: their inputs, and what each should compute |
| `DataProofs` | the same for inputs of every size, proved |

Definitions keep the names of the code (`expireLocked`, `nextWakeLocked`,
`takeLocked` as `ReadTake`, `TakeRetry`, `TakeFresh`, `TakeDone`, `TakeNone`).
An operator commented *mutant* is a deliberate mistake that nothing uses; the
properties are checked to notice it when it takes the place of the definition
that follows it (`PROJECT.json`, "mutants").

### Dispatcher

A critical section under `mu` is one step. The loops of `takeLocked`,
`rollbackSelectionLocked` and the merge of `fillFresh` take one step an
iteration while `mu` stays held; this is no coarser than the code, since
everything else that touches their state needs `mu`. A reader's `pc` says where
it is: `loop` (before `mu.Lock` in `Read`), `take`, `rollback`, `fill` (before
`scanMu.Lock`), `scan` (outside `mu`, around `ScanBatch`), `merge`, `wait`
(before `wait` looks at the clock) and `parked` (in a `select`).

- *Time.* Every instant is a number of ticks from now; 0 is past or present.
  `Tick` moves the clock and needs `mu` free, because the code reads the clock
  under `mu` and uses that reading until it unlocks; a longer critical section is
  one in which the clock moves just before or just after it. Retries that are
  past due keep their order, which the heap depends on.
- *Signal.* A Boolean: a channel of capacity one with a non-blocking send.
- *Receipts.* A small set. A receipt not in use may be drawn again, so the model
  does not rely on their being unguessable. Running out of tries and an error of
  `newReceipt` are the same action, `TakeNoReceipt`.
- *Faults.* `TakeNoReceipt`, `ScanError` and a failing persist callback
  (`Reject`) are enabled by the constant `Faults`.
- *Writers.* `AppendBatch` stands for the transaction of `Write`, `BatchWrite`
  and `Requeue`; `unnotified` counts the writers that have yet to call `Notify`.
- *Restart.* `Init` allows any backlog, as an earlier process may have left it.
- A completion call takes a set of deliveries. The same delivery named twice in
  one call is refused by the code with the effect of `Snapshot`: only the sweep.
- Statistics counters are left out.

### Store

A call that holds the stream's mutex is three steps: lock and compute
(`AppendLock`, `RequeueLock`), transaction (`AppendTxn`, `RequeueTxn`, or
`TxnFail`), cached tail and return (`Return`). `Crash` may come between any two.
`Commit` and `DeadLetter` are single transactions and take no mutex. A
transaction is atomic and serializable, and an error means that nothing was
written: that is how the code uses Badger. `Root.Close` is a `Crash` that
happens to come when no call is active. An envelope keeps payload, creation time
and origin; the origin stream is always the stream itself, so only the origin's
position is kept. Reason and dead-letter time play no part in any decision and
are left out here, as are an unsupported schema version and unreadable values,
which only make a call fail; `Envelope` has them. `Store` says what the checks of
`load` decide (`LoadCheck`); `KeySpace` has the iterations that decide it.

`written`, `acked` and `done` are history: what was first written at each
position, what writers were told is safe, and what was committed.

### Stream

`S == INSTANCE Store` and `D == INSTANCE Dispatcher` share what the program
shares: the dispatcher's records are the keys of the store's `pending`, its tail
is the stored tail, and the writers that have yet to call `Notify` are those
between the transaction and `Notify` in the methods of the log. `Commit` and
`DeadLetter` are one step of both, because the dispatcher holds its mutex while
it persists. `wrap` gives a delivery the handle as its owner and `unwrap` refuses
any other owner. `Restart` is a crash, or a closed factory that is opened again,
at any point: the directory survives, the dispatcher begins anew
(`DispatcherNew`), and consumers keep the deliveries they hold. `handed` and
`completed` are history.

`AtLeastOnce` knows payloads, leases and completions only. A lease is a payload
at a position under a handle and an attempt; the promise is that at most one lease
of a payload is live, that only a live lease completes, that a lease which
completed or lapsed never comes back (until attempts saturate), and that a
payload leaves the queue by completion alone. `KeepsPromise` is the refinement.

### Lifecycle

A goroutine's `pc` names the critical section or the storage access it is in or
waits for. The locks are the factory's `mu` and `gcMu`, and per log `lifeMu` with
its condition variable and the dispatcher's `mu`; a lock that is taken and given
up without storage access in between is one step. What a call does inside the
dispatcher is abstracted to the locks it takes, whether it touches the storage,
and whether it may leave a token in the signal channel; a blocked `Read` may be
woken by a token, a timer or its context. A garbage-collection pass may succeed,
fail, panic or never end. `Roles` says which calls a goroutine makes.

### Backoff

A multiplier is a fraction `num/den` with a power of two below, which every
float64 is. `Float` rounds a number to a float64: below `Precision`, which stands
for 2^53, it is the identity, and above it goes to the nearest multiple of the
unit, a power of two, and halfway to the even one. `Scaled` rounds the delay,
multiplies and rounds again, and truncates as the conversion to `time.Duration`
does; beyond the range of a duration the value is either extreme, as it is on
amd64 and on arm64. A product that rounding or truncation returns to the old delay
is treated as an overflow is: the delay becomes `RetryMax` at once. The range and
the monotonicity checked below hold all the same; that the delays are the
exact exponential is claimed below `Precision` only, which is 104 days, since
above it they are not (from 1 ns with a factor of 3 the 35th is off by one).

### Envelope, KeySpace, Options, Typed

These compute and keep no state. `Envelope` is parameterised by the base of a
byte and the number of bytes of a uint64 and a uint32, so that every byte string
up to a length can be decoded. `AppendUint` and `Uint` are big-endian digits
written and read. A reader keeps the fields it has
read and fails at the first that is missing. `KeySpace` has real ASCII codes; a Badger iterator is
the ordered set of keys from its seek on. `Options` treats a configuration as a
function of its fields, zero where a field is not set; `cloneLogConfigs` is given
the caller's map as it was at `New` and as it is now. `Typed` takes what the codec
does on each item of a batch and runs the loop of the call round by round
(`Loop`): an array of zero values is filled until an item fails, where the call
returns. What the call then makes of it is what is passed to the byte log, or
what the caller gets.

## 3. What the runs check

| Run | Checks | States |
|---|---|---|
| `dispatcher_readers` | `TypeOK`, `NothingLost`, `NoHiddenAppend`, `Bounded` with two readers, three records, all capacities one and failing scans | 1.25M |
| `dispatcher_leases` | `LaneConsistency`, `AttemptsContiguous`, `FirstDeliveryInOrder`, `NoLateCompletion`, `StaleStaysStale` with batches, extensions, reused receipts, failing receipts and persist callbacks | 500k |
| `dispatcher_live` | `EventuallyDelivered`, `AbandonedLeaseEnds`, `CloseReturns`, `CancelReturns`, one consumer | 43k |
| `store` | `TypeOK`, `AlwaysReopens`, `Conserved`, `IdentityKept`, `NoReuse`, `ImplementsWorkQueue` | 47k |
| `lifecycle` | `TypeOK`, `StorageOpenWhileUsed`, `QuietForGood`, `CloseIsComplete`, `WorkerEndsOnClose`, `CloseReturns`, `OpenReturns` with three goroutines and the worker | 32k |
| `stream` | `KeepsPromise`, `SoundEnvironment`: the composition with a restart, batches, extensions and cancellation | 355k |
| `stream_live` | `AckedIsDelivered` | 205k |
| `data` | `DelayInRange`, `ExponentialUpToMax`, `DelayGrows`; `DecodesExactly`; `ScansInOrder`, `LoadAgrees`, `KeysApart`; `AcceptedOpens`; `CodecLosesNothing` | 101k |

Four more runs end in a counterexample, because the code and what its comments
or documents say of it disagree:

| Run | The code |
|---|---|
| `dispatcher_close` | `Close` wakes one of several blocked readers; the others, if they wait without a timer, stay in `Read`, and the log's `Close` waits for them. |
| `dispatcher_wakeup` | from an empty stream, two records are written and announced; one of two readers leases the first and returns, the other stays blocked without a timer beside the second, which it could lease. |
| `dispatcher_expiry` | a reader that blocked while nothing was in flight has no timer, and is not told of the lease another reader takes; if that consumer is gone the record waits for the next call of any kind. |
| `dispatcher_cancel` | with the in-flight table full and a retry due, `Read` goes round its loop without looking at its context. |

Two things in the code lead to the second. `notifyLocked` drops an announcement
while the token of an earlier one is unread, so that two records may wake one
reader, which does not pass the token on when it leaves a record behind. And a
reader that found nothing to lease, then waited for `scanMu` and skipped its own
scan because the other reader's had filled the lane meanwhile, goes to wait
although there is a record, with a wake time computed before. A behaviour may have
both, as TLC's has: the second announcement is dropped, the reader that takes the token fills
the lane, and the one behind it skips its scan and blocks.

The first three need nothing but the two readers and the steps named; the
behaviours end in a state in which no goroutine can take another step.
They need consumers that stop reading: while a single consumer keeps calling
`Read`, `dispatcher_live` shows that records are delivered and leases end.

### Bounds

`MaxSeq` stands for `math.MaxUint64` and `MaxAttempt` for `math.MaxUint32`. The
scheduler runs have two or three records, so that the last sequence number, the
saturated attempt, a full lane, a full table and a lane that empties all occur,
and so that one record can be in each lane at once. `AppendBound` below `MaxSeq`
keeps one position free where the end of the sequence space is not the subject;
where they are equal `scanDone` is reached. Leases of one or two ticks separate
past, present and future, which is all the code compares. `MaxLease` caps what
`Extend` may reach. `MaxBatch` caps writes and completion calls at one or two
records.
Two readers are enough for every pair of places in `Read`; more would repeat the
same pairs on the shared state. The store runs have three payloads and four
positions, so a batch fails for want of positions, and a record makes more than
one dead-letter round trip.

`lifecycle` has one log: the locks of two logs are independent and only `Close`
takes both, one after the other, which the proof covers for any number. Its
goroutines are one that opens and uses the log, in `Read` too, one that opens,
collects and closes the log and the factory, and one that uses the log and closes
both, so that two of them wait in `close` at once, and `Close` meets a pass, an
`Open` and a second `Close` at every place. `stream`
has two payloads, two positions and two handles: one record can be leased under
the old handle and the new, and be requeued to the last position.

`data` enumerates its inputs. Durations have four bits and a float three, so that
delays are rounded, stick and overflow. Every string of up to 14 bits is decoded with bytes
of one bit, uint64 of two and uint32 of one, which holds every dead letter with
strings of up to one byte, cut short or continued. The databases have a stream
between two neighbours in key order and sequences on both sides of a byte's end,
and possibly a malformed key. Names have up to three letters with the separator
and both prefix letters among them; two configurations take every combination of
unset, negative and conflicting values.

### Fairness

`Fairness` says that a `Read` in progress goes on, that a writer past its
transaction calls `Notify`, and that the clock advances. It is strong fairness
because each of them needs a mutex that others take again and again, and
`sync.Mutex` hands itself to a waiter that has starved. Nobody is obliged to
write, complete, cancel or close. `LiveSpec` adds consumers that call `Read`
again after it returns; the violations above are found without that. Faults of
the dispatcher are off in the liveness runs: a scan that fails for ever delivers
nothing.

In `Lifecycle` code that has begun goes on and a waiter gets its mutex. A pass
need not end and a blocked `Read` need not time out; `CloseReturns` assumes that
passes end (`PassesEnd`), as the comment on `Factory.Close` says it waits for
them, and `OpenReturns` does without. One goroutine at most is in `Read` on a log
there, since with two the log's close may wait for ever (`dispatcher_close`).
`stream_live` assumes that the log is opened again after a restart, that a call
in progress goes on, and that readers read again.

## 4. What is proved

Every safety property that a run checks is also proved for every value of the
constants, except two that are about concrete databases (`ScansInOrder`,
`LoadAgrees`). The proofs assume the named `ASSUME`s of the models and nothing
else.

### Dispatcher

`DispatcherProofs`, from positive capacities, timeout and widths, and delays that
are naturals:

| Theorem | States |
|---|---|
| `TypeCorrect` | `Spec => []TypeOK` |
| `LanesCorrect` | `Spec => []LaneConsistency` |
| `NoRecordLost` | `Spec => []NothingLost` |
| `LateRefused` | `Spec => []NoLateCompletion` |
| `AttemptsCorrect` | `Spec => []AttemptsContiguous` |
| `StaleForGood` | `Spec => StaleStaysStale` |
| `FirstInOrder` | `Spec => []FirstDeliveryInOrder` |
| `AppendsSeen` | `Spec => []NoHiddenAppend` |
| `LimitsHold` | `Spec => []Bounded` |

The inductive invariant `IInv` adds to the first three: who holds which mutex at
which place (`LockInv`), since an iteration of a loop relies on nobody else having
moved the lanes; what a selection in progress still owes to the in-flight table,
so that a rollback restores exactly what was taken (`SelectionInv`); and what a
scan in progress still owes to the merge (`ScanInv`): between the snapshot and the
merge every pending record from the cursor up to the end of the batch is in the
batch, because a completion can only remove tracked records and an append only
adds positions past the tail. That is why the cursor may jump to the end of the
batch without passing an untracked record.

The other theorems build on `IInv`, each with a strengthening of its own:

- `WatermarkInv`, no lease ends before the watermark, gives `LateRefused`.
- `AttemptInv` gives `AttemptsCorrect` and `StaleForGood`: a record in the fresh
  lane was never delivered, one in the retry lane carries an attempt yet to be
  made, and a lease is the latest attempt and either was returned by `Read` or is
  still in the selection, so that a rollback gives back an attempt nobody has seen.
- `OrderInv` gives `FirstInOrder`: what has left the fresh lane and is not
  completed is earlier in the stream than what is still in it, and the same holds
  at each item of a selection in progress, which is why a rollback, undoing from
  the end, can put fresh records back at the head of the lane. `AppendsSeen` needs
  no more than `ScanInv`.
- `BoundInv` gives `LimitsHold`. It counts what each party has been promised: the
  room in the fresh lane that a scan counted on before it gave up the mutex, the
  room that a rollback may need again, and the room in the in-flight table that
  `takeLocked` may still use.

`FiniteFacts` collects the facts on finite sets the lemmas use, and `CountFacts`
those on their sizes. They are hypotheses of the lemmas and are discharged from the
library's theorems in `DispatcherProofs` (`FiniteHolds`, `CountsHold`), so that the
lemmas can be reused in the composition.

### Store

`StoreProofs`, from `StoreAssumption` (positive sequence space and batch size):

- `TypeCorrect`, `Reopens`, `NothingLostOrDoubled`, `IdentityCorrect`: the
  invariants `TypeOK`, `AlwaysReopens`, `Conserved`, `IdentityKept`
- `PositionsFresh`: the action property `NoReuse`
- `Refines`: `Spec => ImplementsWorkQueue`

The invariant adds who holds the mutex (`LockInv`), that the cached tail is the
stored one except between a transaction and its return, together with what the
call in progress computed from it (`TailInv`), and that the stored tail covers
every position ever used and none is in two states (`DirInv`). `TailInv` is what
makes a crash harmless: the cached tail is lost exactly when it need not agree.
For the refinement each transaction is one step of `WorkQueue`, `Return` is its
`Acknowledge`, and locks, failures, crashes and `Load` are stutters.

### The log

`StreamProofs`, from the assumptions of the store and of the dispatcher, for any
callers, readers, payloads, receipts, capacities and restarts:

- `Composed`: `Spec => []ComposedInv`, the invariants of both components and of
  the log together
- `EnvironmentSound`: `Spec => SoundEnvironment`
- `PromiseKept`: `Spec => KeepsPromise`, the refinement of `AtLeastOnce`
- `ComponentsKept`: what was proved of the store and of the dispatcher on their
  own holds of them in the log
- `AckedAndLeased`: what a writer was told is safe is pending, dead or completed
  by the holder of its lease, and no two live leases are on one payload

The argument is assume/guarantee. The dispatcher was verified in an environment
that appends records past the tail and announces them afterwards; the store was
verified against any callers. `StreamSteps` says what each side needs of the
other: `StoreFacts` of the store, `LeaseFacts` of the dispatcher, and `LogInv` of
the log itself, namely that a caller about to call `Notify` is in no call of the
store (`CallInv`), and that each delivery handed out names the record stored at
its position, that what completed is no longer pending, and that whatever the
store has as committed some delivery completed (`HandedInv`). From these follow
`EnvStep`: every step of the log is a step of the dispatcher or of its environment,
or a restart that begins it anew; and, in `StreamProofs`, `PromiseStep`: every step is
one of `AtLeastOnce` or a stutter; and `LogStep`: every step keeps `LogInv`.
The module instantiates the proofs of the two components, so that
their lemmas keep their invariants under those steps (`StoreKeeps`,
`DispatcherKeeps`) and give the facts back (`StoreGives`, `DispatcherGives`).
The circle closes because each step uses the facts of the state before it. After
a restart the dispatcher's invariant is the one `New` establishes over whatever
backlog the directory holds.

### Life cycle

`LifecycleProofs`, from `GoroutineAssumption` (finitely many goroutines, distinct
from the worker and from `Nobody`):

- `TypeCorrect`, `StorageSafe`, `ClosedLogStaysClosed`, `CloseComplete`,
  `WorkerOutlivesPasses`: the invariants `TypeOK`, `StorageOpenWhileUsed`,
  `QuietForGood`, `CloseIsComplete`, `WorkerEndsOnClose`

The invariant adds who holds which lock at which place (`LockInv`); that `active`
is exactly the number of goroutines between `begin` and `end` of a log
(`CountInv`), which is why a close that sees zero leaves nobody inside; what the
closing of a log has reached (`LogInv`); that one goroutine does the work of
`factory.Close` and how far it is, so that no log is added behind its copy
(`CloserInv`); and that the storage is closed only by it, under `gcMu`, after the
worker has ended and every log is quiet (`RootInv`).

### Computations

`DataProofs`, for every base, width, duration, alphabet and bound, so for values,
names and batches of any length, from the assumptions of `Backoff`, `Envelope` and
`MCData`:

| Theorem | States |
|---|---|
| `DelaysInRange`, `DelaysExponential`, `DelaysGrow` | `DelayInRange`, `ExponentialUpToMax`, `DelayGrows` |
| `DecodesBack` | `DecodesExactly` |
| `KeysSeparate` | `KeysApart` |
| `OpensAccepted` | `AcceptedOpens`, for the options `MCData` has |
| `OpenLayers` | the same for any options New accepts and any number of named logs |
| `CodecSafe` | `CodecLosesNothing` |

Several of these computations are loops, written as recursive functions. The
library's induction theorems take an operator, which the provers cannot
instantiate, so `DataProofs` states induction for a set (`NatSet`: a set with 0
that is closed under successor holds every natural) and derives from it that a
recursion over the naturals has a solution (`Recursion`). `Power`, `Uint` and the
loops of `retryDelay` and of the typed log are then shown to compute what their
recursion says. On that
rest: `retryDelay` stays between its limits, since a delay that grows stops at the
first that reaches `RetryMax` or overflows; it is the exponential where it is
below `Precision`, since `Float` changes no number below it and takes none from
above to below it (`FloatRange`), so that a rounded product passes `RetryMax` when
the exact one does; the loop of a typed call leaves all items or stops at the
first that fails (`RoundAfter`, `LoopEnds`), for batches of any length; digits written and read back give the
number and, for digits below the base, the other way round; and a reader that
takes a field off an encoding leaves the encoding of the fields that follow it.
For `DecodesBack` both directions are needed: an encoding is decoded to its record,
and whatever a decoder accepts is the encoding of what it returns, byte for byte.

### Only model-checked

- Liveness, in `dispatcher_live`, `lifecycle` and `stream_live`, and the
  violations of section 3: the prover has no rules for fairness and `ENABLED`.
- `ScansInOrder` and `LoadAgrees`, the iterations over keys and the walk of
  `validateStoredStates`. They are stated over the concrete databases of `MCData`,
  whose keys are ordered by counting the smaller ones; for any database the walk of
  `load` would need an induction over its keys.

## 5. Not modelled

- Badger itself: a transaction is atomic, and an error means that nothing was
  written, as the code assumes. If Badger reported an error for a transaction it
  had made durable, the cached tail would be behind the stored one until the next
  restart (`PROJECT.json`, hazard at `store.go:332`); whether it can is not to be
  read from this repository.
- The counters of `Stats` on the dispatcher, the log and the factory, which are
  advisory (`Counts` reads a tail that may lag), logging, and the translation of
  internal errors to public ones (`mapError`).
- A retry multiplier or discard ratio that is not a number.
- The JSON codec, and the other `With...` methods of the options, which replace
  one field of a copy.
- Contexts other than those of `Read`: every call tests its context once, before
  it does anything.
