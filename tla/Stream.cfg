SPECIFICATION Spec
CONSTANTS
    Callers = {c1}
    NoCaller = NoCaller
    Payloads = {p1, p2}
    Times = {1}
    Readers = {r1}
    NoReader = NoReader
    Receipts = {x1}
    MaxSeq = 2
    MaxBatch = 2
    MaxAttempt = 1
    PrefetchCapacity = 1
    MaxInFlight = 1
    VisibilityTimeout = 1
    RetryDelay <- MCRetryDelay
    Counts = {1}
    Extensions = {1}
    Cancellable = {r1}
    Faults = {}
    MaxLease = 2
    MaxHandles = 2
SYMMETRY Symmetry
PROPERTIES
    KeepsPromise
    SoundEnvironment
