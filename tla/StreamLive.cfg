SPECIFICATION FairSpec
CONSTANTS
    Callers = {c1}
    NoCaller = NoCaller
    Payloads = {p1, p2}
    Times = {1}
    Readers = {r1}
    NoReader = NoReader
    Receipts = {x1}
    MaxSeq = 2
    MaxBatch = 1
    MaxAttempt = 1
    PrefetchCapacity = 1
    MaxInFlight = 1
    VisibilityTimeout = 1
    RetryDelay <- MCRetryDelay
    Counts = {1}
    Extensions = {}
    Cancellable = {}
    Faults = {}
    MaxLease = 1
    MaxHandles = 2
PROPERTIES
    AckedIsDelivered
