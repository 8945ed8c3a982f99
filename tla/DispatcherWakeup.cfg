SPECIFICATION NewStreamSpec
CONSTANTS
    Readers = {r1, r2}
    Receipts = {x1, x2}
    NoReader = NoReader
    MaxSeq = 2
    MaxAttempt = 1
    PrefetchCapacity = 1
    MaxInFlight = 2
    VisibilityTimeout = 1
    RetryDelay <- MCRetryDelay
    Counts = {1}
    Extensions = {}
    Cancellable = {}
    Faults = {}
    AppendBound = 2
    MaxBatch = 1
    MaxLease = 1
PROPERTIES
    NoLostWakeup
