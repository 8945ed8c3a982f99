SPECIFICATION FairSpec
CONSTANTS
    Readers = {r1, r2}
    Receipts = {x1}
    NoReader = NoReader
    MaxSeq = 1
    MaxAttempt = 1
    PrefetchCapacity = 1
    MaxInFlight = 1
    VisibilityTimeout = 1
    RetryDelay <- MCRetryDelay
    Counts = {1}
    Extensions = {}
    Cancellable = {}
    Faults = {}
    AppendBound = 1
    MaxBatch = 1
    MaxLease = 1
PROPERTIES
    ExpiryNoticed
