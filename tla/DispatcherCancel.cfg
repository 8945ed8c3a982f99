SPECIFICATION FairSpec
CONSTANTS
    Readers = {r1}
    Receipts = {x1}
    NoReader = NoReader
    MaxSeq = 2
    MaxAttempt = 2
    PrefetchCapacity = 1
    MaxInFlight = 1
    VisibilityTimeout = 1
    RetryDelay <- MCRetryDelay
    Counts = {1}
    Extensions = {1}
    Cancellable = {r1}
    Faults = {}
    AppendBound = 2
    MaxBatch = 1
    MaxLease = 2
PROPERTIES
    ContextWatched
