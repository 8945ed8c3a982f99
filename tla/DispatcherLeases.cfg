SPECIFICATION Spec
CONSTANTS
    Readers = {r1}
    Receipts = {x1, x2}
    NoReader = NoReader
    MaxSeq = 3
    MaxAttempt = 2
    PrefetchCapacity = 2
    MaxInFlight = 2
    VisibilityTimeout = 1
    RetryDelay <- MCRetryDelay
    Counts = {2}
    Extensions = {1}
    Cancellable = {}
    Faults = {"receipt", "persist"}
    AppendBound = 2
    MaxBatch = 2
    MaxLease = 2
SYMMETRY Symmetry
INVARIANTS
    LaneConsistency
    AttemptsContiguous
    FirstDeliveryInOrder
    NoLateCompletion
PROPERTIES
    StaleStaysStale
