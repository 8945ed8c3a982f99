SPECIFICATION FairSpec
CONSTANTS
    p1 = p1
    p2 = p2
    p3 = p3
    Names = {n1}
    Procs = {p1, p2, p3}
    Worker = Worker
    Nobody = Nobody
    Roles <- CloserRoles
INVARIANTS
    TypeOK
    StorageOpenWhileUsed
    QuietForGood
    CloseIsComplete
    WorkerEndsOnClose
PROPERTIES
    CloseReturns
    OpenReturns
