SPECIFICATION Spec
CONSTANTS
    Callers = {c1, c2}
    Payloads = {p1, p2, p3}
    Times = {1, 2}
    MaxSeq = 4
    MaxBatch = 2
    NoCaller = NoCaller
SYMMETRY Symmetry
INVARIANTS
    TypeOK
    AlwaysReopens
    Conserved
    IdentityKept
PROPERTIES
    NoReuse
    ImplementsWorkQueue
