SPECIFICATION Spec
CONSTANTS
    MaxDuration = 15
    Precision = 8
    MaxFactor = 4
    MaxRetries = 6
    Base = 2
    Wide = 2
    Narrow = 1
    MaxData = 14
    Alphabet = {97, 47, 100, 120}
    MaxName = 3
    MaxItems = 4
INVARIANTS
    DelayInRange
    ExponentialUpToMax
    DecodesExactly
    ScansInOrder
    LoadAgrees
    KeysApart
    AcceptedOpens
    CodecLosesNothing
PROPERTIES
    DelayGrows
CHECK_DEADLOCK FALSE
