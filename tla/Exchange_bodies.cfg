\* Bodies below, at and above the limits and the safety cap, with every kind
\* of response.
SPECIFICATION FairSpec
CONSTANTS
    Limits = {0, 1, 2}
    SafetyCap = 3
    MaxInt = 9
    Lengths = {0, 2, 3, 4}
    Nil = Nil
CHECK_DEADLOCK FALSE
INVARIANTS
    TypeOK
    RelayComplete
    FramingExact
    StoredWhole
    BufferBounded
    RecordedOnce
PROPERTY
    StreamingForwarded
