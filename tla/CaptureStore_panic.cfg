\* An Unsubscribe between the snapshot of a push and its send.
SPECIFICATION Spec
CONSTANTS
    BufferSize = 0
    DefaultCapacity = 2
    ChanCap = 1
    Goroutines = {g1, g2}
    Channels = {c1, c2}
    Kinds <- MCOneKind
    MaxEntries = 3
    MaxTime = 1
    Nil = Nil
    Absent = Absent
INVARIANT
    NoPushPanics
