\* One client that asks for everything, channels that never overflow.
SPECIFICATION LiveSpec
CONSTANTS
    BufferSize = 2
    DefaultCapacity = 2
    ChanCap = 3
    Goroutines = {g1}
    Channels = {c1}
    Kinds <- MCKinds
    MaxEntries = 3
    MaxTime = 1
    Nil = Nil
    Absent = Absent
    DefaultBackfill = 3
    Backfills = {Absent}
INVARIANT
    CaughtUp
