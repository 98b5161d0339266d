\* Two clients and two pushes; the store evicts, and channels overflow, at the
\* second entry. The buffer flag is 0, so the capacity is the default one.
SPECIFICATION FairLiveSpec
CONSTANTS
    BufferSize = 0
    DefaultCapacity = 1
    ChanCap = 1
    Goroutines = {g1, g2}
    Channels = {c1, c2}
    Kinds <- MCKinds
    MaxEntries = 2
    MaxTime = 1
    Nil = Nil
    Absent = Absent
    DefaultBackfill = 2
    Backfills <- MCBackfills
INVARIANTS
    TypeOK
    SubscribersExact
    NoDuplicateDelivery
    SubscriptionScoped
PROPERTIES
    LostClientReleased
    IngestionNeverStalls
