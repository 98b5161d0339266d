\* Eviction, wrap-around, clearing and replay, with every filter and page.
SPECIFICATION ApiSpec
CONSTANTS
    BufferSize = 3
    DefaultCapacity = 2
    ChanCap = 1
    Goroutines = {g1, g2}
    Channels = {}
    Kinds <- MCKinds
    MaxEntries = 4
    MaxTime = 2
    Nil = Nil
    Absent = Absent
    ApiClients = {a1}
    RawQueries <- MCRawQueries
    Unparsable = Unparsable
    BadURLs = {"u2"}
INVARIANTS
    IndexExact
    EndpointsAgree
    ListAnswer
    ReplayFaithful
PROPERTIES
    ImplementsLog
    IdsNeverReused
