\* One connection: every client of MCTransparent, leaving at any point.
SPECIFICATION FairSpec
CONSTANTS
    VersionRandomLen = 2
    Hellos <- MCHellos
    Clients <- MCClients
    BufferSize = 60
    Requests <- MCRequests
    MaxRequests = 2
    OrigIP = OrigIP
    OrigAddr = OrigAddr
CHECK_DEADLOCK FALSE
INVARIANTS
    TypeOK
    ReadsInBounds
    NeverMisread
    PeekedBytesKept
    CertificateForName
    RequestsRoutable
PROPERTIES
    SilentClientDropped
    HandlerEnds
