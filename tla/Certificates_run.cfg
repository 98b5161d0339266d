\* Interrupted starts, failing writes, restarts and two handshakes at a time.
SPECIFICATION Spec
CONSTANTS
    Handshakes = {t1, t2}
    Hellos <- MCHellos
    Localhost = "localhost"
    MaxGens = 3
    MaxLeaves = 3
    Nil = Nil
CHECK_DEADLOCK FALSE
SYMMETRY Symmetric
INVARIANTS
    TypeOK
    ServesPersistedCA
    DownloadedCASigns
    OneCertPerHost
PROPERTY
    PersistedCAKept
