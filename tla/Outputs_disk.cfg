\* Two runs with failing and interrupted writes, in every output format.
SPECIFICATION FairSpec
CONSTANTS
    Goroutines = {g1, g2}
    Hosts <- MCHosts
    Bodies = {"json", "text", "none"}
    Formats = {"json", "ndjson", "off"}
    MaxEntries = 3
    MaxRuns = 2
    MaxClock = 1
INVARIANTS
    DirsContained
    DamageContained
    FilesKept
PROPERTIES
    WriteReturns
CHECK_DEADLOCK FALSE
