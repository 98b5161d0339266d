\* Three runs, with either of two ports, that may be killed at any point, two failing commands.
SPECIFICATION Spec
CONSTANTS
    WebPorts <- MCWebPorts
    Ports = {8080, 9090}
    Modes = {TRUE, FALSE}
    MaxRuns = 3
    MaxFaults = 2
CHECK_DEADLOCK FALSE
INVARIANTS
    TypeOK
    TeardownComplete
    ForcedThroughProxy
    OwnTrafficSkipped
