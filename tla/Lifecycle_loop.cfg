\* No command fails: a run killed in the middle of Teardown, then a second run.
SPECIFICATION Spec
CONSTANTS
    WebPorts <- MCWebPorts
    Ports = {8080}
    Modes = {TRUE}
    MaxRuns = 2
    MaxFaults = 0
CHECK_DEADLOCK FALSE
INVARIANT
    NoLoop
