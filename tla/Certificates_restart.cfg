\* A start that is interrupted between the two files of the CA.
SPECIFICATION Spec
CONSTANTS
    Handshakes = {t1}
    Hellos <- MCOneHello
    Localhost = "localhost"
    MaxGens = 2
    MaxLeaves = 1
    Nil = Nil
CHECK_DEADLOCK FALSE
INVARIANT
    RestartLoads
