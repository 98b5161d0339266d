\* Unlimited capture of bodies longer than the safety cap.
SPECIFICATION Spec
CONSTANTS
    Limits = {0}
    SafetyCap = 3
    MaxInt = 9
    Lengths = {0, 4}
    Nil = Nil
CHECK_DEADLOCK FALSE
INVARIANT
    TruncatedDropped
