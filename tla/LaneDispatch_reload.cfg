CONSTANTS
    Block = {b1}
    Caller = {c1}
    NoBlock = none
    MaxObs = 1
    Faults = {"crash"}
    QuietReload = FALSE
    MaxStale = 2
SPECIFICATION Spec
INVARIANTS
    AtMostOnceCall
