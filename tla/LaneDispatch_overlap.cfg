CONSTANTS
    Block = {b1, b2}
    Caller = {c1, c2}
    NoBlock = none
    MaxObs = 1
    Faults = {}
    QuietReload = TRUE
    MaxStale = 1
SPECIFICATION Spec
SYMMETRY Symmetry
INVARIANTS
    OneCallInFlight
