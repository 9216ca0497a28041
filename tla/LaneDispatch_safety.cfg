CONSTANTS
    Block = {b1, b2}
    Caller = {c1, c2}
    NoBlock = none
    MaxObs = 1
    Faults = {"crash", "save"}
    QuietReload = TRUE
    MaxStale = 1
SPECIFICATION Spec
SYMMETRY Symmetry
INVARIANTS
    OneOpenBlock
    AtMostOnceCall
    IntentIsDurable
    ClaimIsExclusive
    TerminalIsDurable
    LaneInv
PROPERTIES
    TerminalIsFinal
    KeepsContract
