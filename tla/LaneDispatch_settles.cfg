CONSTANTS
    Block = {b1}
    Caller = {c1, c2}
    NoBlock = none
    MaxObs = 1
    Faults = {"crash", "call"}
    QuietReload = TRUE
    MaxStale = 1
SPECIFICATION FairSpec
PROPERTIES
    UncertainNeverSucceeds
    HandlersReturn
    IntentSettles
    LatchedWorkIsQuarantined
