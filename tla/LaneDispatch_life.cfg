CONSTANTS
    Block = {b1}
    Caller = {c1}
    NoBlock = none
    MaxObs = 1
    Faults = {"crash", "save", "call", "unload"}
    QuietReload = FALSE
    MaxStale = 1
SPECIFICATION Spec
VIEW WithoutHistory
INVARIANTS
    ResultIsApplicable
PROPERTIES
    LifeIsOrderly
    KeepsLaneWork
    IntentKeepsHandler
