CONSTANTS
    Room = {1, 2}
    Modes = {"vacuum_and_mop"}
    Day = 1
    MaxTime = 2
    Intervals = {1, 2}
    Priorities = {0}
    Postpones = {1}
    Edits = {"interval"}
    MaxJobs = 2
    Faults = {"restart"}
    MaxWaiting = 2
    Nothing = nothing
SPECIFICATION Spec
INVARIANTS
    TypeOK
    CreditMatchesLedger
    CleanedAtMostDaily
    TurnInv
PROPERTIES
    ImplementsContract
