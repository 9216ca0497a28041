CONSTANTS
    Room = {1, 2}
    Modes = {"vacuum"}
    Day = 1
    MaxTime = 3
    Intervals = {1}
    Priorities = {0}
    Postpones = {1}
    Edits = {}
    MaxJobs = 4
    Faults = {"restart"}
    MaxWaiting = 1
    Nothing = nothing
SPECIFICATION Spec
INVARIANTS
    NotPassedTwice
    OrderInv
