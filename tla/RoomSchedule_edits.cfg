CONSTANTS
    Room = {1, 2}
    Modes = {"vacuum"}
    Day = 2
    MaxTime = 1
    Intervals = {1}
    Priorities = {0, 1}
    Postpones = {1}
    Edits = {"skip", "postpone", "interval", "priority"}
    MaxJobs = 1
    Faults = {"save", "restart"}
    MaxWaiting = 1
    Nothing = nothing
SPECIFICATION Spec
INVARIANTS
    FileOneAhead
    ScheduleInv
PROPERTIES
    EditsDoNotCollide
