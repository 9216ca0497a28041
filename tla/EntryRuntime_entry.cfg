CONSTANTS
    area = area
    oldName = n1
    newName = n2
    sel = s1
    Area = {area}
    Name = {n1, n2}
    Selector = {s1}
    NoSelector = none
    NoFile = nofile
    Configured = {area}
    EntryMop = TRUE
    Live = TRUE
    Worlds <- EntryWorlds
    Stored <- MCStored
    Faults = {"load", "save", "commit", "rollback", "unload", "forward", "crash", "late"}
    MaxToggles = 2
    MaxOwed = 1
SPECIFICATION Spec
VIEW WithoutRefused
INVARIANTS
    RepairsMatchRuntime
    ReadyMeansUsable
    EntryInv
PROPERTIES
    SwitchAgrees
    PauseWins
    RecoveryIsDurable
    UnreadableIsKept
    KeepsLaneWork
