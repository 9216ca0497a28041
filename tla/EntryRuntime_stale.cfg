CONSTANTS
    area = area
    oldName = n1
    newName = n2
    sel = s1
    Area = {area}
    Name = {n1, n2}
    Selector = {s1}
    NoSelector = none
    NoFile = nofile
    Configured = {area}
    EntryMop = TRUE
    Live = TRUE
    Worlds <- MCWorlds
    Stored <- MCStored
    Faults = {"moves"}
    MaxToggles = 1
    MaxOwed = 1
SPECIFICATION Spec
INVARIANTS
    ReadyMeansUsable
