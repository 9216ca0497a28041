CONSTANTS
    r1 = r1
    r2 = r2
    a1 = a1
    a2 = a2
    n1 = n1
    n2 = n2
    sel = sel
    Area = {a1, a2}
    Name = {n1, n2}
    Selector = {sel}
    NoSelector = none
    Robot = {r1, r2}
    NoRobot = norobot
    Flow = {f1, f2}
    Worlds <- MCWorlds
    Selections <- MCSelections
SPECIFICATION Spec
INVARIANTS
    OneEntryPerVacuum
    PlansCoverAreas
    FlowInv
PROPERTIES
    CreatedOnLiveRobot
    CreatedIsUsable
    OneBatchMode
