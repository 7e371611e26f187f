CONSTANTS
    p1 = p1
    x1 = x1
    Fips = {f1}
    Projects = {p1}
    Addrs = {a1}
    Labels = {l1, l2}
    PLabels = {x1}
    ProjectOf <- OneProject
    LabelOf <- OneLabel
    BadLabel = BadLabel
    PerProjectZone = FALSE
    CreateTxt = TRUE
    DeleteStale = TRUE
    Base = Base
    Service = Service
    NoZone = NoZone
    Nobody = Nobody
    NoData = NoData
    Canonical = Canonical
    Edited = Edited
    CreateZones = FALSE
    DryRun = FALSE
    Unborn = Unborn
    Gone = Gone
    NoOp = NoOp
    MaxFaults = 1
    MaxEdits = 0
    NoWrite = NoWrite
SPECIFICATION BothSpec
INVARIANTS BothInv
PROPERTIES ConvergesTogether LostOnlyToOlderList
