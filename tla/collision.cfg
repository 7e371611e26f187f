CONSTANTS
    f1 = f1
    f2 = f2
    f3 = f3
    p1 = p1
    p2 = p2
    p3 = p3
    x1 = x1
    x2 = x2
    l1 = l1
    l2 = l2
    l3 = l3
    Fips = {f1, f2, f3}
    Projects = {p1, p2, p3}
    Addrs = {a1, a2, a3}
    Labels = {l1, l2}
    PLabels = {x1, x2}
    ProjectOf <- ThreeProjects
    LabelOf <- SharedLabel
    BadLabel = BadLabel
    PerProjectZone = FALSE
    CreateTxt = TRUE
    DeleteStale = TRUE
    Base = Base
    Service = Service
    NoZone = NoZone
    Nobody = Nobody
    NoData = NoData
    Canonical = Canonical
    Edited = Edited
    CreateZones = FALSE
    DryRun = FALSE
    Unborn = Unborn
    Gone = Gone
    NoOp = NoOp
    MaxFaults = 0
    MaxEdits = 0
SPECIFICATION FairSpec
PROPERTIES UnaffectedServed
