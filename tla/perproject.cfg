CONSTANTS
    f1 = f1
    f2 = f2
    f3 = f3
    p1 = p1
    p2 = p2
    p3 = p3
    x1 = x1
    x2 = x2
    l1 = l1
    l2 = l2
    l3 = l3
    Fips = {f1, f2}
    Projects = {p1, p2}
    Addrs = {a1, a2}
    Labels = {l1, l2}
    PLabels = {x1, x2}
    ProjectOf <- TwoProjects
    LabelOf <- OwnLabels
    BadLabel = BadLabel
    PerProjectZone = TRUE
    CreateTxt = TRUE
    DeleteStale = TRUE
    Base = Base
    Service = Service
    NoZone = NoZone
    Nobody = Nobody
    NoData = NoData
    Canonical = Canonical
    Edited = Edited
    CreateZones = TRUE
    DryRun = FALSE
    Unborn = Unborn
    Gone = Gone
    NoOp = NoOp
    MaxFaults = 2
    MaxEdits = 1
SPECIFICATION Spec
SYMMETRY LabelsOnly
INVARIANTS IInv InOwnZone
PROPERTIES LiveRecordsKept LeasesNames
