CONSTANTS
    f1 = f1
    f2 = f2
    f3 = f3
    p1 = p1
    p2 = p2
    p3 = p3
    x1 = x1
    x2 = x2
    l1 = l1
    l2 = l2
    l3 = l3
    Fips = {f1, f2}
    Projects = {p1}
    Addrs = {a1, a2}
    Labels = {l1, l2, l3}
    PLabels = {x1}
    ProjectOf <- OneProject
    LabelOf <- OneLabel
    BadLabel = BadLabel
    PerProjectZone = FALSE
    CreateTxt = FALSE
    DeleteStale = TRUE
    Base = Base
    Service = Service
    NoZone = NoZone
    Nobody = Nobody
    NoData = NoData
    Canonical = Canonical
    Edited = Edited
    CreateZones = FALSE
    DryRun = FALSE
    Unborn = Unborn
    Gone = Gone
    NoOp = NoOp
    MaxFaults = 2
    MaxEdits = 2
SPECIFICATION Spec
SYMMETRY FipsAndLabels
INVARIANTS NamesMatchFips SuccessMeansSync
PROPERTIES LiveRecordsKept LeasesNames
