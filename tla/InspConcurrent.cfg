SPECIFICATION Spec
CONSTANTS
    r1 = r1
    r2 = r2
    rt1 = rt1
    rt2 = rt2
    p1 = p1
    p2 = p2
    p3 = p3
    a1 = a1
    a2 = a2
    None = None
    Reqs = {r1, r2}
    Routes = {rt1, rt2}
    Points = {p1, p2, p3}
    Assets = {a1, a2}
    PointRoute <- RouteTable
    InspectionCycle <- CycleTable
    MaxSessions = 1
    MaxDone = 1
    MaxClock = 1
SYMMETRY Symmetry
INVARIANTS
    Inv
PROPERTIES
    MarksSound
    TiedTogether
