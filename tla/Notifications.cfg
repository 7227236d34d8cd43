SPECIFICATION FairSpec
CONSTANTS
    s1 = s1
    s2 = s2
    a1 = a1
    m1 = m1
    m2 = m2
    None = None
    Assets <- AssetTable
    Expiring = {s2}
    Members <- MemberTable
    StartParents <- Chain
    Moves <- MoveSet
    Attempts = 3
    MonthDays = 3
    StartDay = 5
    MaxDay = 7
    MaxEvents = 1
    MaxJobs = 1
INVARIANTS
    WarnedBeforeDue
PROPERTIES
    
    AlertHeard
    Drained
CHECK_DEADLOCK FALSE
