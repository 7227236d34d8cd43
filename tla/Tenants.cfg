SPECIFICATION Spec
CONSTANTS
    w1 = w1
    w2 = w2
    k1 = k1
    k2 = k2
    None = None
    Sockets = {w1, w2}
    MaxRuns = 2
    LegacyClients = {k1, k2}
    LegacyGroups <- Groups
    LegacySites <- Locations
    LegacyAssets <- AssetTable
    LegacyProducts <- ProductTable
    LegacyCategories <- CategoryTable
    LegacyMakers <- MakerTable
    LegacyTags <- TagTable
    Existing <- StartRows
    Early <- EarlyAssets
    j1 = j1
    j2 = j2
    ann = ann
    bob = bob
    NoClient = NoClient
    Jobs = {j1, j2}
    StartClients <- TwoClients
    StartSites <- Sites
    StartAssets <- Assets
    StartAccess <- Rows
    StartInspections <- Inspected
    MonthDays = 2
    Cycle = 1
    Today = 6
    FirstId = 4
    MaxRequests = 3
    MaxDay = 7
    v1 = v1
    v2 = v2
    l1 = l1
    l2 = l2
    Blank = Blank
    Garbled = Garbled
    Now = 10
    Responses <- ResponseSet
    CriteriaFor <- CriteriaTable
    Resolvers = {"ann", "bob"}
    NoCycle = NoCycle
    Tracked = {"mine", "theirs"}
    OwnerOf <- OwnerTable
    CycleOf <- CycleTable
    DefaultCycle <- DefaultTable
    MadeOn <- MadeTable
    FirstTimes <- TimesTable
    FirstInService <- ServiceSets
    MonthLength = 8
    StartTime = 30
    EndTime = 32
    MaxVisits = 1
    Servers = {v1, v2}
    SettingKeys = {"to", "lead"}
    EarlierKeys = {"to"}
    SettingCalls = {l1, l2}
    NoBlock = NoBlock
    MaxSaves = 1
    Orders = {"o"}
    ToKey = "to"
    NewStatuses = {"COMPLETE"}
    NoOrder = NoOrder
    MaxAttempts = 3
SYMMETRY Symmetry
INVARIANTS
    ImportSound
    AccessRowsSound
    
    HistoryTrue
PROPERTIES
    
    DemoJobsApart
    SettingsReach
CHECK_DEADLOCK FALSE
