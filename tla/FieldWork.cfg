SPECIFICATION FairSpec
CONSTANTS
    s1 = s1
    s2 = s2
    s3 = s3
    c1 = c1
    c2 = c2
    a1 = a1
    a2 = a2
    k1 = k1
    k2 = k2
    q1 = q1
    q2 = q2
    q3 = q3
    x = x
    y = y
    n = n
    p1 = p1
    None = None
    TagIds = {"t"}
    AssetIds = {a1, a2}
    Grants <- GrantSet
    SiteParent <- ParentTable
    SiteClient <- ClientTable
    SiteOfAsset <- AssetTable
    AskedSites = {s2, None}
    Callers <- CallerSet
    Calls = {"r1", "r2"}
    MaxRow = 2
    NoKey = NoKey
    Instances = {"i1", "i2"}
    MaxHour = 3
    MaxSignatures = 3
    NoValue = NoValue
    Keys = {k1, k2}
    Texts = {x, y}
    NonTexts = {n}
    Questions = {q1, q2, q3}
    TypeOf <- TypeTable
    ConfigsOf <- ConfigTable
    ConsumableOf <- ConsumableTable
    Products = {p1}
    AnswerSets <- AnswerTable
    Edits <- EditTable
    Works = {"w1", "w2"}
    MaxConsumables = 3
    Nothing = Nothing
    QuestionIds = {"size", "kind", "seal"}
    KindOf <- KindTable
    SetsOf <- SetTable
    OptionsOf <- OptionTable
    MetadataKeys = {"size", "kind"}
    Words = {"big", "dry"}
    Facts <- FactSet
    Conditions <- ConditionSet
    FirstConditions <- FirstConditionTable
    FirstFields <- FieldTable
    MaxEdits = 1
    NoOrder = NoOrder
    Points = {"p", "q", "r"}
    Orders = {0, 2}
    Movers = {"m1"}
    Streams = {"e1", "e2"}
    Writers = {"v1"}
    MaxWrites = 2
INVARIANTS
    StreamsHear
    ScansOpen
PROPERTIES
    QuestionsSound
    TagStaysWithAsset
    AnswersWriteTheirOwn
    MovesOnePoint
    
    StreamsClose
CHECK_DEADLOCK FALSE
