SPECIFICATION PartsSpec
CHECK_DEADLOCK FALSE
CONSTANTS
    w1 = w1
    w2 = w2
    m1 = m1
    m2 = m2
    ta = ta
    tb = tb
    p1 = p1
    p2 = p2
    Writers = {w1, w2}
    Migrators = {m1, m2}
    RecordScenes <- MCRecordScenes
    Texts = {ta, tb}
    Empty = Empty
    Providers = {p1, p2}
    Dims = {1, 2}
    Keys = {k, NoKey}
    NoKey = NoKey
    Owners = {ann, bob}
    Legacy = Legacy
    TableWide = {ann}
    PageSize = 1
    MaxId = 2
    MaxSeq = 2
    MaxVersion = 2
    PlanTables <- MCPlanTables
    PlanChanges <- MCPlanChanges
    PlanLength <- MCPlanLength
    MaxFields = 3
INVARIANTS VectorsMatch ExactlyOnce RecordsSafe PlanExact PlanAgree
