CONSTANTS
    Tables = {t1}
    Owners = {ann}
    NoOwner = NoOwner
    NsFeed = NsFeed
    Unscoped = Unscoped
    EmptyScope = EmptyScope
    Retention = 1
    PageLimit = 1
    MaxTime = 4
    MaxWait = 0
    MaxSeq = 2
    MaxRows = 2
    MaxGen = 1
    MaxTokens = 2
    VecSearches = {"r1", "r2"}
    VecKeys = {"k", "l"}
    VecIds = {1, 2}
    VecRetry = 2
    VecBounds <- MCVecBounds
    r2 = r2
    s1 = s1
    s2 = s2
    Sums = {x}
    Requests = {r1, r2}
    Servers = {s1, s2}
    ServerOf <- MCServerOf
    Home = s1
    NoSum = NoSum
    Stores <- CopyStores
    MaxVacuums = 1
    MaxDrops = 0
    EarlyUse = FALSE
SPECIFICATION PartsSpec
CHECK_DEADLOCK FALSE
PROPERTIES KeepsPromise
