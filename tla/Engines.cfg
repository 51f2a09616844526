CONSTANTS
    LakeTables = {t1}
    LakeValues = {x, y}
    LakeScenes <- MCLakeScenes
    LakeCommits <- MCLakeCommits
    LakeCrashes = 1
    LakeFaults = 1
    LakeVacuums = 1
    LakeDrops = 1
    LakePage = 2
    LakeQueue = 2
    PgTexts = {"a", "b"}
    PgScenes <- MCPgScenes
    PgCalls <- MCPgCalls
    PgLosses = 1
    PgDrops = 1
    PgSchemas = 2
    PgVacuums = 1
    PgPage = 2
    PgQueue = 2
SPECIFICATION PartsSpec
CHECK_DEADLOCK FALSE
INVARIANTS LakeDurable LakeVectors LakeReads LakeFeed LakeBackup
           PgOnce PgVectors PgConstraints PgFeed
