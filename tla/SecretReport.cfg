CONSTANTS
    SubscribeScenes <- MCSubscribeScenes
    QueueBound = 1
    MaxSeq = 2
    MaxGen = 1
    SecKeys <- MCSecKeys
    SecNamespaces = {"n1"}
    SecTables = {"t1", "t2"}
    SecFields = {"f", "g", "h"}
    SecFirst = {"f", "g"}
    SecIds = {1}
    SecCallers = {"c1", "c2"}
    SecScenes <- DroppedScenes
    RideRetention = 2
    RideMaxTime = 5
    RideScenes <- MCRideScenes
SPECIFICATION PartsSpec
CHECK_DEADLOCK FALSE
INVARIANTS SecOpen
