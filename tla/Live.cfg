CONSTANTS
    SubscribeScenes <- LiveScenes
    QueueBound = 1
    MaxSeq = 2
    MaxGen = 1
    Namespaces = {n1}
    Callers = {c1, c2, c3}
    Free = Free
    MaxOpen = 1
    Backlogs = {FALSE}
    Handles = {1, 2}
    MaxFiles = 1
    f1 = f1
    Rotations = {r1}
    Flows = {f1}
    Callbacks = {b1}
    Requests = {q1}
    PeerOf <- LivePeerOf
    MaxPending = 1
    MaxPerPeer = 1
    SigningScenes <- LiveSigningScenes
    MaxWork = 1
    Ids <- LiveIds
    ShutdownScenes <- LiveShutdownScenes
SPECIFICATION LiveSpec
CHECK_DEADLOCK FALSE
PROPERTIES Delivered WindsDown RevokedEnds CallsReturn RetiredDropped Ends
