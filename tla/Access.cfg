CONSTANTS
    u = u
    a = a
    b = b
    g = g
    k1 = k1
    k2 = k2
    c1 = c1
    c2 = c2
    c3 = c3
    Principals = {u, a, b}
    Groups = {g}
    Root = "*"
    Objects = {"*", "ns", "t"}
    Covering <- MCCovering
    Verbs = {"create", "read", "update", "delete", "schema", "admin"}
    Keys = {k1, k2, k3}
    KeyPrincipal <- MCKeyPrincipal
    KeyGroups <- MCKeyGroups
    Reachable = {u}
    AdminKey = FALSE
    Clients = {c1, c2, c3}
    ServerOf <- MCServerOf
    Who <- MCWho
    WhoGroups <- MCWhoGroups
    WhoKey <- MCWhoKey
    GrantArgs <- MCGrantArgs
    InitKeys <- MCInitKeys
    Scenes <- MCScenes
    f1 = f1
    f2 = f2
    f3 = f3
    Rotations = {r1}
    Flows = {f1, f2, f3}
    Callbacks = {b1, b2}
    Requests = {q1}
    PeerOf <- MCPeerOf
    MaxPending = 1
    MaxPerPeer = 1
    SigningScenes <- MCSigningScenes
    Namespaces = {n1, n2}
    Callers = {p1, p2, p3}
    Free = Free
    MaxOpen = 1
    Backlogs = {TRUE, FALSE}
    Handles = {1, 2, 3}
    MaxFiles = 2
    MaxWork = 2
    Ids <- MCIds
    ShutdownScenes <- MCShutdownScenes
SYMMETRY PoolSymmetry
SPECIFICATION PartsSpec
CHECK_DEADLOCK FALSE
INVARIANTS DecidedWhereRun RingCurrent SignInSafe PoolSafe ShutdownSafe
PROPERTIES RootKept
