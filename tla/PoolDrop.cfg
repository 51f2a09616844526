CONSTANTS
    Namespaces = {n1}
    Callers = {c1, c2}
    Free = Free
    MaxOpen = 1
    Backlogs = {TRUE}
    Handles = {1, 2}
    MaxFiles = 2
SPECIFICATION PoolFairSpec
CHECK_DEADLOCK FALSE
PROPERTIES DropCompletes
