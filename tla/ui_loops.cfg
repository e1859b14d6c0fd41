\* Two nodes, three fetches in flight and three changes of page or arguments;
\* two mounts of a screen and two fetches or changes by the user, three of them
\* in all, one change of the server and one failure; two volumes, one change of
\* the cluster and two moves.
SPECIFICATION MCSpec
CONSTANTS
    Nodes = {"n1", "n2"}
    NoNode = NoNode
    MaxTasks = 3
    MaxUpdates = 3
    MaxMounts = 2
    MaxVersion = 1
    MaxFetches = 2
    MaxFailures = 1
    MaxLaunches = 3
    Volumes = {"v1", "v2"}
    ByName <- MCByName
    NodeOf <- MCNodeOf
    MaxEvents = 1
    MaxMoves = 2
    MaxReads = 2
INVARIANTS
    CurrentOrComing
    RefreshSafe
    VolumesSafe
PROPERTIES
    ShowsItsNode
    EndsUpToDate
CHECK_DEADLOCK FALSE
