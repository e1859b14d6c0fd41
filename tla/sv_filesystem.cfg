\* Two Volumes with a filesystem; users may name a device in use.
SPECIFICATION FairSpec
CONSTANTS
    Volumes = {v1, v2}
    Disks = {sdb}
    Partitions = {}
    LogicalVolumes = {}
    Kinds <- FilesystemKinds
    MayShareDevice = TRUE
    MaxFaults = 1
    MaxRedeploys = 1
INVARIANTS
    TypeOK
    AvailableIntact
    LoopHasFile
PROPERTIES
    NothingOverwritten
    PrepareIdempotent
    DeletedIsReclaimed
CHECK_DEADLOCK FALSE
