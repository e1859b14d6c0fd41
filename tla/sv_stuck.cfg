\* A raw Volume whose device is missing.
SPECIFICATION FairSpec
CONSTANTS
    Volumes = {v1}
    Disks = {sdb}
    Partitions = {}
    LogicalVolumes = {}
    Kinds <- RawKinds
    MayShareDevice = FALSE
    MaxFaults = 0
    MaxRedeploys = 0
PROPERTIES
    DeletedIsReclaimed
CHECK_DEADLOCK FALSE
