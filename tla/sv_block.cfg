\* Two Volumes of raw storage, each on a device of its own.
SPECIFICATION Spec
CONSTANTS
    Volumes = {v1, v2}
    Disks = {sdb}
    Partitions = {sdc1}
    LogicalVolumes = {lv}
    Kinds <- BlockKinds
    MayShareDevice = FALSE
    MaxFaults = 2
    MaxRedeploys = 0
INVARIANTS
    AvailableIntact
    ReclaimedIsUnserved
CHECK_DEADLOCK FALSE
