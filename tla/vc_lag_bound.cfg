\* PersistentVolumes may be read outdated, no fault: BoundStorageKept is violated.
SPECIFICATION Spec
CONSTANTS
    MaxUid = 1
    MaxJobs = 2
    MaxFaults = 0
    CacheMayLag = {"PersistentVolume"}
    Mode = "Block"
INVARIANT BoundStorageKept
CHECK_DEADLOCK FALSE
