\* One incarnation, fresh caches: what must eventually happen to a Volume.
SPECIFICATION FairSpec
CONSTANTS
    MaxUid = 1
    MaxJobs = 2
    MaxFaults = 1
    CacheMayLag = {}
    Mode = "Block"
PROPERTIES DeletedVolumeGoes VolumeSettles
CHECK_DEADLOCK FALSE
