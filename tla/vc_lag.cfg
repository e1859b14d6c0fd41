\* Volumes and PersistentVolumes may both be read outdated.
SPECIFICATION Spec
CONSTANTS
    MaxUid = 2
    MaxJobs = 2
    MaxFaults = 0
    CacheMayLag = {"Volume", "PersistentVolume"}
    Mode = "Block"
INVARIANTS
    VolumeInv
    HandleNeverTampered
    NoStorageLeak
CHECK_DEADLOCK FALSE
