\* Two incarnations of the name, one fault; Volumes may be read outdated.
SPECIFICATION Spec
CONSTANTS
    MaxUid = 2
    MaxJobs = 2
    MaxFaults = 1
    CacheMayLag = {"Volume"}
    Mode = "Filesystem"
INVARIANTS
    TypeOK
    JobMatchesPhase
    PvDeviceMatchesOwner
    ServedStorageKept
    VolumeOutlivesPv
    StorageInv
PROPERTIES
    ErasedOnRequest
    PhasesFollowed
    ImplementsLifecycle
CHECK_DEADLOCK FALSE
