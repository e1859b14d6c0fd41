--------------------------- MODULE VolumeStorageInv ---------------------------
(***************************************************************************)
(* Why the storage of a Volume is there when it is used and gone when the  *)
(* Volume is: the inductive invariants behind NoStorageLeak and            *)
(* ErasedOnRequest (ReclaimInv) and behind VolumeOutlivesPv,               *)
(* ServedStorageKept, PvDeviceMatchesOwner and PhasesFollowed (ServingInv).*)
(***************************************************************************)
EXTENDS VolumeControllerInv

-----------------------------------------------------------------------------
(***************************************************************************)
(* Copies of the Volume.  Volumes are only changed by a pass whose copy is *)
(* current and by users, so that the informer's copy is behind by what one *)
(* pass and the users did.                                                 *)
(***************************************************************************)
\* Copy `v` is of the incarnation there is.
Same(v) == v.uid # 0 /\ v.uid = vol.uid

\* A Volume to finalize: this never changes again.
Retired(v) == v.deleted /\ v.phase # "Pending"

\* The operator may know that the Volume is to be finalized.
CacheRetired == Same(volCache) /\ Retired(volCache)

SameStatus(v, w) ==
    /\ v.phase = w.phase /\ v.reason = w.reason
    /\ v.job = w.job /\ v.jid = w.jid

\* The incarnation that has its finalizer is the one the operator knows; what
\* it knows to be irreversible is so.
CopiesInv ==
    /\ vol.fin => /\ vol.uid # 0 /\ volCache.uid = vol.uid
                  /\ rec.v.uid \in {0, vol.uid}
    /\ volCache.fin =>
          /\ volCache.uid # 0
          /\ volCache.uid # vol.uid => volCache.job = "UnprepareVolume"
    /\ Same(volCache) =>
          /\ volCache.valid = vol.valid
          /\ Retired(volCache) => Retired(vol)
          /\ volCache.job = "UnprepareVolume" => vol.job = "UnprepareVolume"

\* A status that is about to be written from a current copy does not bring a
\* Volume back from its finalization.
FreshInv ==
    rec.vFresh =>
        /\ rec.pc \notin {"idle", "status"} => SameStatus(rec.v, vol)
        /\ rec.pc = "status" =>
              /\ rec.v.phase = "Pending" => ~Retired(vol)
              /\ vol.job = "UnprepareVolume" => rec.v.job = "UnprepareVolume"
        /\ rec.pc = "finalizer" => volSynced

\* Jobs are submitted, and finalizers removed, for good reasons.
ReasonInv ==
    /\ rec.pc # "idle" => rec.v.uid # 0
    /\ rec.pc = "submit" =>
          (Retired(rec.v) <=> rec.job = "UnprepareVolume")
    /\ rec.pc \in {"create", "finalizer"} => ~Retired(rec.v)
    /\ rec.pc = "poll" => (Retired(rec.v) <=> rec.v.job = "UnprepareVolume")
    /\ rec.pc \in {"pvFinalizer", "volFinalizer"} =>
          rec.v.job = "UnprepareVolume" /\ rec.v.jid = DoneMarker
    /\ Same(rec.v) =>
          /\ rec.v.job = "UnprepareVolume" => CacheRetired
          /\ rec.pc = "submit" /\ rec.job = "UnprepareVolume" => CacheRetired
          /\ rec.pc \in {"poll", "pvFinalizer", "volFinalizer"}
                /\ rec.v.job = "UnprepareVolume" =>
                    volCache.job = "UnprepareVolume"
    /\ rec.pc = "finalizer" => rec.v.job # "UnprepareVolume"
    /\ rec.pc = "submit" /\ rec.job = "PrepareVolume" =>
          /\ Same(rec.v)
          /\ \A v \in {vol, volCache, rec.v} : v.job # "UnprepareVolume"

-----------------------------------------------------------------------------
(***************************************************************************)
(* Jobs at the node.  They start in the order they were sent, one at a     *)
(* time, so that those that may have been forgotten come before those that *)
(* somebody waits for.                                                     *)
(***************************************************************************)
\* Job `i` of the queue starts before job `k`.
Before(i, k) == i < k

Sent(job) == \E k \in DOMAIN sent : sent[k].job = job

SentAfter(i, job) == \E k \in DOMAIN sent : Before(i, k) /\ sent[k].job = job

AtNode(job) == running.job = job \/ Sent(job)

\* Each job at the node has an ID of its own.
DistinctIds == \A i, k \in DOMAIN sent : sent[i].jid = sent[k].jid => i = k

SentKnown == \A i \in DOMAIN sent : jobs[sent[i].jid].state = "sent"

RunningKnown ==
    IF running.jid = 0 THEN running = NoJob
    ELSE jobs[running.jid].state = "running" /\ running.job \in StateJobs

QueueInv == DistinctIds /\ SentKnown /\ RunningKnown

\* No job erases what one that comes before it prepares.
InOrder ==
    \A i \in DOMAIN sent :
        sent[i].job = "PrepareVolume" => ~SentAfter(i, "UnprepareVolume")

NoneErasesAfter ==
    /\ InOrder
    /\ running.job = "PrepareVolume" => ~Sent("UnprepareVolume")

\* Only the Volume there is, once it has its finalizer, has storage or jobs
\* that create it; until the operator finalizes it no job erases it.
OwnStorage == \A u \in Uids : storage[u] # "absent" => u = vol.uid /\ vol.fin

OwnPreparations ==
    /\ AtNode("PrepareVolume") => vol.fin
    /\ running.job = "PrepareVolume" => running.uid = vol.uid

NothingErased ==
    vol.uid # 0 /\ ~CacheRetired =>
        /\ NoneErasesAfter
        /\ storage[vol.uid] # "absent" => ~AtNode("UnprepareVolume")

NodeStorageInv == OwnStorage /\ OwnPreparations /\ NothingErased

\* Nothing is left at the node, nor will be.
Clean == storage[vol.uid] = "absent" /\ ~AtNode("PrepareVolume")

\* The removal with ID `jid` comes after every preparation.
SentRemoval(jid) ==
    \A i \in DOMAIN sent : sent[i].jid = jid =>
        sent[i].job = "UnprepareVolume" /\ ~SentAfter(i, "PrepareVolume")

RunningRemoval(jid) ==
    running.jid = jid =>
        /\ running.job = "UnprepareVolume" /\ running.uid = vol.uid
        /\ ~Sent("PrepareVolume")

EndedRemoval(jid) == jobs[jid].state = "ok" => Clean

\* The removal that status `v` records leaves nothing.
RemovalInv(v) ==
    Same(v) /\ v.job = "UnprepareVolume" =>
        /\ v.jid = DoneMarker => Clean
        /\ v.jid \in Jids =>
              SentRemoval(v.jid) /\ RunningRemoval(v.jid) /\ EndedRemoval(v.jid)

RemovalsInv == \A v \in {vol, volCache, rec.v} : RemovalInv(v)

\* What the storage of a Volume depends on, whatever caches lag.
ReclaimInv ==
    CopiesInv /\ FreshInv /\ ReasonInv /\ QueueInv /\ NodeStorageInv
        /\ RemovalsInv

-----------------------------------------------------------------------------
(***************************************************************************)
(* PersistentVolumes, when none is read outdated.                          *)
(***************************************************************************)
\* On its way out, or not there.
Withdrawn == pv.uid = 0 \/ (pv.deleted /\ pv.phase # "Bound")

\* The PersistentVolume belongs to the Volume there is, and names its device.
PvOwned ==
    pv.uid # 0 =>
        /\ pv.fin /\ pv.path = pv.uid
        /\ vol.uid = pv.uid /\ vol.phase # ""

\* It serves storage that exists, and is withdrawn before a job may erase it.
PvBacked ==
    /\ ~Withdrawn => storage[pv.uid] = "prepared"
    /\ AtNode("UnprepareVolume") => Withdrawn

PvInv == (pvSynced => pvCache = pv) /\ PvOwned /\ PvBacked

\* A status that tells of the health of a PersistentVolume.
Healthy(v) ==
    \/ v.phase = "Available"
    \/ v.phase = "Failed" /\ v.reason = "UnavailableError"

\* A status that says that the storage is ready.
Prepared(v) ==
    \/ v.job = "GetDeviceInfo"
    \/ /\ v.job = "PrepareVolume"
       /\ \/ v.jid = DoneMarker
          \/ v.jid \in Jids /\ jobs[v.jid].state = "ok"

\* What status `v` says of a failure.
FailureRecorded(v) ==
    v.phase = "Failed" =>
        /\ v.reason # ""
        /\ v.reason = "CreationError" => v.jid \in Jids
        /\ v.reason = "InternalError" => ~v.valid

\* The job with ID `jid` is the one that was asked for.
SentAs(jid, job) ==
    /\ \A i \in DOMAIN sent : sent[i].jid = jid => sent[i].job = job
    /\ running.jid = jid => running.job = job

DeviceInfoRight(jid, uid) == jobs[jid].state = "ok" => jobs[jid].path = uid

\* The progress that status `v` records was made.
ProgressInv(v) ==
    Same(v) =>
        /\ Healthy(v) => pv.uid = v.uid
        /\ v.job = "GetDeviceInfo" /\ v.jid = DoneMarker =>
              devices \in {0, v.uid}
        /\ v.jid \in Jids => SentAs(v.jid, v.job)
        /\ v.job = "GetDeviceInfo" /\ v.jid \in Jids =>
              DeviceInfoRight(v.jid, v.uid)
        /\ Prepared(v) /\ ~CacheRetired => storage[v.uid] = "prepared"

ProgressesInv ==
    \A v \in {vol, volCache, rec.v} : FailureRecorded(v) /\ ProgressInv(v)

\* The PersistentVolume is created while the Volume is Pending.
Creating(v) ==
    /\ Same(v) /\ ~Retired(v)
    /\ v.job = "GetDeviceInfo" /\ v.jid = DoneMarker

CreatingInv ==
    /\ Creating(volCache) => vol.phase = "Pending" \/ pv.uid # 0
    /\ rec.pc = "create" =>
          /\ Creating(rec.v)
          /\ vol.phase = "Pending" \/ pv.uid # 0
    /\ rec.pc = "submit" /\ rec.job = "GetDeviceInfo" =>
          \/ rec.v.job = "GetDeviceInfo"
          \/ rec.v.job = "PrepareVolume" /\ rec.v.jid = DoneMarker

\* The PersistentVolume a pass has seen unused, or gone, stays so.
UnusedInv ==
    /\ rec.pc = "submit" /\ rec.job = "UnprepareVolume" => Withdrawn
    /\ rec.pc = "pvFinalizer" => pv.uid = 0 \/ (pv.deleted /\ ~pv.inUse)
    /\ rec.pc = "volFinalizer" => pv.uid = 0

\* The device name is only refreshed for an Available Volume.
RefreshReason ==
    /\ rec.next = "refresh" => rec.pc = "status" /\ rec.v.phase = "Available"
    /\ rec.pc = "refresh" => rec.v.phase = "Available"

\* What a pass with a current copy makes of the phase.
PhaseInv ==
    rec.vFresh =>
        /\ rec.pc = "status" => rec.v.phase \in {vol.phase} \cup NextPhases(vol)
        /\ rec.pc = "finalizer" => vol.phase \in {"", "Pending"}
        /\ rec.pc = "submit" /\ rec.job # "UnprepareVolume" =>
              vol.phase \in {"", "Pending"}
        /\ rec.pc = "create" => vol.phase = "Pending"
        /\ rec.pc = "poll" => /\ volSynced
                              /\ vol.phase \in {"Pending", "Terminating"}
        /\ rec.pc = "status" /\ rec.v.phase = "Failed"
              /\ rec.v.reason = "CreationError" =>
              volSynced /\ vol.jid \in Jids

\* What a PersistentVolume depends on, when none is read outdated.
ServingInv ==
    PvInv /\ ProgressesInv /\ CreatingInv /\ UnusedInv /\ RefreshReason
        /\ PhaseInv

\* Together: the inductive invariant, beyond VolumeInv.
StorageInv ==
    ReclaimInv /\ ("PersistentVolume" \notin CacheMayLag => ServingInv)
=============================================================================
