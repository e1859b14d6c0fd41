-------------------------- MODULE VolumeController --------------------------
(***************************************************************************)
(* The storage operator's reconciliation loop for one Volume name          *)
(* (src/storage-operator/pkg/controller/volume/volume_controller.go), the  *)
(* Kubernetes objects it writes, the Salt jobs it spawns on the node and   *)
(* the storage these jobs create and remove.                               *)
(*                                                                         *)
(* A Volume name may be deleted and created again: each incarnation has    *)
(* its own UID (1, 2, ...), and UID 0 is "no such object".  The operator   *)
(* reads Volumes and PersistentVolumes from its informer cache and writes  *)
(* to the API server, which refuses a write made from an outdated copy.    *)
(* A reconciliation is a sequence of steps, one per interaction with the   *)
(* API server or with Salt, so that everything else interleaves with it.   *)
(***************************************************************************)
EXTENDS Naturals, Sequences

CONSTANTS
    MaxUid,         \* bound: incarnations of the Volume name
    MaxJobs,        \* bound: Salt job IDs known at a time (then a call fails)
    MaxFaults,      \* bound: crashes, failed calls, failed or lost jobs, and
                    \* deletions of the StorageClass
    CacheMayLag,    \* kinds of objects a pass may read outdated from the cache
    Mode            \* spec.mode of the Volume

ASSUME BoundsAssumption ==
    /\ MaxUid \in Nat \ {0}
    /\ MaxJobs \in Nat \ {0}
    /\ MaxFaults \in Nat
    /\ CacheMayLag \subseteq {"Volume", "PersistentVolume"}
    /\ Mode \in {"Filesystem", "Block"}

Uids  == 1 .. MaxUid
Jids  == 1 .. MaxJobs

NoId       == 0             \* the job is to be submitted
DoneMarker == MaxJobs + 1   \* JOB_DONE_MARKER: the job is over

Phases   == {"", "Pending", "Available", "Failed", "Terminating"}
Reasons  == {"", "InternalError", "CreationError", "DestructionError",
             "UnavailableError"}
PvPhases == {"Pending", "Available", "Bound", "Released", "Failed"}
StateJobs == {"PrepareVolume", "UnprepareVolume"}   \* run `state.sls`
JobNames  == StateJobs \cup {"GetDeviceInfo"}

\* The StorageClass the Volume names: no such object, one without the
\* parameter `fsType`, or one with it.
StorageClasses == {"absent", "noFsType", "usable"}

\* A Volume's metadata (uid, deletion mark, volume-protection finalizer), the
\* verdict of IsValid on its spec, and its status.  `named` says whether
\* status.deviceName is the name of the block device.
VolumeObject ==
    [uid: 0 .. MaxUid, valid: BOOLEAN, deleted: BOOLEAN, fin: BOOLEAN,
     phase: Phases, reason: Reasons, job: JobNames \cup {""},
     jid: 0 .. MaxJobs + 1, named: BOOLEAN]

NoVolume == [uid |-> 0, valid |-> FALSE, deleted |-> FALSE, fin |-> FALSE,
             phase |-> "", reason |-> "", job |-> "", jid |-> NoId,
             named |-> FALSE]

\* A PersistentVolume: UID of the Volume that controls it, UID its device path
\* is built from, deletion mark, our finalizer and Kubernetes' own, phase.
PvObject ==
    [uid: 0 .. MaxUid, path: 0 .. MaxUid, deleted: BOOLEAN,
     fin: BOOLEAN, inUse: BOOLEAN, phase: PvPhases]

NoPv == [uid |-> 0, path |-> 0, deleted |-> FALSE, fin |-> FALSE,
         inUse |-> FALSE, phase |-> "Pending"]

VARIABLES
    vol,         \* the Volume, at the API server
    volCache,    \* the operator's cached copy of it
    volSynced,   \* is the cached copy the current version?
    pv,          \* the PersistentVolume of the same name, at the API server
    pvCache,
    pvSynced,
    lastUid,     \* UID of the last incarnation created
    queued,      \* is the Volume in the controller's work queue?
    rec,         \* the reconciliation under way
    devices,     \* ReconcileVolume.devices[name]: UID of the path, 0 if unset
    sent,        \* jobs published to the minion and not started, in order
    running,     \* the `state.sls` job the minion is running
    jobs,        \* what the Salt master knows of each job
    storage,     \* backing storage of each incarnation, on the node
    pillar,      \* UID the Volume name has in the minion's pillar (0: absent)
    class,       \* the StorageClass of the Volume
    faults       \* faults that may still happen

volVars  == <<vol, volSynced>>
pvVars   == <<pv, pvSynced>>
caches   == <<volCache, pvCache>>
saltVars == <<sent, running, jobs>>
nodeVars == <<storage, pillar, class>>
vars == <<volVars, pvVars, caches, lastUid, queued, rec, devices, saltVars,
          nodeVars, faults>>

-----------------------------------------------------------------------------
(***************************************************************************)
(* The Volume's status, as the methods of volume_types.go set and read it. *)
(***************************************************************************)
SetPending(v, job, jid) ==
    [v EXCEPT !.phase = "Pending", !.reason = "", !.job = job, !.jid = jid]

SetAvailableKeepsJob(v) == [v EXCEPT !.phase = "Available", !.reason = ""]

SetAvailable(v) ==
    [v EXCEPT !.phase = "Available", !.reason = "", !.job = "", !.jid = NoId]

SetTerminating(v, job, jid) ==
    [v EXCEPT !.phase = "Terminating", !.reason = "", !.job = job,
              !.jid = jid]

SetFailedUnknownReason(v, reason) ==
    [v EXCEPT !.phase = "Failed", !.reason = "Failed"]

\* The job handle is kept, for debugging.
SetFailed(v, reason) == [v EXCEPT !.phase = "Failed", !.reason = reason]

\* Only UnavailableError is recoverable.
IsInUnrecoverableFailedState(v) ==
    v.phase = "Failed" /\ v.reason # "UnavailableError"

\* Set the state that records job `job`, by the step it belongs to.
SetInProgress(v, job, jid) ==
    IF job = "UnprepareVolume" THEN SetTerminating(v, job, jid)
                               ELSE SetPending(v, job, jid)

FailureReason(job) ==
    IF job = "UnprepareVolume" THEN "DestructionError" ELSE "CreationError"

UnusedWhenOursOnly(p) == p.fin

\* Is the PersistentVolume only used by us?  Its finalizers must be exactly
\* our own: Kubernetes' `inUse` protection must be gone.
IsPersistentVolumeUnused(p) ==
    /\ p.phase \in {"Available", "Released", "Failed"}
    /\ p.fin /\ ~p.inUse

-----------------------------------------------------------------------------
(***************************************************************************)
(* A reconciliation: the next step `pc`, its copies of the Volume and of   *)
(* the PersistentVolume (uid 0 for nil), whether each copy is still the    *)
(* current version, the job to submit, and what follows a status update.   *)
(***************************************************************************)
Steps == {"idle", "finalizer", "submit", "poll", "status", "pvStatus",
          "refresh", "create", "deletePv", "pvFinalizer", "volFinalizer"}

Reconciliation ==
    [pc: Steps, v: VolumeObject, vFresh: BOOLEAN, p: PvObject,
     pFresh: BOOLEAN, job: JobNames \cup {""},
     next: {"idle", "pvStatus", "refresh"}]

Idle == [pc |-> "idle", v |-> NoVolume, vFresh |-> FALSE, p |-> NoPv,
         pFresh |-> FALSE, job |-> "", next |-> "idle"]

\* The state of a reconciliation that has read `v` and `p` from the cache.
At(pc, v, p, job, next) ==
    [pc |-> pc, v |-> v, vFresh |-> volSynced, p |-> p,
     pFresh |-> (pvSynced /\ p.uid # 0), job |-> job, next |-> next]

\* The API server accepts a write of the Volume: a write that changes the
\* object outdates every copy.
WriteVolume(v) ==
    /\ vol' = v
    /\ volSynced' = (volSynced /\ v = vol)

WritePv(p) ==
    /\ pv' = p
    /\ pvSynced' = (pvSynced /\ p = pv)

\* The PersistentVolume once the API server has honoured its deletion mark.
Collected(p) == IF p.deleted /\ ~p.fin /\ ~p.inUse THEN NoPv ELSE p

\* A pass ends, and is to be run again (soon or after a delay) or not.
EndReconciliation == rec' = Idle /\ UNCHANGED queued
Requeue == rec' = Idle /\ queued' = TRUE

Fault == faults > 0 /\ faults' = faults - 1

-----------------------------------------------------------------------------
(***************************************************************************)
(* Reconcile: what a pass decides from the cached copies.                  *)
(***************************************************************************)
Lookup ==
    /\ rec.pc = "idle" /\ queued
    /\ volSynced \/ "Volume" \in CacheMayLag
    /\ pvSynced \/ "PersistentVolume" \in CacheMayLag

FinalizingEvenPending(v) == v.deleted

FinalizingFailed(v) == v.phase = "Failed" \/ (v.deleted /\ v.phase # "Pending")

FinalizingUntilTerminating(v) == v.deleted /\ v.phase \in {"", "Available", "Failed"}

\* A volume marked for deletion is finalized, unless a job that creates it
\* may be running.
Finalizing(v) == v.deleted /\ v.phase # "Pending"

\* Volume already deleted, or stuck until a user fixes or deletes it.
NothingToDo(v) ==
    \/ v.uid = 0
    \/ v.valid /\ ~Finalizing(v) /\ IsInUnrecoverableFailedState(v)

ReconcileNothing ==
    /\ Lookup /\ NothingToDo(volCache)
    /\ queued' = FALSE
    /\ UNCHANGED <<volVars, pvVars, caches, lastUid, rec, devices, saltVars,
                   nodeVars, faults>>

\* The steps below read a Volume and leave the queue: what they end with puts
\* it back.
Read ==
    /\ Lookup /\ ~NothingToDo(volCache)
    /\ queued' = FALSE
    /\ UNCHANGED <<volVars, pvVars, caches, lastUid, devices, saltVars,
                   nodeVars, faults>>

ReconcileInvalid ==
    /\ Read /\ ~volCache.valid
    /\ rec' = At("status", SetFailed(volCache, "InternalError"), NoPv, "",
                 "idle")

\* PersistentVolume of the same name, not controlled by this Volume.
ReconcileNameConflict ==
    /\ Lookup /\ ~NothingToDo(volCache) /\ volCache.valid
    /\ pvCache.uid \notin {0, volCache.uid}
    /\ Requeue
    /\ UNCHANGED <<volVars, pvVars, caches, lastUid, devices, saltVars,
                   nodeVars, faults>>

\* No PersistentVolume: deploy the Volume.
Deploying == volCache.valid /\ ~Finalizing(volCache) /\ pvCache.uid = 0

PrepareStorage ==
    /\ Read /\ Deploying /\ volCache.job \in {"", "PrepareVolume"}
    /\ \/ volCache.jid = NoId
          /\ rec' = At("finalizer", volCache, NoPv, "PrepareVolume", "idle")
       \/ volCache.jid = DoneMarker
          /\ rec' = At("submit", volCache, NoPv, "GetDeviceInfo", "idle")
       \/ volCache.jid \in Jids
          /\ rec' = At("poll", volCache, NoPv, "", "idle")

GetStorageSize ==
    /\ Read /\ Deploying /\ volCache.job = "GetDeviceInfo"
    /\ \/ volCache.jid = NoId
          /\ rec' = At("submit", volCache, NoPv, "GetDeviceInfo", "idle")
       \/ volCache.jid = DoneMarker
          /\ rec' = At("create", volCache, NoPv, "", "idle")
       \/ volCache.jid \in Jids
          /\ rec' = At("poll", volCache, NoPv, "", "idle")

\* A PersistentVolume exists: the Volume follows its health.
CheckHealth ==
    /\ Read /\ volCache.valid /\ ~Finalizing(volCache)
    /\ pvCache.uid = volCache.uid
    /\ \/ pvCache.phase = "Failed"
          /\ rec' = At("status", SetFailed(volCache, "UnavailableError"),
                       NoPv, "", "idle")
       \/ pvCache.phase # "Failed"
          /\ rec' = At("status", SetAvailable(volCache), NoPv, "", "refresh")

\* Finalize: delete the PersistentVolume, wait until it is unused, reclaim the
\* storage.
FinalizeDeletePv ==
    /\ Read /\ volCache.valid /\ Finalizing(volCache)
    /\ pvCache.uid = volCache.uid /\ ~pvCache.deleted
    /\ rec' = At("deletePv", volCache, NoPv, "", "idle")

FinalizeWait ==
    /\ Lookup /\ ~NothingToDo(volCache)
    /\ volCache.valid /\ Finalizing(volCache)
    /\ pvCache.uid = volCache.uid /\ pvCache.deleted
    /\ ~IsPersistentVolumeUnused(pvCache)
    /\ Requeue
    /\ UNCHANGED <<volVars, pvVars, caches, lastUid, devices, saltVars,
                   nodeVars, faults>>

VolumeFinalizerOnly(p) == "volFinalizer"

\* Once the storage is reclaimed, the PersistentVolume goes first.
FirstFinalizer(p) == IF p.uid = 0 THEN "volFinalizer" ELSE "pvFinalizer"

\* The job of a Failed volume is ignored: none is running.
ReclaimStorage ==
    /\ Read /\ volCache.valid /\ Finalizing(volCache)
    /\ \/ pvCache.uid = 0
       \/ /\ pvCache.uid = volCache.uid /\ pvCache.deleted
          /\ IsPersistentVolumeUnused(pvCache)
    /\ \/ /\ volCache.jid = NoId \/ volCache.phase = "Failed"
          /\ rec' = At("submit", volCache, NoPv, "UnprepareVolume", "idle")
       \/ /\ volCache.phase # "Failed" /\ volCache.jid = DoneMarker
          /\ rec' = At(FirstFinalizer(pvCache), volCache, pvCache, "", "idle")
       \/ /\ volCache.phase # "Failed" /\ volCache.jid \in Jids
          /\ rec' = At("poll", volCache, pvCache, "", "idle")

Reconcile ==
    \/ ReconcileNothing \/ ReconcileInvalid \/ ReconcileNameConflict
    \/ PrepareStorage \/ GetStorageSize \/ CheckHealth
    \/ FinalizeDeletePv \/ FinalizeWait \/ ReclaimStorage

-----------------------------------------------------------------------------
(***************************************************************************)
(* The steps of a reconciliation that touch the API server.  A write from  *)
(* an outdated copy is refused, and the pass is retried from the cache.    *)
(***************************************************************************)
LastWriteWins == TRUE

\* client.Update and Status().Update send the version of the copy.
IsCurrent == rec.vFresh

Conflict ==
    /\ \/ rec.pc \in {"finalizer", "status", "volFinalizer"} /\ ~IsCurrent
       \/ rec.pc \in {"pvStatus", "pvFinalizer"} /\ ~rec.pFresh
    /\ Requeue
    /\ UNCHANGED <<volVars, pvVars, caches, lastUid, devices, saltVars,
                   nodeVars, faults>>

AddVolumeFinalizer ==
    /\ rec.pc = "finalizer" /\ IsCurrent
    /\ WriteVolume([vol EXCEPT !.fin = TRUE])
    /\ rec' = [rec EXCEPT !.pc = "submit", !.v.fin = TRUE]
    /\ UNCHANGED <<pvVars, caches, lastUid, queued, devices, saltVars,
                   nodeVars, faults>>

UpdateVolumeStatus ==
    /\ rec.pc = "status" /\ IsCurrent
    /\ WriteVolume([vol EXCEPT
           !.phase = rec.v.phase, !.reason = rec.v.reason,
           !.job = rec.v.job, !.jid = rec.v.jid, !.named = rec.v.named])
    /\ \/ rec.next = "idle" /\ Requeue
       \/ /\ rec.next # "idle"
          /\ rec' = [rec EXCEPT !.pc = rec.next, !.next = "idle"]
          /\ UNCHANGED queued
    /\ UNCHANGED <<pvVars, caches, lastUid, devices, saltVars, nodeVars,
                   faults>>

\* setFailedVolumeStatus moves the PersistentVolume, if given, to Failed too.
UpdatePvStatus ==
    /\ rec.pc = "pvStatus" /\ rec.pFresh
    /\ WritePv([pv EXCEPT !.phase = "Failed"])
    /\ Requeue
    /\ UNCHANGED <<volVars, caches, lastUid, devices, saltVars, nodeVars,
                   faults>>

\* refreshDeviceName, once the synchronous Salt call has answered.
RefreshDeviceName ==
    /\ rec.pc = "refresh"
    /\ \/ rec.v.named /\ EndReconciliation
       \/ /\ ~rec.v.named
          /\ rec' = [rec EXCEPT !.pc = "status", !.v.named = TRUE]
          /\ UNCHANGED queued
    /\ UNCHANGED <<volVars, pvVars, caches, lastUid, devices, saltVars,
                   nodeVars, faults>>

NewPersistentVolume(v, path) ==
    [uid |-> v.uid, path |-> path, deleted |-> FALSE, fin |-> TRUE,
     inUse |-> TRUE, phase |-> "Pending"]

\* Errors that last as long as their cause: the StorageClass is looked up
\* first, its `fsType` once the device is known, and AlreadyExists is told by
\* the API server.
CreationFails ==
    \/ class = "absent"
    \/ devices # 0 /\ (class = "noFsType" \/ pv.uid # 0)

CreatePersistentVolume ==
    /\ rec.pc = "create"
    /\ \/ /\ CreationFails
          /\ Requeue
          /\ UNCHANGED pvVars
       \/ /\ ~CreationFails /\ devices = 0   \* the operator has restarted
          /\ rec' = [rec EXCEPT
                 !.pc = "status",
                 !.v = SetPending(rec.v, "GetDeviceInfo", NoId)]
          /\ UNCHANGED <<pvVars, queued>>
       \/ /\ ~CreationFails /\ devices # 0
          /\ WritePv(NewPersistentVolume(rec.v, devices))
          /\ rec' = [rec EXCEPT !.pc = "status", !.v = SetAvailable(rec.v)]
          /\ UNCHANGED queued
    /\ UNCHANGED <<volVars, caches, lastUid, devices, saltVars, nodeVars,
                   faults>>

\* Deletion is by name, whatever the version of the copy.
DeletePv ==
    /\ rec.pc = "deletePv"
    /\ WritePv(IF pv.uid = 0 THEN pv
                             ELSE Collected([pv EXCEPT !.deleted = TRUE]))
    /\ Requeue
    /\ UNCHANGED <<volVars, caches, lastUid, devices, saltVars, nodeVars,
                   faults>>

RemovePvFinalizer ==
    /\ rec.pc = "pvFinalizer" /\ rec.pFresh
    /\ WritePv(Collected([pv EXCEPT !.fin = FALSE]))
    /\ rec' = [rec EXCEPT !.pc = "volFinalizer", !.p = NoPv,
                          !.pFresh = FALSE]
    /\ UNCHANGED <<volVars, caches, lastUid, queued, devices, saltVars,
                   nodeVars, faults>>

\* Our finalizer was the last thing that kept the Volume.
RemoveVolumeFinalizer ==
    /\ rec.pc = "volFinalizer" /\ IsCurrent
    /\ WriteVolume(IF vol.deleted THEN NoVolume ELSE [vol EXCEPT !.fin = FALSE])
    /\ EndReconciliation
    /\ UNCHANGED <<pvVars, caches, lastUid, devices, saltVars, nodeVars,
                   faults>>

-----------------------------------------------------------------------------
(***************************************************************************)
(* The steps of a reconciliation that call Salt.                           *)
(***************************************************************************)
\* Job IDs that nothing refers to any more stand for fresh ones.
FreeJids ==
    {j \in Jids : /\ jobs[j].state \notin {"sent", "running"}
                  /\ j \notin {vol.jid, volCache.jid, rec.v.jid}}

\* The master publishes the job to the minion, in order.
Publish(j, name) ==
    /\ sent' = Append(sent, [jid |-> j, job |-> name])
    /\ jobs' = [jobs EXCEPT ![j] = [state |-> "sent", path |-> 0]]
    /\ UNCHANGED running

SubmitJob ==
    /\ rec.pc = "submit"
    /\ \E j \in FreeJids :
          /\ \A k \in FreeJids : j <= k
          /\ Publish(j, rec.job)
          /\ rec' = [rec EXCEPT !.pc = "status", !.job = "",
                                !.v = SetInProgress(rec.v, rec.job, j)]
    /\ UNCHANGED <<volVars, pvVars, caches, lastUid, queued, devices,
                   nodeVars, faults>>

\* The bound on job IDs is reached: the call fails.
SubmitRefused ==
    /\ rec.pc = "submit" /\ FreeJids = {}
    /\ Requeue
    /\ UNCHANGED <<volVars, pvVars, caches, lastUid, devices, saltVars,
                   nodeVars, faults>>

\* The job is published but its ID never reaches the operator.
SubmitAnswerLost ==
    /\ rec.pc = "submit" /\ Fault
    /\ \E j \in FreeJids :
          /\ \A k \in FreeJids : j <= k
          /\ Publish(j, rec.job)
    /\ Requeue
    /\ UNCHANGED <<volVars, pvVars, caches, lastUid, devices, nodeVars>>

\* What the master answers about the job the status refers to.
Answer == jobs[rec.v.jid]

UnknownStillRuns(state) ==
    CASE state \in {"sent", "running", "lost", "unknown"} -> "running"
      [] state = "ok" -> "success"
      [] state = "failed" -> "AsyncJobFailed"
      [] OTHER -> "error"

\* parsePollAnswer: no result yet, a success, a failure that is final, or an
\* error (unknown job, or a `state.sls` that failed to run) to be retried.
PollAnswer(state) ==
    CASE state \in {"sent", "running", "lost"} -> "running"
      [] state = "ok" -> "success"
      [] state = "failed" -> "AsyncJobFailed"
      [] OTHER -> "error"

PollStillRunning ==
    /\ rec.pc = "poll" /\ PollAnswer(Answer.state) = "running"
    /\ Requeue
    /\ UNCHANGED <<volVars, pvVars, caches, lastUid, devices, saltVars,
                   nodeVars, faults>>

FirstDeviceInfo(job) ==
    IF job = "GetDeviceInfo" /\ devices = 0 THEN Answer.path ELSE devices

\* The device info is kept in memory, by Volume name.
DeviceInfoOf(job) == IF job = "GetDeviceInfo" THEN Answer.path ELSE devices

PollSucceeded ==
    /\ rec.pc = "poll" /\ PollAnswer(Answer.state) = "success"
    /\ devices' = DeviceInfoOf(rec.v.job)
    /\ rec' = [rec EXCEPT
           !.pc = "status", !.p = NoPv, !.pFresh = FALSE,
           !.v = SetInProgress(rec.v, rec.v.job, DoneMarker)]
    /\ UNCHANGED <<volVars, pvVars, caches, lastUid, queued, saltVars,
                   nodeVars, faults>>

\* AsyncJobFailed is not retried.
PollFailed ==
    /\ rec.pc = "poll" /\ PollAnswer(Answer.state) = "AsyncJobFailed"
    /\ rec' = [rec EXCEPT
           !.pc = "status", !.v = SetFailed(rec.v, FailureReason(rec.v.job)),
           !.next = IF rec.p.uid = 0 THEN "idle" ELSE "pvStatus"]
    /\ UNCHANGED <<volVars, pvVars, caches, lastUid, queued, devices,
                   saltVars, nodeVars, faults>>

\* The job is spawned again; so is one the master could not be asked about.
PollRetry ==
    /\ rec.pc = "poll"
    /\ \/ PollAnswer(Answer.state) = "error" /\ UNCHANGED faults
       \/ PollAnswer(Answer.state) # "error" /\ Fault
    /\ rec' = [rec EXCEPT !.pc = "status", !.p = NoPv, !.pFresh = FALSE,
                          !.v = SetInProgress(rec.v, rec.v.job, NoId)]
    /\ UNCHANGED <<volVars, pvVars, caches, lastUid, queued, devices,
                   saltVars, nodeVars>>

\* Any other call that fails is retried later.
CallFails ==
    /\ rec.pc \notin {"idle", "poll"} /\ Fault
    /\ Requeue
    /\ UNCHANGED <<volVars, pvVars, caches, lastUid, devices, saltVars,
                   nodeVars>>

\* The operator crashes, or loses the leader election, and starts afresh.
OperatorRestart ==
    /\ Fault
    /\ rec' = Idle /\ queued' = TRUE /\ devices' = 0
    /\ volCache' = vol /\ volSynced' = TRUE
    /\ pvCache' = pv /\ pvSynced' = TRUE
    /\ UNCHANGED <<vol, pv, lastUid, saltVars, nodeVars>>

OperatorStep ==
    \/ Conflict \/ AddVolumeFinalizer \/ UpdateVolumeStatus \/ UpdatePvStatus
    \/ RefreshDeviceName \/ CreatePersistentVolume \/ DeletePv
    \/ RemovePvFinalizer \/ RemoveVolumeFinalizer
    \/ SubmitJob \/ SubmitRefused
    \/ PollStillRunning \/ PollSucceeded \/ PollFailed \/ PollRetry

-----------------------------------------------------------------------------
(***************************************************************************)
(* The node.  The minion starts the jobs in the order it received them and *)
(* runs at most one `state.sls` at a time: another one fails to run.  A    *)
(* job works on the incarnation the Volume name has in the pillar, read    *)
(* from the API server when a `state.sls` starts (0: not found).           *)
(***************************************************************************)
NoJob == [jid |-> 0, job |-> "", uid |-> 0]

Return(j, state, path) ==
    jobs' = [jobs EXCEPT ![j] = [state |-> state, path |-> path]]

StartStateJob ==
    /\ sent # <<>> /\ Head(sent).job \in StateJobs
    /\ running.jid = 0
    /\ running' = [jid |-> Head(sent).jid, job |-> Head(sent).job,
                   uid |-> vol.uid]
    /\ sent' = Tail(sent)
    /\ Return(Head(sent).jid, "running", 0)
    /\ UNCHANGED <<volVars, pvVars, caches, lastUid, queued, rec, devices,
                   nodeVars, faults>>

\* Another `state.sls` is running: ours, or one of another volume.
RejectStateJob ==
    /\ sent # <<>> /\ Head(sent).job \in StateJobs
    /\ \/ running.jid # 0 /\ UNCHANGED faults
       \/ running.jid = 0 /\ Fault
    /\ sent' = Tail(sent)
    /\ Return(Head(sent).jid, "rejected", 0)
    /\ UNCHANGED <<volVars, pvVars, caches, lastUid, queued, rec, devices,
                   running, nodeVars>>

\* metalk8s_volumes.device_info reads the pillar the minion has in memory,
\* and the size of the device at the persistent path.
DeviceInfo ==
    /\ sent # <<>> /\ Head(sent).job = "GetDeviceInfo"
    /\ sent' = Tail(sent)
    /\ \/ /\ pillar # 0 /\ storage[pillar] = "prepared"
          /\ Return(Head(sent).jid, "ok", pillar)
          /\ UNCHANGED faults
       \/ /\ pillar = 0 \/ storage[pillar] # "prepared"
          /\ Return(Head(sent).jid, "failed", 0)
          /\ UNCHANGED faults
       \/ /\ Fault
          /\ Return(Head(sent).jid, "failed", 0)
    /\ UNCHANGED <<volVars, pvVars, caches, lastUid, queued, rec, devices,
                   running, nodeVars>>

\* Formatting takes the file system from the StorageClass in the pillar.  A
\* block device is not formatted, nor is what is prepared already.
Preparable(u) ==
    Mode = "Block" \/ storage[u] = "prepared" \/ class = "usable"

\* The state `metalk8s.volumes`: create, format, then refresh the pillar.
FinishPrepare ==
    /\ running.job = "PrepareVolume"
    /\ \/ /\ running.uid # 0 /\ Preparable(running.uid)
          /\ storage' = [storage EXCEPT ![running.uid] = "prepared"]
          /\ pillar' = vol.uid
          /\ Return(running.jid, "ok", 0)
       \/ /\ running.uid # 0 /\ ~Preparable(running.uid)
          /\ storage' = [storage EXCEPT ![running.uid] = "created"]
          /\ Return(running.jid, "failed", 0)
          /\ UNCHANGED pillar
       \/ /\ running.uid = 0    \* the Volume is not in the pillar
          /\ Return(running.jid, "failed", 0)
          /\ UNCHANGED <<storage, pillar>>
    /\ running' = NoJob
    /\ UNCHANGED <<volVars, pvVars, caches, lastUid, queued, rec, devices,
                   sent, class, faults>>

\* What a job that does not end well may leave of a storage that was `st`.
Remains(job, st) ==
    IF job = "UnprepareVolume" THEN {st, "absent"}
    ELSE IF st = "prepared" THEN {st} ELSE {st, "created", "prepared"}

NotFoundIsCleanedUp(job) ==
    IF job = "UnprepareVolume" THEN "ok" ELSE "failed"

\* The pillar's errors are promoted to its top level, so that a `state.sls`
\* fails when the Volumes could not be listed.
FailureReturn(job) == "failed"

\* A state fails: those it requires do not run.  A failed removal removes
\* nothing.
FailStateJob ==
    /\ running.jid # 0 /\ Fault
    /\ \/ UNCHANGED storage
       \/ /\ running.job = "PrepareVolume" /\ running.uid # 0
          /\ \E st \in Remains("PrepareVolume", storage[running.uid]) :
                storage' = [storage EXCEPT ![running.uid] = st]
    /\ Return(running.jid, FailureReturn(running.job), 0)
    /\ running' = NoJob
    /\ UNCHANGED <<volVars, pvVars, caches, lastUid, queued, rec, devices,
                   sent, pillar, class>>

\* The state `metalk8s.volumes.unprepared`: a Volume that is not in the pillar
\* has nothing to clean up.
FinishUnprepare ==
    /\ running.job = "UnprepareVolume"
    /\ storage' = IF running.uid = 0
                  THEN storage
                  ELSE [storage EXCEPT ![running.uid] = "absent"]
    /\ Return(running.jid, "ok", 0)
    /\ running' = NoJob
    /\ UNCHANGED <<volVars, pvVars, caches, lastUid, queued, rec, devices,
                   sent, pillar, class, faults>>

\* The minion stops: it returns nothing for the jobs it was sent, and reads
\* its pillar again when it starts.
MinionRestart ==
    /\ Fault
    /\ running' = NoJob /\ sent' = <<>>
    /\ jobs' = [j \in Jids |->
                  IF jobs[j].state \in {"sent", "running"}
                  THEN [state |-> "lost", path |-> 0] ELSE jobs[j]]
    /\ pillar' = vol.uid
    /\ \/ UNCHANGED storage
       \/ /\ running.uid # 0
          /\ \E st \in Remains(running.job, storage[running.uid]) :
                storage' = [storage EXCEPT ![running.uid] = st]
    /\ UNCHANGED <<volVars, pvVars, caches, lastUid, queued, rec, devices,
                   class>>

\* The master's job cache expires.
ForgetJob(j) ==
    /\ jobs[j].state = "lost"
    /\ Return(j, "unknown", 0)
    /\ UNCHANGED <<volVars, pvVars, caches, lastUid, queued, rec, devices,
                   sent, running, nodeVars, faults>>

-----------------------------------------------------------------------------
(***************************************************************************)
(* Users and Kubernetes.                                                   *)
(***************************************************************************)
\* A write by somebody else outdates the copy of the pass under way.
OthersWriteVolume(v) ==
    /\ WriteVolume(v)
    /\ rec' = [rec EXCEPT !.vFresh = @ /\ v = vol]
    /\ UNCHANGED <<pvVars, caches, queued, devices, saltVars, nodeVars,
                   faults>>

OthersWritePv(p) ==
    /\ WritePv(p)
    /\ rec' = [rec EXCEPT !.pFresh = @ /\ p = pv]
    /\ UNCHANGED <<volVars, caches, lastUid, queued, devices, saltVars,
                   nodeVars, faults>>

CreateVolume ==
    /\ vol.uid = 0 /\ lastUid < MaxUid
    /\ lastUid' = lastUid + 1
    /\ \E valid \in BOOLEAN :
          OthersWriteVolume([NoVolume EXCEPT !.uid = lastUid + 1,
                                             !.valid = valid])

DeleteVolume ==
    /\ vol.uid # 0 /\ ~vol.deleted
    /\ OthersWriteVolume(IF vol.fin THEN [vol EXCEPT !.deleted = TRUE]
                                    ELSE NoVolume)
    /\ UNCHANGED lastUid

UserDeletesPv ==
    /\ pv.uid # 0 /\ ~pv.deleted
    /\ OthersWritePv([pv EXCEPT !.deleted = TRUE])

\* Kubernetes publishes a new PersistentVolume, or one that recovers.
PublishPv ==
    /\ pv.phase \in {"Pending", "Failed"} /\ pv.uid # 0
    /\ OthersWritePv([pv EXCEPT !.phase = "Available"])

BindPv ==
    /\ pv.uid # 0 /\ pv.phase = "Available" /\ ~pv.deleted
    /\ OthersWritePv([pv EXCEPT !.phase = "Bound"])

ReleasePv ==
    /\ pv.uid # 0 /\ pv.phase = "Bound"
    /\ OthersWritePv([pv EXCEPT !.phase = "Released"])

\* Somebody marks the PersistentVolume Failed.
FailPv ==
    /\ pv.uid # 0 /\ pv.phase \in {"Available", "Released"} /\ faults > 0
    /\ faults' = faults - 1
    /\ WritePv([pv EXCEPT !.phase = "Failed"])
    /\ rec' = [rec EXCEPT !.pFresh = FALSE]
    /\ UNCHANGED <<volVars, caches, lastUid, queued, devices, saltVars,
                   nodeVars>>

\* The pv-protection controller lets go of a deleted volume nobody uses.
UnprotectPv ==
    /\ pv.uid # 0 /\ pv.deleted /\ pv.inUse /\ pv.phase # "Bound"
    /\ OthersWritePv(Collected([pv EXCEPT !.inUse = FALSE]))

\* The garbage collector deletes what belonged to a Volume that is gone.
CollectPv ==
    /\ pv.uid # 0 /\ pv.uid # vol.uid /\ ~pv.deleted
    /\ OthersWritePv([pv EXCEPT !.deleted = TRUE])

\* Users delete the StorageClass, and create it again with other parameters.
\* The operator does not watch it.
DeleteStorageClass ==
    /\ class # "absent" /\ Fault
    /\ class' = "absent"
    /\ UNCHANGED <<volVars, pvVars, caches, lastUid, queued, rec, devices,
                   saltVars, storage, pillar>>

CreateStorageClass ==
    /\ class = "absent"
    /\ class' \in StorageClasses \ {"absent"}
    /\ UNCHANGED <<volVars, pvVars, caches, lastUid, queued, rec, devices,
                   saltVars, storage, pillar, faults>>

ClassChanges == DeleteStorageClass \/ CreateStorageClass

\* The informers catch up, and enqueue the Volume.
SyncVolume ==
    /\ ~volSynced
    /\ volCache' = vol /\ volSynced' = TRUE /\ queued' = TRUE
    /\ UNCHANGED <<vol, pvVars, pvCache, lastUid, rec, devices, saltVars,
                   nodeVars, faults>>

SyncPv ==
    /\ ~pvSynced
    /\ pvCache' = pv /\ pvSynced' = TRUE /\ queued' = TRUE
    /\ UNCHANGED <<volVars, pv, volCache, lastUid, rec, devices, saltVars,
                   nodeVars, faults>>

-----------------------------------------------------------------------------
Init ==
    /\ vol = NoVolume /\ volCache = NoVolume /\ volSynced = TRUE
    /\ pv = NoPv /\ pvCache = NoPv /\ pvSynced = TRUE
    /\ lastUid = 0 /\ queued = FALSE /\ rec = Idle /\ devices = 0
    /\ sent = <<>> /\ running = NoJob
    /\ jobs = [j \in Jids |-> [state |-> "unknown", path |-> 0]]
    /\ storage = [u \in Uids |-> "absent"] /\ pillar = 0 /\ class = "usable"
    /\ faults = MaxFaults

MinionStep ==
    \/ StartStateJob \/ DeviceInfo \/ FinishPrepare \/ FinishUnprepare

Cluster == PublishPv \/ ReleasePv \/ UnprotectPv \/ CollectPv

Next ==
    \/ Reconcile \/ OperatorStep
    \/ SubmitAnswerLost \/ CallFails \/ OperatorRestart
    \/ MinionStep \/ RejectStateJob \/ FailStateJob \/ MinionRestart
    \/ \E j \in Jids : ForgetJob(j)
    \/ CreateVolume \/ DeleteVolume
    \/ Cluster \/ UserDeletesPv \/ BindPv \/ FailPv
    \/ ClassChanges
    \/ SyncVolume \/ SyncPv

Spec == Init /\ [][Next]_vars

JobState == {"unknown", "sent", "running", "ok", "failed", "rejected", "lost"}

\* The shape of the state.
TypeOK ==
    /\ vol \in VolumeObject /\ volCache \in VolumeObject
    /\ volSynced \in BOOLEAN
    /\ pv \in PvObject /\ pvCache \in PvObject /\ pvSynced \in BOOLEAN
    /\ lastUid \in 0 .. MaxUid /\ queued \in BOOLEAN
    /\ rec \in Reconciliation /\ devices \in 0 .. MaxUid
    /\ sent \in Seq([jid: Jids, job: JobNames])
    /\ running \in [jid: 0 .. MaxJobs, job: StateJobs \cup {""},
                    uid: 0 .. MaxUid]
    /\ jobs \in [Jids -> [state: JobState, path: 0 .. MaxUid]]
    /\ storage \in [Uids -> {"absent", "created", "prepared"}]
    /\ pillar \in 0 .. MaxUid /\ class \in StorageClasses
    /\ faults \in 0 .. MaxFaults

-----------------------------------------------------------------------------
(***************************************************************************)
(* Safety.                                                                 *)
(***************************************************************************)
\* The job handle recorded in a status belongs to its phase: only a Volume
\* marked for deletion is Terminating or failed to be destroyed, and what a
\* pass resumes from a status is the step that wrote it.
StatusConsistent(v) ==
    /\ v.job = "" => v.jid = NoId
    /\ v.phase = "Pending" => v.job \in {"PrepareVolume", "GetDeviceInfo"}
    /\ v.phase \in {"", "Available"} => v.job = ""
    /\ v.phase = "Terminating" => v.job = "UnprepareVolume"
    /\ v.phase = "Failed" =>
         (v.job = "UnprepareVolume" <=> v.reason = "DestructionError")
    /\ v.job = "UnprepareVolume" => v.deleted

\* A Volume the operator has started to work on keeps its finalizer until it
\* is gone.
Protected(v) == v.valid /\ v.phase # "" => v.fin

JobMatchesPhase == StatusConsistent(vol) /\ Protected(vol)

\* A PersistentVolume names the device of the incarnation that owns it, never
\* of an earlier Volume of the same name whose device info the operator or the
\* minion still remembers.
PvDeviceMatchesOwner == pv.uid # 0 => pv.path = pv.uid

\* Storage a claim uses is there ("Volume objects whose PersistentVolume is
\* bound cannot be deleted", docs/developer/architecture/volume.rst).
BoundStorageKept == pv.phase = "Bound" => storage[pv.path] = "prepared"

\* So is storage that a claim may come to use: the operator only reclaims what
\* a PersistentVolume on its way out no longer serves.
ServedStorageKept ==
    pv.uid # 0 /\ (pv.phase = "Bound" \/ ~pv.deleted)
        => storage[pv.path] = "prepared"

\* "The lifetime of a Volume always span over the whole lifetime of the
\* backing PersistentVolume" (the comment in Reconcile).
VolumeOutlivesPv == pv.uid # 0 => vol.uid = pv.uid

\* Nothing stays on the node of a Volume that is gone.
NoStorageLeak ==
    \A u \in Uids : u <= lastUid /\ vol.uid # u => storage[u] = "absent"

\* Storage is only erased for the Volume that owns it, once it is marked for
\* deletion: no job that was spawned twice or forgotten does it later.
ErasedOnRequest ==
    [][\A u \in Uids :
          storage[u] # "absent" /\ storage'[u] = "absent"
              => vol.uid = u /\ vol.deleted]_vars

\* The phases an incarnation goes through.  A failure to create is final, an
\* Available Volume is not deployed again, a Terminating one never comes back.
NextPhases(v) ==
    CASE v.phase = "" -> {"Pending", "Failed", "Terminating"}
      [] v.phase = "Pending" -> {"Available", "Failed"}
      [] v.phase = "Available" -> {"Failed", "Terminating"}
      [] v.phase = "Terminating" -> {"Failed"}
      [] v.phase = "Failed" /\ v.reason = "UnavailableError" ->
            {"Available", "Terminating"}
      [] v.phase = "Failed" /\ v.reason # "UnavailableError" ->
            {"Terminating"}

PhasesFollowed ==
    [][vol.uid # 0 /\ vol'.uid = vol.uid /\ vol'.phase # vol.phase
          => vol'.phase \in NextPhases(vol)]_vars

\* The abstract lifecycle this controller implements.
Stage(u) ==
    CASE u > lastUid -> "unborn"
      [] pv.uid = u /\ (~pv.deleted \/ pv.phase = "Bound") -> "serving"
      [] \/ pv.uid = u /\ pv.deleted /\ pv.phase # "Bound"
         \/ /\ pv.uid # u /\ vol.uid = u
            /\ \/ vol.phase = "Terminating"
               \/ vol.phase = "Failed" /\ vol.reason = "DestructionError"
         -> "retired"
      [] u <= lastUid /\ vol.uid # u /\ pv.uid # u -> "gone"
      [] OTHER -> "declared"

Lifecycle == INSTANCE VolumeLifecycle
                 WITH stage <- [u \in Uids |-> Stage(u)], data <- storage

ImplementsLifecycle == Lifecycle!LifeSpec

-----------------------------------------------------------------------------
(***************************************************************************)
(* Liveness.  The work queue, the informers, the minion, the expiry of the *)
(* job cache and Kubernetes' own controllers make progress, and users end  *)
(* up deleting the claims of what they delete.  Faults are finitely many.  *)
(***************************************************************************)
Fairness ==
    /\ WF_vars(Reconcile) /\ WF_vars(OperatorStep)
    /\ WF_vars(SyncVolume) /\ WF_vars(SyncPv)
    /\ WF_vars(StartStateJob) /\ WF_vars(DeviceInfo)
    /\ WF_vars(FinishPrepare) /\ WF_vars(FinishUnprepare)
    /\ \A j \in Jids : WF_vars(ForgetJob(j))
    /\ WF_vars(PublishPv) /\ WF_vars(ReleasePv) /\ WF_vars(UnprotectPv)
    /\ WF_vars(CollectPv)

FairSpec == Spec /\ Fairness

\* The Volume waits for its StorageClass: deployVolume asks for it again and
\* again, and a Pending Volume is never finalized.
WaitsForClass(u) ==
    vol.uid = u /\ vol.phase = "Pending" /\ class # "usable"

\* A Volume marked for deletion is eventually gone, unless its StorageClass
\* vanished while it was created and nobody restores it.  The scenario "Delete
\* a Volume with missing StorageClass" of tests/post/features/volume.feature
\* makes no such exception.
DeletedVolumeGoes ==
    \A u \in Uids :
        vol.uid = u /\ vol.deleted ~> vol.uid # u \/ []WaitsForClass(u)

\* "We reschedule the request until the volume becomes either Failed or
\* Available": no Volume is left half-way, with the same exception.
VolumeSettles ==
    \A u \in Uids :
        vol.uid = u ~> \/ vol.uid # u \/ vol.phase \in {"Available", "Failed"}
                       \/ []WaitsForClass(u)
=============================================================================
