------------------------ MODULE VolumeControllerProofs ------------------------
(***************************************************************************)
(* JobMatchesPhase and HandleNeverTampered hold in every reachable state:  *)
(* they follow from VolumeInv, which each action of VolumeController       *)
(* keeps. The first part shows that every step keeps the type invariant,   *)
(* as long as the pass under way is in a state VolumeControllerInv allows; *)
(* the second that it keeps VolumeInv.                                     *)
(***************************************************************************)
EXTENDS VolumeControllerInv, TLAPS, SequenceTheorems

-----------------------------------------------------------------------------
(***************************************************************************)
(* The steps keep the type invariant.                                      *)
(***************************************************************************)
\* The numbers the state is built from.
LEMMA Bounds ==
    /\ NoId \in 0 .. MaxJobs + 1
    /\ DoneMarker \in 0 .. MaxJobs + 1
    /\ Jids \subseteq 0 .. MaxJobs + 1
    /\ Jids \subseteq 0 .. MaxJobs
    /\ 0 \in 0 .. MaxJobs
    /\ 0 \notin Jids
    /\ Uids \subseteq 0 .. MaxUid
    /\ 0 \in 0 .. MaxUid
    /\ MaxFaults \in 0 .. MaxFaults
  BY BoundsAssumption DEF NoId, DoneMarker, Jids, Uids

\* A job ID, "no job yet" and JOB_DONE_MARKER are told apart.
LEMMA Handles ==
    /\ NoId \notin Jids
    /\ DoneMarker # NoId
    /\ DoneMarker \notin Jids
  BY BoundsAssumption DEF NoId, DoneMarker, Jids

\* An object that does not exist and a pass that is over.
LEMMA NullObjects ==
    /\ NoVolume \in VolumeObject
    /\ NoPv \in PvObject
    /\ Idle \in Reconciliation
  BY BoundsAssumption
     DEF NoVolume, VolumeObject, NoPv, PvObject, Idle, Reconciliation, NoId,
         DoneMarker, Jids, Uids, Phases, Reasons, PvPhases, Steps, JobNames,
         StateJobs

\* SetPendingStatus and SetTerminatingStatus return a Volume.
LEMMA InProgressType ==
    ASSUME NEW v \in VolumeObject, NEW job \in JobNames \cup {""},
           NEW jid \in 0 .. MaxJobs + 1
    PROVE  /\ SetPending(v, job, jid) \in VolumeObject
           /\ SetTerminating(v, job, jid) \in VolumeObject
           /\ SetInProgress(v, job, jid) \in VolumeObject
  <1>1. SetPending(v, job, jid) \in VolumeObject
    BY DEF SetPending, VolumeObject, Phases, Reasons
  <1>2. SetTerminating(v, job, jid) \in VolumeObject
    BY DEF SetTerminating, VolumeObject, Phases, Reasons
  <1> QED
    BY <1>1, <1>2 DEF SetInProgress

\* So do SetAvailableStatus and SetFailedStatus.
LEMMA SettledType ==
    ASSUME NEW v \in VolumeObject
    PROVE  /\ SetAvailable(v) \in VolumeObject
           /\ \A reason \in Reasons : SetFailed(v, reason) \in VolumeObject
  <1>1. SetAvailable(v) \in VolumeObject
    BY Bounds DEF SetAvailable, VolumeObject, Phases, Reasons
  <1>2. ASSUME NEW reason \in Reasons
        PROVE  SetFailed(v, reason) \in VolumeObject
    BY DEF SetFailed, VolumeObject, Phases
  <1> QED
    BY <1>1, <1>2

\* Every reason the controller gives is a ConditionReason.
LEMMA FailureReasons ==
    /\ \A job : FailureReason(job) \in Reasons
    /\ "InternalError" \in Reasons
    /\ "UnavailableError" \in Reasons
  BY DEF FailureReason, Reasons

\* A pass that has read its copies from the cache.
LEMMA PassState ==
    ASSUME TypeOK, NEW pc \in Steps, NEW v \in VolumeObject,
           NEW p \in PvObject, NEW job \in JobNames \cup {""},
           NEW next \in {"idle", "pvStatus", "refresh"}
    PROVE  At(pc, v, p, job, next) \in Reconciliation
  BY DEF At, Reconciliation, TypeOK, PvObject

\* The names of the jobs.
LEMMA Names ==
    /\ "" \in JobNames \cup {""}
    /\ JobNames \subseteq JobNames \cup {""}
    /\ \A job \in JobNames \cup {""} : job # "" => job \in JobNames
    /\ StateJobs \subseteq JobNames
    /\ "GetDeviceInfo" \in JobNames
    /\ "PrepareVolume" \in JobNames
    /\ "UnprepareVolume" \in JobNames
  BY DEF JobNames, StateJobs

\* What the garbage collector leaves of a PersistentVolume.
LEMMA CollectedType ==
    ASSUME NEW p \in PvObject
    PROVE  Collected(p) \in PvObject
  BY NullObjects DEF Collected

\* The API server stores what it is given.
LEMMA WriteTypes ==
    ASSUME TypeOK
    PROVE  /\ \A v \in VolumeObject :
                WriteVolume(v) => vol' \in VolumeObject /\ volSynced' \in BOOLEAN
           /\ \A p \in PvObject :
                WritePv(p) => pv' \in PvObject /\ pvSynced' \in BOOLEAN
  BY DEF TypeOK, WriteVolume, WritePv

\* The objects and the pass, taken out of the type invariant.
LEMMA StateTypes ==
    TypeOK => /\ vol \in VolumeObject /\ volCache \in VolumeObject
              /\ pv \in PvObject /\ pvCache \in PvObject
              /\ rec \in Reconciliation
              /\ rec.v \in VolumeObject
              /\ rec.p \in PvObject
              /\ rec.pc \in Steps
              /\ rec.job \in JobNames \cup {""}
              /\ rec.vFresh \in BOOLEAN
              /\ rec.pFresh \in BOOLEAN
              /\ rec.next \in {"idle", "pvStatus", "refresh"}
  BY DEF TypeOK, Reconciliation

\* A pass starts in a state of the right type.
LEMMA ReconcileType ==
    ASSUME TypeOK, Reconcile
    PROVE  TypeOK'
  <1>1. rec' \in Reconciliation
    <2>1. CASE ReconcileNothing
      BY <2>1 DEF ReconcileNothing, TypeOK
    <2>2. CASE ReconcileInvalid
      <3>1. SetFailed(volCache, "InternalError") \in VolumeObject
        BY SettledType, FailureReasons, StateTypes
      <3> QED
      BY <2>2, <3>1, PassState, NullObjects
         DEF ReconcileInvalid, Steps
    <2>3. CASE ReconcileNameConflict
      BY <2>3, NullObjects DEF ReconcileNameConflict, Requeue
    <2>4. CASE PrepareStorage
      <3>1. At("finalizer", volCache, NoPv, "PrepareVolume", "idle")
                \in Reconciliation
        BY PassState, StateTypes, NullObjects, Names DEF Steps
      <3>2. At("submit", volCache, NoPv, "GetDeviceInfo", "idle") \in Reconciliation
        BY PassState, StateTypes, NullObjects, Names DEF Steps
      <3>3. At("poll", volCache, NoPv, "", "idle") \in Reconciliation
        BY PassState, StateTypes, NullObjects, Names DEF Steps
      <3> QED
        BY <2>4, <3>1, <3>2, <3>3 DEF PrepareStorage
    <2>5. CASE GetStorageSize
      <3>1. At("submit", volCache, NoPv, "GetDeviceInfo", "idle") \in Reconciliation
        BY PassState, StateTypes, NullObjects, Names DEF Steps
      <3>2. At("create", volCache, NoPv, "", "idle") \in Reconciliation
        BY PassState, StateTypes, NullObjects, Names DEF Steps
      <3>3. At("poll", volCache, NoPv, "", "idle") \in Reconciliation
        BY PassState, StateTypes, NullObjects, Names DEF Steps
      <3> QED
        BY <2>5, <3>1, <3>2, <3>3 DEF GetStorageSize
    <2>6. CASE CheckHealth
      <3>1. At("status", SetFailed(volCache, "UnavailableError"), NoPv, "",
               "idle") \in Reconciliation
        BY PassState, SettledType, FailureReasons, StateTypes, NullObjects,
           Names DEF Steps
      <3>2. At("status", SetAvailable(volCache), NoPv, "", "refresh")
                \in Reconciliation
        BY PassState, SettledType, StateTypes, NullObjects, Names DEF Steps
      <3> QED
        BY <2>6, <3>1, <3>2 DEF CheckHealth
    <2>7. CASE FinalizeDeletePv
      BY <2>7, PassState, StateTypes, NullObjects DEF FinalizeDeletePv, Steps
    <2>8. CASE FinalizeWait
      BY <2>8, NullObjects DEF FinalizeWait, Requeue
    <2>9. CASE ReclaimStorage
      <3>1. At("submit", volCache, NoPv, "UnprepareVolume", "idle") \in Reconciliation
        BY PassState, StateTypes, NullObjects, Names DEF Steps
      <3>2. At(FirstFinalizer(pvCache), volCache, pvCache, "", "idle")
                \in Reconciliation
        BY PassState, StateTypes, NullObjects, Names DEF Steps, FirstFinalizer
      <3>3. At("poll", volCache, pvCache, "", "idle") \in Reconciliation
        BY PassState, StateTypes, NullObjects, Names DEF Steps
      <3> QED
        BY <2>9, <3>1, <3>2, <3>3 DEF ReclaimStorage
    <2> QED
      BY <2>1, <2>2, <2>3, <2>4, <2>5, <2>6, <2>7, <2>8, <2>9 DEF Reconcile
  <1>2. queued' \in BOOLEAN
    BY
       DEF Reconcile, ReconcileNothing, ReconcileInvalid,
           ReconcileNameConflict, PrepareStorage, GetStorageSize,
           CheckHealth, FinalizeDeletePv, FinalizeWait, ReclaimStorage, Read,
           Requeue
  <1>3. UNCHANGED <<volVars, pvVars, caches, lastUid, devices, saltVars,
  nodeVars, faults>>
    BY
       DEF Reconcile, ReconcileNothing, ReconcileInvalid,
           ReconcileNameConflict, PrepareStorage, GetStorageSize,
           CheckHealth, FinalizeDeletePv, FinalizeWait, ReclaimStorage, Read
  <1> QED
    BY <1>1, <1>2, <1>3 DEF TypeOK, volVars, pvVars, caches, saltVars, nodeVars

\* The initial state has the right type.
THEOREM InitTypeOK == Init => TypeOK
  <1> SUFFICES ASSUME Init PROVE TypeOK
    OBVIOUS
  <1>1. sent \in Seq([jid: Jids, job: JobNames])
    BY DEF Init
  <1>2. jobs \in [Jids -> [state: JobState, path: 0 .. MaxUid]]
    BY Bounds DEF Init, JobState
  <1>3. running \in [jid: 0 .. MaxJobs, job: StateJobs \cup {""}, uid: 0 .. MaxUid]
    BY Bounds DEF Init, NoJob
  <1> QED
    BY NullObjects, Bounds, <1>1, <1>2, <1>3 DEF Init, TypeOK, StorageClasses

\* A pass that moves to another step, or whose copy is outdated.
LEMMA RecUpdates ==
    ASSUME TypeOK
    PROVE  /\ \A pc \in Steps, v \in VolumeObject :
                [rec EXCEPT !.pc = pc, !.v = v] \in Reconciliation
           /\ \A b \in BOOLEAN : [rec EXCEPT !.vFresh = b] \in Reconciliation
           /\ \A b \in BOOLEAN : [rec EXCEPT !.pFresh = b] \in Reconciliation
  BY StateTypes DEF Reconciliation

\* A fault uses up one of those left.
LEMMA FaultType == TypeOK /\ Fault => faults' \in 0 .. MaxFaults
  <1>1. TypeOK => faults \in 0 .. MaxFaults
    BY DEF TypeOK
  <1> QED
    BY <1>1, BoundsAssumption DEF Fault

\* A job is published with an ID and a name.
LEMMA PublishType ==
    ASSUME TypeOK, NEW j \in Jids, NEW name \in JobNames, Publish(j, name)
    PROVE  /\ sent' \in Seq([jid: Jids, job: JobNames])
           /\ jobs' \in [Jids -> [state: JobState, path: 0 .. MaxUid]]
           /\ running' = running
  <1>1. [jid |-> j, job |-> name] \in [jid: Jids, job: JobNames]
    OBVIOUS
  <1>2. sent' \in Seq([jid: Jids, job: JobNames])
    BY <1>1, AppendProperties DEF Publish, TypeOK
  <1>3. jobs' \in [Jids -> [state: JobState, path: 0 .. MaxUid]]
    BY Bounds DEF Publish, TypeOK, JobState
  <1> QED
    BY <1>2, <1>3 DEF Publish

\* The steps of a pass keep the type invariant.
LEMMA OperatorStepType ==
    ASSUME TypeOK, PassInv, OperatorStep
    PROVE  TypeOK'
  <1>. USE StateTypes, NullObjects
  <1>1. CASE Conflict
    BY <1>1
       DEF Conflict, Requeue, TypeOK, volVars, pvVars, caches, saltVars,
           nodeVars
  <1>2. CASE AddVolumeFinalizer
    <2>1. [vol EXCEPT !.fin = TRUE] \in VolumeObject
      BY DEF VolumeObject
    <2>2. rec' \in Reconciliation
      BY <1>2 DEF AddVolumeFinalizer, Reconciliation, VolumeObject, Steps
    <2>3. vol' \in VolumeObject /\ volSynced' \in BOOLEAN
      BY <1>2, <2>1, WriteTypes DEF AddVolumeFinalizer
    <2> QED
      BY <1>2, <2>2, <2>3
         DEF AddVolumeFinalizer, TypeOK, pvVars, caches, saltVars, nodeVars
  <1>3. CASE UpdateVolumeStatus
    <2>1. [vol EXCEPT
           !.phase = rec.v.phase, !.reason = rec.v.reason,
           !.job = rec.v.job, !.jid = rec.v.jid, !.named = rec.v.named]
             \in VolumeObject
      BY DEF VolumeObject
    <2>2. vol' \in VolumeObject /\ volSynced' \in BOOLEAN
      BY <1>3, <2>1, WriteTypes DEF UpdateVolumeStatus
    <2>3. rec' \in Reconciliation /\ queued' \in BOOLEAN
      <3>1. [rec EXCEPT !.pc = rec.next, !.next = "idle"] \in Reconciliation
        BY DEF Reconciliation, Steps
      <3> QED
        BY <1>3, <3>1 DEF UpdateVolumeStatus, Requeue, TypeOK
    <2> QED
      BY <1>3, <2>2, <2>3
         DEF UpdateVolumeStatus, TypeOK, pvVars, caches, saltVars, nodeVars
  <1>4. CASE UpdatePvStatus
    <2>1. [pv EXCEPT !.phase = "Failed"] \in PvObject
      BY DEF PvObject, PvPhases
    <2>2. pv' \in PvObject /\ pvSynced' \in BOOLEAN
      BY <1>4, <2>1, WriteTypes DEF UpdatePvStatus
    <2> QED
      BY <1>4, <2>2
         DEF UpdatePvStatus, Requeue, TypeOK, volVars, caches, saltVars,
             nodeVars
  <1>5. CASE RefreshDeviceName
    <2>1. [rec EXCEPT !.pc = "status", !.v.named = TRUE] \in Reconciliation
      BY DEF Reconciliation, VolumeObject, Steps
    <2>2. rec' \in Reconciliation /\ queued' \in BOOLEAN
      BY <1>5, <2>1 DEF RefreshDeviceName, EndReconciliation, TypeOK
    <2> QED
      BY <1>5, <2>2
         DEF RefreshDeviceName, TypeOK, volVars, pvVars, caches, saltVars,
             nodeVars
  <1>6. CASE CreatePersistentVolume
    <2>1. devices \in 0 .. MaxUid
      BY DEF TypeOK
    <2>2. NewPersistentVolume(rec.v, devices) \in PvObject
      BY <2>1 DEF NewPersistentVolume, PvObject, VolumeObject, PvPhases
    <2>3. pv' \in PvObject /\ pvSynced' \in BOOLEAN
      BY <1>6, <2>2, WriteTypes DEF CreatePersistentVolume, pvVars, TypeOK
    <2>4. rec' \in Reconciliation /\ queued' \in BOOLEAN
      <3>1. SetPending(rec.v, "GetDeviceInfo", NoId) \in VolumeObject
        BY InProgressType, Bounds, Names
      <3>2. SetAvailable(rec.v) \in VolumeObject
        BY SettledType
      <3>3. \A v \in VolumeObject :
                [rec EXCEPT !.pc = "status", !.v = v] \in Reconciliation
        BY RecUpdates DEF Steps
      <3> QED
        BY <1>6, <3>1, <3>2, <3>3 DEF CreatePersistentVolume, Requeue, TypeOK
    <2> QED
      BY <1>6, <2>3, <2>4
         DEF CreatePersistentVolume, TypeOK, volVars, caches, saltVars,
             nodeVars
  <1>7. CASE DeletePv
    <2>1. Collected([pv EXCEPT !.deleted = TRUE]) \in PvObject
      <3>1. [pv EXCEPT !.deleted = TRUE] \in PvObject
        BY DEF PvObject
      <3> QED
        BY <3>1, CollectedType
    <2>2. pv' \in PvObject /\ pvSynced' \in BOOLEAN
      BY <1>7, <2>1, WriteTypes DEF DeletePv
    <2> QED
      BY <1>7, <2>2
         DEF DeletePv, Requeue, TypeOK, volVars, caches, saltVars, nodeVars
  <1>8. CASE RemovePvFinalizer
    <2>1. Collected([pv EXCEPT !.fin = FALSE]) \in PvObject
      <3>1. [pv EXCEPT !.fin = FALSE] \in PvObject
        BY DEF PvObject
      <3> QED
        BY <3>1, CollectedType
    <2>2. pv' \in PvObject /\ pvSynced' \in BOOLEAN
      BY <1>8, <2>1, WriteTypes DEF RemovePvFinalizer
    <2>3. rec' \in Reconciliation
      BY <1>8 DEF RemovePvFinalizer, Reconciliation, Steps
    <2> QED
      BY <1>8, <2>2, <2>3
         DEF RemovePvFinalizer, TypeOK, volVars, caches, saltVars, nodeVars
  <1>9. CASE RemoveVolumeFinalizer
    <2>1. [vol EXCEPT !.fin = FALSE] \in VolumeObject
      BY DEF VolumeObject
    <2>2. vol' \in VolumeObject /\ volSynced' \in BOOLEAN
      BY <1>9, <2>1, WriteTypes DEF RemoveVolumeFinalizer
    <2> QED
      BY <1>9, <2>2
         DEF RemoveVolumeFinalizer, EndReconciliation, TypeOK, pvVars,
             caches, saltVars, nodeVars
  <1>10. CASE SubmitJob
    <2>1. PICK j \in FreeJids :
              /\ Publish(j, rec.job)
              /\ rec' = [rec EXCEPT !.pc = "status", !.job = "",
                                    !.v = SetInProgress(rec.v, rec.job, j)]
      BY <1>10 DEF SubmitJob
    <2>2. j \in Jids /\ j \in 0 .. MaxJobs + 1 /\ rec.job \in JobNames
      BY <1>10, Bounds DEF FreeJids, SubmitJob, PassInv, StepSound
    <2>3. SetInProgress(rec.v, rec.job, j) \in VolumeObject
      BY <2>2, InProgressType
    <2>4. rec' \in Reconciliation
      BY <2>1, <2>3, Names DEF Reconciliation, Steps
    <2>5. /\ sent' \in Seq([jid: Jids, job: JobNames])
          /\ jobs' \in [Jids -> [state: JobState, path: 0 .. MaxUid]]
          /\ running' = running
      BY <2>1, <2>2, PublishType
    <2> QED
      BY <1>10, <2>4, <2>5
         DEF SubmitJob, TypeOK, volVars, pvVars, caches, nodeVars
  <1>11. CASE SubmitRefused
    BY <1>11
       DEF SubmitRefused, Requeue, TypeOK, volVars, pvVars, caches, saltVars,
           nodeVars
  <1>12. CASE PollStillRunning
    BY <1>12
       DEF PollStillRunning, Requeue, TypeOK, volVars, pvVars, caches,
           saltVars, nodeVars
  <1>13. CASE PollSucceeded
    <2>1. SetInProgress(rec.v, rec.v.job, DoneMarker) \in VolumeObject
      BY InProgressType, Bounds DEF VolumeObject
    <2>2. rec' \in Reconciliation
      BY <1>13, <2>1 DEF PollSucceeded, Reconciliation, Steps
    <2>3. rec.v.jid \in Jids
      BY <1>13 DEF PollSucceeded, PassInv, StepSound
    <2>4. Answer.path \in 0 .. MaxUid
      BY <2>3 DEF Answer, TypeOK
    <2>5. devices' \in 0 .. MaxUid
      BY <1>13, <2>4 DEF PollSucceeded, DeviceInfoOf, TypeOK
    <2> QED
      BY <1>13, <2>2, <2>5
         DEF PollSucceeded, TypeOK, volVars, pvVars, caches, saltVars, nodeVars
  <1>14. CASE PollFailed
    <2>1. SetFailed(rec.v, FailureReason(rec.v.job)) \in VolumeObject
      BY SettledType, FailureReasons
    <2>2. rec' \in Reconciliation
      BY <1>14, <2>1 DEF PollFailed, Reconciliation, Steps
    <2> QED
      BY <1>14, <2>2
         DEF PollFailed, TypeOK, volVars, pvVars, caches, saltVars, nodeVars
  <1>15. CASE PollRetry
    <2>1. SetInProgress(rec.v, rec.v.job, NoId) \in VolumeObject
      BY InProgressType, Bounds DEF VolumeObject
    <2>2. rec' \in Reconciliation
      BY <1>15, <2>1 DEF PollRetry, Reconciliation, Steps
    <2>3. faults' \in 0 .. MaxFaults
      BY <1>15, FaultType DEF PollRetry, TypeOK
    <2> QED
      BY <1>15, <2>2, <2>3
         DEF PollRetry, TypeOK, volVars, pvVars, caches, saltVars, nodeVars
  <1> QED
    BY <1>1, <1>2, <1>3, <1>4, <1>5, <1>6, <1>7, <1>8, <1>9, <1>10, <1>11,
       <1>12, <1>13, <1>14, <1>15 DEF OperatorStep

\* What a job returns is recorded under its ID.
LEMMA ReturnType ==
    ASSUME TypeOK, NEW j, NEW state \in JobState, NEW path \in 0 .. MaxUid,
           Return(j, state, path)
    PROVE  jobs' \in [Jids -> [state: JobState, path: 0 .. MaxUid]]
  BY DEF Return, TypeOK

\* The minion keeps the type invariant.
LEMMA NodeType ==
    ASSUME TypeOK,
           MinionStep \/ RejectStateJob \/ FailStateJob \/ MinionRestart
              \/ \E j \in Jids : ForgetJob(j)
    PROVE  TypeOK'
  <1> USE Bounds, FaultType
  <1>0. /\ sent # <<>> => /\ Head(sent) \in [jid: Jids, job: JobNames]
                          /\ Tail(sent) \in Seq([jid: Jids, job: JobNames])
        /\ vol.uid \in 0 .. MaxUid
        /\ running \in [jid: 0 .. MaxJobs, job: StateJobs \cup {""}, uid: 0 .. MaxUid]
        /\ NoJob \in [jid: 0 .. MaxJobs, job: StateJobs \cup {""}, uid: 0 .. MaxUid]
        /\ {"unknown", "sent", "running", "ok", "failed", "rejected",
            "lost"} \subseteq JobState
    <2>1. sent # <<>> => /\ Head(sent) \in [jid: Jids, job: JobNames]
                         /\ Tail(sent) \in Seq([jid: Jids, job: JobNames])
      BY HeadTailProperties DEF TypeOK
    <2>2. vol.uid \in 0 .. MaxUid
      BY DEF TypeOK, VolumeObject
    <2> QED
      BY <2>1, <2>2 DEF TypeOK, NoJob, JobState
  <1>1. CASE StartStateJob
    <2>1. running' \in [jid: 0 .. MaxJobs, job: StateJobs \cup {""}, uid: 0 .. MaxUid]
      BY <1>0, <1>1 DEF StartStateJob
    <2>2. jobs' \in [Jids -> [state: JobState, path: 0 .. MaxUid]]
      BY <1>0, <1>1, ReturnType DEF StartStateJob
    <2> QED
      BY <1>0, <1>1, <2>1, <2>2
         DEF StartStateJob, TypeOK, volVars, pvVars, caches, nodeVars
  <1>2. CASE DeviceInfo
    <2>1. pillar \in 0 .. MaxUid
      BY DEF TypeOK
    <2>2. jobs' \in [Jids -> [state: JobState, path: 0 .. MaxUid]]
      BY <1>0, <1>2, <2>1, ReturnType DEF DeviceInfo
    <2>3. faults' \in 0 .. MaxFaults
      BY <1>2 DEF DeviceInfo, TypeOK
    <2> QED
      BY <1>0, <1>2, <2>2, <2>3
         DEF DeviceInfo, TypeOK, volVars, pvVars, caches, nodeVars
  <1>3. CASE FinishPrepare
    <2>1. jobs' \in [Jids -> [state: JobState, path: 0 .. MaxUid]]
      BY <1>0, <1>3, ReturnType DEF FinishPrepare
    <2>2. /\ storage' \in [Uids -> {"absent", "created", "prepared"}]
          /\ pillar' \in 0 .. MaxUid
      BY <1>0, <1>3 DEF FinishPrepare, TypeOK
    <2> QED
      BY <1>0, <1>3, <2>1, <2>2
         DEF FinishPrepare, TypeOK, volVars, pvVars, caches
  <1>4. CASE FinishUnprepare
    <2>1. jobs' \in [Jids -> [state: JobState, path: 0 .. MaxUid]]
      BY <1>0, <1>4, ReturnType DEF FinishUnprepare
    <2>2. storage' \in [Uids -> {"absent", "created", "prepared"}]
      BY <1>0, <1>4 DEF FinishUnprepare, TypeOK
    <2> QED
      BY <1>0, <1>4, <2>1, <2>2
         DEF FinishUnprepare, TypeOK, volVars, pvVars, caches
  <1>5. CASE RejectStateJob
    <2>1. jobs' \in [Jids -> [state: JobState, path: 0 .. MaxUid]]
      BY <1>0, <1>5, ReturnType DEF RejectStateJob
    <2>2. faults' \in 0 .. MaxFaults
      BY <1>5 DEF RejectStateJob, TypeOK
    <2> QED
      BY <1>0, <1>5, <2>1, <2>2
         DEF RejectStateJob, TypeOK, volVars, pvVars, caches, nodeVars
  <1>6. CASE FailStateJob
    <2>1. jobs' \in [Jids -> [state: JobState, path: 0 .. MaxUid]]
      BY <1>0, <1>6, ReturnType DEF FailStateJob, FailureReturn
    <2>2. storage' \in [Uids -> {"absent", "created", "prepared"}]
      BY <1>0, <1>6 DEF FailStateJob, TypeOK, Remains
    <2> QED
      BY <1>0, <1>6, <2>1, <2>2
         DEF FailStateJob, TypeOK, volVars, pvVars, caches
  <1>7. CASE MinionRestart
    <2>1. jobs' \in [Jids -> [state: JobState, path: 0 .. MaxUid]]
      BY <1>0, <1>7 DEF MinionRestart, TypeOK
    <2>2. storage' \in [Uids -> {"absent", "created", "prepared"}]
      BY <1>0, <1>7 DEF MinionRestart, TypeOK, Remains
    <2>3. sent' \in Seq([jid: Jids, job: JobNames])
      BY <1>7 DEF MinionRestart
    <2> QED
      BY <1>0, <1>7, <2>1, <2>2, <2>3
         DEF MinionRestart, TypeOK, volVars, pvVars, caches
  <1>8. CASE \E j \in Jids : ForgetJob(j)
    <2>1. jobs' \in [Jids -> [state: JobState, path: 0 .. MaxUid]]
      BY <1>0, <1>8, ReturnType DEF ForgetJob
    <2> QED
      BY <1>8, <2>1 DEF ForgetJob, TypeOK, volVars, pvVars, caches, nodeVars
  <1> QED
    BY <1>1, <1>2, <1>3, <1>4, <1>5, <1>6, <1>7, <1>8 DEF MinionStep

\* A write of somebody else keeps the type invariant.
LEMMA OthersType ==
    ASSUME TypeOK
    PROVE  /\ \A v \in VolumeObject, u \in 0 .. MaxUid :
                OthersWriteVolume(v) /\ lastUid' = u => TypeOK'
           /\ \A p \in PvObject : OthersWritePv(p) => TypeOK'
  <1>1. ASSUME NEW v \in VolumeObject, NEW u \in 0 .. MaxUid,
               OthersWriteVolume(v), lastUid' = u
        PROVE  TypeOK'
    <2>1. vol' \in VolumeObject /\ volSynced' \in BOOLEAN
      BY <1>1, WriteTypes DEF OthersWriteVolume
    <2>2. rec' \in Reconciliation
      BY <1>1, StateTypes DEF OthersWriteVolume, Reconciliation
    <2> QED
      BY <1>1, <2>1, <2>2
         DEF OthersWriteVolume, TypeOK, pvVars, caches, saltVars, nodeVars
  <1>2. ASSUME NEW p \in PvObject, OthersWritePv(p)
        PROVE  TypeOK'
    <2>1. pv' \in PvObject /\ pvSynced' \in BOOLEAN
      BY <1>2, WriteTypes DEF OthersWritePv
    <2>2. rec' \in Reconciliation
      BY <1>2, StateTypes DEF OthersWritePv, Reconciliation
    <2> QED
      BY <1>2, <2>1, <2>2
         DEF OthersWritePv, TypeOK, volVars, caches, saltVars, nodeVars
  <1> QED
    BY <1>1, <1>2

\* Users who create and delete the Volume keep it.
LEMMA UsersType ==
    ASSUME TypeOK, CreateVolume \/ DeleteVolume
    PROVE  TypeOK'
  <1>1. CASE CreateVolume
    <2>1. lastUid + 1 \in 0 .. MaxUid
      <3>1. lastUid \in 0 .. MaxUid
        BY DEF TypeOK
      <3>2. lastUid < MaxUid
        BY <1>1 DEF CreateVolume
      <3> QED
        BY <3>1, <3>2, BoundsAssumption
    <2>2. \A valid \in BOOLEAN :
              [NoVolume EXCEPT !.uid = lastUid + 1, !.valid = valid]
                  \in VolumeObject
      BY <2>1, NullObjects DEF VolumeObject
    <2> QED
      BY <1>1, <2>1, <2>2, OthersType DEF CreateVolume
  <1>2. CASE DeleteVolume
    <2>1. [vol EXCEPT !.deleted = TRUE] \in VolumeObject /\ NoVolume \in VolumeObject
      BY StateTypes, NullObjects DEF VolumeObject
    <2>2. lastUid \in 0 .. MaxUid
      BY DEF TypeOK
    <2> QED
      BY <1>2, <2>1, <2>2, OthersType DEF DeleteVolume
  <1> QED
    BY <1>1, <1>2

\* Kubernetes and the users of the PersistentVolume keep it.
LEMMA PvType ==
    ASSUME TypeOK, Cluster \/ UserDeletesPv \/ BindPv \/ FailPv
    PROVE  TypeOK'
  <1>1. /\ [pv EXCEPT !.deleted = TRUE] \in PvObject
        /\ [pv EXCEPT !.phase = "Available"] \in PvObject
        /\ [pv EXCEPT !.phase = "Bound"] \in PvObject
        /\ [pv EXCEPT !.phase = "Released"] \in PvObject
        /\ [pv EXCEPT !.phase = "Failed"] \in PvObject
        /\ [pv EXCEPT !.inUse = FALSE] \in PvObject
    BY StateTypes DEF PvObject, PvPhases
  <1>2. Collected([pv EXCEPT !.inUse = FALSE]) \in PvObject
    BY <1>1, CollectedType
  <1>3. CASE PublishPv
    BY <1>1, <1>3, OthersType DEF PublishPv
  <1>4. CASE ReleasePv
    BY <1>1, <1>4, OthersType DEF ReleasePv
  <1>5. CASE UnprotectPv
    BY <1>2, <1>5, OthersType DEF UnprotectPv
  <1>6. CASE CollectPv
    BY <1>1, <1>6, OthersType DEF CollectPv
  <1>7. CASE UserDeletesPv
    BY <1>1, <1>7, OthersType DEF UserDeletesPv
  <1>8. CASE BindPv
    BY <1>1, <1>8, OthersType DEF BindPv
  <1>9. CASE FailPv
    <2>1. pv' \in PvObject /\ pvSynced' \in BOOLEAN
      BY <1>1, <1>9, WriteTypes DEF FailPv
    <2>2. rec' \in Reconciliation
      BY <1>9, StateTypes DEF FailPv, Reconciliation
    <2>3. faults' \in 0 .. MaxFaults
      BY <1>9, FaultType DEF FailPv, Fault
    <2> QED
      BY <1>9, <2>1, <2>2, <2>3
         DEF FailPv, TypeOK, volVars, caches, saltVars, nodeVars
  <1> QED
    BY <1>3, <1>4, <1>5, <1>6, <1>7, <1>8, <1>9 DEF Cluster

\* A change of the StorageClass touches nothing else, but for the count of the
\* faults.
LEMMA ClassFrame ==
    ASSUME ClassChanges
    PROVE  UNCHANGED <<volVars, pvVars, caches, lastUid, queued, rec, devices,
                       saltVars, storage, pillar>>
  BY DEF ClassChanges, DeleteStorageClass, CreateStorageClass

LEMMA ClassType ==
    ASSUME TypeOK, ClassChanges
    PROVE  TypeOK'
  <1>1. class' \in StorageClasses
    BY DEF ClassChanges, DeleteStorageClass, CreateStorageClass, StorageClasses
  <1>2. faults' \in 0 .. MaxFaults
    BY FaultType
       DEF ClassChanges, DeleteStorageClass, CreateStorageClass, TypeOK
  <1> QED
    BY <1>1, <1>2, ClassFrame DEF TypeOK, volVars, pvVars, caches, saltVars

\* The informers keep it.
LEMMA SyncType ==
    ASSUME TypeOK, SyncVolume \/ SyncPv
    PROVE  TypeOK'
  <1>1. CASE SyncVolume
    BY <1>1 DEF SyncVolume, TypeOK, pvVars, saltVars, nodeVars
  <1>2. CASE SyncPv
    BY <1>2 DEF SyncPv, TypeOK, volVars, saltVars, nodeVars
  <1> QED
    BY <1>1, <1>2

\* The calls that fail and the restarts of the operator keep it.
LEMMA CallFaultType ==
    ASSUME TypeOK, PassInv, SubmitAnswerLost \/ CallFails \/ OperatorRestart
    PROVE  TypeOK'
  <1>1. faults' \in 0 .. MaxFaults
    BY FaultType DEF SubmitAnswerLost, CallFails, OperatorRestart
  <1>2. CASE SubmitAnswerLost
    <2>1. PICK j \in FreeJids : Publish(j, rec.job)
      BY <1>2 DEF SubmitAnswerLost
    <2>2. j \in Jids /\ rec.job \in JobNames
      BY <1>2 DEF FreeJids, SubmitAnswerLost, PassInv, StepSound
    <2>3. /\ sent' \in Seq([jid: Jids, job: JobNames])
          /\ jobs' \in [Jids -> [state: JobState, path: 0 .. MaxUid]]
          /\ running' = running
      BY <2>1, <2>2, PublishType
    <2> QED
      BY <1>1, <1>2, <2>3, NullObjects
         DEF SubmitAnswerLost, Requeue, TypeOK, volVars, pvVars, caches,
             nodeVars
  <1>3. CASE CallFails
    BY <1>1, <1>3, NullObjects
       DEF CallFails, Requeue, TypeOK, volVars, pvVars, caches, saltVars,
           nodeVars
  <1>4. CASE OperatorRestart
    BY <1>1, <1>4, NullObjects, Bounds
       DEF OperatorRestart, TypeOK, saltVars, nodeVars
  <1> QED
    BY <1>2, <1>3, <1>4

-----------------------------------------------------------------------------
(***************************************************************************)
(* The steps keep the rest of VolumeInv.                                   *)
(***************************************************************************)
\* The status setters leave the metadata alone.
LEMMA SettersKeepMetadata ==
    ASSUME NEW v \in VolumeObject
    PROVE  /\ \A job, jid : SameMetadata(SetInProgress(v, job, jid), v)
           /\ SameMetadata(SetAvailable(v), v)
           /\ \A reason : SameMetadata(SetFailed(v, reason), v)
  BY DEF SameMetadata, SetInProgress, SetPending, SetTerminating,
         SetAvailable, SetFailed, VolumeObject

\* A job is recorded with the phase of its step.
LEMMA InProgressConsistent ==
    ASSUME NEW v \in VolumeObject, NEW job \in JobNames, NEW jid,
           job = "UnprepareVolume" => v.deleted
    PROVE  StatusConsistent(SetInProgress(v, job, jid))
  <1>1. CASE job = "UnprepareVolume"
    BY <1>1 DEF SetInProgress, SetTerminating, StatusConsistent, VolumeObject
  <1>2. CASE job # "UnprepareVolume"
    <2>1. job \in {"PrepareVolume", "GetDeviceInfo"}
      BY <1>2 DEF JobNames, StateJobs
    <2> QED
      BY <1>2, <2>1
         DEF SetInProgress, SetPending, StatusConsistent, VolumeObject
  <1> QED
    BY <1>1, <1>2

\* An Available Volume has no job.
LEMMA AvailableConsistent ==
    ASSUME NEW v \in VolumeObject
    PROVE  StatusConsistent(SetAvailable(v))
  BY DEF SetAvailable, StatusConsistent, VolumeObject

\* A failure keeps the handle of the job it comes from.
LEMMA FailedConsistent ==
    ASSUME NEW v \in VolumeObject, StatusConsistent(v), NEW reason,
           v.job = "UnprepareVolume" <=> reason = "DestructionError"
    PROVE  StatusConsistent(SetFailed(v, reason))
  BY DEF SetFailed, StatusConsistent, VolumeObject

\* The object that does not exist is sound.
LEMMA NullSound ==
    /\ Sound(NoVolume) /\ NoVolume.uid = 0 /\ ~NoVolume.fin /\ NoPv.uid = 0
    /\ Idle.pc = "idle"
    /\ Idle.v = NoVolume
    /\ ~Idle.vFresh
    /\ Idle.next = "idle"
  BY DEF NoVolume, NoPv, Idle, Sound, StatusConsistent, Protected, NoId

\* A pass that is over relies on nothing.
LEMMA NullStep == StepSound(Idle.pc, Idle.v, Idle.job, Idle.next)
  <1>1. StatusConsistent(NoVolume)
    BY NullSound DEF Sound
  <1> QED
    BY <1>1 DEF StepSound, Idle, NoVolume

\* A pass that ends keeps its part of the invariant.
LEMMA IdlePass ==
    ASSUME TypeOK, rec' = Idle, lastUid' \in 0 .. MaxUid
    PROVE CopyInv' /\ PassInv'
  <1>1. 0 <= lastUid'
    BY BoundsAssumption
  <1>2. /\ rec'.v = NoVolume
        /\ rec'.pc = "idle"
        /\ rec'.vFresh = FALSE
        /\ rec'.next = "idle"
    BY DEF Idle
  <1>3. CopyInv'
    BY <1>1, <1>2, NullSound DEF CopyInv
  <1>4. PassInv'
    BY NullStep DEF PassInv
  <1> QED BY <1>3, <1>4

\* What a pass starts with.
LEMMA AtFields ==
    ASSUME NEW pc, NEW v, NEW p, NEW job, NEW next
    PROVE /\ At(pc, v, p, job, next).pc = pc
          /\ At(pc, v, p, job, next).v = v
          /\ At(pc, v, p, job, next).vFresh = volSynced
          /\ At(pc, v, p, job, next).p = p
          /\ At(pc, v, p, job, next).job = job
          /\ At(pc, v, p, job, next).next = next
  BY DEF At

\* A step that touches neither object nor cache keeps theirs.
LEMMA ObjectsUntouched ==
    ASSUME ObjectsInv, UNCHANGED <<vol, volSynced, pv, caches, lastUid>>
    PROVE ObjectsInv'
  BY DEF ObjectsInv, caches

\* The inductive invariant holds initially.
LEMMA InitInv == Init => VolumeInv
  <1> SUFFICES ASSUME Init PROVE VolumeInv
    OBVIOUS
  <1>1. ObjectsInv
    <2>1. 0 <= 0
      OBVIOUS
    <2>2. /\ vol = NoVolume
          /\ volCache = NoVolume
          /\ pv = NoPv
          /\ pvCache = NoPv
          /\ lastUid = 0
      BY DEF Init
    <2>3. vol.uid = 0 /\ volCache.uid = 0 /\ pv.uid = 0 /\ pvCache.uid = 0
      BY <2>2, NullSound
    <2>4. Sound(vol) /\ Sound(volCache) /\ ~volCache.fin
      BY <2>2, NullSound
    <2>5. /\ vol.uid <= lastUid /\ volCache.uid <= lastUid
          /\ pv.uid <= lastUid /\ pvCache.uid <= lastUid
      BY <2>1, <2>2, <2>3
    <2> QED
      BY <2>2, <2>3, <2>4, <2>5 DEF ObjectsInv, Protects
  <1>2. CopyInv
    <2>1. rec = Idle /\ lastUid = 0
      BY DEF Init
    <2>2. rec.v.uid = 0 /\ rec.v.uid <= lastUid
      BY <2>1, NullSound
    <2> QED
      BY <2>1, <2>2, NullSound DEF CopyInv
  <1>3. PassInv
    BY NullStep DEF Init, PassInv
  <1> QED
    BY <1>1, <1>2, <1>3 DEF VolumeInv

\* A pass that starts from the cache with a sound first step.
LEMMA PassStarts ==
    ASSUME TypeOK, VolumeInv, UNCHANGED <<vol, volCache, lastUid>>,
           NEW pc, NEW v, NEW p, NEW job, NEW next,
           rec' = At(pc, v, p, job, next), SameMetadata(v, volCache),
           StepSound(pc, v, job, next), pc = "create" => v.fin
    PROVE  CopyInv' /\ PassInv'
  <1>1. /\ rec'.pc = pc /\ rec'.v = v /\ rec'.vFresh = volSynced
        /\ rec'.job = job /\ rec'.next = next
    BY AtFields
  <1>2. PassInv'
    BY <1>1 DEF PassInv
  <1>3. /\ volCache.uid <= lastUid
        /\ volSynced => volCache = vol
        /\ volCache.uid # 0 /\ volCache.uid = vol.uid /\ volCache.fin => vol.fin
    BY DEF VolumeInv, ObjectsInv
  <1>4. /\ v.uid = volCache.uid /\ v.fin = volCache.fin
    BY DEF SameMetadata
  <1>5. CopyInv'
    BY <1>1, <1>3, <1>4 DEF CopyInv
  <1> QED
    BY <1>2, <1>5

\* What a pass learns from the cached Volume.
LEMMA CacheSound ==
    ASSUME TypeOK, VolumeInv
    PROVE  /\ volCache \in VolumeObject
           /\ StatusConsistent(volCache)
           /\ volCache.valid /\ volCache.phase # "" => volCache.fin
           /\ volCache.deleted => volCache.fin
           /\ ~volCache.valid => volCache.job = ""
           /\ volCache.jid # NoId => volCache.job # ""
           /\ volCache.job # "" => volCache.phase # ""
           /\ pvCache.uid # 0 /\ pvCache.uid = volCache.uid => volCache.fin
           /\ SameMetadata(volCache, volCache)
  BY StateTypes
     DEF VolumeInv, ObjectsInv, Sound, Protected, StatusConsistent, Protects,
         SameMetadata

\* Reconcile only chooses first steps that are sound.
LEMMA ReconcileInv ==
    ASSUME TypeOK, VolumeInv, Reconcile
    PROVE  VolumeInv'
  <1>1. UNCHANGED <<vol, volSynced, pv, caches, lastUid>>
    BY
       DEF Reconcile, ReconcileNothing, ReconcileInvalid,
           ReconcileNameConflict, PrepareStorage, GetStorageSize,
           CheckHealth, FinalizeDeletePv, FinalizeWait, ReclaimStorage, Read,
           volVars, pvVars
  <1>2. ObjectsInv'
    BY <1>1, ObjectsUntouched DEF VolumeInv
  <1>3. CopyInv' /\ PassInv'
    <2>0. UNCHANGED <<vol, volCache, lastUid>> /\ lastUid' \in 0 .. MaxUid
      BY <1>1 DEF caches, TypeOK
    <2>1. CASE ReconcileNothing
      BY <1>1, <2>1 DEF ReconcileNothing, CopyInv, PassInv, VolumeInv, caches
    <2>2. CASE ReconcileInvalid
      <3>1. ~volCache.valid /\ volCache.job = ""
        BY <2>2, CacheSound DEF ReconcileInvalid
      <3>2. StatusConsistent(SetFailed(volCache, "InternalError"))
        BY <3>1, CacheSound, FailedConsistent
      <3>3. /\ SetFailed(volCache, "InternalError").job = ""
            /\ ~SetFailed(volCache, "InternalError").valid
        BY <3>1, CacheSound DEF SetFailed, VolumeObject
      <3>4. StepSound("status", SetFailed(volCache, "InternalError"), "",
      "idle")
        BY <3>2, <3>3 DEF StepSound
      <3> QED
        BY <2>0, <2>2, <3>4, CacheSound, SettersKeepMetadata, PassStarts
           DEF ReconcileInvalid
    <2>3. CASE ReconcileNameConflict
      BY <2>0, <2>3, IdlePass DEF ReconcileNameConflict, Requeue
    <2>4. CASE PrepareStorage
      <3>1. volCache.valid /\ volCache.job # "UnprepareVolume"
        BY <2>4 DEF PrepareStorage, Deploying
      <3>2. CASE rec' = At("finalizer", volCache, NoPv, "PrepareVolume",
      "idle")
        <4>1. StepSound("finalizer", volCache, "PrepareVolume", "idle")
          BY <3>1, CacheSound DEF StepSound
        <4> QED
          BY <2>0, <3>2, <4>1, CacheSound, PassStarts
      <3>3. CASE /\ volCache.jid # NoId
                 /\ rec' = At("submit", volCache, NoPv, "GetDeviceInfo",
                             "idle")
        <4>1. volCache.fin
          BY <3>1, <3>3, CacheSound
        <4>2. StepSound("submit", volCache, "GetDeviceInfo", "idle")
          BY <3>1, <4>1, CacheSound, Names DEF StepSound
        <4> QED
          BY <2>0, <3>3, <4>2, CacheSound, PassStarts
      <3>4. CASE /\ volCache.jid \in Jids
                 /\ rec' = At("poll", volCache, NoPv, "", "idle")
        <4>1. volCache.fin
          BY <3>1, <3>4, CacheSound, Handles
        <4>2. StepSound("poll", volCache, "", "idle")
          BY <3>1, <3>4, <4>1, CacheSound DEF StepSound
        <4> QED
          BY <2>0, <3>4, <4>2, CacheSound, PassStarts
      <3> QED
        BY <2>4, <3>2, <3>3, <3>4, Handles DEF PrepareStorage
    <2>5. CASE GetStorageSize
      <3>1. volCache.valid /\ volCache.job = "GetDeviceInfo"
        BY <2>5 DEF GetStorageSize, Deploying
      <3>2. volCache.fin
        BY <3>1, CacheSound
      <3>3. CASE rec' = At("submit", volCache, NoPv, "GetDeviceInfo", "idle")
        <4>1. StepSound("submit", volCache, "GetDeviceInfo", "idle")
          BY <3>1, <3>2, CacheSound, Names DEF StepSound
        <4> QED
          BY <2>0, <3>3, <4>1, CacheSound, PassStarts
      <3>4. CASE rec' = At("create", volCache, NoPv, "", "idle")
        <4>1. StepSound("create", volCache, "", "idle")
          BY <3>1, <3>2, CacheSound DEF StepSound
        <4> QED
          BY <2>0, <3>2, <3>4, <4>1, CacheSound, PassStarts
      <3>5. CASE /\ volCache.jid \in Jids
                 /\ rec' = At("poll", volCache, NoPv, "", "idle")
        <4>1. StepSound("poll", volCache, "", "idle")
          BY <3>1, <3>2, <3>5, CacheSound DEF StepSound
        <4> QED
          BY <2>0, <3>5, <4>1, CacheSound, PassStarts
      <3> QED
        BY <2>5, <3>3, <3>4, <3>5 DEF GetStorageSize
    <2>6. CASE CheckHealth
      <3>1. /\ volCache.valid
            /\ volCache.deleted => volCache.phase = "Pending"
            /\ pvCache.uid = volCache.uid /\ volCache.uid # 0
        BY <2>6 DEF CheckHealth, Finalizing, Read, NothingToDo
      <3>2. volCache.fin
        BY <3>1, CacheSound
      <3>3. volCache.job # "UnprepareVolume"
        BY <3>1, CacheSound DEF StatusConsistent
      <3>4. CASE pvCache.phase = "Failed"
        <4>1. StatusConsistent(SetFailed(volCache, "UnavailableError"))
          BY <3>3, CacheSound, FailedConsistent
        <4>2. SameMetadata(SetFailed(volCache, "UnavailableError"), volCache)
          BY CacheSound, SettersKeepMetadata
        <4>3. StepSound("status", SetFailed(volCache, "UnavailableError"),
        "", "idle")
          BY <3>1, <3>2, <4>1, <4>2 DEF StepSound, SameMetadata
        <4> QED
          BY <2>0, <2>6, <3>4, <4>2, <4>3, PassStarts DEF CheckHealth
      <3>5. CASE pvCache.phase # "Failed"
        <4>1. StatusConsistent(SetAvailable(volCache))
          BY CacheSound, AvailableConsistent
        <4>2. SameMetadata(SetAvailable(volCache), volCache)
          BY CacheSound, SettersKeepMetadata
        <4>3. StepSound("status", SetAvailable(volCache), "", "refresh")
          BY <3>1, <3>2, <4>1, <4>2 DEF StepSound, SameMetadata
        <4> QED
          BY <2>0, <2>6, <3>5, <4>2, <4>3, PassStarts DEF CheckHealth
      <3> QED
        BY <3>4, <3>5
    <2>7. CASE FinalizeDeletePv
      <3>1. volCache.valid /\ volCache.deleted
        BY <2>7 DEF FinalizeDeletePv, Finalizing
      <3>2. StepSound("deletePv", volCache, "", "idle")
        BY <3>1, CacheSound DEF StepSound
      <3> QED
        BY <2>0, <2>7, <3>2, CacheSound, PassStarts DEF FinalizeDeletePv
    <2>8. CASE FinalizeWait
      BY <2>0, <2>8, IdlePass DEF FinalizeWait, Requeue
    <2>9. CASE ReclaimStorage
      <3>1. volCache.valid /\ volCache.deleted /\ volCache.fin
        BY <2>9, CacheSound DEF ReclaimStorage, Finalizing
      <3>2. StepSound("submit", volCache, "UnprepareVolume", "idle")
        BY <3>1, CacheSound, Names DEF StepSound
      <3>3. /\ StepSound(FirstFinalizer(pvCache), volCache, "", "idle")
            /\ FirstFinalizer(pvCache) # "create"
        BY <3>1, CacheSound DEF StepSound, FirstFinalizer
      <3>4. volCache.jid \in Jids => StepSound("poll", volCache, "", "idle")
        BY <3>1, CacheSound DEF StepSound
      <3>5. CASE rec' = At("submit", volCache, NoPv, "UnprepareVolume", "idle")
        BY <2>0, <3>2, <3>5, CacheSound, PassStarts
      <3>6. CASE rec' = At(FirstFinalizer(pvCache), volCache, pvCache, "",
      "idle")
        BY <2>0, <3>3, <3>6, CacheSound, PassStarts
      <3>7. CASE /\ volCache.jid \in Jids
                 /\ rec' = At("poll", volCache, pvCache, "", "idle")
        BY <2>0, <3>4, <3>7, CacheSound, PassStarts
      <3> QED
        BY <2>9, <3>5, <3>6, <3>7 DEF ReclaimStorage
    <2> QED
      BY <2>1, <2>2, <2>3, <2>4, <2>5, <2>6, <2>7, <2>8, <2>9 DEF Reconcile
  <1> QED
    BY <1>2, <1>3 DEF VolumeInv

\* A pass that goes on with a copy that differs in its status only.
LEMMA PassGoesOn ==
    ASSUME TypeOK, VolumeInv, UNCHANGED <<vol, volCache, lastUid>>,
           rec'.vFresh = rec.vFresh, SameMetadata(rec'.v, rec.v),
           StepSound(rec'.pc, rec'.v, rec'.job, rec'.next), rec'.pc # "create"
    PROVE  CopyInv' /\ PassInv'
  <1>1. /\ rec'.v.uid = rec.v.uid /\ rec'.v.valid = rec.v.valid
        /\ rec'.v.deleted = rec.v.deleted /\ rec'.v.fin = rec.v.fin
    BY DEF SameMetadata
  <1>2. CopyInv'
    BY <1>1 DEF VolumeInv, CopyInv, SameMetadata
  <1> QED
    BY <1>2 DEF PassInv

\* What a pass knows of its copy.
LEMMA PassFacts ==
    ASSUME TypeOK, VolumeInv
    PROVE  /\ rec \in Reconciliation /\ rec.v \in VolumeObject
           /\ StatusConsistent(rec.v)
           /\ SameMetadata(rec.v, rec.v)
           /\ rec.pc \notin {"idle", "status"} => rec.v.valid
           /\ rec.pc \notin {"idle", "finalizer", "status"} => rec.v.fin
           /\ rec.pc \in {"pvFinalizer", "volFinalizer"} => rec.v.deleted
           /\ rec.v.job = "UnprepareVolume" => rec.v.deleted
  BY StateTypes
     DEF VolumeInv, PassInv, StepSound, SameMetadata, StatusConsistent

\* A pass that polls has the handle of a job.
LEMMA PollFacts ==
    ASSUME TypeOK, VolumeInv, rec.pc = "poll"
    PROVE  /\ rec.v.jid \in Jids
           /\ rec.v.job \in JobNames
           /\ rec.v.job = "UnprepareVolume" => rec.v.deleted
  <1>1. rec.v.jid \in Jids /\ StatusConsistent(rec.v)
    BY DEF VolumeInv, PassInv, StepSound
  <1>2. rec.v.job # ""
    BY <1>1, Handles DEF StatusConsistent
  <1>3. rec.v.job \in JobNames
    BY <1>2, StateTypes DEF VolumeObject
  <1> QED
    BY <1>1, <1>3 DEF StatusConsistent

\* A write of the PersistentVolume that does not replace it.
LEMMA PvWritten ==
    ASSUME TypeOK, VolumeInv, UNCHANGED <<vol, volSynced, caches, lastUid>>,
           pv'.uid \in {pv.uid, 0}
    PROVE  ObjectsInv'
  <1>1. 0 <= lastUid
    <2>1. lastUid \in 0 .. MaxUid
      BY DEF TypeOK
    <2> QED
      BY <2>1, BoundsAssumption
  <1>2. CASE pv'.uid = pv.uid
    BY <1>2 DEF VolumeInv, ObjectsInv, Protects, caches
  <1>3. CASE pv'.uid = 0
    BY <1>1, <1>3 DEF VolumeInv, ObjectsInv, Protects, caches
  <1> QED
    BY <1>2, <1>3

\* The Volume is gone.
LEMMA GoneInv ==
    ASSUME TypeOK, VolumeInv, UNCHANGED <<volCache, pv, pvCache, lastUid>>,
           vol' = NoVolume, volSynced' = (volSynced /\ vol' = vol)
    PROVE  ObjectsInv'
  <1>1. 0 <= lastUid
    <2>1. lastUid \in 0 .. MaxUid
      BY DEF TypeOK
    <2> QED
      BY <2>1, BoundsAssumption
  <1>2. Sound(vol') /\ vol'.uid = 0
    BY NullSound
  <1> QED
    BY <1>1, <1>2 DEF VolumeInv, ObjectsInv, Protects

\* Garbage collection never changes the owner.
LEMMA CollectedUid ==
    ASSUME NEW p \in PvObject
    PROVE  Collected(p).uid \in {p.uid, 0}
  BY DEF Collected, NoPv

\* A job is submitted and its ID is about to be recorded.
LEMMA SubmitInv ==
    ASSUME TypeOK, VolumeInv, SubmitJob
    PROVE  VolumeInv'
  <1>1. PICK j \in FreeJids :
              rec' = [rec EXCEPT !.pc = "status", !.job = "",
                                 !.v = SetInProgress(rec.v, rec.job, j)]
    BY DEF SubmitJob
  <1>2. /\ rec.pc = "submit"
        /\ rec.v.valid
        /\ rec.v.fin
        /\ rec.job \in JobNames
        /\ rec.job = "UnprepareVolume" => rec.v.deleted
    BY DEF SubmitJob, VolumeInv, PassInv, StepSound
  <1>3. StatusConsistent(SetInProgress(rec.v, rec.job, j))
    BY <1>2, PassFacts, InProgressConsistent
  <1>4. SameMetadata(SetInProgress(rec.v, rec.job, j), rec.v)
    BY PassFacts, SettersKeepMetadata
  <1>5. /\ rec'.pc = "status"
        /\ rec'.v = SetInProgress(rec.v, rec.job, j)
        /\ rec'.vFresh = rec.vFresh
    BY <1>1, PassFacts DEF Reconciliation
  <1>6. rec'.v.valid /\ rec'.v.fin
    BY <1>2, <1>4, <1>5 DEF SameMetadata
  <1>7. StepSound(rec'.pc, rec'.v, rec'.job, rec'.next)
    BY <1>3, <1>5, <1>6 DEF StepSound
  <1>8. UNCHANGED <<vol, volSynced, pv, caches, lastUid>>
    BY DEF SubmitJob, volVars, pvVars
  <1>9. CopyInv' /\ PassInv'
    BY <1>4, <1>5, <1>7, <1>8, PassGoesOn DEF caches
  <1> QED
    BY <1>8, <1>9, ObjectsUntouched DEF VolumeInv

\* The answer to a poll is about to be recorded.
LEMMA PollInv ==
    ASSUME TypeOK, VolumeInv, PollSucceeded \/ PollFailed \/ PollRetry
    PROVE  VolumeInv'
  <1>1. rec.pc = "poll" /\ UNCHANGED <<vol, volSynced, pv, caches, lastUid>>
    BY DEF PollSucceeded, PollFailed, PollRetry, volVars, pvVars
  <1>2. rec.v.valid /\ rec.v.fin
    BY <1>1, PassFacts
  <1>3. PICK w : /\ w \in {SetInProgress(rec.v, rec.v.job, DoneMarker),
                          SetInProgress(rec.v, rec.v.job, NoId),
                          SetFailed(rec.v, FailureReason(rec.v.job))}
                 /\ rec'.pc = "status"
                 /\ rec'.v = w
                 /\ rec'.vFresh = rec.vFresh
    BY PassFacts DEF PollSucceeded, PollFailed, PollRetry, Reconciliation
  <1>4. StatusConsistent(w)
    <2>1. rec.v.job = "UnprepareVolume"
              <=> FailureReason(rec.v.job) = "DestructionError"
      BY DEF FailureReason
    <2> QED
      BY <1>1, <1>3, <2>1, PollFacts, PassFacts, InProgressConsistent,
         FailedConsistent
  <1>5. SameMetadata(w, rec.v)
    BY <1>3, PassFacts, SettersKeepMetadata
  <1>6. rec'.v.valid /\ rec'.v.fin
    BY <1>2, <1>3, <1>5 DEF SameMetadata
  <1>7. StepSound(rec'.pc, rec'.v, rec'.job, rec'.next)
    BY <1>3, <1>4, <1>6 DEF StepSound
  <1>8. CopyInv' /\ PassInv'
    BY <1>1, <1>3, <1>5, <1>7, PassGoesOn DEF caches
  <1> QED
    BY <1>1, <1>8, ObjectsUntouched DEF VolumeInv

\* addVolumeFinalizer.
LEMMA AddFinalizerInv ==
    ASSUME TypeOK, VolumeInv, AddVolumeFinalizer
    PROVE  VolumeInv'
  <1>1. /\ rec.pc = "finalizer"
        /\ rec.vFresh
        /\ UNCHANGED <<volCache, pv, pvCache, lastUid>>
        /\ vol' = [vol EXCEPT !.fin = TRUE] /\ volSynced' = (volSynced /\ vol' = vol)
        /\ rec' = [rec EXCEPT !.pc = "submit", !.v.fin = TRUE]
    BY DEF AddVolumeFinalizer, IsCurrent, WriteVolume, pvVars, caches
  <1>2. /\ vol'.uid = vol.uid
        /\ vol'.valid = vol.valid
        /\ vol'.deleted = vol.deleted
        /\ vol'.fin
        /\ vol'.phase = vol.phase
        /\ vol'.reason = vol.reason
        /\ vol'.job = vol.job
        /\ vol'.jid = vol.jid
    BY <1>1, StateTypes DEF VolumeObject
  <1>3. /\ rec'.pc = "submit"
        /\ rec'.vFresh = rec.vFresh
        /\ rec'.job = rec.job
        /\ rec'.next = rec.next
        /\ rec'.v = [rec.v EXCEPT !.fin = TRUE]
    BY <1>1, StateTypes DEF Reconciliation
  <1>4. /\ rec'.v.uid = rec.v.uid
        /\ rec'.v.valid = rec.v.valid
        /\ rec'.v.deleted = rec.v.deleted
        /\ rec'.v.fin
        /\ rec'.v.phase = rec.v.phase
        /\ rec'.v.reason = rec.v.reason
        /\ rec'.v.job = rec.v.job
        /\ rec'.v.jid = rec.v.jid
    BY <1>3, StateTypes DEF VolumeObject
  <1>5. ObjectsInv'
    <2>1. Sound(vol)'
      BY <1>2 DEF VolumeInv, ObjectsInv, Sound, StatusConsistent, Protected
    <2> QED
      BY <1>1, <1>2, <2>1 DEF VolumeInv, ObjectsInv, Protects
  <1>6. CopyInv'
    BY <1>1, <1>2, <1>3, <1>4 DEF VolumeInv, CopyInv, SameMetadata
  <1>7. StatusConsistent(rec'.v)
    BY <1>4, PassFacts DEF StatusConsistent
  <1>8. PassInv'
    BY <1>1, <1>3, <1>4, <1>7
       DEF VolumeInv, PassInv, StepSound, JobNames, StateJobs
  <1> QED
    BY <1>5, <1>6, <1>8 DEF VolumeInv

\* updateVolumeStatus: the step that writes what the lemmas above check.
LEMMA StatusInv ==
    ASSUME TypeOK, VolumeInv, UpdateVolumeStatus
    PROVE  VolumeInv'
  <1>1. /\ rec.pc = "status"
        /\ rec.vFresh
        /\ UNCHANGED <<volCache, pv, pvCache, lastUid>>
        /\ vol' = [vol EXCEPT
              !.phase = rec.v.phase, !.reason = rec.v.reason,
              !.job = rec.v.job, !.jid = rec.v.jid, !.named = rec.v.named]
        /\ volSynced' = (volSynced /\ vol' = vol)
    BY DEF UpdateVolumeStatus, IsCurrent, WriteVolume, pvVars, caches
  <1>2. /\ vol'.uid = vol.uid
        /\ vol'.valid = vol.valid
        /\ vol'.deleted = vol.deleted
        /\ vol'.fin = vol.fin
        /\ vol'.phase = rec.v.phase
        /\ vol'.reason = rec.v.reason
        /\ vol'.job = rec.v.job
        /\ vol'.jid = rec.v.jid
    BY <1>1, StateTypes DEF VolumeObject
  <1>3. /\ StatusConsistent(rec.v) /\ (rec.v.valid => rec.v.fin)
        /\ ~rec.v.valid => rec.v.job = ""
        /\ rec.v.uid = vol.uid
        /\ rec.v.valid = vol.valid
        /\ rec.v.deleted = vol.deleted
        /\ rec.v.fin = vol.fin
        /\ ~rec.v.valid => rec.next = "idle"
    BY <1>1 DEF VolumeInv, PassInv, StepSound, CopyInv, SameMetadata
  <1>4. ObjectsInv'
    <2>1. StatusConsistent(vol')
      BY <1>2, <1>3 DEF StatusConsistent
    <2>2. Sound(vol')
      BY <1>2, <1>3, <2>1 DEF VolumeInv, ObjectsInv, Sound, Protected
    <2> QED
      BY <1>1, <1>2, <2>2 DEF VolumeInv, ObjectsInv, Protects
  <1>5. CopyInv' /\ PassInv'
    <2>1. CASE rec.next = "idle"
      <3>1. lastUid' \in 0 .. MaxUid
        BY <1>1 DEF TypeOK
      <3> QED
        BY <2>1, <3>1, IdlePass DEF UpdateVolumeStatus, Requeue
    <2>2. CASE rec.next # "idle"
      <3>1. /\ rec' = [rec EXCEPT !.pc = rec.next, !.next = "idle"]
            /\ rec.next \in {"pvStatus", "refresh"}
        BY <2>2, StateTypes DEF UpdateVolumeStatus
      <3>2. /\ rec'.pc = rec.next
            /\ rec'.next = "idle"
            /\ rec'.v = rec.v
            /\ rec'.vFresh = rec.vFresh
        BY <3>1, StateTypes DEF Reconciliation
      <3>3. CopyInv'
        BY <1>1, <1>2, <3>1, <3>2 DEF VolumeInv, CopyInv, SameMetadata
      <3>4. PassInv'
        BY <1>3, <2>2, <3>1, <3>2 DEF PassInv, StepSound
      <3> QED
        BY <3>3, <3>4
    <2> QED
      BY <2>1, <2>2
  <1> QED
    BY <1>4, <1>5 DEF VolumeInv

\* createPersistentVolume.
LEMMA CreatePvInv ==
    ASSUME TypeOK, VolumeInv, CreatePersistentVolume
    PROVE  VolumeInv'
  <1>1. /\ rec.pc = "create" /\ UNCHANGED <<vol, volSynced, caches, lastUid>>
    BY DEF CreatePersistentVolume, volVars
  <1>2. rec.v.valid /\ rec.v.fin
    BY <1>1, PassFacts
  <1>3. ObjectsInv'
    <2>1. CASE pv' = pv
      BY <1>1, <2>1, ObjectsUntouched DEF VolumeInv
    <2>2. CASE pv' = NewPersistentVolume(rec.v, devices)
      <3>1. pv'.uid = rec.v.uid
        BY <2>2 DEF NewPersistentVolume
      <3>2. /\ rec.v.uid <= lastUid
            /\ rec.v.uid # 0 /\ rec.v.uid = vol.uid => vol.fin
            /\ rec.v.uid # 0 /\ rec.v.uid = volCache.uid => volCache.fin
        BY <1>1, <1>2 DEF VolumeInv, CopyInv
      <3> QED
        BY <1>1, <3>1, <3>2 DEF VolumeInv, ObjectsInv, Protects, caches
    <2> QED
      BY <2>1, <2>2 DEF CreatePersistentVolume, WritePv, pvVars
  <1>4. CopyInv' /\ PassInv'
    <2>0. lastUid' \in 0 .. MaxUid
      BY <1>1 DEF TypeOK
    <2>1. CASE rec' = Idle
      BY <2>0, <2>1, IdlePass
    <2>2. CASE rec' # Idle
      <3>1. PICK w : /\ w \in {SetPending(rec.v, "GetDeviceInfo", NoId),
                              SetAvailable(rec.v)}
                     /\ rec' = [rec EXCEPT !.pc = "status", !.v = w]
        BY <2>2 DEF CreatePersistentVolume, Requeue
      <3>2. SetPending(rec.v, "GetDeviceInfo", NoId) = SetInProgress(rec.v,
      "GetDeviceInfo", NoId)
        BY DEF SetInProgress
      <3>3. StatusConsistent(w)
        BY <3>1, <3>2, PassFacts, Names, InProgressConsistent,
           AvailableConsistent
      <3>4. SameMetadata(w, rec.v)
        BY <3>1, <3>2, PassFacts, SettersKeepMetadata
      <3>5. rec'.pc = "status" /\ rec'.v = w /\ rec'.vFresh = rec.vFresh
        BY <3>1, PassFacts DEF Reconciliation
      <3>6. rec'.v.valid /\ rec'.v.fin
        BY <1>2, <3>4, <3>5 DEF SameMetadata
      <3>7. StepSound(rec'.pc, rec'.v, rec'.job, rec'.next)
        BY <3>3, <3>5, <3>6 DEF StepSound
      <3> QED
        BY <1>1, <3>4, <3>5, <3>7, PassGoesOn DEF caches
    <2> QED
      BY <2>1, <2>2
  <1> QED
    BY <1>3, <1>4 DEF VolumeInv

\* refreshDeviceName.
LEMMA RefreshInv ==
    ASSUME TypeOK, VolumeInv, RefreshDeviceName
    PROVE  VolumeInv'
  <1>1. /\ rec.pc = "refresh"
        /\ UNCHANGED <<vol, volSynced, pv, caches, lastUid>>
    BY DEF RefreshDeviceName, volVars, pvVars
  <1>2. CopyInv' /\ PassInv'
    <2>0. lastUid' \in 0 .. MaxUid
      BY <1>1 DEF TypeOK
    <2>1. CASE rec' = Idle
      BY <2>0, <2>1, IdlePass
    <2>2. CASE rec' = [rec EXCEPT !.pc = "status", !.v.named = TRUE]
      <3>1. /\ rec'.pc = "status" /\ rec'.v = [rec.v EXCEPT !.named = TRUE]
            /\ rec'.vFresh = rec.vFresh
        BY <2>2, PassFacts DEF Reconciliation
      <3>2. SameMetadata(rec'.v, rec.v)
        BY <3>1, PassFacts DEF SameMetadata, VolumeObject
      <3>3. StatusConsistent(rec'.v)
        BY <3>1, PassFacts DEF StatusConsistent, VolumeObject
      <3>4. rec'.v.valid /\ rec'.v.fin
        BY <1>1, <3>2, PassFacts DEF SameMetadata
      <3>5. StepSound(rec'.pc, rec'.v, rec'.job, rec'.next)
        BY <3>1, <3>3, <3>4 DEF StepSound
      <3> QED
        BY <1>1, <3>1, <3>2, <3>5, PassGoesOn DEF caches
    <2> QED
      BY <2>1, <2>2 DEF RefreshDeviceName, EndReconciliation
  <1> QED
    BY <1>1, <1>2, ObjectsUntouched DEF VolumeInv

\* removePvFinalizer.
LEMMA RemovePvFinalizerInv ==
    ASSUME TypeOK, VolumeInv, RemovePvFinalizer
    PROVE  VolumeInv'
  <1>1. /\ rec.pc = "pvFinalizer"
        /\ UNCHANGED <<vol, volSynced, caches, lastUid>>
        /\ pv' = Collected([pv EXCEPT !.fin = FALSE])
        /\ rec' = [rec EXCEPT !.pc = "volFinalizer", !.p = NoPv, !.pFresh = FALSE]
    BY DEF RemovePvFinalizer, volVars, WritePv
  <1>2. pv'.uid \in {pv.uid, 0}
    <2>1. /\ [pv EXCEPT !.fin = FALSE] \in PvObject
          /\ [pv EXCEPT !.fin = FALSE].uid = pv.uid
      BY StateTypes DEF PvObject
    <2> QED
      BY <1>1, <2>1, CollectedUid
  <1>3. rec'.pc = "volFinalizer" /\ rec'.v = rec.v /\ rec'.vFresh = rec.vFresh
    BY <1>1, PassFacts DEF Reconciliation
  <1>4. StepSound(rec'.pc, rec'.v, rec'.job, rec'.next)
    BY <1>1, <1>3, PassFacts DEF StepSound
  <1>5. CopyInv' /\ PassInv'
    BY <1>1, <1>3, <1>4, PassFacts, PassGoesOn DEF caches
  <1> QED
    BY <1>1, <1>2, <1>5, PvWritten DEF VolumeInv

\* removeVolumeFinalizer only lets go of a deleted Volume.
LEMMA RemoveVolumeFinalizerInv ==
    ASSUME TypeOK, VolumeInv, RemoveVolumeFinalizer
    PROVE  VolumeInv'
  <1>1. /\ rec.pc = "volFinalizer"
        /\ rec.vFresh
        /\ UNCHANGED <<volCache, pv, pvCache, lastUid>>
        /\ vol' = (IF vol.deleted THEN NoVolume ELSE [vol EXCEPT !.fin = FALSE])
        /\ volSynced' = (volSynced /\ vol' = vol) /\ rec' = Idle
    BY
       DEF RemoveVolumeFinalizer, IsCurrent, WriteVolume, EndReconciliation,
           pvVars, caches
  <1>2. vol' = NoVolume
    <2>1. rec.v.deleted /\ SameMetadata(rec.v, vol)
      BY <1>1, PassFacts DEF VolumeInv, CopyInv
    <2> QED
      BY <1>1, <2>1 DEF SameMetadata
  <1>3. ObjectsInv'
    BY <1>1, <1>2, GoneInv
  <1>4. lastUid' \in 0 .. MaxUid
    BY <1>1 DEF TypeOK
  <1> QED
    BY <1>1, <1>3, <1>4, IdlePass DEF VolumeInv

\* The steps after which the pass is only requeued.
LEMMA EndInv ==
    ASSUME TypeOK, VolumeInv,
           \/ Conflict \/ SubmitRefused \/ PollStillRunning
           \/ SubmitAnswerLost \/ CallFails
    PROVE  VolumeInv'
  <1>1. rec' = Idle /\ UNCHANGED <<vol, volSynced, pv, caches, lastUid>>
    BY DEF Conflict, SubmitRefused, PollStillRunning, SubmitAnswerLost,
           CallFails, Requeue, volVars, pvVars
  <1>2. lastUid' \in 0 .. MaxUid
    BY <1>1 DEF TypeOK
  <1> QED
    BY <1>1, <1>2, IdlePass, ObjectsUntouched DEF VolumeInv

\* The writes of the PersistentVolume after which the pass ends.
LEMMA PvEndInv ==
    ASSUME TypeOK, VolumeInv, UpdatePvStatus \/ DeletePv
    PROVE  VolumeInv'
  <1>1. rec' = Idle /\ UNCHANGED <<vol, volSynced, caches, lastUid>>
    BY DEF UpdatePvStatus, DeletePv, Requeue, volVars
  <1>2. pv'.uid \in {pv.uid, 0}
    <2>1. CASE UpdatePvStatus
      BY <2>1, StateTypes DEF UpdatePvStatus, WritePv, PvObject
    <2>2. CASE DeletePv
      <3>1. /\ [pv EXCEPT !.deleted = TRUE] \in PvObject
            /\ [pv EXCEPT !.deleted = TRUE].uid = pv.uid
        BY StateTypes DEF PvObject
      <3>2. pv' = pv \/ pv' = Collected([pv EXCEPT !.deleted = TRUE])
        BY <2>2 DEF DeletePv, WritePv
      <3> QED
        BY <3>1, <3>2, CollectedUid
    <2> QED
      BY <2>1, <2>2
  <1>3. lastUid' \in 0 .. MaxUid
    BY <1>1 DEF TypeOK
  <1> QED
    BY <1>1, <1>2, <1>3, IdlePass, PvWritten DEF VolumeInv

\* Every step of a pass keeps the inductive invariant.
LEMMA OperatorStepInv ==
    ASSUME TypeOK, VolumeInv, OperatorStep
    PROVE  VolumeInv'
  BY EndInv, PvEndInv, AddFinalizerInv, StatusInv, CreatePvInv, RefreshInv,
     RemovePvFinalizerInv, RemoveVolumeFinalizerInv, SubmitInv, PollInv
     DEF OperatorStep

\* A step that the inductive invariant does not see.
LEMMA Untouched ==
    ASSUME VolumeInv, UNCHANGED <<vol, volSynced, pv, caches, lastUid, rec>>
    PROVE  VolumeInv'
  BY ObjectsUntouched DEF VolumeInv, CopyInv, PassInv, caches

\* Whatever happens on the node.
LEMMA NodeInv ==
    ASSUME TypeOK, VolumeInv,
           MinionStep \/ RejectStateJob \/ FailStateJob \/ MinionRestart
              \/ \E j \in Jids : ForgetJob(j)
    PROVE  VolumeInv'
  <1>1. UNCHANGED <<vol, volSynced, pv, caches, lastUid, rec>>
    BY DEF MinionStep, StartStateJob, DeviceInfo, FinishPrepare,
           FinishUnprepare, RejectStateJob, FailStateJob, MinionRestart,
           ForgetJob, volVars, pvVars
  <1> QED
    BY <1>1, Untouched

\* The operator restarts with no pass under way and fresh caches.
LEMMA RestartInv ==
    ASSUME TypeOK, VolumeInv, OperatorRestart
    PROVE  VolumeInv'
  <1>1. /\ rec' = Idle /\ volCache' = vol /\ volSynced' = TRUE /\ pvCache' = pv
        /\ UNCHANGED <<vol, pv, lastUid>>
    BY DEF OperatorRestart
  <1>2. lastUid' \in 0 .. MaxUid
    BY <1>1 DEF TypeOK
  <1>3. ObjectsInv'
    BY <1>1 DEF VolumeInv, ObjectsInv, Protects
  <1> QED
    BY <1>1, <1>2, <1>3, IdlePass DEF VolumeInv

\* Whatever others do to the PersistentVolume.
LEMMA PvOthersInv ==
    ASSUME TypeOK, VolumeInv, Cluster \/ UserDeletesPv \/ BindPv \/ FailPv
    PROVE  VolumeInv'
  <1>1. UNCHANGED <<vol, volSynced, caches, lastUid>>
    BY DEF Cluster, PublishPv, ReleasePv, UnprotectPv, CollectPv,
           UserDeletesPv, BindPv, FailPv, OthersWritePv, volVars
  <1>2. pv'.uid \in {pv.uid, 0}
    <2>1. /\ [pv EXCEPT !.deleted = TRUE].uid = pv.uid
          /\ \A phase : [pv EXCEPT !.phase = phase].uid = pv.uid
          /\ [pv EXCEPT !.inUse = FALSE].uid = pv.uid
          /\ [pv EXCEPT !.inUse = FALSE] \in PvObject
      BY StateTypes DEF PvObject
    <2>2. Collected([pv EXCEPT !.inUse = FALSE]).uid \in {pv.uid, 0}
      BY <2>1, CollectedUid
    <2>3. CASE UnprotectPv
      BY <2>2, <2>3 DEF UnprotectPv, OthersWritePv, WritePv
    <2>4. CASE CollectPv \/ UserDeletesPv
      BY <2>1, <2>4 DEF CollectPv, UserDeletesPv, OthersWritePv, WritePv
    <2>5. CASE PublishPv \/ ReleasePv \/ BindPv \/ FailPv
      BY <2>1, <2>5 DEF PublishPv, ReleasePv, BindPv, FailPv, OthersWritePv,
                        WritePv
    <2> QED
      BY <2>3, <2>4, <2>5 DEF Cluster
  <1>3. /\ rec'.pc = rec.pc /\ rec'.v = rec.v /\ rec'.vFresh = rec.vFresh
        /\ rec'.job = rec.job /\ rec'.next = rec.next
    BY StateTypes DEF Cluster, PublishPv, ReleasePv, UnprotectPv, CollectPv,
           UserDeletesPv, BindPv, FailPv, OthersWritePv, Reconciliation
  <1>4. CopyInv' /\ PassInv'
    BY <1>1, <1>3 DEF VolumeInv, CopyInv, PassInv, caches
  <1> QED
    BY <1>1, <1>2, <1>4, PvWritten DEF VolumeInv

\* The StorageClass changes.
LEMMA ClassInv ==
    ASSUME TypeOK, VolumeInv, ClassChanges
    PROVE  VolumeInv'
  BY ClassFrame, Untouched DEF volVars, pvVars

\* The informers catch up.
LEMMA SyncInv ==
    ASSUME TypeOK, VolumeInv, SyncVolume \/ SyncPv
    PROVE  VolumeInv'
  <1>1. CASE SyncVolume
    <2>1. /\ volCache' = vol /\ volSynced' = TRUE
          /\ UNCHANGED <<vol, pv, pvCache, lastUid, rec>>
      BY <1>1 DEF SyncVolume, pvVars
    <2>2. ObjectsInv'
      BY <2>1 DEF VolumeInv, ObjectsInv, Protects
    <2>3. rec.pc = "create" => rec.v.fin
      BY PassFacts
    <2>5. CopyInv'
      BY <2>1, <2>3 DEF VolumeInv, CopyInv
    <2> QED
      BY <2>1, <2>2, <2>5 DEF VolumeInv, PassInv
  <1>2. CASE SyncPv
    <2>1. /\ pvCache' = pv
          /\ UNCHANGED <<vol, volCache, volSynced, pv, lastUid, rec>>
      BY <1>2 DEF SyncPv, volVars
    <2>2. ObjectsInv'
      BY <2>1 DEF VolumeInv, ObjectsInv, Protects
    <2> QED
      BY <2>1, <2>2 DEF VolumeInv, CopyInv, PassInv
  <1> QED
    BY <1>1, <1>2

\* A user creates or deletes the Volume.
LEMMA UsersInv ==
    ASSUME TypeOK, VolumeInv, CreateVolume \/ DeleteVolume
    PROVE  VolumeInv'
  <1>1. CASE CreateVolume
    <2>1. PICK valid \in BOOLEAN :
              OthersWriteVolume([NoVolume EXCEPT !.uid = lastUid + 1,
              !.valid = valid])
      BY <1>1 DEF CreateVolume
    <2>2. /\ vol' = [NoVolume EXCEPT !.uid = lastUid + 1, !.valid = valid]
          /\ volSynced' = (volSynced /\ vol' = vol)
          /\ rec' = [rec EXCEPT !.vFresh = rec.vFresh /\ vol' = vol]
          /\ UNCHANGED <<pv, caches>> /\ lastUid' = lastUid + 1 /\ vol.uid = 0
      BY <1>1, <2>1 DEF CreateVolume, OthersWriteVolume, WriteVolume, pvVars
    <2>3. /\ vol'.uid = lastUid'
          /\ vol'.phase = ""
          /\ vol'.job = ""
          /\ vol'.jid = NoId
          /\ ~vol'.deleted /\ ~vol'.fin
      BY <2>2 DEF NoVolume
    <2>4. /\ lastUid \in Nat /\ pv.uid \in Nat /\ pvCache.uid \in Nat
          /\ volCache.uid \in Nat /\ rec.v.uid \in Nat
      <3>1. /\ lastUid \in 0 .. MaxUid
            /\ pv.uid \in 0 .. MaxUid
            /\ pvCache.uid \in 0 .. MaxUid
            /\ volCache.uid \in 0 .. MaxUid /\ rec.v.uid \in 0 .. MaxUid
        BY StateTypes DEF TypeOK, VolumeObject, PvObject
      <3> QED
        BY <3>1, BoundsAssumption
    <2>5. /\ pv.uid <= lastUid /\ pvCache.uid <= lastUid
          /\ volCache.uid <= lastUid /\ rec.v.uid <= lastUid
      BY DEF VolumeInv, ObjectsInv, CopyInv
    <2>6. \A u \in {pv.uid, pvCache.uid, volCache.uid, rec.v.uid} :
              u <= lastUid' /\ u # lastUid'
      BY <2>2, <2>4, <2>5
    <2>7. vol' # vol
      <3>1. lastUid + 1 # 0
        BY <2>4
      <3> QED
        BY <2>2, <2>3, <3>1
    <2>8. lastUid' <= lastUid'
      BY <2>2, <2>4
    <2>9. Sound(vol')
      BY <2>3 DEF Sound, StatusConsistent, Protected
    <2>10. ObjectsInv'
      BY <2>2, <2>3, <2>6, <2>7, <2>8, <2>9
         DEF VolumeInv, ObjectsInv, Protects, caches
    <2>11. /\ rec'.pc = rec.pc /\ rec'.v = rec.v /\ rec'.vFresh = FALSE
           /\ rec'.job = rec.job /\ rec'.next = rec.next
      BY <2>2, <2>7, StateTypes DEF Reconciliation
    <2>12. CopyInv'
      BY <2>2, <2>3, <2>6, <2>11 DEF VolumeInv, CopyInv, caches
    <2> QED
      BY <2>10, <2>11, <2>12 DEF VolumeInv, PassInv
  <1>2. CASE DeleteVolume
    <2>1. PICK v : /\ v = IF vol.fin THEN [vol EXCEPT !.deleted = TRUE] ELSE NoVolume
                   /\ OthersWriteVolume(v)
      BY <1>2 DEF DeleteVolume
    <2>2. /\ vol' = v
          /\ volSynced' = (volSynced /\ vol' = vol)
          /\ rec' = [rec EXCEPT !.vFresh = rec.vFresh /\ vol' = vol]
          /\ UNCHANGED <<volCache, pv, pvCache, lastUid>>
      BY <1>2, <2>1
         DEF DeleteVolume, OthersWriteVolume, WriteVolume, pvVars, caches
    <2>3. /\ rec'.pc = rec.pc
          /\ rec'.v = rec.v
          /\ rec'.vFresh = (rec.vFresh /\ vol' = vol)
          /\ rec'.job = rec.job /\ rec'.next = rec.next
      BY <2>2, StateTypes DEF Reconciliation
    <2>4. CASE vol.fin
      <3>1. /\ vol'.uid = vol.uid
            /\ vol'.valid = vol.valid
            /\ vol'.deleted
            /\ vol'.fin
            /\ vol'.phase = vol.phase /\ vol'.reason = vol.reason
            /\ vol'.job = vol.job /\ vol'.jid = vol.jid
        BY <2>1, <2>2, <2>4, StateTypes DEF VolumeObject
      <3>2. Sound(vol')
        BY <3>1 DEF VolumeInv, ObjectsInv, Sound, StatusConsistent, Protected
      <3>3. ObjectsInv'
        BY <2>2, <3>1, <3>2 DEF VolumeInv, ObjectsInv, Protects
      <3>4. CopyInv'
        BY <2>2, <2>3, <3>1 DEF VolumeInv, CopyInv
      <3> QED
        BY <2>3, <3>3, <3>4 DEF VolumeInv, PassInv
    <2>5. CASE ~vol.fin
      <3>1. vol' = NoVolume
        BY <2>1, <2>2, <2>5
      <3>2. ObjectsInv'
        BY <2>2, <3>1, GoneInv
      <3>3. CopyInv'
        BY <2>2, <2>3, <3>1, NullSound DEF VolumeInv, CopyInv
      <3> QED
        BY <2>3, <3>2, <3>3 DEF VolumeInv, PassInv
    <2> QED
      BY <2>4, <2>5
  <1> QED
    BY <1>1, <1>2

\* Every step keeps the type invariant.
LEMMA NextType == TypeOK /\ VolumeInv /\ [Next]_vars => TypeOK'
  <1> SUFFICES ASSUME TypeOK, VolumeInv, [Next]_vars
               PROVE  TypeOK'
    OBVIOUS
  <1>1. CASE UNCHANGED vars
    BY <1>1 DEF vars, TypeOK, volVars, pvVars, caches, saltVars, nodeVars
  <1>2. CASE Next
    BY <1>2, ReconcileType, OperatorStepType, CallFaultType, NodeType,
       UsersType, PvType, ClassType, SyncType DEF Next, VolumeInv
  <1> QED
    BY <1>1, <1>2

\* Every step keeps the inductive invariant.
LEMMA NextInv == TypeOK /\ VolumeInv /\ [Next]_vars => VolumeInv'
  <1> SUFFICES ASSUME TypeOK, VolumeInv, [Next]_vars
               PROVE  VolumeInv'
    OBVIOUS
  <1>1. CASE UNCHANGED vars
    BY <1>1, Untouched DEF vars, volVars, pvVars
  <1>2. CASE Next
    BY <1>2, ReconcileInv, OperatorStepInv, EndInv, RestartInv, NodeInv,
       UsersInv, PvOthersInv, ClassInv, SyncInv DEF Next
  <1> QED
    BY <1>1, <1>2

\* The type invariant and the inductive invariant hold in every reachable
\* state, whatever the number of incarnations, jobs and faults and whichever
\* caches lag.
THEOREM Invariants == Spec => [](TypeOK /\ VolumeInv)
  <1>1. Init => TypeOK /\ VolumeInv
    BY InitTypeOK, InitInv
  <1>2. TypeOK /\ VolumeInv /\ [Next]_vars => (TypeOK /\ VolumeInv)'
    BY NextType, NextInv
  <1> QED
    BY <1>1, <1>2, PTL DEF Spec

\* Every reachable state has the shape the model declares.
THEOREM TypeCorrect == Spec => []TypeOK
  BY Invariants, PTL

\* The job handle recorded in a status belongs to its phase, and a Volume the
\* operator works on has its finalizer (status and finalizer handling of
\* volume_controller.go).
THEOREM JobHandlesCorrect == Spec => []JobMatchesPhase
  <1>1. VolumeInv => JobMatchesPhase
    BY DEF VolumeInv, ObjectsInv, Sound, JobMatchesPhase
  <1> QED
    BY <1>1, Invariants, PTL

\* deployVolume's "tampered" branch is unreachable, and pollSaltJob is only
\* called with the handle of a job that was spawned.
THEOREM NoTampering == Spec => []HandleNeverTampered
  <1>1. TypeOK /\ VolumeInv => HandleNeverTampered
    <2> SUFFICES ASSUME TypeOK, VolumeInv PROVE HandleNeverTampered
      OBVIOUS
    <2>1. Deploying => volCache.job \in {"", "PrepareVolume", "GetDeviceInfo"}
      <3> SUFFICES ASSUME Deploying
                   PROVE  volCache.job \in {"", "PrepareVolume", "GetDeviceInfo"}
        OBVIOUS
      <3>1. StatusConsistent(volCache) /\ volCache \in VolumeObject
        BY CacheSound
      <3>2. volCache.job # "UnprepareVolume"
        BY <3>1 DEF Deploying, Finalizing, StatusConsistent
      <3> QED
        BY <3>1, <3>2 DEF VolumeObject, JobNames, StateJobs
    <2> QED
      BY <2>1, PollFacts DEF HandleNeverTampered
  <1> QED
    BY <1>1, Invariants, PTL
===============================================================================
