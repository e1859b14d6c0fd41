------------------------ MODULE VolumeControllerInv ------------------------
(***************************************************************************)
(* Why JobMatchesPhase holds: the inductive invariant that TLC checks on a *)
(* small instance and VolumeControllerProofs proves for all of them.       *)
(***************************************************************************)
EXTENDS VolumeController

\* What every version of a Volume satisfies.  One that is marked for deletion
\* is there because of its finalizer; no job is ever spawned for an invalid
\* one.
Sound(v) ==
    /\ StatusConsistent(v)
    /\ Protected(v)
    /\ v.deleted => v.fin
    /\ ~v.valid => v.job = ""

\* A PersistentVolume only exists for an incarnation that has its finalizer.
Protects(v, p) == p.uid # 0 /\ p.uid = v.uid => v.fin

\* The objects and the informer's copies of them.  A copy is never of an
\* incarnation to come, nor does it have a finalizer the object has lost.
ObjectsInv ==
    /\ Sound(vol) /\ Sound(volCache)
    /\ vol.uid <= lastUid /\ volCache.uid <= lastUid
    /\ pv.uid <= lastUid /\ pvCache.uid <= lastUid
    /\ volSynced => volCache = vol
    /\ volCache.uid # 0 /\ volCache.uid = vol.uid /\ volCache.fin => vol.fin
    /\ Protects(vol, pv) /\ Protects(vol, pvCache)
    /\ Protects(volCache, pv) /\ Protects(volCache, pvCache)

SameMetadata(v, w) ==
    /\ v.uid = w.uid /\ v.valid = w.valid
    /\ v.deleted = w.deleted /\ v.fin = w.fin

\* A pass whose copy is current has its metadata right: it only changes the
\* status of its copy.
CopyInv ==
    /\ rec.v.uid <= lastUid
    /\ rec.vFresh => SameMetadata(rec.v, vol)
    /\ rec.v.uid # 0 /\ rec.v.uid = vol.uid /\ rec.v.fin => vol.fin
    /\ rec.pc = "create" /\ rec.v.uid # 0 /\ rec.v.uid = volCache.uid
          => volCache.fin

\* What a pass whose copy is `v` may rely on when its next step is `pc`, that
\* spawns `job` or that `next` follows.
StepSound(pc, v, job, next) ==
    /\ StatusConsistent(v)
    /\ pc \notin {"idle", "status"} => v.valid
    /\ ~v.valid => next = "idle" /\ v.job = ""
    /\ pc \notin {"idle", "finalizer"} /\ v.valid => v.fin
    /\ pc = "finalizer" => job = "PrepareVolume"
    /\ pc = "submit" => job \in JobNames
    /\ pc = "submit" /\ job = "UnprepareVolume" => v.deleted
    /\ pc \in {"pvFinalizer", "volFinalizer"} => v.deleted
    /\ pc = "poll" => v.jid \in Jids

PassInv == StepSound(rec.pc, rec.v, rec.job, rec.next)

\* Every version of the Volume is sound, whatever copy a pass works on.
VolumeInv == ObjectsInv /\ CopyInv /\ PassInv

\* A pass that polls or resumes a job finds the handle of a job its step
\* spawned: `deployVolume` never meets a "tampered" handle, and no pass polls
\* a job without a name.
HandleNeverTampered ==
    /\ Deploying => volCache.job \in {"", "PrepareVolume", "GetDeviceInfo"}
    /\ rec.pc = "poll" => rec.v.job \in JobNames
=============================================================================
