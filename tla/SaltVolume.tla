----------------------------- MODULE SaltVolume -----------------------------
(***************************************************************************)
(* The node's side of a Volume: the Salt states `metalk8s.volumes`         *)
(* (prepared.sls) and `metalk8s.volumes.unprepared`, the state and         *)
(* execution modules metalk8s_volumes.py that they call, and the systemd   *)
(* unit metalk8s-sparse-volume@ that attaches a sparse file to a loop      *)
(* device.  A Volume is backed by a file of its own, by a device the user  *)
(* names, or by an LVM logical volume.                                     *)
(*                                                                         *)
(* A job is a sequence of steps, one per state or per command a state      *)
(* runs; the minion may crash and the node may reboot between two of them. *)
(* Salt runs one such job at a time.  The operator asks for jobs as        *)
(* VolumeController says; a redeployment of the node (its highstate        *)
(* includes `metalk8s.volumes`) prepares every Volume of the pillar again. *)
(***************************************************************************)
EXTENDS Naturals

CONSTANTS
    Volumes,              \* Volume objects of this node (UIDs)
    Disks, Partitions, LogicalVolumes,   \* devices a Volume can be given
    Kinds,                \* <<type, mode>> pairs that Volumes may have
    MayShareDevice,       \* may users name a device that is already in use?
    MaxFaults,            \* bound: crashes, reboots, failed or lost steps
    MaxRedeploys          \* bound: highstates that prepare a Volume again

Devices  == Disks \cup Partitions \cup LogicalVolumes
Backings == Volumes \cup Devices    \* a Volume as a backing is its own file

Types == {"sparseLoopDevice", "rawBlockDevice", "lvmLogicalVolume"}
Modes == {"Filesystem", "Block"}

ASSUME DevicesAssumption ==
    /\ Volumes \cap Devices = {}
    /\ Disks \cap Partitions = {}
    /\ LogicalVolumes \cap (Disks \cup Partitions) = {}
    /\ {"none", "other", "torn"} \cap Volumes = {}
    /\ Kinds \subseteq Types \X Modes
    /\ MayShareDevice \in BOOLEAN
    /\ MaxFaults \in Nat /\ MaxRedeploys \in Nat

VARIABLES
    spec,       \* type, mode and backing of each Volume, and whether its
                \* StorageClass can be found and names a known filesystem
    volume,     \* where each Volume object is in its life
    disk,       \* each backing: size, filesystem's UUID, partition's GUID
    attached,   \* Volumes whose file is attached to a loop device
    enabled,    \* Volumes whose systemd unit is started at boot
    toStart,    \* units the boot under way has still to start
    job,        \* the job the minion is running
    outcome,    \* how the last job of each caller ended, for each Volume
    faults, redeploys

nodeVars == <<disk, attached, enabled, toStart>>
vars == <<spec, volume, nodeVars, job, outcome, faults, redeploys>>

Specs == [type: Types, mode: Modes, dev: Backings, formattable: BOOLEAN]

\* A file's size is right ("full") or not ("empty").  A filesystem is of a
\* Volume, of somebody else, or what an interrupted mkfs has left ("torn").
Backing == [size: {"absent", "empty", "full"},
            fs: Volumes \cup {"none", "other", "torn"},
            part: Volumes \cup {"none", "other"}]

Callers == {"operator", "highstate"}

PrepareSteps   == {"present", "truncate", "prepared", "mkfs", "running",
                   "enable", "refresh"}
UnprepareSteps == {"dead", "disable", "removed"}

Jobs == [caller: Callers, v: Volumes, pc: PrepareSteps \cup UnprepareSteps]
NoJob == [pc |-> "idle"]

-----------------------------------------------------------------------------
(***************************************************************************)
(* The classes of metalk8s_volumes.py.                                     *)
(***************************************************************************)
Sparse(v) == spec[v].type = "sparseLoopDevice"
Dev(v)    == spec[v].dev
Store(v)  == disk[spec[v].dev]

\* LVMLogicalVolumeBlock, or a RawBlockDeviceBlock found to be an LVM volume.
IsLvmBlock(v) == spec[v].mode = "Block" /\ Dev(v) \in LogicalVolumes

LoadsAnyMode(v) ==
    spec[v].type = "rawBlockDevice" => Store(v).size # "absent"

\* RawBlockDeviceBlock resolves its device as soon as it is instantiated.
Loads(v) ==
    spec[v].type = "rawBlockDevice" /\ spec[v].mode = "Block"
        => Store(v).size # "absent"

ExistsWhateverSize(v) == Store(v).size # "absent"

\* Only a file has to have the right size.
Exists(v) ==
    IF Sparse(v) THEN Store(v).size = "full" ELSE Store(v).size # "absent"

\* udev's links to a backing are there while it is a block device.
Visible(b) == IF b \in Volumes THEN b \in attached ELSE disk[b].size = "full"

\* What device_info resolves the persistent path of a Volume to.
PersistentPath(v) ==
    {b \in Backings :
        /\ Visible(b)
        /\ CASE spec[v].mode = "Filesystem" -> disk[b].fs = v
             [] IsLvmBlock(v)               -> b = Dev(v)
             [] OTHER                       -> disk[b].part = v}

IsPreparedByLink(v) == IsLvmBlock(v) \/ PersistentPath(v) = {Dev(v)}

\* In Block mode, the link by partition UUID must lead to a partition named
\* after the backing: that of a file leads to loopN's, never to "<file>1".
IsPrepared(v) ==
    IF spec[v].mode = "Filesystem" THEN Store(v).fs = v
    ELSE \/ IsLvmBlock(v)
         \/ PersistentPath(v) = {Dev(v)} /\ Dev(v) \notin Volumes

\* What blkid reports of a partition table (a partition has none of its own).
HasPartition(b) == b \notin Partitions /\ disk[b].part # "none"

ForeignFsOnly(v) == Store(v).fs \in {"none"} \cup Volumes

\* prepare() bails out of a device that carries anything: no data loss because
\* of a typo.
NotFormatted(v) == Store(v).fs = "none" /\ ~HasPartition(Dev(v))

IsCleanedUp(v) == Sparse(v) => ~Exists(v)

-----------------------------------------------------------------------------
(***************************************************************************)
(* Jobs.                                                                   *)
(***************************************************************************)
Fault == faults > 0 /\ faults' = faults - 1

Start(caller, v, pc) ==
    /\ job' = [caller |-> caller, v |-> v, pc |-> pc]
    /\ outcome' = [outcome EXCEPT ![caller][v] = "running"]

Goto(pc) == job' = [job EXCEPT !.pc = pc] /\ UNCHANGED outcome

End(result) ==
    /\ job' = NoJob
    /\ outcome' = [outcome EXCEPT ![job.caller][job.v] = result]

At(pc) ==
    /\ job.pc = pc
    /\ UNCHANGED <<spec, volume, redeploys>>

\* state `present`: what exists is kept, whatever it holds.
PresentExists ==
    /\ At("present") /\ Loads(job.v) /\ Exists(job.v)
    /\ Goto("prepared")
    /\ UNCHANGED <<nodeVars, faults>>

\* A sparse file is created empty, without clobbering another one, ...
CreateFile ==
    /\ At("present") /\ Sparse(job.v) /\ Store(job.v).size = "absent"
    /\ disk' = [disk EXCEPT ![job.v].size = "empty"]
    /\ Goto("truncate")
    /\ UNCHANGED <<attached, enabled, toStart, faults>>

\* ... and then given its size.
Truncate ==
    /\ At("truncate")
    /\ disk' = [disk EXCEPT ![job.v].size = "full"]
    /\ Goto("prepared")
    /\ UNCHANGED <<attached, enabled, toStart, faults>>

CreateLogicalVolume ==
    /\ At("present") /\ spec[job.v].type = "lvmLogicalVolume"
    /\ ~Exists(job.v)
    /\ disk' = [disk EXCEPT ![Dev(job.v)].size = "full"]
    /\ Goto("prepared")
    /\ UNCHANGED <<attached, enabled, toStart, faults>>

\* A file of another size, or a device that is missing.
CreateRefused ==
    /\ At("present")
    /\ \/ ~Loads(job.v)
       \/ /\ ~Exists(job.v)
          /\ \/ Sparse(job.v) /\ Store(job.v).size = "empty"
             \/ spec[job.v].type = "rawBlockDevice"
    /\ End("failed")
    /\ UNCHANGED <<nodeVars, faults>>

\* A sparse file still has to be attached to a loop device.
Provision(v) == IF Sparse(v) THEN "running" ELSE "refresh"

\* state `prepared`: nothing to do for a Volume that is, nor for an LVM volume.
AlreadyPrepared ==
    /\ At("prepared") /\ IsPrepared(job.v)
    /\ Goto(Provision(job.v))
    /\ UNCHANGED <<nodeVars, faults>>

PrepareFilesystem ==
    /\ At("prepared") /\ ~IsPrepared(job.v)
    /\ spec[job.v].mode = "Filesystem"
    /\ NotFormatted(job.v) /\ spec[job.v].formattable
    /\ Goto("mkfs")
    /\ UNCHANGED <<nodeVars, faults>>

MkfsWithoutUuid ==
    /\ At("mkfs")
    /\ disk' = [disk EXCEPT ![Dev(job.v)].fs = Dev(job.v)]
    /\ Goto(Provision(job.v))
    /\ UNCHANGED <<attached, enabled, toStart, faults>>

Mkfs ==
    /\ At("mkfs")
    /\ disk' = [disk EXCEPT ![Dev(job.v)].fs = job.v]
    /\ Goto(Provision(job.v))
    /\ UNCHANGED <<attached, enabled, toStart, faults>>

\* sgdisk makes a partition on an unpartitioned disk or file, over whatever it
\* holds.
PrepareBlock ==
    /\ At("prepared") /\ ~IsPrepared(job.v)
    /\ spec[job.v].mode = "Block"
    /\ Dev(job.v) \notin Partitions /\ Store(job.v).part = "none"
    /\ disk' = [disk EXCEPT ![Dev(job.v)].part = job.v,
                            ![Dev(job.v)].fs = "none"]
    /\ Goto(Provision(job.v))
    /\ UNCHANGED <<attached, enabled, toStart, faults>>

\* A partition takes the GUID of the Volume.
PreparePartition ==
    /\ At("prepared") /\ ~IsPrepared(job.v)
    /\ spec[job.v].mode = "Block" /\ Dev(job.v) \in Partitions
    /\ disk' = [disk EXCEPT ![Dev(job.v)].part = job.v]
    /\ Goto(Provision(job.v))
    /\ UNCHANGED <<attached, enabled, toStart, faults>>

\* Already formatted, already partitioned, or StorageClass not found.
PrepareRefused ==
    /\ At("prepared") /\ ~IsPrepared(job.v)
    /\ \/ /\ spec[job.v].mode = "Filesystem"
          /\ ~NotFormatted(job.v) \/ ~spec[job.v].formattable
       \/ /\ spec[job.v].mode = "Block" /\ Dev(job.v) \notin Partitions
          /\ Store(job.v).part # "none"
    /\ End("failed")
    /\ UNCHANGED <<nodeVars, faults>>

\* state service.running: losetup, unless the unit is active, ...
StartUnit ==
    /\ At("running")
    /\ attached' = attached \cup {job.v} /\ toStart' = toStart \ {job.v}
    /\ Goto("enable")
    /\ UNCHANGED <<disk, enabled, faults>>

UnitLeftDisabled ==
    /\ At("enable")
    /\ Goto("refresh")
    /\ UNCHANGED <<nodeVars, faults>>

\* ... which is then enabled.
EnableUnit ==
    /\ At("enable")
    /\ enabled' = enabled \cup {job.v}
    /\ Goto("refresh")
    /\ UNCHANGED <<disk, attached, toStart, faults>>

RefreshPillar ==
    /\ At("refresh")
    /\ End("ok")
    /\ UNCHANGED <<nodeVars, faults>>

FoundByPartUuid(v) == Store(v).size # "absent" /\ Store(v).part = v

\* The clean-up script finds the loop device by the Volume's UUID.
DeviceFound(v) == Store(v).size # "absent" /\ v \in {Store(v).fs, Store(v).part}

\* state service.dead, which `removed` requires: the unit is stopped, ...
StopUnit ==
    /\ At("dead")
    /\ attached' = IF DeviceFound(job.v) THEN attached \ {job.v} ELSE attached
    /\ toStart' = toStart \ {job.v}
    /\ Goto("disable")
    /\ UNCHANGED <<disk, enabled, faults>>

UnitLeftEnabled ==
    /\ At("disable")
    /\ Goto("removed")
    /\ UNCHANGED <<nodeVars, faults>>

\* ... and disabled.
DisableUnit ==
    /\ At("disable")
    /\ enabled' = enabled \ {job.v}
    /\ Goto("removed")
    /\ UNCHANGED <<disk, attached, toStart, faults>>

\* state `removed`: only a file is removed, a device keeps what it holds.
Removed ==
    /\ At("removed") /\ Loads(job.v)
    /\ disk' = IF IsCleanedUp(job.v) THEN disk
               ELSE [disk EXCEPT ![job.v] = [size |-> "absent", fs |-> "none",
                                             part |-> "none"]]
    /\ End("ok")
    /\ UNCHANGED <<attached, enabled, toStart, faults>>

RemoveRefused ==
    /\ At("removed") /\ ~Loads(job.v)
    /\ End("failed")
    /\ UNCHANGED <<nodeVars, faults>>

JobStep ==
    \/ PresentExists \/ CreateFile \/ Truncate \/ CreateLogicalVolume
    \/ CreateRefused \/ AlreadyPrepared \/ PrepareFilesystem \/ Mkfs
    \/ PrepareBlock \/ PreparePartition \/ PrepareRefused
    \/ StartUnit \/ EnableUnit \/ RefreshPillar
    \/ StopUnit \/ DisableUnit \/ Removed \/ RemoveRefused

\* A command fails.  ftruncate's failure unlinks the file; mkfs may have
\* written something.
StepFails ==
    /\ job.pc # "idle" /\ Fault
    /\ CASE job.pc = "truncate" ->
              disk' = [disk EXCEPT ![job.v].size = "absent"]
         [] job.pc = "mkfs" ->
              \E fs \in {"none", "torn"} :
                 disk' = [disk EXCEPT ![Dev(job.v)].fs = fs]
         [] OTHER -> UNCHANGED disk
    /\ End("failed")
    /\ UNCHANGED <<spec, volume, attached, enabled, toStart, redeploys>>

Forgotten ==
    IF job.pc = "idle" THEN UNCHANGED outcome
    ELSE outcome' = [outcome EXCEPT ![job.caller][job.v] = "none"]

\* What a job leaves when it is killed between two steps, or during mkfs.
Interrupted ==
    /\ job' = NoJob
    /\ Forgotten
    /\ \/ UNCHANGED disk
       \/ job.pc = "mkfs" /\ disk' = [disk EXCEPT ![Dev(job.v)].fs = "torn"]

MinionRestart ==
    /\ job.pc # "idle" /\ Fault
    /\ Interrupted
    /\ UNCHANGED <<spec, volume, attached, enabled, toStart, redeploys>>

\* Loop devices do not outlive the kernel.
Reboot ==
    /\ Fault
    /\ Interrupted
    /\ attached' = {} /\ toStart' = enabled
    /\ UNCHANGED <<spec, volume, enabled, redeploys>>

\* The unit asserts that the file is not empty.
BootUnit(v) ==
    /\ v \in toStart
    /\ toStart' = toStart \ {v}
    /\ attached' = IF disk[v].size = "full" THEN attached \cup {v}
                   ELSE attached
    /\ UNCHANGED <<spec, volume, disk, enabled, job, outcome, faults,
                   redeploys>>

-----------------------------------------------------------------------------
(***************************************************************************)
(* Who asks for jobs: the operator, users, redeployments of the node.      *)
(***************************************************************************)
InPillar(v) == volume[v] \notin {"new", "gone"}

Declare(v) ==
    /\ volume[v] = "new"
    /\ volume' = [volume EXCEPT ![v] = "declared"]
    /\ UNCHANGED <<spec, nodeVars, job, outcome, faults, redeploys>>

\* A job whose answer or outcome is lost is spawned again.
Submittable(v) ==
    \/ outcome["operator"][v] \in {"none", "failed"} /\ UNCHANGED faults
    \/ outcome["operator"][v] = "ok" /\ Fault

SubmitPrepare(v) ==
    /\ job.pc = "idle" /\ volume[v] = "declared"
    /\ outcome["operator"][v] # "failed" /\ Submittable(v)
    /\ Start("operator", v, "present")
    /\ UNCHANGED <<spec, volume, nodeVars, redeploys>>

Acknowledge(v) ==
    /\ volume[v] = "declared" /\ outcome["operator"][v] \in {"ok", "failed"}
    /\ volume' = [volume EXCEPT ![v] =
           IF outcome["operator"][v] = "ok" THEN "available" ELSE "failed"]
    /\ UNCHANGED <<spec, nodeVars, job, outcome, faults, redeploys>>

\* The Volume is deleted, and its PersistentVolume no longer used.
Delete(v) ==
    /\ volume[v] \in {"available", "failed"}
    /\ volume' = [volume EXCEPT ![v] = "deleted"]
    /\ outcome' = [outcome EXCEPT !["operator"][v] = "none"]
    /\ UNCHANGED <<spec, nodeVars, job, faults, redeploys>>

SubmitUnprepare(v) ==
    /\ job.pc = "idle" /\ volume[v] = "deleted" /\ Submittable(v)
    /\ Start("operator", v, IF Sparse(v) THEN "dead" ELSE "removed")
    /\ UNCHANGED <<spec, volume, nodeVars, redeploys>>

\* The operator lets go of the Volume.
Forget(v) ==
    /\ volume[v] = "deleted" /\ outcome["operator"][v] = "ok"
    /\ volume' = [volume EXCEPT ![v] = "gone"]
    /\ UNCHANGED <<spec, nodeVars, job, outcome, faults, redeploys>>

\* The highstate of the node goes through a Volume of the pillar, be it
\* marked for deletion.
Redeploy(v) ==
    /\ job.pc = "idle" /\ redeploys > 0 /\ InPillar(v)
    /\ redeploys' = redeploys - 1
    /\ Start("highstate", v, "present")
    /\ UNCHANGED <<spec, volume, nodeVars, faults>>

\* An administrator erases a device that no Volume names any more.
Wipe(b) ==
    /\ \A v \in Volumes : Dev(v) = b => ~InPillar(v)
    /\ disk[b].size = "full" /\ job.pc = "idle"
    /\ disk' = [disk EXCEPT ![b].fs = "none",
                            ![b].part = IF b \in Partitions THEN @ ELSE "none"]
    /\ UNCHANGED <<spec, volume, attached, enabled, toStart, job, outcome,
                   faults, redeploys>>

-----------------------------------------------------------------------------
\* Users name a device or a file for each Volume, of one of the kinds.
Choosable(v) ==
    {s \in Specs :
        /\ <<s.type, s.mode>> \in Kinds
        /\ CASE s.type = "sparseLoopDevice" -> s.dev = v
             [] s.type = "rawBlockDevice"   -> s.dev \in Devices
             [] OTHER                       -> s.dev \in LogicalVolumes}

\* What a device may hold beforehand: nothing, unless users may be mistaken.
Initially(b) ==
    {c \in [size: {"absent", "full"}, fs: {"none", "other"},
            part: {"none", "other"}] :
        /\ c.size \in IF b \in Volumes THEN {"absent"}
                      ELSE IF b \in Partitions THEN {"full"}
                      ELSE {"absent", "full"}
        /\ c.fs \in IF MayShareDevice /\ c.size = "full" THEN {"none", "other"}
                    ELSE {"none"}
        /\ c.part \in IF b \in Partitions THEN {"other"}
                      ELSE IF MayShareDevice /\ b \in Disks /\ c.size = "full"
                              /\ c.fs = "none" THEN {"none", "other"}
                      ELSE {"none"}}

Init ==
    /\ spec \in [Volumes -> Specs]
    /\ \A v \in Volumes : spec[v] \in Choosable(v)
    /\ MayShareDevice \/ \A v, w \in Volumes : Dev(v) = Dev(w) => v = w
    /\ disk \in [Backings -> UNION {Initially(b) : b \in Backings}]
    /\ \A b \in Backings : disk[b] \in Initially(b)
    /\ volume = [v \in Volumes |-> "new"]
    /\ attached = {} /\ enabled = {} /\ toStart = {}
    /\ job = NoJob
    /\ outcome = [c \in Callers |-> [v \in Volumes |-> "none"]]
    /\ faults = MaxFaults /\ redeploys = MaxRedeploys

Request ==
    \E v \in Volumes :
        \/ Declare(v) \/ SubmitPrepare(v) \/ Acknowledge(v)
        \/ Delete(v) \/ SubmitUnprepare(v) \/ Forget(v)
        \/ Redeploy(v) \/ BootUnit(v)

Next ==
    \/ JobStep \/ StepFails \/ MinionRestart \/ Reboot
    \/ Request
    \/ \E b \in Devices : Wipe(b)

Spec == Init /\ [][Next]_vars

\* The shape of the state.
TypeOK ==
    /\ spec \in [Volumes -> Specs]
    /\ volume \in [Volumes -> {"new", "declared", "available", "failed",
                               "deleted", "gone"}]
    /\ disk \in [Backings -> Backing]
    /\ attached \subseteq Volumes /\ enabled \subseteq Volumes
    /\ toStart \subseteq Volumes
    /\ job \in Jobs \cup {NoJob}
    /\ outcome \in [Callers ->
                      [Volumes -> {"none", "running", "ok", "failed"}]]
    /\ faults \in 0 .. MaxFaults /\ redeploys \in 0 .. MaxRedeploys

-----------------------------------------------------------------------------
(***************************************************************************)
(* Properties.                                                             *)
(***************************************************************************)
\* The backing of a Volume is there, and carries the Volume's identity: what
\* its persistent path leads to is its own storage.
Stored(v) ==
    /\ Store(v).size = "full"
    /\ spec[v].mode = "Filesystem" => Store(v).fs = v
    /\ spec[v].mode = "Block" /\ ~IsLvmBlock(v) => Store(v).part = v

\* An Available Volume keeps its storage, whatever jobs of other Volumes and
\* redeployments do, and gets its loop device back after a reboot.
AvailableIntact ==
    \A v \in Volumes :
        volume[v] = "available" =>
            /\ Stored(v)
            /\ Sparse(v) => v \in enabled /\ v \in attached \cup toStart

\* A loop device is detached before its file is removed: otherwise the file
\* would go on using the disk with no name left to find it.
LoopHasFile == \A v \in attached : disk[v].size # "absent"

\* Nothing serves a Volume that is gone, whose file is removed with it (unless
\* it never got its size: clean_up then takes it for removed).
ReclaimedIsUnserved ==
    \A v \in Volumes :
        volume[v] = "gone" =>
            /\ v \notin attached \cup enabled \cup toStart
            /\ disk[v].size # "full"

\* "We don't want data loss because of a typo" (Volume.prepare): a filesystem
\* is only erased with the file of a deleted Volume, or by an administrator.
NothingOverwritten ==
    [][\A b \in Backings :
          disk[b].fs \in Volumes \cup {"other"} /\ disk'[b].fs # disk[b].fs
              => IF b \in Volumes THEN volume[b] = "deleted"
                 ELSE \A v \in Volumes : Dev(v) = b => ~InPillar(v)]_vars

\* "Idempotence" (the state `prepared`): preparing an Available Volume again,
\* as a highstate of its node does, does not fail.
PrepareIdempotent ==
    [][\A v \in Volumes, c \in Callers :
          volume[v] = "available"
          /\ outcome[c][v] = "running" /\ outcome'[c][v] = "failed"
              => faults' < faults]_vars

\* The minion goes on, and the operator asks for the removal until it is told
\* of its success.
Fairness ==
    /\ WF_vars(JobStep)
    /\ \A v \in Volumes : WF_vars(SubmitUnprepare(v)) /\ WF_vars(Forget(v))

FairSpec == Spec /\ Fairness

\* A deleted Volume is eventually let go, whatever its device has become.
DeletedIsReclaimed ==
    \A v \in Volumes : volume[v] = "deleted" ~> volume[v] = "gone"
=============================================================================
