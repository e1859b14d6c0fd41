--------------------------- MODULE SaltVolumeProofs ---------------------------
(***************************************************************************)
(* Proofs about SaltVolume: its types, that the storage of an Available    *)
(* Volume stays as it was prepared, that what systemd serves has its file, *)
(* that a removal leaves nothing, and what no job overwrites.              *)
(***************************************************************************)
EXTENDS SaltVolume, TLAPS

\* Users chose a type, a mode and a backing that go together, and unless they
\* share devices, each Volume has a backing of its own.
ChoiceInv ==
    /\ \A v \in Volumes : spec[v] \in Choosable(v)
    /\ MayShareDevice \/ \A v, w \in Volumes : Dev(v) = Dev(w) => v = w

\* Only sparse Volumes have a file, and a device is never half created.
BackingInv ==
    /\ \A v \in Volumes : ~Sparse(v) => disk[v].size = "absent"
    /\ \A b \in Devices : disk[b].size # "empty"

\* The UUID of a Volume is only found on its own backing, and there is nothing
\* of strangers on devices nobody shares.
LabelInv ==
    \A b \in Backings :
        /\ \A v \in Volumes :
              /\ disk[b].fs = v => Dev(v) = b /\ spec[v].mode = "Filesystem"
              /\ disk[b].part = v => Dev(v) = b
        /\ disk[b].fs = "other" => MayShareDevice /\ b \in Devices

\* What systemd serves, or will serve after a boot, is the file of a sparse
\* Volume, whole and with the Volume's identity.
ServedInv ==
    \A v \in attached \cup enabled \cup toStart : Sparse(v) /\ Stored(v)

\* A unit that the next boot finds attached again.
UnitUp(v) == v \in enabled /\ v \in attached \cup toStart

\* What the steps of a Prepare job have achieved for its Volume `v` when the
\* next one is `pc`.
Achieved(pc, v) ==
    /\ pc = "truncate" => Sparse(v) /\ Store(v).size = "empty"
    /\ pc = "prepared" => Store(v).size = "full"
    /\ pc = "mkfs" => /\ spec[v].mode = "Filesystem"
                      /\ Store(v).size = "full" /\ Store(v).fs = "none"
    /\ pc \in {"running", "enable", "refresh"} => Stored(v)
    /\ pc \in {"running", "enable"} => Sparse(v)
    /\ pc = "enable" => v \in attached \cup toStart
    /\ pc = "refresh" /\ Sparse(v) => UnitUp(v)

\* What those of an Unprepare job have.
Released(pc, v) ==
    /\ pc \in {"dead", "disable"} => Sparse(v)
    /\ pc = "disable" => v \notin attached \cup toStart
    /\ pc = "removed" /\ Sparse(v) => v \notin attached \cup enabled \cup toStart

\* Whom the job under way belongs to.
JobInv ==
    job.pc # "idle" =>
        /\ Achieved(job.pc, job.v) /\ Released(job.pc, job.v)
        /\ outcome[job.caller][job.v] = "running"
        /\ job.caller = "operator" =>
              volume[job.v] = IF job.pc \in PrepareSteps THEN "declared"
                                                         ELSE "deleted"
        /\ job.caller = "highstate" => job.pc \in PrepareSteps

NodeInv == ChoiceInv /\ BackingInv /\ LabelInv /\ ServedInv /\ JobInv

\* Available, or about to be acknowledged as such.
Offered(v) ==
    \/ volume[v] = "available"
    \/ volume[v] = "declared" /\ outcome["operator"][v] = "ok"

Intact(v) == Stored(v) /\ (Sparse(v) => UnitUp(v))

OfferedInv ==
    \A v \in Volumes :
        /\ Offered(v) => Intact(v)
        /\ volume[v] = "new" => outcome["operator"][v] = "none"

\* Once the operator has been told of the removal of a Volume, nothing is left
\* of it, provided that no redeployment prepares it again.
Cleared(v) == v \notin attached \cup enabled \cup toStart /\ disk[v].size # "full"

ReclaimInv ==
    /\ redeploys = 0
    /\ job.pc # "idle" => job.caller = "operator"
    /\ \A v \in Volumes :
          \/ volume[v] = "gone"
          \/ volume[v] = "deleted" /\ outcome["operator"][v] = "ok"
          => Cleared(v)

-----------------------------------------------------------------------------
(***************************************************************************)
(* Types.                                                                  *)
(***************************************************************************)
\* The minion is idle or runs a job.
LEMMA JobTypes ==
    ASSUME TypeOK
    PROVE  /\ job.pc # "idle" <=> job \in Jobs
           /\ NoJob.pc = "idle"
  BY DEF TypeOK, Jobs, NoJob, PrepareSteps, UnprepareSteps

\* Where the devices of a Volume are looked up.
LEMMA VolumeTypes ==
    ASSUME TypeOK, NEW v \in Volumes
    PROVE  /\ spec[v] \in Specs /\ Dev(v) \in Backings /\ v \in Backings
           /\ Store(v) = disk[Dev(v)] /\ Store(v) \in Backing
           /\ disk[v] \in Backing
  BY DEF TypeOK, Specs, Dev, Store, Backings

LEMMA GotoTypes ==
    ASSUME TypeOK, job.pc # "idle",
           NEW pc \in PrepareSteps \cup UnprepareSteps, Goto(pc)
    PROVE  /\ job' = [caller |-> job.caller, v |-> job.v, pc |-> pc]
           /\ job' \in Jobs
           /\ UNCHANGED outcome
  BY JobTypes DEF Goto, Jobs

\* A caller learns how its job on a Volume goes.
Records(c, v, result) == outcome' = [outcome EXCEPT ![c][v] = result]

LEMMA OutcomeTypes ==
    ASSUME TypeOK, NEW c \in Callers, NEW v \in Volumes,
           NEW result \in {"none", "running", "ok", "failed"},
           Records(c, v, result)
    PROVE  /\ outcome' \in [Callers ->
                       [Volumes -> {"none", "running", "ok", "failed"}]]
           /\ outcome'[c][v] = result
           /\ \A d \in Callers, w \in Volumes :
                 d # c \/ w # v => outcome'[d][w] = outcome[d][w]
  <1> DEFINE Results == {"none", "running", "ok", "failed"}
             new == [outcome[c] EXCEPT ![v] = result]
  <1>1. outcome \in [Callers -> [Volumes -> Results]]
    BY DEF TypeOK
  <1>2. outcome[c] \in [Volumes -> Results]
    BY <1>1
  <1>3. /\ new \in [Volumes -> Results] /\ new[v] = result
        /\ \A w \in Volumes : w # v => new[w] = outcome[c][w]
    BY <1>2
  <1>4. outcome' = [outcome EXCEPT ![c] = new]
    BY DEF Records
  <1> HIDE DEF new, Results
  <1>5. /\ outcome' \in [Callers -> [Volumes -> Results]]
        /\ outcome'[c] = new
        /\ \A d \in Callers : d # c => outcome'[d] = outcome[d]
    BY <1>1, <1>3, <1>4
  <1> QED
    BY <1>3, <1>5 DEF Results

LEMMA EndTypes ==
    ASSUME TypeOK, job.pc # "idle", NEW result \in {"ok", "failed"},
           End(result)
    PROVE  /\ job' = NoJob
           /\ outcome' \in [Callers ->
                       [Volumes -> {"none", "running", "ok", "failed"}]]
           /\ outcome'[job.caller][job.v] = result
           /\ \A d \in Callers, w \in Volumes :
                 d # job.caller \/ w # job.v
                    => outcome'[d][w] = outcome[d][w]
  <1>1. job.caller \in Callers /\ job.v \in Volumes
    BY JobTypes DEF Jobs
  <1>2. result \in {"none", "running", "ok", "failed"}
    OBVIOUS
  <1>3. Records(job.caller, job.v, result) /\ job' = NoJob
    BY DEF End, Records
  <1> QED
    BY <1>1, <1>2, <1>3, OutcomeTypes

LEMMA StartTypes ==
    ASSUME TypeOK, NEW c \in Callers, NEW v \in Volumes,
           NEW pc \in PrepareSteps \cup UnprepareSteps, Start(c, v, pc)
    PROVE  /\ job' = [caller |-> c, v |-> v, pc |-> pc]
           /\ job' \in Jobs
           /\ outcome' \in [Callers ->
                       [Volumes -> {"none", "running", "ok", "failed"}]]
           /\ outcome'[c][v] = "running"
           /\ \A d \in Callers, w \in Volumes :
                 d # c \/ w # v => outcome'[d][w] = outcome[d][w]
  <1>1. job' = [caller |-> c, v |-> v, pc |-> pc] /\ job' \in Jobs
    BY DEF Start, Jobs
  <1>2. Records(c, v, "running")
    BY DEF Start, Records
  <1> QED
    BY <1>1, <1>2, OutcomeTypes

LEMMA FaultTypes ==
    ASSUME TypeOK, Fault
    PROVE  faults' \in 0 .. MaxFaults /\ faults' < faults
  BY DevicesAssumption DEF TypeOK, Fault

\* A write to one backing.
LEMMA WriteTypes ==
    ASSUME TypeOK, NEW b \in Backings, NEW c \in Backing,
           disk' = [disk EXCEPT ![b] = c]
    PROVE  /\ disk' \in [Backings -> Backing] /\ disk'[b] = c
           /\ \A a \in Backings : a # b => disk'[a] = disk[a]
  BY DEF TypeOK


\* The steps of a job that leave the disk as it is.
LEMMA QuietStepTypes ==
    ASSUME TypeOK,
           \/ PresentExists \/ CreateRefused \/ AlreadyPrepared
           \/ PrepareFilesystem \/ PrepareRefused \/ StartUnit
           \/ EnableUnit \/ RefreshPillar \/ StopUnit \/ DisableUnit
           \/ RemoveRefused
    PROVE  TypeOK' /\ UNCHANGED disk
  <1> USE DEF At, nodeVars
  <1>1. job.pc # "idle" /\ job \in Jobs
    BY JobTypes DEF PresentExists, CreateRefused, AlreadyPrepared,
       PrepareFilesystem, PrepareRefused, StartUnit, EnableUnit,
       RefreshPillar, StopUnit, DisableUnit, RemoveRefused
  <1>2. job.v \in Volumes
    BY <1>1 DEF Jobs
  <1>3. UNCHANGED <<spec, volume, disk, faults, redeploys>>
    BY DEF PresentExists, CreateRefused, AlreadyPrepared,
       PrepareFilesystem, PrepareRefused, StartUnit, EnableUnit,
       RefreshPillar, StopUnit, DisableUnit, RemoveRefused
  <1>4. /\ attached' \subseteq Volumes /\ enabled' \subseteq Volumes
        /\ toStart' \subseteq Volumes
    BY <1>2 DEF TypeOK, PresentExists, CreateRefused, AlreadyPrepared,
       PrepareFilesystem, PrepareRefused, StartUnit, EnableUnit,
       RefreshPillar, StopUnit, DisableUnit, RemoveRefused
  <1>5. ASSUME NEW result \in {"ok", "failed"}, End(result)
        PROVE  TypeOK'
    BY <1>1, <1>3, <1>4, <1>5, EndTypes DEF TypeOK
  <1>6. ASSUME NEW pc \in PrepareSteps \cup UnprepareSteps, Goto(pc)
        PROVE  TypeOK'
    BY <1>1, <1>3, <1>4, <1>6, GotoTypes DEF TypeOK
  <1>7. Provision(job.v) \in PrepareSteps \cup UnprepareSteps
    BY DEF Provision, PrepareSteps
  <1>8. \/ \E result \in {"ok", "failed"} : End(result)
        \/ \E pc \in PrepareSteps \cup UnprepareSteps : Goto(pc)
    BY <1>7 DEF PresentExists, CreateRefused, AlreadyPrepared,
       PrepareFilesystem, PrepareRefused, StartUnit, EnableUnit,
       RefreshPillar, StopUnit, DisableUnit, RemoveRefused,
       PrepareSteps, UnprepareSteps
  <1> QED
    BY <1>3, <1>5, <1>6, <1>8

\* What the steps that write do to the backing of their Volume.
Written(c) == disk' = [disk EXCEPT ![Dev(job.v)] = c]

LEMMA BusyStep ==
    ASSUME TypeOK, job.pc # "idle"
    PROVE  /\ job \in Jobs /\ job.v \in Volumes /\ job.caller \in Callers
           /\ Dev(job.v) \in Backings /\ Store(job.v) \in Backing
           /\ Store(job.v) = disk[Dev(job.v)]
  BY JobTypes, VolumeTypes DEF Jobs

\* A sparse Volume is backed by its file, the others never are.
LEMMA OwnFile ==
    ASSUME TypeOK, ChoiceInv, NEW v \in Volumes
    PROVE  /\ Sparse(v) => Dev(v) = v
           /\ ~Sparse(v) => Dev(v) \in Devices /\ Dev(v) \notin Volumes
           /\ <<spec[v].type, spec[v].mode>> \in Kinds
           /\ spec[v].type = "lvmLogicalVolume" => Dev(v) \in LogicalVolumes
  BY DevicesAssumption
     DEF ChoiceInv, Choosable, Sparse, Dev, Devices, Specs, TypeOK, Types

LEMMA FileWrites ==
    ASSUME TypeOK, ChoiceInv, JobInv
    PROVE  /\ CreateFile =>
                 /\ Written([Store(job.v) EXCEPT !.size = "empty"])
                 /\ [Store(job.v) EXCEPT !.size = "empty"] \in Backing
           /\ Truncate =>
                 /\ Written([Store(job.v) EXCEPT !.size = "full"])
                 /\ [Store(job.v) EXCEPT !.size = "full"] \in Backing
  <1> SUFFICES ASSUME CreateFile \/ Truncate
               PROVE  /\ Sparse(job.v) /\ job.pc # "idle"
    BY BusyStep, OwnFile
       DEF CreateFile, Truncate, At, Written, Backing
  <1> QED
    BY DEF CreateFile, Truncate, At, JobInv, Achieved

LEMMA DeviceWrites ==
    ASSUME TypeOK
    PROVE  /\ CreateLogicalVolume =>
                 /\ Written([Store(job.v) EXCEPT !.size = "full"])
                 /\ [Store(job.v) EXCEPT !.size = "full"] \in Backing
           /\ Mkfs =>
                 /\ Written([Store(job.v) EXCEPT !.fs = job.v])
                 /\ [Store(job.v) EXCEPT !.fs = job.v] \in Backing
           /\ PrepareBlock =>
                 /\ Written([Store(job.v) EXCEPT !.part = job.v,
                                                 !.fs = "none"])
                 /\ [Store(job.v) EXCEPT !.part = job.v, !.fs = "none"]
                       \in Backing
           /\ PreparePartition =>
                 /\ Written([Store(job.v) EXCEPT !.part = job.v])
                 /\ [Store(job.v) EXCEPT !.part = job.v] \in Backing
  BY BusyStep
     DEF CreateLogicalVolume, Mkfs, PrepareBlock, PreparePartition, At,
         Written, Backing

\* A failed or interrupted step leaves the disk, or half of what it writes.
LEMMA HalfWrites ==
    ASSUME TypeOK, ChoiceInv, JobInv, StepFails \/ MinionRestart \/ Reboot
    PROVE  \/ UNCHANGED disk
           \/ /\ job.pc = "truncate"
              /\ Written([Store(job.v) EXCEPT !.size = "absent"])
              /\ [Store(job.v) EXCEPT !.size = "absent"] \in Backing
           \/ \E fs \in {"none", "torn"} :
                 /\ job.pc = "mkfs"
                 /\ Written([Store(job.v) EXCEPT !.fs = fs])
                 /\ [Store(job.v) EXCEPT !.fs = fs] \in Backing
  <1>1. CASE job.pc = "idle"
    BY <1>1 DEF StepFails, MinionRestart, Reboot, Interrupted
  <1>2. CASE job.pc = "truncate"
    <2>1. Dev(job.v) = job.v /\ Store(job.v) \in Backing
      BY <1>2, BusyStep, OwnFile DEF JobInv, Achieved
    <2>2. \/ UNCHANGED disk
          \/ disk' = [disk EXCEPT ![job.v].size = "absent"]
      BY <1>2 DEF StepFails, MinionRestart, Reboot, Interrupted
    <2> QED
      BY <1>2, <2>1, <2>2, BusyStep DEF Written, Backing
  <1>3. CASE job.pc = "mkfs"
    <2>1. \/ UNCHANGED disk
          \/ \E fs \in {"none", "torn"} :
                disk' = [disk EXCEPT ![Dev(job.v)].fs = fs]
      BY <1>3 DEF StepFails, MinionRestart, Reboot, Interrupted
    <2> QED
      BY <1>3, <2>1, BusyStep DEF Written, Backing
  <1>4. CASE job.pc \notin {"idle", "truncate", "mkfs"}
    BY <1>4 DEF StepFails, MinionRestart, Reboot, Interrupted
  <1> QED
    BY <1>1, <1>2, <1>3, <1>4

\* Only a file is removed.
LEMMA RemovedWrites ==
    ASSUME TypeOK, ChoiceInv, JobInv, Removed
    PROVE  \/ UNCHANGED disk /\ IsCleanedUp(job.v)
           \/ /\ Sparse(job.v)
              /\ Written([size |-> "absent", fs |-> "none", part |-> "none"])
              /\ [size |-> "absent", fs |-> "none", part |-> "none"]
                    \in Backing
  <1>1. job.v \in Volumes
    BY BusyStep DEF Removed, At
  <1>2. CASE IsCleanedUp(job.v)
    BY <1>2 DEF Removed
  <1>3. CASE ~IsCleanedUp(job.v)
    <2>1. Sparse(job.v) /\ Dev(job.v) = job.v
      BY <1>1, <1>3, OwnFile DEF IsCleanedUp
    <2> QED
      BY <1>3, <2>1 DEF Removed, Written, Backing
  <1> QED
    BY <1>2, <1>3

\* An administrator writes to one device.
LEMMA WipeWrites ==
    ASSUME TypeOK, NEW b \in Devices, Wipe(b)
    PROVE  /\ disk' \in [Backings -> Backing]
           /\ \A a \in Backings : a # b => disk'[a] = disk[a]
           /\ disk'[b].size = disk[b].size /\ disk'[b].fs = "none"
           /\ disk'[b].part \in {disk[b].part, "none"}
  <1>1. b \in Backings /\ disk[b] \in Backing
    BY DEF Backings, TypeOK
  <1> DEFINE part == IF b \in Partitions THEN disk[b].part ELSE "none"
             once == [disk EXCEPT ![b].fs = "none"]
  <1>2. /\ once \in [Backings -> Backing]
        /\ once[b] = [disk[b] EXCEPT !.fs = "none"]
        /\ \A a \in Backings : a # b => once[a] = disk[a]
    BY <1>1 DEF TypeOK, Backing
  <1>3. once[b].size = disk[b].size /\ once[b].fs = "none"
    BY <1>1, <1>2 DEF Backing
  <1>4. part \in Volumes \cup {"none", "other"}
    BY <1>1 DEF Backing
  <1>5. disk' = [once EXCEPT ![b].part = part]
    BY <1>1 DEF Wipe
  <1> HIDE DEF once, part
  <1>6. /\ disk' \in [Backings -> Backing]
        /\ disk'[b] = [once[b] EXCEPT !.part = part]
        /\ \A a \in Backings : a # b => disk'[a] = once[a]
    BY <1>1, <1>2, <1>4, <1>5 DEF Backing
  <1>7. part \in {disk[b].part, "none"}
    BY DEF part
  <1>8. once[b] \in Backing
    BY <1>1, <1>2
  <1>9. /\ disk'[b].size = once[b].size /\ disk'[b].fs = once[b].fs
        /\ disk'[b].part = part
    BY <1>6, <1>8 DEF Backing
  <1> QED
    BY <1>2, <1>3, <1>6, <1>7, <1>9

\* What a write to the backing of its Volume leaves.
LEMMA WrittenTypes ==
    ASSUME TypeOK, job.pc # "idle", NEW c \in Backing, Written(c)
    PROVE  /\ disk' \in [Backings -> Backing] /\ disk'[Dev(job.v)] = c
           /\ \A b \in Backings : b # Dev(job.v) => disk'[b] = disk[b]
  BY BusyStep, WriteTypes DEF Written

\* The steps of a job that write keep the types.
LEMMA WritingStepTypes ==
    ASSUME TypeOK, ChoiceInv, JobInv,
           \/ CreateFile \/ Truncate \/ CreateLogicalVolume \/ Mkfs
           \/ PrepareBlock \/ PreparePartition \/ Removed
    PROVE  /\ TypeOK' /\ UNCHANGED <<spec, volume, attached, enabled, toStart>>
           /\ UNCHANGED <<faults, redeploys>>
           /\ \/ UNCHANGED disk
              \/ \E c \in Backing : Written(c)
  <1> USE DEF At
  <1>1. job.pc # "idle" /\ job \in Jobs
    BY JobTypes DEF CreateFile, Truncate, CreateLogicalVolume, Mkfs,
       PrepareBlock, PreparePartition, Removed
  <1>2. UNCHANGED <<spec, volume, attached, enabled, toStart, faults,
                    redeploys>>
    BY DEF CreateFile, Truncate, CreateLogicalVolume, Mkfs,
       PrepareBlock, PreparePartition, Removed
  <1>3. \/ UNCHANGED disk
        \/ \E c \in Backing : Written(c)
    BY FileWrites, DeviceWrites, RemovedWrites
  <1>4. disk' \in [Backings -> Backing]
    BY <1>1, <1>3, WrittenTypes DEF TypeOK
  <1>5. ASSUME End("ok") PROVE TypeOK'
    BY <1>1, <1>2, <1>4, <1>5, EndTypes DEF TypeOK
  <1>6. ASSUME NEW pc \in PrepareSteps \cup UnprepareSteps, Goto(pc)
        PROVE  TypeOK'
    BY <1>1, <1>2, <1>4, <1>6, GotoTypes DEF TypeOK
  <1>7. Provision(job.v) \in PrepareSteps \cup UnprepareSteps
    BY DEF Provision, PrepareSteps
  <1>8. \/ End("ok")
        \/ \E pc \in PrepareSteps \cup UnprepareSteps : Goto(pc)
    BY <1>7 DEF CreateFile, Truncate, CreateLogicalVolume, Mkfs,
       PrepareBlock, PreparePartition, Removed, PrepareSteps
  <1> QED
    BY <1>2, <1>3, <1>5, <1>6, <1>8

\* So do those that fail or are interrupted.
LEMMA HalfStepTypes ==
    ASSUME TypeOK, ChoiceInv, JobInv, StepFails \/ MinionRestart \/ Reboot
    PROVE  /\ TypeOK' /\ job' = NoJob /\ faults' < faults
           /\ UNCHANGED <<spec, volume, enabled, redeploys>>
           /\ \/ UNCHANGED disk
              \/ \E c \in Backing : Written(c)
           /\ \A c \in Callers, v \in Volumes :
                 \/ outcome'[c][v] = outcome[c][v]
                 \/ /\ job.pc # "idle" /\ c = job.caller /\ v = job.v
                    /\ outcome'[c][v] \in {"none", "failed"}
  <1>1. /\ job' = NoJob /\ NoJob \in Jobs \cup {NoJob}
        /\ UNCHANGED <<spec, volume, enabled, redeploys>>
    BY DEF StepFails, MinionRestart, Reboot, Interrupted, End
  <1>2. faults' \in 0 .. MaxFaults /\ faults' < faults
    BY FaultTypes DEF StepFails, MinionRestart, Reboot
  <1>3. /\ attached' \subseteq Volumes /\ toStart' \subseteq Volumes
    BY DEF TypeOK, StepFails, MinionRestart, Reboot
  <1>4. \/ UNCHANGED disk
        \/ job.pc # "idle" /\ \E c \in Backing : Written(c)
    BY HalfWrites
  <1>5. disk' \in [Backings -> Backing]
    BY <1>4, WrittenTypes DEF TypeOK
  <1>6. \/ UNCHANGED outcome
        \/ /\ job.pc # "idle"
           /\ \E result \in {"none", "failed"} :
                 Records(job.caller, job.v, result)
    BY DEF StepFails, MinionRestart, Reboot, Interrupted, Forgotten, End,
           Records
  <1>7. /\ outcome' \in [Callers ->
                       [Volumes -> {"none", "running", "ok", "failed"}]]
        /\ \A c \in Callers, v \in Volumes :
                 \/ outcome'[c][v] = outcome[c][v]
                 \/ /\ job.pc # "idle" /\ c = job.caller /\ v = job.v
                    /\ outcome'[c][v] \in {"none", "failed"}
    <2>1. CASE UNCHANGED outcome
      BY <2>1 DEF TypeOK
    <2>2. CASE /\ job.pc # "idle"
               /\ \E result \in {"none", "failed"} :
                     Records(job.caller, job.v, result)
      <3>1. job.v \in Volumes /\ job.caller \in Callers
        BY <2>2, BusyStep
      <3>2. PICK result \in {"none", "failed"} :
               Records(job.caller, job.v, result)
        BY <2>2
      <3>3. result \in {"none", "running", "ok", "failed"}
        OBVIOUS
      <3> QED
        BY <2>2, <3>1, <3>2, <3>3, OutcomeTypes
    <2> QED
      BY <1>6, <2>1, <2>2
  <1>8. TypeOK'
    BY <1>1, <1>2, <1>3, <1>5, <1>7 DEF TypeOK
  <1> QED
    BY <1>1, <1>2, <1>4, <1>7, <1>8

\* The operator, users, redeployments and the boot keep the types.
LEMMA RequestTypes == TypeOK /\ Request => TypeOK'
  <1> SUFFICES ASSUME TypeOK, NEW v \in Volumes,
                      \/ Declare(v) \/ SubmitPrepare(v) \/ Acknowledge(v)
                      \/ Delete(v) \/ SubmitUnprepare(v) \/ Forget(v)
                      \/ Redeploy(v) \/ BootUnit(v)
               PROVE  TypeOK'
    BY DEF Request
  <1> USE DEF nodeVars
  <1>1. CASE Declare(v) \/ Forget(v) \/ Acknowledge(v)
    BY <1>1 DEF Declare, Forget, Acknowledge, TypeOK
  <1>2. CASE BootUnit(v)
    BY <1>2 DEF BootUnit, TypeOK
  <1>3. CASE Delete(v)
    <2>1. Records("operator", v, "none") /\ "operator" \in Callers
      BY <1>3 DEF Delete, Records, Callers
    <2>2. outcome' \in [Callers ->
                       [Volumes -> {"none", "running", "ok", "failed"}]]
      BY <2>1, OutcomeTypes
    <2> QED
      BY <1>3, <2>2 DEF Delete, TypeOK
  <1>4. ASSUME NEW c \in Callers, NEW pc \in PrepareSteps \cup UnprepareSteps,
               Start(c, v, pc), faults' \in 0 .. MaxFaults,
               redeploys' \in 0 .. MaxRedeploys,
               UNCHANGED <<spec, volume, nodeVars>>
        PROVE  TypeOK'
    BY <1>4, StartTypes DEF TypeOK
  <1>5. Submittable(v) => faults' \in 0 .. MaxFaults
    BY FaultTypes DEF Submittable, TypeOK
  <1>6. CASE SubmitPrepare(v) \/ SubmitUnprepare(v)
    BY <1>4, <1>5, <1>6 DEF SubmitPrepare, SubmitUnprepare, TypeOK, Callers,
       PrepareSteps, UnprepareSteps
  <1>7. CASE Redeploy(v)
    <2>1. redeploys' \in 0 .. MaxRedeploys
      BY <1>7, DevicesAssumption DEF Redeploy, TypeOK
    <2> QED
      BY <1>4, <1>7, <2>1 DEF Redeploy, TypeOK, Callers, PrepareSteps
  <1> QED
    BY <1>1, <1>2, <1>3, <1>6, <1>7

LEMMA StepTypes == TypeOK /\ ChoiceInv /\ JobInv /\ [Next]_vars => TypeOK'
  <1> SUFFICES ASSUME TypeOK, ChoiceInv, JobInv, [Next]_vars PROVE TypeOK'
    OBVIOUS
  <1>1. CASE JobStep
    BY <1>1, QuietStepTypes, WritingStepTypes DEF JobStep
  <1>2. CASE StepFails \/ MinionRestart \/ Reboot
    BY <1>2, HalfStepTypes
  <1>3. CASE \E b \in Devices : Wipe(b)
    BY <1>3, WipeWrites DEF Wipe, TypeOK
  <1>4. CASE UNCHANGED vars
    BY <1>4 DEF vars, nodeVars, TypeOK
  <1> QED
    BY <1>1, <1>2, <1>3, <1>4, RequestTypes DEF Next

LEMMA InitTypes == Init => TypeOK
  <1> SUFFICES ASSUME Init PROVE TypeOK
    OBVIOUS
  <1>1. \A b \in Backings : disk[b] \in Backing
    BY DEF Init, Initially, Backing
  <1>2. disk \in [Backings -> Backing]
    BY <1>1 DEF Init
  <1>3. outcome \in [Callers ->
                       [Volumes -> {"none", "running", "ok", "failed"}]]
    BY DEF Init
  <1>4. faults \in 0 .. MaxFaults /\ redeploys \in 0 .. MaxRedeploys
    BY DevicesAssumption DEF Init
  <1> QED
    BY <1>2, <1>3, <1>4 DEF Init, TypeOK

-----------------------------------------------------------------------------
(***************************************************************************)
(* What a step does to the storage of a Volume.                            *)
(***************************************************************************)
\* No other Volume makes a partition where `w` has its storage: either nobody
\* shares its device, or only with filesystems, which mkfs does not overwrite.
Undisturbed(w) ==
    \A v \in Volumes : Dev(v) = Dev(w) /\ v # w => spec[v].mode = "Filesystem"

\* Storage only depends on the backing.
LEMMA StoredDepends ==
    ASSUME TypeOK, NEW w \in Volumes, UNCHANGED spec,
           disk'[Dev(w)] = disk[Dev(w)]
    PROVE  Stored(w)' = Stored(w) /\ Store(w)' = Store(w)
  BY DEF Stored, Store, Dev, IsLvmBlock

\* What is not at the backing of the Volume of the job stays.
LEMMA ElsewhereStored ==
    ASSUME TypeOK, job.pc # "idle", NEW c \in Backing, Written(c),
           UNCHANGED spec, NEW w \in Volumes, Dev(w) # Dev(job.v)
    PROVE  Stored(w)' = Stored(w)
  <1>1. disk'[Dev(w)] = disk[Dev(w)]
    BY VolumeTypes, WrittenTypes
  <1> QED
    BY <1>1, StoredDepends

\* A write that keeps what makes the storage of `w`.
LEMMA SameStored ==
    ASSUME TypeOK, job.pc # "idle", NEW c \in Backing, Written(c),
           UNCHANGED spec, NEW w \in Volumes, Stored(w), Dev(w) = Dev(job.v),
           c.size = "full",
           spec[w].mode = "Filesystem" => c.fs = w,
           spec[w].mode = "Block" => c.part \in {Store(w).part, w}
    PROVE  Stored(w)'
  <1>1. Store(w)' = c
    BY WrittenTypes DEF Store, Dev
  <1> QED
    BY <1>1 DEF Stored, IsLvmBlock, Dev

\* Storage that is there stays: only a removal takes it away.
LEMMA JobKeepsStored ==
    ASSUME TypeOK, ChoiceInv, JobInv, NEW w \in Volumes, Stored(w),
           Undisturbed(w),
           JobStep \/ StepFails \/ MinionRestart \/ Reboot,
           Removed => ~(job.v = w /\ Sparse(w))
    PROVE  Stored(w)'
  <1>1. UNCHANGED spec
    BY DEF JobStep, PresentExists, CreateFile, Truncate, CreateLogicalVolume,
       CreateRefused, AlreadyPrepared, PrepareFilesystem, Mkfs, PrepareBlock,
       PreparePartition, PrepareRefused, StartUnit, EnableUnit, RefreshPillar,
       StopUnit, DisableUnit, Removed, RemoveRefused, At, StepFails,
       MinionRestart, Reboot
  <1>2. CASE UNCHANGED disk
    BY <1>1, <1>2, StoredDepends
  <1>3. ASSUME job.pc # "idle", NEW c \in Backing, Written(c),
               Dev(w) # Dev(job.v)
        PROVE  Stored(w)'
    BY <1>1, <1>3, ElsewhereStored
  <1>4. ASSUME job.pc # "idle", Dev(w) = Dev(job.v)
        PROVE  /\ Store(w) = Store(job.v) /\ Store(w).size = "full"
               /\ spec[w].mode = "Filesystem" => Store(w).fs = w /\ w # "none"
               /\ job.v \in Volumes /\ Store(w) \in Backing
               /\ w # job.v => spec[job.v].mode = "Filesystem"
               /\ spec[w].mode \in Modes
    BY <1>4, BusyStep, VolumeTypes, DevicesAssumption
       DEF Store, Dev, Stored, Undisturbed, Specs
  <1>5. CASE CreateFile \/ Truncate \/ CreateLogicalVolume
    <2>1. job.pc # "idle" /\ \E c \in Backing : Written(c)
      BY <1>5, FileWrites, DeviceWrites
         DEF CreateFile, Truncate, CreateLogicalVolume, At
    <2>2. Dev(w) # Dev(job.v)
      <3>1. Store(job.v).size # "full"
        BY <1>5, <2>1 DEF CreateFile, Truncate, CreateLogicalVolume, At, Exists,
           Sparse, JobInv, Achieved
      <3> QED
        BY <1>4, <2>1, <3>1
    <2> QED
      BY <1>3, <2>1, <2>2
  <1>6. CASE Mkfs
    <2> DEFINE c == [Store(job.v) EXCEPT !.fs = job.v]
    <2>1. job.pc = "mkfs" /\ c \in Backing /\ Written(c)
      BY <1>6, DeviceWrites DEF Mkfs, At
    <2>2. spec[job.v].mode = "Filesystem" /\ Store(job.v).fs = "none"
      BY <2>1 DEF JobInv, Achieved
    <2>3. CASE Dev(w) = Dev(job.v)
      <3>1. spec[w].mode = "Block" /\ c.part = Store(w).part /\ c.size = "full"
        BY <1>4, <2>1, <2>2, <2>3 DEF Modes, Backing
      <3> HIDE DEF c
      <3> QED
        BY <1>1, <2>1, <2>3, <3>1, SameStored
    <2> QED
      BY <1>3, <2>1, <2>3
  <1>7. CASE PrepareBlock
    <2> DEFINE c == [Store(job.v) EXCEPT !.part = job.v, !.fs = "none"]
    <2>1. job.pc # "idle" /\ c \in Backing /\ Written(c)
          /\ spec[job.v].mode = "Block"
      BY <1>7, DeviceWrites DEF PrepareBlock, At
    <2>2. CASE Dev(w) = Dev(job.v)
      <3>1. w = job.v /\ c.part = w /\ c.size = "full"
        BY <1>4, <2>1, <2>2 DEF Backing
      <3> HIDE DEF c
      <3> QED
        BY <1>1, <2>1, <2>2, <3>1, SameStored
    <2> QED
      BY <1>3, <2>1, <2>2
  <1>8. CASE PreparePartition
    <2> DEFINE c == [Store(job.v) EXCEPT !.part = job.v]
    <2>1. job.pc # "idle" /\ c \in Backing /\ Written(c)
          /\ spec[job.v].mode = "Block"
      BY <1>8, DeviceWrites DEF PreparePartition, At
    <2>2. CASE Dev(w) = Dev(job.v)
      <3>1. w = job.v /\ c.part = w /\ c.size = "full"
        BY <1>4, <2>1, <2>2 DEF Backing
      <3> HIDE DEF c
      <3> QED
        BY <1>1, <2>1, <2>2, <3>1, SameStored
    <2> QED
      BY <1>3, <2>1, <2>2
  <1>9. CASE Removed
    <2>1. job.pc = "removed" /\ job.v \in Volumes
      BY <1>9, BusyStep DEF Removed, At
    <2>2. CASE Sparse(job.v)
      <3>1. Dev(w) # Dev(job.v)
        BY <1>9, <2>1, <2>2, OwnFile
      <3> QED
        BY <1>2, <1>3, <1>9, <2>1, <3>1, RemovedWrites
    <2> QED
      BY <1>2, <1>9, <2>2, RemovedWrites
  <1>10. CASE StepFails \/ MinionRestart \/ Reboot
    <2>1. ASSUME job.pc = "truncate", NEW c \in Backing, Written(c)
          PROVE  Stored(w)'
      <3>1. Store(job.v).size = "empty"
        BY <2>1 DEF JobInv, Achieved
      <3>2. Dev(w) # Dev(job.v)
        BY <1>4, <2>1, <3>1
      <3> QED
        BY <1>3, <2>1, <3>2
    <2>2. ASSUME job.pc = "mkfs", NEW fs \in {"none", "torn"},
                 Written([Store(job.v) EXCEPT !.fs = fs]),
                 [Store(job.v) EXCEPT !.fs = fs] \in Backing
          PROVE  Stored(w)'
      <3> DEFINE c == [Store(job.v) EXCEPT !.fs = fs]
      <3>1. spec[job.v].mode = "Filesystem" /\ Store(job.v).fs = "none"
        BY <2>2 DEF JobInv, Achieved
      <3>2. CASE Dev(w) = Dev(job.v)
        <4>1. spec[w].mode = "Block" /\ c.part = Store(w).part
              /\ c.size = "full"
          BY <1>4, <2>2, <3>1, <3>2 DEF Modes, Backing
        <4> HIDE DEF c
        <4> QED
          BY <1>1, <2>2, <3>2, <4>1, SameStored DEF c
      <3> QED
        BY <1>3, <2>2, <3>2
    <2> QED
      BY <1>2, <1>10, <2>1, <2>2, HalfWrites
  <1> QED
    BY <1>2, <1>5, <1>6, <1>7, <1>8, <1>9, <1>10, QuietStepTypes DEF JobStep

-----------------------------------------------------------------------------
(***************************************************************************)
(* The invariant of the node: backings, units and the job under way.       *)
(***************************************************************************)
\* What a step of a job may write.
WriteSound(c) ==
    /\ c.size = "empty" => Sparse(job.v)
    /\ \/ c.fs \in {Store(job.v).fs, "none", "torn"}
       \/ c.fs = job.v /\ spec[job.v].mode = "Filesystem"
    /\ c.part \in {Store(job.v).part, "none", job.v}

LEMMA JobWrites ==
    ASSUME TypeOK, NodeInv, JobStep \/ StepFails \/ MinionRestart \/ Reboot
    PROVE  \/ UNCHANGED disk
           \/ /\ job.pc # "idle"
              /\ \E c \in Backing : Written(c) /\ WriteSound(c)
  <1> USE DEF NodeInv
  <1>1. job.pc # "idle" /\ Store(job.v).size = "empty" => Sparse(job.v)
    BY BusyStep, OwnFile DEF BackingInv, Store
  <1>2. CASE CreateFile \/ Truncate
    <2>1. Sparse(job.v) /\ job.pc # "idle" /\ Store(job.v) \in Backing
      BY <1>2, BusyStep DEF CreateFile, Truncate, At, JobInv, Achieved
    <2> QED
      BY <1>2, <2>1, FileWrites DEF WriteSound, Backing
  <1>3. CASE CreateLogicalVolume \/ Mkfs \/ PrepareBlock \/ PreparePartition
    <2>1. job.pc # "idle" /\ Store(job.v) \in Backing
      BY <1>3, BusyStep DEF CreateLogicalVolume, Mkfs, PrepareBlock,
         PreparePartition, At
    <2>2. Mkfs => spec[job.v].mode = "Filesystem"
      BY DEF Mkfs, At, JobInv, Achieved
    <2>3. Store(job.v).size = "empty" => Sparse(job.v)
      BY <1>1, <2>1
    <2> QED
      BY <1>3, <2>1, <2>2, <2>3, DeviceWrites DEF WriteSound, Backing
  <1>4. CASE Removed
    BY <1>4, RemovedWrites DEF WriteSound, Removed, At
  <1>5. CASE StepFails \/ MinionRestart \/ Reboot
    <2>1. job.pc # "idle" => Store(job.v) \in Backing
      BY BusyStep
    <2> QED
      BY <1>1, <1>5, <2>1, HalfWrites DEF WriteSound, Backing
  <1> QED
    BY <1>2, <1>3, <1>4, <1>5, QuietStepTypes DEF JobStep

\* Nobody edits a Volume.
LEMMA SpecKept == [Next]_vars => UNCHANGED spec
  BY DEF Next, JobStep, PresentExists, CreateFile, Truncate,
     CreateLogicalVolume, CreateRefused, AlreadyPrepared, PrepareFilesystem,
     Mkfs, PrepareBlock, PreparePartition, PrepareRefused, StartUnit,
     EnableUnit, RefreshPillar, StopUnit, DisableUnit, Removed, RemoveRefused,
     At, StepFails, MinionRestart, Reboot, Request, Declare, SubmitPrepare,
     Acknowledge, Delete, SubmitUnprepare, Forget, Redeploy, BootUnit, Wipe,
     vars

\* Requests do not touch the disk.
LEMMA RequestKeepsDisk == Request => UNCHANGED disk
  BY DEF Request, Declare, SubmitPrepare, Acknowledge, Delete,
     SubmitUnprepare, Forget, Redeploy, BootUnit, nodeVars

LEMMA BackingStep ==
    ASSUME TypeOK, NodeInv, [Next]_vars
    PROVE  ChoiceInv' /\ BackingInv' /\ LabelInv'
  <1>1. UNCHANGED spec
    BY SpecKept
  <1>2. ChoiceInv'
    BY <1>1 DEF NodeInv, ChoiceInv, Choosable, Dev
  <1>3. CASE UNCHANGED disk
    BY <1>1, <1>2, <1>3 DEF NodeInv, BackingInv, LabelInv, Sparse, Dev
  <1>4. ASSUME job.pc # "idle", NEW c \in Backing, Written(c), WriteSound(c)
        PROVE  BackingInv' /\ LabelInv'
    <2>1. /\ disk'[Dev(job.v)] = c /\ Dev(job.v) \in Backings
          /\ \A b \in Backings : b # Dev(job.v) => disk'[b] = disk[b]
          /\ job.v \in Volumes /\ Store(job.v) = disk[Dev(job.v)]
      BY <1>4, WrittenTypes, BusyStep
    <2>2. ASSUME NEW v \in Volumes, ~Sparse(v)
          PROVE  disk'[v].size = "absent"
      <3>1. v # Dev(job.v) /\ v \in Backings
        BY <2>1, <2>2, OwnFile, VolumeTypes DEF NodeInv
      <3> QED
        BY <2>1, <2>2, <3>1 DEF NodeInv, BackingInv
    <2>3. ASSUME NEW b \in Devices
          PROVE  disk'[b].size # "empty"
      <3>1. b \in Backings /\ b \notin Volumes
        BY DevicesAssumption DEF Backings
      <3>2. CASE b = Dev(job.v)
        BY <1>4, <2>1, <3>1, <3>2, OwnFile DEF WriteSound, NodeInv
      <3> QED
        BY <2>1, <3>1, <3>2 DEF NodeInv, BackingInv
    <2>4. ASSUME NEW b \in Backings, NEW v \in Volumes
          PROVE  /\ disk'[b].fs = v => Dev(v) = b /\ spec[v].mode = "Filesystem"
                 /\ disk'[b].part = v => Dev(v) = b
      <3>1. v \notin {"none", "torn"}
        BY DevicesAssumption
      <3>2. CASE b = Dev(job.v)
        BY <1>4, <2>1, <3>1, <3>2 DEF WriteSound, NodeInv, LabelInv
      <3> QED
        BY <2>1, <3>2 DEF NodeInv, LabelInv
    <2>5. ASSUME NEW b \in Backings, disk'[b].fs = "other"
          PROVE  MayShareDevice /\ b \in Devices
      <3>1. CASE b = Dev(job.v)
        <4>1. job.v # "other"
          BY <2>1, DevicesAssumption
        <4> QED
          BY <1>4, <2>1, <2>5, <3>1, <4>1 DEF WriteSound, NodeInv, LabelInv
      <3> QED
        BY <2>1, <2>5, <3>1 DEF NodeInv, LabelInv
    <2>6. BackingInv'
      BY <1>1, <2>2, <2>3 DEF BackingInv, Sparse
    <2>7. LabelInv'
      BY <1>1, <2>4, <2>5 DEF LabelInv, Dev
    <2> QED
      BY <2>6, <2>7
  <1>5. CASE JobStep \/ StepFails \/ MinionRestart \/ Reboot
    BY <1>2, <1>3, <1>4, <1>5, JobWrites
  <1>6. ASSUME NEW b \in Devices, Wipe(b)
        PROVE  BackingInv' /\ LabelInv'
    <2>1. b \in Backings /\ b \notin Volumes
      BY DevicesAssumption DEF Backings
    <2>2. /\ \A a \in Backings : a # b => disk'[a] = disk[a]
          /\ disk'[b].size = disk[b].size /\ disk'[b].fs = "none"
          /\ disk'[b].part \in {disk[b].part, "none"}
      BY <1>6, WipeWrites
    <2>3. "none" \notin Volumes
      BY DevicesAssumption
    <2>4. BackingInv'
      BY <1>1, <2>1, <2>2 DEF NodeInv, BackingInv, Sparse, Backings
    <2>5. LabelInv'
      BY <1>1, <2>1, <2>2, <2>3 DEF NodeInv, LabelInv, Dev
    <2> QED
      BY <2>4, <2>5
  <1> QED
    BY <1>2, <1>3, <1>5, <1>6, RequestKeepsDisk DEF Next, vars, nodeVars

\* The storage of a sparse Volume is disturbed by no other Volume.
LEMMA FilesUndisturbed ==
    ASSUME TypeOK, ChoiceInv, NEW w \in Volumes, Sparse(w)
    PROVE  Undisturbed(w)
  <1> SUFFICES ASSUME NEW v \in Volumes, Dev(v) = Dev(w) PROVE v = w
    BY DEF Undisturbed
  <1> QED
    BY OwnFile

\* What systemd serves stays what it should be.
LEMMA ServedStep ==
    ASSUME TypeOK, NodeInv, [Next]_vars
    PROVE  ServedInv'
  <1> SUFFICES ASSUME NEW w \in Volumes,
                      w \in attached' \cup enabled' \cup toStart'
               PROVE  Sparse(w)' /\ Stored(w)'
    <2>1. TypeOK'
      BY StepTypes DEF NodeInv
    <2> QED
      BY <2>1 DEF ServedInv, TypeOK
  <1>1. Sparse(w)' = Sparse(w)
    BY SpecKept DEF Sparse
  <1>2. CASE w \notin attached \cup enabled \cup toStart
    <2>1. (StartUnit \/ EnableUnit) /\ w = job.v
      BY <1>2 DEF Next, JobStep, PresentExists, CreateFile, Truncate,
         CreateLogicalVolume, CreateRefused, AlreadyPrepared,
         PrepareFilesystem, Mkfs, PrepareBlock, PreparePartition,
         PrepareRefused, StartUnit, EnableUnit, RefreshPillar, StopUnit,
         DisableUnit, Removed, RemoveRefused, StepFails, MinionRestart,
         Reboot, Request, Declare, SubmitPrepare, Acknowledge, Delete,
         SubmitUnprepare, Forget, Redeploy, BootUnit, Wipe, vars, nodeVars
    <2>2. Sparse(w) /\ Stored(w)
      BY <2>1 DEF StartUnit, EnableUnit, At, NodeInv, JobInv, Achieved
    <2>3. UNCHANGED disk /\ UNCHANGED spec
      BY <2>1, SpecKept DEF StartUnit, EnableUnit
    <2> QED
      BY <1>1, <2>2, <2>3, VolumeTypes, StoredDepends
  <1>3. CASE w \in attached \cup enabled \cup toStart
    <2>1. Sparse(w) /\ Stored(w)
      BY <1>3 DEF NodeInv, ServedInv
    <2>2. Undisturbed(w)
      BY <2>1, FilesUndisturbed DEF NodeInv
    <2>3. ASSUME disk'[Dev(w)] = disk[Dev(w)]
          PROVE  Stored(w)'
      BY <2>1, <2>3, SpecKept, StoredDepends
    <2>4. CASE JobStep \/ StepFails \/ MinionRestart \/ Reboot
      <3>1. Removed => job.v # w
        BY <1>3, <2>1 DEF Removed, At, NodeInv, JobInv, Released
      <3> QED
        BY <1>1, <2>1, <2>2, <2>4, <3>1, JobKeepsStored DEF NodeInv
    <2>5. ASSUME NEW b \in Devices, Wipe(b) PROVE Stored(w)'
      <3>1. Dev(w) # b /\ Dev(w) \in Backings
        BY <2>1, OwnFile, VolumeTypes, DevicesAssumption DEF NodeInv
      <3> QED
        BY <2>3, <2>5, <3>1, WipeWrites
    <2> QED
      BY <1>1, <2>1, <2>3, <2>4, <2>5, RequestKeepsDisk DEF Next, vars, nodeVars
  <1> QED
    BY <1>2, <1>3

\* A job goes on with its next step.
LEMMA JobGoesOn ==
    ASSUME TypeOK, JobInv, job.pc # "idle",
           NEW v \in Volumes, v = job.v,
           NEW pc \in PrepareSteps \cup UnprepareSteps, Goto(pc),
           UNCHANGED volume, pc \in PrepareSteps <=> job.pc \in PrepareSteps,
           Achieved(pc, v)', Released(pc, v)'
    PROVE  JobInv'
  <1>1. job' = [caller |-> job.caller, v |-> v, pc |-> pc] /\ UNCHANGED outcome
    BY GotoTypes
  <1>2. job'.caller = job.caller /\ job'.v = v /\ job'.pc = pc
    BY <1>1
  <1>3. Achieved(job.pc, job.v)' /\ Released(job.pc, job.v)'
    BY <1>2
  <1> QED
    BY <1>1, <1>2, <1>3 DEF JobInv

LEMMA JobEnds == job' = NoJob => JobInv'
  BY DEF JobInv, NoJob

\* What a backing that was just written says of its Volume.
LEMMA StoreWritten ==
    ASSUME TypeOK, job.pc # "idle", NEW c \in Backing, Written(c),
           UNCHANGED spec, NEW v \in Volumes, v = job.v
    PROVE  Store(v)' = c /\ Sparse(v)' = Sparse(v)
  BY BusyStep, WrittenTypes DEF Store, Dev, Sparse

\* The steps that write achieve what the next ones rely on.
LEMMA WritingAchieves ==
    ASSUME TypeOK, NodeInv,
           \/ CreateFile \/ Truncate \/ CreateLogicalVolume \/ Mkfs
           \/ PrepareBlock \/ PreparePartition
    PROVE  JobInv'
  <1> USE DEF NodeInv
  <1>0. /\ job.pc \in PrepareSteps /\ job.pc # "idle"
        /\ UNCHANGED <<spec, volume>>
    BY DEF CreateFile, Truncate, CreateLogicalVolume, Mkfs, PrepareBlock,
       PreparePartition, At, PrepareSteps
  <1>1. PICK v \in Volumes : v = job.v
    BY <1>0, BusyStep
  <1>2. Store(v) \in Backing
    BY VolumeTypes
  <1>3. spec[v].mode' = spec[v].mode /\ Dev(v)' = Dev(v)
    BY <1>0 DEF Dev
  <1>4. CASE CreateFile
    <2> DEFINE c == [Store(job.v) EXCEPT !.size = "empty"]
    <2>1. Written(c) /\ c \in Backing /\ c.size = "empty" /\ Goto("truncate")
          /\ Sparse(v)
      BY <1>1, <1>2, <1>4, FileWrites DEF CreateFile, Backing
    <2> HIDE DEF c
    <2>2. Store(v)' = c /\ Sparse(v)'
      BY <1>0, <1>1, <2>1, StoreWritten
    <2>3. Achieved("truncate", v)' /\ Released("truncate", v)'
      BY <2>1, <2>2 DEF Achieved, Released
    <2> QED
      BY <1>0, <1>1, <2>1, <2>3, JobGoesOn DEF PrepareSteps
  <1>5. CASE Truncate \/ CreateLogicalVolume
    <2> DEFINE c == [Store(job.v) EXCEPT !.size = "full"]
    <2>1. Written(c) /\ c \in Backing /\ c.size = "full" /\ Goto("prepared")
      BY <1>1, <1>2, <1>5, FileWrites, DeviceWrites
         DEF Truncate, CreateLogicalVolume, Backing
    <2> HIDE DEF c
    <2>2. Store(v)' = c
      BY <1>0, <1>1, <2>1, StoreWritten
    <2>3. Achieved("prepared", v)' /\ Released("prepared", v)'
      BY <2>1, <2>2 DEF Achieved, Released
    <2> QED
      BY <1>0, <1>1, <2>1, <2>3, JobGoesOn DEF PrepareSteps
  <1>6. ASSUME NEW c \in Backing, Written(c), c.size = "full",
               Goto(Provision(job.v)),
               spec[v].mode = "Filesystem" => c.fs = v,
               spec[v].mode = "Block" => c.part = v
        PROVE  JobInv'
    <2>1. Store(v)' = c /\ Sparse(v)' = Sparse(v)
      BY <1>0, <1>1, <1>6, StoreWritten
    <2>2. Stored(v)'
      BY <1>0, <1>6, <2>1 DEF Stored
    <2>3. PICK pc \in {"running", "refresh"} :
             Goto(pc) /\ (pc = "running" <=> Sparse(v))
      BY <1>1, <1>6 DEF Provision
    <2>4. Achieved(pc, v)' /\ Released(pc, v)'
      BY <2>1, <2>2, <2>3 DEF Achieved, Released
    <2> QED
      BY <1>0, <1>1, <2>3, <2>4, JobGoesOn DEF PrepareSteps
  <1>7. CASE Mkfs
    <2>1. /\ spec[v].mode = "Filesystem" /\ Store(v).size = "full"
      BY <1>1, <1>7 DEF Mkfs, At, JobInv, Achieved
    <2>2. Goto(Provision(job.v))
      BY <1>7 DEF Mkfs
    <2> QED
      BY <1>1, <1>2, <1>6, <1>7, <2>1, <2>2, DeviceWrites DEF Backing
  <1>8. CASE PrepareBlock \/ PreparePartition
    <2>1. /\ spec[v].mode = "Block" /\ Store(v).size = "full"
      BY <1>1, <1>8 DEF PrepareBlock, PreparePartition, At, JobInv, Achieved
    <2>2. Goto(Provision(job.v))
      BY <1>8 DEF PrepareBlock, PreparePartition
    <2> QED
      BY <1>1, <1>2, <1>6, <1>8, <2>1, <2>2, DeviceWrites DEF Backing
  <1> QED
    BY <1>4, <1>5, <1>7, <1>8

\* The loop device of what systemd serves is found, so that its unit stops.
LEMMA ServedFound ==
    ASSUME TypeOK, NodeInv, NEW v \in attached
    PROVE  DeviceFound(v)
  <1>1. v \in Volumes /\ Sparse(v) /\ Stored(v)
    BY DEF TypeOK, NodeInv, ServedInv
  <1>2. Dev(v) \notin LogicalVolumes
    BY <1>1, OwnFile, DevicesAssumption DEF NodeInv, Devices
  <1>3. spec[v].mode \in Modes
    BY <1>1, VolumeTypes DEF Specs
  <1> QED
    BY <1>1, <1>2, <1>3 DEF DeviceFound, Stored, IsLvmBlock, Modes

\* What IsPrepared finds is the storage of the Volume.
LEMMA PreparedStored ==
    ASSUME TypeOK, NEW v \in Volumes, IsPrepared(v), Store(v).size = "full"
    PROVE  Stored(v)
  <1>1. CASE spec[v].mode = "Filesystem"
    BY <1>1 DEF IsPrepared, Stored
  <1>2. CASE spec[v].mode = "Block" /\ IsLvmBlock(v)
    BY <1>2 DEF Stored
  <1>3. CASE spec[v].mode = "Block" /\ ~IsLvmBlock(v)
    <2>1. Dev(v) \in PersistentPath(v)
      BY <1>3 DEF IsPrepared
    <2>2. disk[Dev(v)].part = v
      BY <1>3, <2>1 DEF PersistentPath
    <2> QED
      BY <1>3, <2>2 DEF Stored, Store, Dev
  <1>4. spec[v].mode \in {"Filesystem", "Block"}
    BY VolumeTypes DEF Specs, Modes
  <1> QED
    BY <1>1, <1>2, <1>3, <1>4

\* The steps that decide, and those on units.
LEMMA QuietAchieves ==
    ASSUME TypeOK, NodeInv,
           \/ PresentExists \/ AlreadyPrepared \/ PrepareFilesystem
           \/ StartUnit \/ EnableUnit \/ StopUnit \/ DisableUnit
    PROVE  JobInv'
  <1> USE DEF NodeInv
  <1>0. job.pc # "idle" /\ UNCHANGED <<spec, volume, disk>>
    BY DEF PresentExists, AlreadyPrepared, PrepareFilesystem, StartUnit,
       EnableUnit, StopUnit, DisableUnit, At, nodeVars
  <1>1. PICK v \in Volumes : v = job.v
    BY <1>0, BusyStep
  <1>2. /\ Store(v) \in Backing /\ Store(v) = disk[Dev(v)]
        /\ Achieved(job.pc, v) /\ Released(job.pc, v)
    BY <1>0, <1>1, VolumeTypes DEF JobInv
  <1>3. /\ Store(v)' = Store(v) /\ Sparse(v)' = Sparse(v)
        /\ Stored(v)' = Stored(v) /\ spec[v]' = spec[v]
    BY <1>0, StoredDepends DEF Sparse
  <1>4. CASE PresentExists
    <2>1. Store(v).size = "full"
      BY <1>1, <1>2, <1>4, OwnFile
         DEF PresentExists, Exists, BackingInv, Backing
    <2>2. Achieved("prepared", v)' /\ Released("prepared", v)'
      BY <1>3, <2>1 DEF Achieved, Released
    <2> QED
      BY <1>0, <1>1, <1>4, <2>2, JobGoesOn DEF PresentExists, At, PrepareSteps
  <1>5. CASE AlreadyPrepared
    <2>1. Stored(v)
      BY <1>1, <1>2, <1>5, PreparedStored DEF AlreadyPrepared, At, Achieved
    <2>2. PICK pc \in {"running", "refresh"} :
             Goto(pc) /\ (pc = "running" <=> Sparse(v))
      BY <1>1, <1>5 DEF AlreadyPrepared, Provision
    <2>3. Achieved(pc, v)' /\ Released(pc, v)'
      BY <1>3, <2>1, <2>2 DEF Achieved, Released
    <2> QED
      BY <1>0, <1>1, <1>5, <2>2, <2>3, JobGoesOn
         DEF AlreadyPrepared, At, PrepareSteps
  <1>6. CASE PrepareFilesystem
    <2>1. /\ spec[v].mode = "Filesystem" /\ Store(v).size = "full"
          /\ Store(v).fs = "none"
      BY <1>1, <1>2, <1>6
         DEF PrepareFilesystem, At, Achieved, NotFormatted
    <2>2. Achieved("mkfs", v)' /\ Released("mkfs", v)'
      BY <1>3, <2>1 DEF Achieved, Released
    <2> QED
      BY <1>0, <1>1, <1>6, <2>2, JobGoesOn
         DEF PrepareFilesystem, At, PrepareSteps
  <1>7. CASE StartUnit
    <2>1. Stored(v) /\ Sparse(v) /\ v \in attached'
      BY <1>1, <1>2, <1>7 DEF StartUnit, At, Achieved
    <2>2. Achieved("enable", v)' /\ Released("enable", v)'
      BY <1>3, <2>1 DEF Achieved, Released
    <2> QED
      BY <1>0, <1>1, <1>7, <2>2, JobGoesOn DEF StartUnit, At, PrepareSteps
  <1>8. CASE EnableUnit
    <2>1. /\ Stored(v) /\ v \in attached' \cup toStart' /\ v \in enabled'
      BY <1>1, <1>2, <1>8 DEF EnableUnit, At, Achieved
    <2>2. Achieved("refresh", v)' /\ Released("refresh", v)'
      BY <1>3, <2>1 DEF Achieved, Released, UnitUp
    <2> QED
      BY <1>0, <1>1, <1>8, <2>2, JobGoesOn DEF EnableUnit, At, PrepareSteps
  <1>9. CASE StopUnit
    <2>1. Sparse(v) /\ v \notin attached' \cup toStart'
      BY <1>1, <1>2, <1>9, ServedFound DEF StopUnit, At, Released
    <2>2. Achieved("disable", v)' /\ Released("disable", v)'
      BY <1>3, <2>1 DEF Achieved, Released
    <2> QED
      BY <1>0, <1>1, <1>9, <2>2, JobGoesOn
         DEF StopUnit, At, PrepareSteps, UnprepareSteps
  <1>10. CASE DisableUnit
    <2>1. v \notin attached' \cup toStart' \cup enabled'
      BY <1>1, <1>2, <1>10 DEF DisableUnit, At, Released
    <2>2. Achieved("removed", v)' /\ Released("removed", v)'
      BY <1>3, <2>1 DEF Achieved, Released
    <2> QED
      BY <1>0, <1>1, <1>10, <2>2, JobGoesOn
         DEF DisableUnit, At, PrepareSteps, UnprepareSteps
  <1> QED
    BY <1>4, <1>5, <1>6, <1>7, <1>8, <1>9, <1>10

\* Whoever asks for a job does it when the minion is idle.
LEMMA StartAchieves ==
    ASSUME TypeOK, NodeInv, NEW w \in Volumes,
           SubmitPrepare(w) \/ SubmitUnprepare(w) \/ Redeploy(w)
    PROVE  JobInv'
  <1>1. UNCHANGED <<spec, volume>>
    BY DEF SubmitPrepare, SubmitUnprepare, Redeploy
  <1>2. PICK c \in Callers, pc \in PrepareSteps \cup UnprepareSteps :
           /\ Start(c, w, pc)
           /\ pc = "present" \/ (pc = "dead" /\ Sparse(w))
                \/ (pc = "removed" /\ ~Sparse(w))
           /\ c = "operator" => volume[w] = IF pc = "present" THEN "declared"
                                                              ELSE "deleted"
           /\ c = "highstate" => pc = "present"
    BY DEF SubmitPrepare, SubmitUnprepare, Redeploy, Callers, PrepareSteps,
       UnprepareSteps
  <1>3. /\ job'.caller = c /\ job'.v = w /\ job'.pc = pc
        /\ outcome'[c][w] = "running"
    BY <1>2, StartTypes
  <1>4. Sparse(w)' = Sparse(w)
    BY <1>1 DEF Sparse
  <1>5. Achieved(pc, w)' /\ Released(pc, w)'
    BY <1>2, <1>4 DEF Achieved, Released
  <1>6. Achieved(job.pc, job.v)' /\ Released(job.pc, job.v)'
    BY <1>3, <1>5
  <1>7. pc \in PrepareSteps <=> pc = "present"
    BY <1>2 DEF PrepareSteps
  <1> QED
    BY <1>1, <1>2, <1>3, <1>6, <1>7 DEF JobInv

\* The rest of what happens around a job that goes on.
LEMMA OthersAchieve ==
    ASSUME TypeOK, NodeInv, NEW w \in Volumes,
           \/ Declare(w) \/ Acknowledge(w) \/ Delete(w) \/ Forget(w)
           \/ BootUnit(w)
    PROVE  JobInv'
  <1> USE DEF NodeInv
  <1>1. UNCHANGED <<spec, disk, job, enabled>>
    BY DEF Declare, Acknowledge, Delete, Forget, BootUnit, nodeVars
  <1>2. CASE job.pc = "idle"
    BY <1>1, <1>2 DEF JobInv
  <1>3. CASE job.pc # "idle"
    <2>1. PICK v \in Volumes : v = job.v
      BY <1>3, BusyStep
    <2>2. /\ Store(v)' = Store(v) /\ Sparse(v)' = Sparse(v)
          /\ Stored(v)' = Stored(v) /\ spec[v]' = spec[v]
      BY <1>1, StoredDepends, VolumeTypes DEF Sparse
    <2>3. Achieved(job.pc, v) /\ Released(job.pc, v)
      BY <1>3, <2>1 DEF JobInv
    <2>4. /\ attached \cup toStart = attached' \cup toStart'
      <3>1. CASE BootUnit(w)
        <4>1. Stored(w) /\ Dev(w) = w
          BY <3>1, OwnFile DEF BootUnit, ServedInv
        <4>2. disk[w].size = "full"
          BY <4>1 DEF Stored, Store, Dev
        <4> QED
          BY <3>1, <4>2 DEF BootUnit
      <3>2. CASE ~BootUnit(w)
        BY <3>2 DEF Declare, Acknowledge, Delete, Forget, nodeVars
      <3> QED
        BY <3>1, <3>2
    <2>5. Achieved(job.pc, v)' /\ Released(job.pc, v)'
      <3>1. \A pc \in PrepareSteps \cup UnprepareSteps :
               Achieved(pc, v) /\ Released(pc, v)
                  => Achieved(pc, v)' /\ Released(pc, v)'
        BY <1>1, <2>2, <2>4 DEF Achieved, Released, UnitUp
      <3>2. job.pc \in PrepareSteps \cup UnprepareSteps /\ job' = job
        BY <1>1, <1>3, BusyStep DEF Jobs
      <3> QED
        BY <2>3, <3>1, <3>2
    <2>6. Achieved(job.pc, job.v)' /\ Released(job.pc, job.v)'
      BY <1>1, <2>1, <2>5
    <2>7. /\ outcome[job.caller][v] = "running" /\ job.caller \in Callers
          /\ job.caller = "operator" =>
                volume[v] = IF job.pc \in PrepareSteps THEN "declared"
                                                       ELSE "deleted"
          /\ job.caller = "highstate" => job.pc \in PrepareSteps
      BY <1>3, <2>1, BusyStep DEF JobInv
    <2>8. outcome'[job.caller][v] = outcome[job.caller][v]
      <3>1. CASE Delete(w)
        <4>1. Records("operator", w, "none") /\ "operator" \in Callers
          BY <3>1 DEF Delete, Records, Callers
        <4>2. job.caller # "operator" \/ v # w
          BY <2>7, <3>1 DEF Delete
        <4> QED
          BY <2>7, <4>1, <4>2, OutcomeTypes
      <3>2. CASE ~Delete(w)
        BY <3>2 DEF Declare, Acknowledge, Forget, BootUnit
      <3> QED
        BY <3>1, <3>2
    <2>9. job.caller = "operator" => volume'[v] = volume[v]
      <3> SUFFICES ASSUME job.caller = "operator"
                   PROVE  volume'[v] = volume[v]
        OBVIOUS
      <3>1. v # w \/ BootUnit(w)
        BY <2>7 DEF Declare, Acknowledge, Delete, Forget
      <3> QED
        BY <3>1 DEF Declare, Acknowledge, Delete, Forget, BootUnit, TypeOK
    <2> QED
      BY <1>1, <2>1, <2>6, <2>7, <2>8, <2>9 DEF JobInv
  <1> QED
    BY <1>2, <1>3

LEMMA JobStepInv ==
    ASSUME TypeOK, NodeInv, [Next]_vars
    PROVE  JobInv'
  <1>1. CASE JobStep
    BY <1>1, WritingAchieves, QuietAchieves, JobEnds
       DEF JobStep, CreateRefused, PrepareRefused, RefreshPillar, Removed,
           RemoveRefused, End
  <1>2. CASE StepFails \/ MinionRestart \/ Reboot
    BY <1>2, HalfStepTypes, JobEnds DEF NodeInv
  <1>3. CASE Request
    BY <1>3, StartAchieves, OthersAchieve DEF Request
  <1>4. CASE \E b \in Devices : Wipe(b)
    BY <1>4 DEF Wipe, JobInv
  <1>5. CASE UNCHANGED vars
    <2>1. UNCHANGED <<spec, volume, disk, attached, enabled, toStart, job,
                      outcome>>
      BY <1>5 DEF vars, nodeVars
    <2> QED
      BY <2>1 DEF NodeInv, JobInv, Achieved, Released, UnitUp, Stored, Store,
         Sparse, IsLvmBlock, Dev
  <1> QED
    BY <1>1, <1>2, <1>3, <1>4, <1>5 DEF Next

LEMMA InitNode == Init => NodeInv
  <1> SUFFICES ASSUME Init PROVE NodeInv
    OBVIOUS
  <1>1. ChoiceInv
    BY DEF Init, ChoiceInv
  <1>2. \A b \in Backings : disk[b] \in Initially(b)
    BY DEF Init
  <1>3. BackingInv
    BY <1>2, DevicesAssumption DEF BackingInv, Initially, Backings
  <1>4. LabelInv
    <2>1. ASSUME NEW b \in Backings
          PROVE  /\ disk[b].fs \in {"none", "other"}
                 /\ disk[b].part \in {"none", "other"}
                 /\ disk[b].size \in IF b \in Volumes THEN {"absent"}
                                     ELSE {"absent", "full"}
                 /\ disk[b].fs = "other" =>
                       MayShareDevice /\ disk[b].size = "full"
      BY <1>2 DEF Initially
    <2>2. "none" \notin Volumes /\ "other" \notin Volumes
      BY DevicesAssumption
    <2> QED
      BY <2>1, <2>2 DEF LabelInv, Backings
  <1>5. ServedInv /\ JobInv
    BY DEF Init, ServedInv, JobInv, NoJob
  <1> QED
    BY <1>1, <1>3, <1>4, <1>5 DEF NodeInv

\* What the node, the jobs and the units agree on holds in every reachable
\* state, whatever the devices and whether or not users share them.
THEOREM NodeSound == Spec => [](TypeOK /\ NodeInv)
  <1>1. Init => TypeOK /\ NodeInv
    BY InitTypes, InitNode
  <1>2. TypeOK /\ NodeInv /\ [Next]_vars => (TypeOK /\ NodeInv)'
    BY StepTypes, BackingStep, ServedStep, JobStepInv DEF NodeInv
  <1> QED
    BY <1>1, <1>2, PTL DEF Spec

-----------------------------------------------------------------------------
(***************************************************************************)
(* Available Volumes.                                                      *)
(***************************************************************************)
\* When devices are shared, they are shared for filesystems: nothing tells the
\* owners of raw storage apart.
NoSharedBlocks ==
    MayShareDevice =>
        \A k \in Kinds : k[1] = "sparseLoopDevice" \/ k[2] = "Filesystem"

LEMMA AllUndisturbed ==
    ASSUME TypeOK, ChoiceInv, NoSharedBlocks, NEW w \in Volumes
    PROVE  Undisturbed(w)
  <1> SUFFICES ASSUME NEW v \in Volumes, Dev(v) = Dev(w), v # w
               PROVE  spec[v].mode = "Filesystem"
    BY DEF Undisturbed
  <1>1. MayShareDevice
    BY DEF ChoiceInv
  <1>2. ~Sparse(v)
    BY OwnFile
  <1>3. <<spec[v].type, spec[v].mode>> \in Kinds
    BY OwnFile
  <1> QED
    BY <1>1, <1>2, <1>3 DEF NoSharedBlocks, Sparse

\* Only an Unprepare job of the operator takes the units of a Volume down, or
\* its file away.
LEMMA RemovalIsAskedFor ==
    ASSUME TypeOK, NodeInv, job.pc \in UnprepareSteps
    PROVE  job.v \in Volumes /\ volume[job.v] = "deleted"
  <1>1. job.pc # "idle" /\ job.pc \notin PrepareSteps
    BY DEF UnprepareSteps, PrepareSteps
  <1>2. job.caller \in {"operator", "highstate"}
    BY <1>1, BusyStep DEF Callers
  <1> QED
    BY <1>1, <1>2, BusyStep DEF NodeInv, JobInv

LEMMA UnitStaysUp ==
    ASSUME TypeOK, NodeInv, [Next]_vars, NEW w \in Volumes, UnitUp(w),
           Stored(w), Sparse(w), volume[w] # "deleted"
    PROVE  UnitUp(w)'
  <1>1. StopUnit \/ DisableUnit => job.v # w
    BY RemovalIsAskedFor DEF StopUnit, DisableUnit, At, UnprepareSteps
  <1>2. disk[w].size = "full"
    BY OwnFile DEF NodeInv, Stored, Store, Dev
  <1>3. CASE StopUnit
    BY <1>1, <1>3 DEF StopUnit, UnitUp
  <1>4. CASE DisableUnit
    BY <1>1, <1>4 DEF DisableUnit, UnitUp
  <1>5. CASE JobStep /\ ~StopUnit /\ ~DisableUnit
    BY <1>5 DEF UnitUp, JobStep, PresentExists, CreateFile, Truncate,
       CreateLogicalVolume, CreateRefused, AlreadyPrepared,
       PrepareFilesystem, Mkfs, PrepareBlock, PreparePartition,
       PrepareRefused, StartUnit, EnableUnit, RefreshPillar, Removed,
       RemoveRefused, nodeVars
  <1>6. CASE StepFails \/ MinionRestart \/ Reboot
    BY <1>6 DEF UnitUp, StepFails, MinionRestart, Reboot
  <1>7. CASE Request
    BY <1>2, <1>7 DEF UnitUp, Request, Declare, SubmitPrepare, Acknowledge,
       Delete, SubmitUnprepare, Forget, Redeploy, BootUnit, nodeVars
  <1>8. CASE \E b \in Devices : Wipe(b)
    BY <1>8 DEF UnitUp, Wipe
  <1> QED
    BY <1>3, <1>4, <1>5, <1>6, <1>7, <1>8 DEF Next, UnitUp, vars, nodeVars

\* Storage that the operator offers, or is about to, stays.
LEMMA OfferedStays ==
    ASSUME TypeOK, NodeInv, NoSharedBlocks, [Next]_vars,
           NEW w \in Volumes, volume[w] \in {"declared", "available"},
           Intact(w)
    PROVE  Intact(w)'
  <1>1. Stored(w) /\ Undisturbed(w) /\ UNCHANGED spec
    BY AllUndisturbed, SpecKept DEF Intact, NodeInv
  <1>2. Removed => job.v # w
    BY RemovalIsAskedFor DEF Removed, At, UnprepareSteps
  <1>3. CASE JobStep \/ StepFails \/ MinionRestart \/ Reboot
    <2>1. Stored(w)'
      BY <1>1, <1>2, <1>3, JobKeepsStored DEF NodeInv
    <2> QED
      BY <1>1, <2>1, UnitStaysUp DEF Intact, Sparse
  <1>4. ASSUME disk'[Dev(w)] = disk[Dev(w)]
        PROVE  Intact(w)'
    <2>1. Stored(w)'
      BY <1>1, <1>4, StoredDepends
    <2> QED
      BY <1>1, <2>1, UnitStaysUp DEF Intact, Sparse
  <1>5. ASSUME NEW b \in Devices, Wipe(b) PROVE Intact(w)'
    <2>1. Dev(w) # b
      BY <1>5 DEF Wipe, InPillar
    <2> QED
      BY <1>4, <1>5, <2>1, WipeWrites, VolumeTypes
  <1> QED
    BY <1>3, <1>4, <1>5, RequestKeepsDisk DEF Next, vars, nodeVars

\* A Volume is only offered once a job of the operator has prepared it.
LEMMA NewlyOffered ==
    ASSUME TypeOK, NodeInv, OfferedInv, [Next]_vars, NEW w \in Volumes,
           ~Offered(w), Offered(w)'
    PROVE  Intact(w)'
  <1>1. CASE RefreshPillar
    <2>1. /\ job.pc = "refresh" /\ End("ok")
          /\ UNCHANGED <<spec, volume, nodeVars>>
      BY <1>1 DEF RefreshPillar, At
    <2>2. job.v = w
      <3>1. outcome'["operator"][w] # outcome["operator"][w]
        BY <2>1 DEF Offered
      <3> QED
        BY <2>1, <3>1, EndTypes DEF Callers
    <2>3. Intact(w)
      BY <2>1, <2>2 DEF NodeInv, JobInv, Achieved, Intact
    <2> QED
      BY <2>1, <2>3 DEF Intact, UnitUp, Stored, Store, Sparse, Dev, IsLvmBlock,
         nodeVars
  <1>2. CASE Removed
    <2>1. /\ job.pc = "removed" /\ End("ok") /\ UNCHANGED volume
      BY <1>2 DEF Removed, At
    <2>2. volume[job.v] = "deleted"
      BY <2>1, RemovalIsAskedFor DEF UnprepareSteps
    <2>3. w # job.v
      BY <2>1, <2>2 DEF Offered
    <2> QED
      BY <2>1, <2>3, EndTypes DEF Offered, Callers
  <1>3. CASE JobStep /\ ~RefreshPillar /\ ~Removed
    <2>1. UNCHANGED volume
      BY <1>3 DEF JobStep, PresentExists, CreateFile, Truncate,
         CreateLogicalVolume, CreateRefused, AlreadyPrepared,
         PrepareFilesystem, Mkfs, PrepareBlock, PreparePartition,
         PrepareRefused, StartUnit, EnableUnit, StopUnit, DisableUnit,
         RemoveRefused, At
    <2>2. UNCHANGED outcome \/ (job.pc # "idle" /\ End("failed"))
      BY <1>3 DEF JobStep, PresentExists, CreateFile, Truncate,
         CreateLogicalVolume, CreateRefused, AlreadyPrepared,
         PrepareFilesystem, Mkfs, PrepareBlock, PreparePartition,
         PrepareRefused, StartUnit, EnableUnit, StopUnit, DisableUnit,
         RemoveRefused, At, Goto
    <2>3. outcome'["operator"][w] \in {outcome["operator"][w], "failed"}
      BY <2>2, EndTypes DEF Callers
    <2> QED
      BY <2>1, <2>3 DEF Offered
  <1>4. CASE StepFails \/ MinionRestart \/ Reboot
    <2>1. /\ UNCHANGED volume
          /\ outcome'["operator"][w]
                \in {outcome["operator"][w], "none", "failed"}
      BY <1>4, HalfStepTypes DEF NodeInv, Callers
    <2> QED
      BY <2>1 DEF Offered
  <1>5. ASSUME NEW v \in Volumes,
               SubmitPrepare(v) \/ SubmitUnprepare(v) \/ Redeploy(v)
        PROVE  FALSE
    <2>1. UNCHANGED volume
      BY <1>5 DEF SubmitPrepare, SubmitUnprepare, Redeploy
    <2>2. \E c \in Callers, pc \in PrepareSteps \cup UnprepareSteps :
             Start(c, v, pc)
      BY <1>5 DEF SubmitPrepare, SubmitUnprepare, Redeploy, Callers,
         PrepareSteps, UnprepareSteps
    <2>3. outcome'["operator"][w] \in {outcome["operator"][w], "running"}
      BY <2>2, StartTypes DEF Callers
    <2> QED
      BY <2>1, <2>3 DEF Offered
  <1>6. ASSUME NEW v \in Volumes, Delete(v)
        PROVE  FALSE
    <2>1. Records("operator", v, "none") /\ "operator" \in Callers
      BY <1>6 DEF Delete, Records, Callers
    <2>2. outcome'["operator"][w] \in {outcome["operator"][w], "none"}
      BY <2>1, OutcomeTypes
    <2>3. volume'[w] \in {volume[w], "deleted"}
      BY <1>6 DEF Delete, TypeOK
    <2> QED
      BY <2>2, <2>3 DEF Offered
  <1>7. ASSUME NEW v \in Volumes,
               Declare(v) \/ Acknowledge(v) \/ Forget(v) \/ BootUnit(v)
        PROVE  FALSE
    <2>1. UNCHANGED outcome
      BY <1>7 DEF Declare, Acknowledge, Forget, BootUnit
    <2>2. \/ volume'[w] = volume[w]
          \/ volume[w] = "new" /\ volume'[w] = "declared"
          \/ /\ volume[w] = "declared"
             /\ volume'[w] = IF outcome["operator"][w] = "ok" THEN "available"
                                                             ELSE "failed"
          \/ volume'[w] = "gone"
      BY <1>7 DEF Declare, Acknowledge, Forget, BootUnit, TypeOK
    <2> QED
      BY <2>1, <2>2 DEF Offered, OfferedInv
  <1>8. CASE (\E b \in Devices : Wipe(b)) \/ UNCHANGED vars
    BY <1>8 DEF Wipe, vars, Offered
  <1> QED
    BY <1>1, <1>2, <1>3, <1>4, <1>5, <1>6, <1>7, <1>8 DEF Next, Request

\* No job is recorded for a Volume that does not exist yet.
LEMMA NewHasNoJob ==
    ASSUME TypeOK, NodeInv, OfferedInv, [Next]_vars, NEW w \in Volumes,
           volume'[w] = "new"
    PROVE  outcome'["operator"][w] = "none"
  <1>1. volume[w] = "new" /\ outcome["operator"][w] = "none"
    <2>1. volume[w] = "new"
      BY DEF Next, JobStep, PresentExists, CreateFile, Truncate,
         CreateLogicalVolume, CreateRefused, AlreadyPrepared,
         PrepareFilesystem, Mkfs, PrepareBlock, PreparePartition,
         PrepareRefused, StartUnit, EnableUnit, RefreshPillar, StopUnit,
         DisableUnit, Removed, RemoveRefused, At, StepFails, MinionRestart,
         Reboot, Request, Declare, SubmitPrepare, Acknowledge, Delete,
         SubmitUnprepare, Forget, Redeploy, BootUnit, Wipe, vars, TypeOK
    <2> QED
      BY <2>1 DEF OfferedInv
  <1>2. job.pc # "idle" => job.caller # "operator" \/ job.v # w
    BY <1>1 DEF NodeInv, JobInv
  <1>3. CASE JobStep
    <2>1. /\ job.pc # "idle"
          /\ UNCHANGED outcome \/ \E result \in {"ok", "failed"} : End(result)
      BY <1>3, JobTypes DEF JobStep, PresentExists, CreateFile, Truncate,
         CreateLogicalVolume, CreateRefused, AlreadyPrepared,
         PrepareFilesystem, Mkfs, PrepareBlock, PreparePartition,
         PrepareRefused, StartUnit, EnableUnit, RefreshPillar, StopUnit,
         DisableUnit, Removed, RemoveRefused, At, Goto
    <2> QED
      BY <1>1, <1>2, <2>1, EndTypes DEF Callers
  <1>4. CASE StepFails \/ MinionRestart \/ Reboot
    BY <1>1, <1>2, <1>4, HalfStepTypes DEF NodeInv, Callers
  <1>5. ASSUME NEW v \in Volumes,
               SubmitPrepare(v) \/ SubmitUnprepare(v) \/ Redeploy(v)
        PROVE  outcome'["operator"][w] = "none"
    <2>1. PICK c \in Callers, pc \in PrepareSteps \cup UnprepareSteps :
             Start(c, v, pc) /\ (c = "highstate" \/ v # w)
      BY <1>1, <1>5 DEF SubmitPrepare, SubmitUnprepare, Redeploy, Callers,
         PrepareSteps, UnprepareSteps
    <2> QED
      BY <1>1, <2>1, StartTypes DEF Callers
  <1>6. ASSUME NEW v \in Volumes, Delete(v)
        PROVE  outcome'["operator"][w] = "none"
    <2>1. Records("operator", v, "none") /\ "operator" \in Callers
      BY <1>6 DEF Delete, Records, Callers
    <2> QED
      BY <1>1, <2>1, OutcomeTypes
  <1>7. ASSUME NEW v \in Volumes,
               Declare(v) \/ Acknowledge(v) \/ Forget(v) \/ BootUnit(v)
        PROVE  outcome'["operator"][w] = "none"
    BY <1>1, <1>7 DEF Declare, Acknowledge, Forget, BootUnit
  <1>8. CASE (\E b \in Devices : Wipe(b)) \/ UNCHANGED vars
    BY <1>1, <1>8 DEF Wipe, vars
  <1> QED
    BY <1>3, <1>4, <1>5, <1>6, <1>7, <1>8 DEF Next, Request

LEMMA OfferedStep ==
    ASSUME TypeOK, NodeInv, OfferedInv, NoSharedBlocks, [Next]_vars
    PROVE  OfferedInv'
  <1>1. ASSUME NEW w \in Volumes, Offered(w)' PROVE Intact(w)'
    <2>1. CASE Offered(w)
      BY <2>1, OfferedStays DEF Offered, OfferedInv
    <2> QED
      BY <1>1, <2>1, NewlyOffered
  <1> QED
    BY <1>1, NewHasNoJob DEF OfferedInv

LEMMA InitOffered == Init => OfferedInv
  <1> SUFFICES ASSUME Init, NEW v \in Volumes
               PROVE  volume[v] = "new" /\ outcome["operator"][v] = "none"
    BY DEF OfferedInv, Offered
  <1> QED
    BY DEF Init, Callers

LEMMA OfferedAlways ==
    ASSUME NoSharedBlocks
    PROVE  Spec => [](TypeOK /\ NodeInv /\ OfferedInv)
  <1>1. Init => TypeOK /\ NodeInv /\ OfferedInv
    BY InitTypes, InitNode, InitOffered
  <1>2. TypeOK /\ NodeInv /\ OfferedInv /\ [Next]_vars
           => (TypeOK /\ NodeInv /\ OfferedInv)'
    BY StepTypes, BackingStep, ServedStep, JobStepInv, OfferedStep DEF NodeInv
  <1> QED
    BY <1>1, <1>2, PTL DEF Spec

\* Whatever the devices, the jobs and the faults, the state has the shape that
\* the model declares.
THEOREM VolumesTypeCorrect == Spec => []TypeOK
  BY NodeSound, PTL

\* A loop device always has its file (metalk8s-sparse-volume@, and the order of
\* `unprepared`: the unit stops before the file goes).
THEOREM LoopsHaveFiles == Spec => []LoopHasFile
  <1>1. TypeOK /\ NodeInv => LoopHasFile
    <2> SUFFICES ASSUME TypeOK, NodeInv, NEW v \in attached
                 PROVE  disk[v].size # "absent"
      BY DEF LoopHasFile
    <2>1. v \in Volumes /\ Sparse(v) /\ Stored(v)
      BY DEF TypeOK, NodeInv, ServedInv
    <2>2. Dev(v) = v
      BY <2>1, OwnFile DEF NodeInv
    <2> QED
      BY <2>1, <2>2 DEF Stored, Store, Dev
  <1> QED
    BY <1>1, NodeSound, PTL

\* As long as devices are not shared for raw storage, an Available Volume keeps
\* its storage and its unit, whatever other Volumes, redeployments and reboots
\* do (prepare() looks at what a device holds before it writes).
THEOREM AvailableStays ==
    ASSUME NoSharedBlocks
    PROVE  Spec => []AvailableIntact
  <1>1. OfferedInv => AvailableIntact
    BY DEF OfferedInv, Offered, Intact, UnitUp, AvailableIntact
  <1> QED
    BY <1>1, OfferedAlways, PTL

-----------------------------------------------------------------------------
(***************************************************************************)
(* What no step does.                                                      *)
(***************************************************************************)
\* A step of a job that erases a filesystem removes the file of a Volume that
\* is marked for deletion.
LEMMA JobOverwritesNothing ==
    ASSUME TypeOK, NodeInv, NoSharedBlocks,
           JobStep \/ StepFails \/ MinionRestart \/ Reboot,
           NEW b \in Backings, disk[b].fs \in Volumes \cup {"other"},
           disk'[b].fs # disk[b].fs
    PROVE  b \in Volumes /\ volume[b] = "deleted"
  <1> USE DEF NodeInv
  <1>1. /\ job.pc # "idle" /\ b = Dev(job.v) /\ job.v \in Volumes
        /\ Store(job.v) = disk[b] /\ disk[b] \in Backing
        /\ \A c \in Backing : Written(c) => disk'[b] = c
    BY JobWrites, WrittenTypes, BusyStep
  <1>2. disk[b].fs # "none"
    BY DevicesAssumption
  <1>3. CASE Removed
    <2>1. Sparse(job.v)
      BY <1>3, RemovedWrites
    <2> QED
      BY <1>1, <1>3, <2>1, OwnFile, RemovalIsAskedFor
         DEF Removed, At, UnprepareSteps
  <1>4. CASE PrepareBlock
    <2>1. spec[job.v].mode = "Block"
      BY <1>4 DEF PrepareBlock
    <2>2. CASE disk[b].fs = "other"
      <3>1. MayShareDevice /\ b \in Devices
        BY <2>2 DEF LabelInv
      <3>2. ~Sparse(job.v)
        BY <1>1, <3>1, OwnFile, DevicesAssumption
      <3> QED
        BY <1>1, <2>1, <3>1, <3>2, OwnFile DEF NoSharedBlocks, Sparse
    <2>3. CASE disk[b].fs \in Volumes
      <3>1. PICK v \in Volumes : v = disk[b].fs
        BY <2>3
      <3>2. Dev(v) = b /\ spec[v].mode = "Filesystem"
        BY <3>1 DEF LabelInv
      <3>3. Undisturbed(v)
        BY AllUndisturbed
      <3> QED
        BY <1>1, <2>1, <3>2, <3>3 DEF Undisturbed
    <2> QED
      BY <2>2, <2>3
  <1>5. CASE CreateFile \/ Truncate
    BY <1>1, <1>5, FileWrites DEF Backing
  <1>6. CASE CreateLogicalVolume \/ PreparePartition
    BY <1>1, <1>6, DeviceWrites DEF Backing
  <1>7. CASE Mkfs
    BY <1>1, <1>2, <1>7 DEF Mkfs, At, JobInv, Achieved
  <1>8. CASE StepFails \/ MinionRestart \/ Reboot
    <2>1. job.pc # "mkfs"
      BY <1>1, <1>2 DEF JobInv, Achieved
    <2>2. /\ Written([Store(job.v) EXCEPT !.size = "absent"])
          /\ [Store(job.v) EXCEPT !.size = "absent"] \in Backing
      BY <1>8, <2>1, HalfWrites
    <2> QED
      BY <1>1, <2>2 DEF Backing
  <1> QED
    BY <1>3, <1>4, <1>5, <1>6, <1>7, <1>8, QuietStepTypes DEF JobStep

\* "We don't want data loss because of a typo" (prepare() in
\* metalk8s_volumes.py): a filesystem is only erased with the file of a deleted
\* Volume, or by an administrator.
THEOREM NothingIsOverwritten ==
    ASSUME NoSharedBlocks
    PROVE  Spec => NothingOverwritten
  <1> DEFINE Kept ==
        \A b \in Backings :
          disk[b].fs \in Volumes \cup {"other"} /\ disk'[b].fs # disk[b].fs
              => IF b \in Volumes THEN volume[b] = "deleted"
                 ELSE \A v \in Volumes : Dev(v) = b => ~InPillar(v)
  <1>1. TypeOK /\ NodeInv /\ [Next]_vars => [Kept]_vars
    <2> SUFFICES ASSUME TypeOK, NodeInv, [Next]_vars, NEW b \in Backings,
                        disk[b].fs \in Volumes \cup {"other"},
                        disk'[b].fs # disk[b].fs
                 PROVE  IF b \in Volumes THEN volume[b] = "deleted"
                        ELSE \A v \in Volumes : Dev(v) = b => ~InPillar(v)
      OBVIOUS
    <2>1. CASE JobStep \/ StepFails \/ MinionRestart \/ Reboot
      BY <2>1, JobOverwritesNothing
    <2>2. ASSUME NEW a \in Devices, Wipe(a)
          PROVE  b \notin Volumes /\ \A v \in Volumes : Dev(v) = b => ~InPillar(v)
      BY <2>2, WipeWrites, DevicesAssumption DEF Wipe
    <2> QED
      BY <2>1, <2>2, RequestKeepsDisk DEF Next, vars, nodeVars
  <1> QED
    BY <1>1, NodeSound, PTL DEF Spec, NothingOverwritten

\* prepare() and create() accept the storage of an Available Volume, except a
\* sparse file in Block mode, whose partition IsPrepared looks for in vain.
LEMMA PreparedAgain ==
    ASSUME TypeOK, NodeInv, NEW v \in Volumes, Stored(v),
           <<"sparseLoopDevice", "Block">> \notin Kinds
    PROVE  Loads(v) /\ Exists(v) /\ IsPrepared(v)
  <1>1. Loads(v) /\ Exists(v)
    BY DEF Stored, Loads, Exists
  <1>2. CASE spec[v].mode = "Filesystem"
    BY <1>1, <1>2 DEF Stored, IsPrepared
  <1>3. CASE spec[v].mode = "Block" /\ ~IsLvmBlock(v)
    <2>1. Dev(v) \notin Volumes /\ Dev(v) \in Backings
      BY <1>3, OwnFile, VolumeTypes DEF NodeInv, Sparse
    <2>2. disk[Dev(v)].part = v /\ disk[Dev(v)].size = "full"
      BY <1>3 DEF Stored, Store, Dev
    <2>3. Visible(Dev(v))
      BY <2>1, <2>2 DEF Visible
    <2>4. \A b \in Backings : disk[b].part = v => b = Dev(v)
      BY DEF NodeInv, LabelInv
    <2>5. PersistentPath(v) = {b \in Backings : Visible(b) /\ disk[b].part = v}
      BY <1>3 DEF PersistentPath
    <2>6. PersistentPath(v) = {Dev(v)}
      BY <2>1, <2>2, <2>3, <2>4, <2>5
    <2> QED
      BY <1>1, <1>3, <2>1, <2>6 DEF IsPrepared
  <1>4. spec[v].mode \in {"Filesystem", "Block"}
    BY VolumeTypes DEF Specs, Modes
  <1> QED
    BY <1>1, <1>2, <1>3, <1>4 DEF IsPrepared

\* "Idempotence" (the state `prepared`): a job that prepares an Available
\* Volume again only fails through a fault.
THEOREM PrepareIsIdempotent ==
    ASSUME NoSharedBlocks, <<"sparseLoopDevice", "Block">> \notin Kinds
    PROVE  Spec => PrepareIdempotent
  <1> DEFINE Accepted ==
        \A v \in Volumes, c \in Callers :
          volume[v] = "available"
          /\ outcome[c][v] = "running" /\ outcome'[c][v] = "failed"
              => faults' < faults
  <1>1. TypeOK /\ NodeInv /\ OfferedInv /\ [Next]_vars => [Accepted]_vars
    <2> SUFFICES ASSUME TypeOK, NodeInv, OfferedInv, [Next]_vars,
                        NEW v \in Volumes, NEW c \in Callers,
                        volume[v] = "available",
                        outcome[c][v] = "running", outcome'[c][v] = "failed"
                 PROVE  faults' < faults
      OBVIOUS
    <2>1. Loads(v) /\ Exists(v) /\ IsPrepared(v)
      BY PreparedAgain DEF OfferedInv, Offered, Intact
    <2>2. CASE StepFails \/ MinionRestart \/ Reboot
      BY <2>2, HalfStepTypes DEF NodeInv
    <2>3. CASE JobStep
      <3>1. /\ job.pc # "idle" /\ End("failed")
            /\ CreateRefused \/ PrepareRefused \/ RemoveRefused
        <4>1. job.pc # "idle"
          BY <2>3, JobTypes DEF JobStep, PresentExists, CreateFile, Truncate,
             CreateLogicalVolume, CreateRefused, AlreadyPrepared,
             PrepareFilesystem, Mkfs, PrepareBlock, PreparePartition,
             PrepareRefused, StartUnit, EnableUnit, RefreshPillar, StopUnit,
             DisableUnit, Removed, RemoveRefused, At
        <4>2. ~UNCHANGED outcome
          OBVIOUS
        <4>3. ~End("ok")
          BY <4>1, EndTypes
        <4> QED
          BY <2>3, <4>1, <4>2, <4>3 DEF JobStep, PresentExists, CreateFile,
             Truncate, CreateLogicalVolume, CreateRefused, AlreadyPrepared,
             PrepareFilesystem, Mkfs, PrepareBlock, PreparePartition,
             PrepareRefused, StartUnit, EnableUnit, RefreshPillar, StopUnit,
             DisableUnit, Removed, RemoveRefused, Goto
      <3>2. v = job.v
        BY <3>1, EndTypes
      <3>3. RemoveRefused => volume[v] = "deleted"
        BY <3>2, RemovalIsAskedFor DEF RemoveRefused, At, UnprepareSteps
      <3> QED
        BY <2>1, <3>1, <3>2, <3>3 DEF CreateRefused, PrepareRefused
    <2>4. CASE Request
      <3> SUFFICES ASSUME NEW w \in Volumes,
                      \/ Declare(w) \/ SubmitPrepare(w) \/ Acknowledge(w)
                      \/ Delete(w) \/ SubmitUnprepare(w) \/ Forget(w)
                      \/ Redeploy(w) \/ BootUnit(w)
                   PROVE  FALSE
        BY <2>4 DEF Request
      <3>1. CASE SubmitPrepare(w) \/ SubmitUnprepare(w) \/ Redeploy(w)
        <4>1. \E d \in Callers, pc \in PrepareSteps \cup UnprepareSteps :
                 Start(d, w, pc)
          BY <3>1 DEF SubmitPrepare, SubmitUnprepare, Redeploy, Callers,
             PrepareSteps, UnprepareSteps
        <4> QED
          BY <4>1, StartTypes
      <3>2. CASE Delete(w)
        <4>1. Records("operator", w, "none") /\ "operator" \in Callers
          BY <3>2 DEF Delete, Records, Callers
        <4> QED
          BY <4>1, OutcomeTypes
      <3> QED
        BY <3>1, <3>2 DEF Declare, Acknowledge, Forget, BootUnit
    <2> QED
      BY <2>2, <2>3, <2>4 DEF Next, Wipe, vars
  <1> QED
    BY <1>1, OfferedAlways, PTL DEF Spec, PrepareIdempotent

-----------------------------------------------------------------------------
(***************************************************************************)
(* Removal.                                                                *)
(***************************************************************************)
\* Told of the success of the removal, or rid of the Volume.
ToldRemoved(v) ==
    \/ volume[v] = "gone"
    \/ volume[v] = "deleted" /\ outcome["operator"][v] = "ok"

\* The operator is told at the end of `unprepared`.
LEMMA NewlyRemoved ==
    ASSUME TypeOK, NodeInv, ReclaimInv, [Next]_vars, NEW w \in Volumes,
           ~ToldRemoved(w), ToldRemoved(w)'
    PROVE  Removed /\ job.v = w
  <1>1. CASE JobStep
    <2>1. job.pc # "idle" /\ UNCHANGED volume
      BY <1>1, JobTypes DEF JobStep, PresentExists, CreateFile, Truncate,
         CreateLogicalVolume, CreateRefused, AlreadyPrepared,
         PrepareFilesystem, Mkfs, PrepareBlock, PreparePartition,
         PrepareRefused, StartUnit, EnableUnit, RefreshPillar, StopUnit,
         DisableUnit, Removed, RemoveRefused, At
    <2>2. outcome["operator"][w] # "ok" /\ outcome'["operator"][w] = "ok"
      BY <2>1 DEF ToldRemoved
    <2>3. \/ UNCHANGED outcome
          \/ End("failed")
          \/ End("ok") /\ (Removed \/ RefreshPillar)
      BY <1>1 DEF JobStep, PresentExists, CreateFile, Truncate,
         CreateLogicalVolume, CreateRefused, AlreadyPrepared,
         PrepareFilesystem, Mkfs, PrepareBlock, PreparePartition,
         PrepareRefused, StartUnit, EnableUnit, RefreshPillar, StopUnit,
         DisableUnit, Removed, RemoveRefused, Goto
    <2>4. /\ (End("ok") /\ Removed) \/ RefreshPillar
          /\ job.v = w /\ job.caller = "operator"
      BY <2>1, <2>2, <2>3, EndTypes DEF Callers
    <2>5. RefreshPillar => volume[w] = "declared"
      BY <2>1, <2>4 DEF RefreshPillar, At, NodeInv, JobInv, PrepareSteps
    <2> QED
      BY <2>1, <2>4, <2>5 DEF ToldRemoved
  <1>2. CASE StepFails \/ MinionRestart \/ Reboot
    <2>1. /\ UNCHANGED volume
          /\ outcome'["operator"][w]
                \in {outcome["operator"][w], "none", "failed"}
      BY <1>2, HalfStepTypes DEF NodeInv, Callers
    <2> QED
      BY <2>1 DEF ToldRemoved
  <1>3. ASSUME NEW v \in Volumes,
               SubmitPrepare(v) \/ SubmitUnprepare(v) \/ Redeploy(v)
        PROVE  FALSE
    <2>1. UNCHANGED volume
      BY <1>3 DEF SubmitPrepare, SubmitUnprepare, Redeploy
    <2>2. \E c \in Callers, pc \in PrepareSteps \cup UnprepareSteps :
             Start(c, v, pc)
      BY <1>3 DEF SubmitPrepare, SubmitUnprepare, Redeploy, Callers,
         PrepareSteps, UnprepareSteps
    <2>3. outcome'["operator"][w] \in {outcome["operator"][w], "running"}
      BY <2>2, StartTypes DEF Callers
    <2> QED
      BY <2>1, <2>3 DEF ToldRemoved
  <1>4. ASSUME NEW v \in Volumes, Delete(v)
        PROVE  FALSE
    <2>1. Records("operator", v, "none") /\ "operator" \in Callers
      BY <1>4 DEF Delete, Records, Callers
    <2>2. IF w = v THEN outcome'["operator"][w] = "none"
                   ELSE outcome'["operator"][w] = outcome["operator"][w]
      BY <2>1, OutcomeTypes
    <2>3. IF w = v THEN volume'[w] = "deleted" ELSE volume'[w] = volume[w]
      BY <1>4 DEF Delete, TypeOK
    <2> QED
      BY <2>2, <2>3 DEF ToldRemoved
  <1>5. ASSUME NEW v \in Volumes,
               Declare(v) \/ Acknowledge(v) \/ Forget(v) \/ BootUnit(v)
        PROVE  FALSE
    <2>1. UNCHANGED outcome
      BY <1>5 DEF Declare, Acknowledge, Forget, BootUnit
    <2>2. \/ volume'[w] = volume[w]
          \/ volume'[w] \in {"declared", "available", "failed"}
          \/ volume[w] = "deleted" /\ outcome["operator"][w] = "ok"
      BY <1>5 DEF Declare, Acknowledge, Forget, BootUnit, TypeOK
    <2> QED
      BY <2>1, <2>2 DEF ToldRemoved
  <1>6. CASE (\E b \in Devices : Wipe(b)) \/ UNCHANGED vars
    BY <1>6 DEF Wipe, vars, ToldRemoved
  <1> QED
    BY <1>1, <1>2, <1>3, <1>4, <1>5, <1>6 DEF Next, Request

\* What `removed` leaves of the file of its Volume.
LEMMA RemovalClears ==
    ASSUME TypeOK, NodeInv, NEW w \in Volumes, Removed, job.v = w
    PROVE  Cleared(w)'
  <1>1. /\ job.pc = "removed" /\ job.pc # "idle"
        /\ UNCHANGED <<attached, enabled, toStart>>
    BY DEF Removed, At
  <1>2. w \notin attached \cup enabled \cup toStart
    BY <1>1 DEF NodeInv, JobInv, Released, ServedInv
  <1>3. CASE Sparse(w)
    <2>1. Dev(w) = w
      BY <1>3, OwnFile DEF NodeInv
    <2>2. ASSUME UNCHANGED disk, IsCleanedUp(w)
          PROVE  disk'[w].size # "full"
      BY <1>3, <2>1, <2>2 DEF IsCleanedUp, Exists, Store, Dev
    <2>3. ASSUME NEW c \in Backing, Written(c), c.size = "absent"
          PROVE  disk'[w].size # "full"
      BY <1>1, <2>1, <2>3, WrittenTypes
    <2>4. disk'[w].size # "full"
      BY <2>1, <2>2, <2>3, RemovedWrites DEF NodeInv
    <2> QED
      BY <1>1, <1>2, <2>4 DEF Cleared
  <1>4. CASE ~Sparse(w)
    <2>1. BackingInv' /\ ~Sparse(w)'
      BY <1>4, BackingStep, SpecKept DEF Next, JobStep, Sparse
    <2>2. disk'[w].size = "absent"
      BY <2>1 DEF BackingInv
    <2> QED
      BY <1>1, <1>2, <2>2 DEF Cleared
  <1> QED
    BY <1>3, <1>4

\* A job of the operator is for a Volume that it still has to prepare or remove.
LEMMA JobNotTold ==
    ASSUME TypeOK, NodeInv, ReclaimInv, job.pc # "idle", NEW w \in Volumes,
           ToldRemoved(w)
    PROVE  w # job.v
  BY DEF NodeInv, JobInv, ReclaimInv, ToldRemoved

\* Nothing comes back of a Volume that was removed.
LEMMA ClearedStays ==
    ASSUME TypeOK, NodeInv, ReclaimInv, [Next]_vars, NEW w \in Volumes,
           ToldRemoved(w), Cleared(w)
    PROVE  Cleared(w)'
  <1>1. w \in Backings /\ disk[w].size # "full"
        /\ w \notin attached \cup enabled \cup toStart
    BY VolumeTypes DEF Cleared
  <1>2. CASE JobStep \/ StepFails \/ MinionRestart \/ Reboot
    <2>1. disk'[w] = disk[w]
      <3>1. CASE UNCHANGED disk
        BY <3>1
      <3>2. ASSUME job.pc # "idle", NEW c \in Backing, Written(c)
            PROVE  disk'[w] = disk[w]
        <4>1. Dev(job.v) # w
          BY <3>2, OwnFile, JobNotTold, BusyStep DEF NodeInv
        <4> QED
          BY <1>1, <3>2, <4>1, WrittenTypes
      <3> QED
        BY <1>2, <3>1, <3>2, JobWrites
    <2>2. w \notin attached' \cup enabled' \cup toStart'
      <3>1. StartUnit \/ EnableUnit => job.v # w
        BY JobNotTold DEF StartUnit, EnableUnit, At
      <3>2. CASE StartUnit
        BY <1>1, <3>1, <3>2 DEF StartUnit
      <3>3. CASE EnableUnit
        BY <1>1, <3>1, <3>3 DEF EnableUnit
      <3> QED
        BY <1>1, <1>2, <3>2, <3>3 DEF JobStep, PresentExists, CreateFile,
           Truncate, CreateLogicalVolume, CreateRefused, AlreadyPrepared,
           PrepareFilesystem, Mkfs, PrepareBlock, PreparePartition,
           PrepareRefused, RefreshPillar, StopUnit, DisableUnit, Removed,
           RemoveRefused, nodeVars, StepFails, MinionRestart, Reboot
    <2> QED
      BY <1>1, <2>1, <2>2 DEF Cleared
  <1>3. CASE Request
    <2>1. w \notin attached' \cup enabled' \cup toStart'
      BY <1>1, <1>3 DEF Request, Declare, SubmitPrepare, Acknowledge, Delete,
         SubmitUnprepare, Forget, Redeploy, BootUnit, nodeVars
    <2> QED
      BY <1>1, <1>3, <2>1, RequestKeepsDisk DEF Cleared
  <1>4. ASSUME NEW b \in Devices, Wipe(b) PROVE Cleared(w)'
    <2>1. w # b
      BY DevicesAssumption
    <2> QED
      BY <1>1, <1>4, <2>1, WipeWrites DEF Cleared, Wipe
  <1> QED
    BY <1>2, <1>3, <1>4 DEF Next, vars, nodeVars, Cleared

LEMMA ReclaimStep ==
    ASSUME TypeOK, NodeInv, ReclaimInv, [Next]_vars
    PROVE  ReclaimInv'
  <1>1. redeploys' = 0
    <2>1. ASSUME NEW v \in Volumes PROVE ~Redeploy(v)
      BY DEF Redeploy, ReclaimInv
    <2> QED
      BY <2>1 DEF ReclaimInv, Next, JobStep, PresentExists, CreateFile,
         Truncate, CreateLogicalVolume, CreateRefused, AlreadyPrepared,
         PrepareFilesystem, Mkfs, PrepareBlock, PreparePartition,
         PrepareRefused, StartUnit, EnableUnit, RefreshPillar, StopUnit,
         DisableUnit, Removed, RemoveRefused, At, StepFails, MinionRestart,
         Reboot, Request, Declare, SubmitPrepare, Acknowledge, Delete,
         SubmitUnprepare, Forget, BootUnit, Wipe, vars
  <1>2. job'.pc # "idle" => job'.caller = "operator"
    <2>1. CASE JobStep
      <3>1. job.pc # "idle"
        BY <2>1, JobTypes DEF JobStep, PresentExists, CreateFile, Truncate,
           CreateLogicalVolume, CreateRefused, AlreadyPrepared,
           PrepareFilesystem, Mkfs, PrepareBlock, PreparePartition,
           PrepareRefused, StartUnit, EnableUnit, RefreshPillar, StopUnit,
           DisableUnit, Removed, RemoveRefused, At
      <3>2. job' = NoJob \/ \E pc : job' = [job EXCEPT !.pc = pc]
        BY <2>1 DEF JobStep, PresentExists, CreateFile, Truncate,
           CreateLogicalVolume, CreateRefused, AlreadyPrepared,
           PrepareFilesystem, Mkfs, PrepareBlock, PreparePartition,
           PrepareRefused, StartUnit, EnableUnit, RefreshPillar, StopUnit,
           DisableUnit, Removed, RemoveRefused, End, Goto
      <3> QED
        BY <3>1, <3>2, BusyStep DEF ReclaimInv, NoJob, Jobs
    <2>2. CASE StepFails \/ MinionRestart \/ Reboot
      BY <2>2, HalfStepTypes DEF NodeInv, NoJob
    <2>3. ASSUME NEW v \in Volumes, SubmitPrepare(v) \/ SubmitUnprepare(v)
          PROVE  job'.caller = "operator"
      BY <2>3 DEF SubmitPrepare, SubmitUnprepare, Start
    <2>4. ASSUME NEW v \in Volumes PROVE ~Redeploy(v)
      BY DEF Redeploy, ReclaimInv
    <2>5. CASE UNCHANGED job
      BY <2>5 DEF ReclaimInv
    <2> QED
      BY <2>1, <2>2, <2>3, <2>4, <2>5 DEF Next, Request, Declare, Acknowledge,
         Delete, Forget, BootUnit, Wipe, vars
  <1>3. ASSUME NEW w \in Volumes, ToldRemoved(w)' PROVE Cleared(w)'
    <2>1. CASE ToldRemoved(w)
      BY <2>1, ClearedStays DEF ReclaimInv, ToldRemoved
    <2> QED
      BY <1>3, <2>1, NewlyRemoved, RemovalClears
  <1> QED
    BY <1>1, <1>2, <1>3 DEF ReclaimInv, ToldRemoved

\* Unless the node is redeployed, whose highstate prepares what the pillar still
\* lists, nothing serves a Volume that is gone and nothing is left of its file
\* (the states of `unprepared`, in their order).
THEOREM RemovalLeavesNothing ==
    ASSUME MaxRedeploys = 0
    PROVE  Spec => []ReclaimedIsUnserved
  <1>1. Init => TypeOK /\ NodeInv /\ ReclaimInv
    <2> SUFFICES ASSUME Init
                 PROVE  /\ redeploys = 0 /\ job.pc = "idle"
                        /\ \A v \in Volumes : volume[v] = "new"
      BY InitTypes, InitNode DEF ReclaimInv
    <2> QED
      BY DEF Init, NoJob
  <1>2. TypeOK /\ NodeInv /\ ReclaimInv /\ [Next]_vars
           => (TypeOK /\ NodeInv /\ ReclaimInv)'
    BY StepTypes, BackingStep, ServedStep, JobStepInv, ReclaimStep DEF NodeInv
  <1>3. ReclaimInv => ReclaimedIsUnserved
    BY DEF ReclaimInv, Cleared, ReclaimedIsUnserved
  <1> QED
    BY <1>1, <1>2, <1>3, PTL DEF Spec
=============================================================================
