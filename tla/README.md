# A TLA+ model of MetalK8s

MetalK8s deploys a Kubernetes cluster on bare machines and manages the storage
that its workloads use there. This directory holds TLA+ modules for the parts of
the repository whose behaviour depends on the order in which several actors
move, the TLC configurations that check them, and proofs that TLAPS checks.
Paths below are relative to the root of the repository.

Status: the lifecycle of a Volume is modelled on both sides, the storage
operator's and the node's; so are the drain of a node and most of the web UI, down to
the session that the shell keeps for it. The other components are listed with the modules planned for
them.

## 1. The system

| Component | State it keeps | Operations | Interacts by | What is hard | What makes it correct |
|---|---|---|---|---|---|
| **Storage operator**, `storage-operator/pkg/controller/volume` | status and finalizer of each Volume, a PersistentVolume per Volume, device info in memory | `Reconcile`: deploy, check, finalize | writes through the API server, reads from informers' caches, Salt API over HTTP | stale caches, conflicts, restarts, jobs submitted twice, deletion at any time | storage in use is never reclaimed; nothing is left of a deleted Volume; each Volume settles |
| **Salt API client**, `storage-operator/pkg/salt` | token | authenticate, submit, poll, read answers | HTTP | lost answers, 401 after a restart, answers of several shapes | each answer read as what it is: running, done, failed for good, to be retried |
| **Salt jobs of a node** | queue of jobs, pillar in memory, job cache of the master | `state.sls`, `device_info` | events between master and minion | one `state.sls` at a time, lost returns, outdated pillar | a job never works on another incarnation of a Volume |
| **Volumes on a node**, `salt/_modules/metalk8s_volumes.py`, `salt/metalk8s/volumes` | files, disks, loop devices, systemd units | `present`, `prepared`, `service.running`, `service.dead`, `removed` | called by jobs of the operator and by highstates; read by udev and systemd | crash between two commands, reboot, two Volumes on one device | available storage stays intact and attached; no data overwritten; idempotence |
| **Drain and cordon**, `salt/_modules/metalk8s_drain.py`, `metalk8s_cordon.py` | the node's `unschedulable` flag and taints, the list of pods to evict | cordon, filter, evict, wait | eviction API | disruption budgets, timeouts, pods replaced meanwhile | no unmanaged pod lost without `force`; ends or says what is left |
| **Orchestration**, `salt/metalk8s/orchestrate` | version label of each node, `cluster_version`, etcd members | deploy a node, upgrade, downgrade, restore | Salt runners, API server | reruns after a failure, mixed versions, quorum of etcd | one node at a time; never two versions apart |
| **UI, Salt jobs**, `ui/src/ducks/app/salt.js` | jobs in the store and in localStorage | add, poll, complete, collect | Salt event stream and polls | a reload at any moment, events before or after a poll, a failed poll | store and localStorage agree; an end that came before is seen, and told once |
| **UI, nodes**, `ui/src/ducks/app/nodes.js`, `NodePageOverviewTab.js` | list of nodes, jobs of each | fetch, deploy, report | API server, Salt API | fetches that overtake each other and jobs read before them | no second deployment offered while a known one runs; the outcome told as it is |
| **UI, pods and partitions**, `ducks/app/pods.js`, `NodePartitionTable.js` | one list of pods, a query per node | ask, answer, retry, collect | API server, Prometheus, react-query's cache | answers for an earlier page; two requests that see different moments; a query that outlives its tab | the pods of the last request; each partition with its own size and alerts |
| **UI, refresh loops**, `ui/src/ducks/app/*.js` | a flag and a saga per list | start, stop, fetch | sagas, mounts of screens | stop and start around a pending fetch, loops shared by screens | a mounted screen has a loop and ends up to date |
| **UI, graphs**, `monitoring.js`, `NodePageMetricsTab.js`, `VolumeMetricsTab.js` | arguments, span, samples | fetch, change of node, span or toggle | Prometheus, URL | fetches in flight for older arguments; gaps; a span kept in two places | graphs of the right thing, at the right place |
| **UI, volumes**, `VolumePage*.js` | lists of volumes, claims, alerts; the object of the details | select, delete | API server, URL | lists that arrive in any order, late answers | the details are those of the selected row |
| **UI, forms**, `CreateVolume.js`, `NodeCreateForm.js` | what was typed; a batch under way | edit, submit, leave | API server | pages left and forms sent again while a saga works | what is posted is complete; nothing forgotten in silence |
| **UI, lists**, `VolumeListTable.js`, `NodeListTable.js`, `AlertPage.js` | sort and search, in the table and in the URL | click, type, go back, reload | URL | two copies that follow each other, debounced writes | a reload keeps the order; no redirection loop |
| **UI and shell, alerts**, `shell-ui/src/alerts` | the last answer | remove warnings, count, filter | Alertmanager, URL | arbitrary order, removal by index | a counter leads to what it counts; critical alerts stay in sight |
| **UI and shell, session**, `shell-ui/src/navbar`, `ducks/{config,login}.js` | user, tokens, language, theme | sign in, renew, log out, choose | OIDC provider, events between shell and UI, localStorage | answers and scripts that arrive in any order, a sign-in given up | the clients are the user's; the user lands where asked; preferences last |
| **Solutions**, `salt/_modules/metalk8s_solutions.py` | configuration file, mounted archives, environments | import, activate, deploy | scripts, API server | a step that fails half-way | what is configured is mounted |

Users, Kubernetes' own controllers, the API server, the Salt master and systemd
are modelled as far as the components above depend on them.

Not modelled, and not planned: the pillars and thin wrappers of the Kubernetes
API (no state), `cri.py`, the bootstrap, backup and restore scripts (sequential
shell), notifications in the UI (messages shown for a while), the cluster page (no route leads to it), the
build chain, charts, images, documentation and tests.

## 2. Modules

| Module | What it is |
|---|---|
| `VolumeController` | the storage operator, the Salt jobs it spawns, and the objects it reads and writes, for one Volume name |
| `VolumeLifecycle` | what the operator promises: the life of each incarnation of a Volume name and of its storage |
| `VolumeControllerInv` | the inductive invariant of `VolumeController` |
| `VolumeControllerProofs` | lemmas on types; the theorems on types and job handles |
| `VolumeStorageInv` | the inductive invariant that relates storage, jobs and PersistentVolumes to the Volumes |
| `VolumeStorageProofs` | first, whatever caches lag: nothing leaks, nothing is erased unasked; then, with fresh PersistentVolumes: what is served is there; the refinement of `VolumeLifecycle` |
| `SaltVolume` | the Salt states of Volumes on one node, command by command |
| `SaltVolumeProofs` | its invariants and theorems |
| `MCSaltVolume` | the kinds of Volumes that runs of `SaltVolume` mix |
| `NodeDrain` | the drain of a node, call by call, among the pods, controllers and users of the cluster |
| `MCNodeDrain` | the pods and the options that runs of `NodeDrain` combine |
| `NodeDrainProofs` | its invariants and theorems |
| `UiSaltJobs` | the Salt jobs that a page follows: store, localStorage, polls, event stream |
| `UiSaltJobsProofs` | its invariants and theorems |
| `UiNodes` | a node from "Deploy" to the end of its deployment: fetches, row, panel |
| `UiPods` | the list of pods that the node page and the volume page share, and the pods tab |
| `UiPartitions` | the two requests for the partitions of a node, their cache, and the table |
| `UiRefresh` | the refresh loops, one per behaviour, and the screens that share them |
| `UiNodeStats` | the watcher behind the graphs of a node page |
| `UiMetrics` | spans in the store and in the URL, the grid of samples, the charts |
| `UiVolumes` | the volume page: lists, rows, selection, details, deletion |
| `UiForms` | the forms that create volumes and nodes, and their sagas |
| `UiLists` | the tables and the query of their URL |
| `UiAlerts` | alerts from Alertmanager to the pages |
| `UiSession` | a tab from the first load to an authenticated page |
| `UiPages`, `UiPagesProofs` | `UiSession`, `UiForms`, `UiLists`, `UiMetrics` and `UiAlerts` side by side; their invariants and theorems |
| `UiNodePages`, `UiNodePagesProofs` | `UiNodes`, `UiPods` and `UiPartitions` side by side; their invariants and theorem |
| `UiLoops`, `UiLoopsProofs` | `UiNodeStats`, `UiRefresh` and `UiVolumes` side by side; their invariants and theorems |
| `MCUiPages`, `MCUiLoops` | the instances of the UI modules that the runs check |

### VolumeController

One Volume name is enough: the operator shares nothing between names but the
`devices` map, which is indexed by name, and the minion's exclusion between jobs,
which `RejectStateJob` lets happen as a fault at any time. The name is reused: a
Volume that is gone may be created again, with a new UID.

*State.* `vol` and `pv` are the objects at the API server; `volCache` and `pvCache`
what the informers show, each with a flag that says whether it is current. `rec` is
the pass under way: its next call (`pc`), the copies it works on, and whether they are
still the current version, which is what the `resourceVersion` check of the API
server looks at. `devices` is the map of `ReconcileVolume`. `sent`, `running` and `jobs`
are the minion's queue, the `state.sls` it runs and the master's job cache; `pillar` is
the pillar in the minion's memory, and `storage` what is on the node for each UID. `class` is
the StorageClass of the Volume: usable, without `fsType`, or missing.

*Actions.* A pass starts with one action for the branch that `Reconcile` takes on
the two cached objects (`ReconcileInvalid`, `PrepareStorage`, `GetStorageSize`,
`CheckHealth`, `FinalizeDeletePv`, `ReclaimStorage`, ...): up to the first call, it
reads and decides only. Then there is one action per call: a write to
the API server (`AddVolumeFinalizer`, `UpdateVolumeStatus`, `CreatePersistentVolume`,
`RemovePvFinalizer`, ...), each of which may be refused (`Conflict`) or fail
(`CallFails`), or a request to Salt (`SubmitJob`, the `Poll...` actions). Everything else
may happen between two calls. `OperatorRestart` is a crash or a lost leader election:
memory is lost, the cache is read afresh. Users may delete the Volume, the
PersistentVolume and the StorageClass at any time, and create the class again.

*The StorageClass* is looked at twice: by the Prepare job, which formats with its `fsType`
(`Preparable`), and by `CreatePersistentVolume`, where a class that is missing or has no
`fsType` is an error that lasts (`CreationFails`): the request is queued again, and the Volume stays
Pending. `Mode` is a constant: a Block Volume is not formatted, so only the second look matters
to it. The class is read when the action that needs it happens.

*Job IDs* are reused once nothing refers to them, which stands for fresh ones.

### VolumeLifecycle

An incarnation is unborn, declared, serving (its PersistentVolume may be, or is,
used), retired, gone. Its storage changes only while it is declared or retired, it is
prepared when it starts to serve, absent when it is gone, and the next incarnation of
the name is declared after that. `VolumeController` implements it under the mapping `Stage`
(property `ImplementsLifecycle`).

### SaltVolume

*State.* `spec` is what the user asked for (type, mode, device). `disk` is each backing (a
file per Volume, disks, partitions, LVM volumes): whether it is there and of the right
size, whose filesystem and whose partition GUID it carries. `attached` and `enabled` are
the loop devices and the systemd units, `toStart` the units a boot under way still
has to start. `job` is the job that runs, with its next step, and `volume` and
`outcome` are what the operator knows of each Volume and of its jobs.

*Actions.* One per step that can fail or be interrupted: `present` is the creation of
the file and its truncation, or `lvcreate`; `prepared` is the test of idempotence, the look
at the device, then `mkfs` or `sgdisk`; `service.running` starts the unit, then enables it;
`service.dead` stops it, then disables it; `removed` removes a file. `StepFails` makes the
current command fail, `MinionRestart` and `Reboot` interrupt it. Jobs come from the
operator (as `VolumeController` has it: until it succeeds for Unprepare, again when an
outcome is lost) and from a highstate of the node, which includes `metalk8s.volumes`.

*What is abstracted.* An interrupted `mkfs` leaves nothing or a torn filesystem that blkid
reports; `sgdisk` is atomic and fails on a partition 1 that exists; stopping a unit that
is not active succeeds; a highstate goes through one Volume (states of several Volumes
do not depend on each other); a spec is not edited after creation. The operator
submits no Prepare job of its own once it has acknowledged one: the minion takes its jobs
in order, and `VolumeController` covers the ones that were submitted twice.

### NodeDrain

*State.* `Pods` are places that pods take one after the other, each with a new UID; `pod`
says which pod has the place, on the node or elsewhere, whether it is over or being
deleted and whether its controller exists, and `cast` what kind of pod takes it. `seen`,
`pods` and `rest` are the listing of `get_pods_for_eviction`, the pods to evict (later,
those not seen gone yet) and what the loop under way has still to go through; `cur` is the
pod whose eviction was refused and is retried; `again` tells the second listing, made to
report what remains, from the first. `opts` are the arguments of `node_drain`.

*Actions.* One per call: `Cordon`, `ListPods`, `FilterPod` (the four filters on a listed
pod, with its controller looked up now), `EvictPod` (accepted, 404 or 429), `LookAt`.
`EndFilter`, `EndEvictions`, `Tick` and `EndLook` are what the code decides between
loops, `Timeout` the exception of `check_timer`, which only loops raise; `SelectionFails` and
`EvictionFails` are API errors, an eviction that was done included. Meanwhile pods
terminate and are replaced, users delete pods and controllers and create pods.

*What is abstracted.* Pods are listed in any order. One budget covers the pods of
ReplicaSets and StatefulSets, which are available as soon as they exist. The pods of a
StatefulSet and bare pods keep their name when they are replaced, others do not. The
scheduler puts nothing on a cordoned node: one that binds a pod from an outdated copy of
the node is outside the model. A look-up of a controller by two filters is one step:
what happens in between has the same outcome. Uncordoning is not modelled.

### The UI

Each module has a part of the store (or of the state of a component, of the URL, of
localStorage) as variables, and one action per dispatch, effect, answer or click. JavaScript runs one
turn at a time: an action is a turn, from an event to the next `await`, `yield` of a call,
or end. A saga that waits for an answer is a record in a slot or a variable, with what it
read before it asked; `takeLatest` cancels the one before, `takeEvery` adds one, and an
exception that leaves a saga ends the root saga (`alive`).

- `UiSaltJobs`. `store` is the list of jobs, with duplicates; `storage` is localStorage; `conns`
  are the runs of `initialize`, each polling, then open. `CompleteJob` does the reducer, the write and the
  notification, which run in one turn. A completion time is the number of the dispatch.
- `UiNodes`. `fetches` are the `fetchNodes` in flight with the jobs they read; `entry` what was
  written. `NodeListData`, `ActiveJobs`, `Panel` are computed from them. It takes the jobs of one node as
  `UiSaltJobs` delivers them.
- `UiPods`. `pods` is everything the cluster has held, so that `list` and `asking` are moments of it;
  `TakeLatest` is the watcher.
- `UiPartitions`. `query` is react-query's entry of each node, with the halves of `Promise.all` that have come;
  retries, the shared request and the collection are react-query's (external); a query without data is loading
  again when it is asked again, whatever its last error. The table is
  an operator of the alerts, which `HealthOfPartition` takes in every combination.
- `UiRefresh`. `Loops` lists, for each saga, what a second start and an error do, the loader, whether
  it reads its own flag, the screens that start it, and the saga that changes its objects (`DELETE_VOLUME`, `DEPLOY_NODE`) and
  fetches them in the end; `Init` chooses one. `Proceeds` is one step of a task: the answer of the API to a change, the
  answer to a fetch, the loader's second, the end of the wait. `Launch` cancels what `takeLatest` cancels: a loop, a fetch, or
  a change in its call or in its fetch. The ghosts `left` and `cancelled` say that a screen which shared the
  loop has left it last, and that a fetch was cancelled inside a change.
- `UiNodeStats`. `tasks` are the forked fetches, `last` the one that a stop cancels, `args` what the
  store holds. Mounting forks twice: for the arguments left by the page before, then for the new ones.
- `UiMetrics`. Time is counted in sampling periods and the value of a sample is the time it was taken,
  so that a point at a wrong place shows. `AddMissingDataPoint` is the function of `utils.js`.
- `UiVolumes`. The cluster, the copies of it that each list holds, the location, the reads of
  the details' object in flight.
- `UiForms`. Values stand for their class (empty, valid, invalid). The number of volumes is counted in
  halves, since the field takes any number. `call` is the request of the saga, `unheard` those of sagas that were
  cancelled (`CancelCall`), by another batch or by the end of the root saga (`NodeThrows`): the API server still
  serves them. `abandoned` remembers their names.
- `UiLists`. A row has a name, a health and one more rank. `Synced` is `useTableSortURLSync`.
- `UiAlerts`. Alertmanager answers what fires in any order; `RemoveWarningAlerts` works on the indexes of that
  list, as the code does. Pages have what is left as a set: how `sortAlerts` orders it changes nothing here. An alert
  with a name of `Parents` groups others (`labels.children`): the header of the alert page leaves it out.
- `UiSession`. Shell and UI have variables of their own, related by the events of the web
  component; `logins` are the logins to the Salt API in flight.

*Composition.* The components share no variable: what one hands to another (a job, a list, a token) is
an input that the other's module leaves open, so each meets more than the others give it.
`UiPages`, `UiNodePages` and `UiLoops` put those side by side that a theorem is about, with a prefix for the
variables of each (`s`, `f`, `l`; `n`, `p`, `q`; `r`, `v`), and name what each promises (`SessionSafe`, `FormsSafe`,
`ListsSafe`, `NodesSafe`, `RefreshSafe`, `VolumesSafe`).
The product of their states would show nothing that the sum does not. `MCUiPages` and `MCUiLoops` therefore
extend or instantiate them with a variable `focus`, chosen by `Init`: one component moves in
a behaviour, the others stay in an initial state. Every action of every component is taken in the runs.

*What is abstracted.* Texts, styles and layout; React's rendering (a page is a
function of the state); the age of react-query's cache; the retry policies of HTTP clients.

## 3. What is checked

Every run is exhaustive within its bounds, and says `CHECK_DEADLOCK FALSE`: the
system is at rest when all its Volumes are settled or gone, when the drain has ended, when
users stop using the UI.

The properties of a UI module are grouped by component, in the module that puts components side by
side or else in the `MC` module (`ListsSafe` is the type invariant of `UiLists`, `ReloadKeepsOrder` and
`NoRedirectLoop`); the comment in the component's module says what each one is about.

| Run | Instance | Distinct states | What it shows |
|---|---|---|---|
| `vc_safety` | 2 incarnations, 2 job IDs, 1 fault, Volume cache may lag, Filesystem mode | 418,915 | types; job handles match phases; a PersistentVolume names its owner's device; storage that is or may come to be used is there; a Volume outlives its PersistentVolume; the inductive invariant of the storage, from which nothing stays on the node of a Volume that is gone; storage is only erased for a Volume marked for deletion; phases follow their diagram; the abstract lifecycle is implemented |
| `vc_lag` | same in Block mode, no fault, both caches may lag | 622,050 | the inductive invariant and the absence of "tampered" handles; the absence of leaks does not depend on fresh caches |
| `vc_liveness` | 1 incarnation, 2 job IDs, 1 fault, fresh caches, Block mode | 32,601 | a deleted Volume goes; every Volume settles; unless it stays Pending without its StorageClass |
| `vc_lag_bound` | 1 incarnation, PersistentVolume cache may lag | - | violation, see section 6 |
| `sv_filesystem` | 2 filesystem Volumes in files or on one disk they may share, 1 fault, 1 highstate | 275,630 | available storage is intact, attached and enabled; no loop device without its file; nothing overwritten; preparing again does not fail; deletions end |
| `sv_block` | 2 raw Volumes of any type and LVM filesystems, a device each, 2 faults | 513,752 | available storage is intact; nothing serves a Volume that is gone |
| `sv_stuck` | 1 Volume | - | violation, see section 6 |
| `nd_drain` | 3 pods of every kind of owner, 8 ways to call, budget of 1, 1 mishap | 290,329 | a completed drain has emptied the node; all pods may be evicted or ignored, or none is evicted; the drain ends |
| `nd_report` | a bare pod, a replica and a mirror pod | - | violation, see section 6 |
| `ui_pages` | see `MCUiPages` and the comment of the configuration | 1,066,061 | jobs: store and localStorage agree, ends are seen and told once; alerts: critical ones stay in sight, in the header too unless a grouping alert is doubled, counters lead to what they count; lists: a reload keeps the order, no redirection loop; session: clients of the user, nobody waits in vain, the user lands where asked, preferences last; forms: rows match the number, posts are complete, what is created in silence was being posted when its saga was cancelled; metrics: graphs are faithful and settle; node pages: deployments offered and told as they are, pods as recent as the last request, partitions with their own sizes and alerts |
| `ui_loops` | see `MCUiLoops` and the comment of the configuration | 283,359 | a node's graphs match or are coming, and settle; a mounted screen has a loop, unless an error or the leaving of a screen that shared it took it away, and ends up to date; the loader is up only during a fetch, unless a change cancelled one; the details are those of the selected volume and its row is there |
| `ui_alerts` | an alert of two severities about two things | - | violation, see section 6 |

### Bounds

- *Incarnations* (`MaxUid`): two are needed for the name to be reused, which is what the
  `devices` map, the pillar, forgotten jobs and the garbage collector could get wrong; a third
  one meets nothing the second did not.
- *Job IDs* (`MaxJobs`): two let an orphan job of an earlier step run beside the current
  one. With three `vc_safety` passes too (2.21 million states).
- *Faults* (`MaxFaults`) bound crashes, lost answers, failed calls and states, and deletions of the StorageClass. Conflicts,
  outdated reads and refused jobs while another one runs are not faults and not bounded.
  With two faults `vc_safety` has 1.76 million states and passes.
- *Volumes of `SaltVolume`*: two are needed to share a device; more add no interaction,
  jobs run one at a time.
- *Highstates* (`MaxRedeploys`): one overlaps a Volume at every point of its life.
- *Pods* (three): one that the budget blocks, the one it waits for, and one the filters treat
  apart; the three casts cover every kind of owner, local storage and an orphan.
- *Mishaps* (`MaxMishaps`) bound what users do and failed calls. With two the safety properties
  hold too (2.03 million states).

- *UI.* Two of everything that can be confused with another: jobs, connections, nodes, volumes, fetches in flight,
  tokens, languages; three fetches and three visits for the graphs, since the first of a mount is for
  the page before. Two fetches or changes on top of a mount (`MaxLaunches` is 3) let a change cancel another one in its call or in
  its fetch, beside a loop. `MaxMoves`, `MaxEdits`, `MaxSubmits`, `MaxChoices` bound what the user does and let each pair of
  actions meet in both orders; `MaxReplaces` (5) is above what `NoRedirectLoop` allows (3).
  `NumberInputs` has whole numbers of volumes only, see section 6. One mount point that two nodes
  have in common, two changes of it and five alerts of which one is to count; one pod in six states that changes
  twice, between three requests.

### Fairness

`VolumeController!Fairness`: the controller's work queue retries (`Reconcile` and the calls
of a pass), informers catch up, the minion takes the next job and ends the one it runs, the
master's job cache expires, and Kubernetes' controllers publish, release, unprotect and collect
PersistentVolumes. `ReleasePv` also stands for users who delete the claims of what they
deleted: a deleted Volume waits for that by design. Faults are finitely many, so no
fairness is needed for their absence. The liveness run starts passes with fresh caches: with a
Volume cache that is out of date each time a pass starts, each pass spawns a job whose ID
it fails to record, and a deletion can be put off for ever; informers give no bound
that would exclude it. Nobody has to restore a StorageClass: a Volume that waits for it, Pending, is the
exception both properties make (`WaitsForClass`).

`SaltVolume!Fairness`: the running job goes on, the operator submits Unprepare until
it is told of a success, then lets go.

`NodeDrain!Fairness`: the drain goes on, time passes, kubelets terminate pods that are deleted and
controllers replace those they lack. `DrainEnds` does not ask that a drain without a timeout
ends if the budget can never be met again: then `kubectl` waits as well. A node that is down,
whose pods never terminate, needs a timeout.

`UiRefresh!Fairness`: requests are answered or fail, timers fire; `UiNodeStats!Fairness`: queries are
answered (or fail, which is an answer) and the period ends. Users are never assumed to act, and neither is the cluster. `ui_loops` conjoins the
two: the components that stay at rest in a behaviour are in a state where none of their
fair actions is enabled. Modules checked for safety only state no fairness.

## 4. What is proved

`VolumeControllerProofs`, checked by TLAPS, for all values of `MaxUid`, `MaxJobs`, `MaxFaults`
, `CacheMayLag` and `Mode`, from `BoundsAssumption` alone (the bounds are natural numbers, there
is at least one job ID and one incarnation, only the two kinds of objects have
caches, and a mode is one of two):

- `TypeCorrect`: `Spec => []TypeOK`
- `JobHandlesCorrect`: `Spec => []JobMatchesPhase`
- `NoTampering`: `Spec => []HandleNeverTampered`
- `Invariants`: `Spec => [](TypeOK /\ VolumeInv)`, which gives the three others.

*The argument.* `JobMatchesPhase` speaks of the Volume at the API server, but a step writes
what a pass computed from a cached copy, perhaps several calls before. It is not
inductive by itself. `VolumeInv` adds what is known of the other versions:

- `ObjectsInv`: every version, at the API server and in the cache, is `Sound` (its job handle
  belongs to its phase, it keeps its finalizer once worked on, it is not marked for deletion
  without one, no job is spawned for an invalid one); a copy is never of an incarnation
  to come and has no finalizer the object has lost; a PersistentVolume is only there for
  an incarnation that has its finalizer.
- `CopyInv`: a copy that is still the current version has the metadata of the
  object, so that a write the API server accepts changes the status only.
- `PassInv`: what a pass may rely on at each of its calls (`StepSound`).

The proof has one lemma per kind of step: passes that start (from the cache), writes the
API server accepts (from `CopyInv`), writes that fail or conflict (nothing but the pass changes),
Salt's and the node's steps (Volumes do not change), writes by others (copies become
outdated), informers. Types are proved first, per operator of the model, in
the same module.

`NodeDrainProofs`, for any finite set of pods, any casts, calls and budget and any number of
mishaps, from `DrainAssumption` (the types of the constants):

- `DrainTypeCorrect`: `Spec => []TypeOK`
- `DrainEmpties`: `Spec => []NodeEmptied`
- `DrainAllOrNothing`: `Spec => []AllOrNothing`

`NodeEmptied` speaks of the end only. `DrainInv` adds how it is reached: the node is cordoned
from the first listing on, so that nothing that must leave arrives (`WorldInv`); every pod that
must leave is in the listing, under the UID it still has, and in the list the drain works from
(`FollowInv`); and a pod that is present under its UID is never taken for gone
(`PresentNotGone`). For `AllOrNothing` the invariant `AllowedInv` says what the filters have
established so far, and that a controller missing at the listing still is when the filter
looks it up.

### Storage, whatever caches lag

`VolumeStorageProofs`, again from `BoundsAssumption` alone:

- `StorageReclaimed`: `Spec => []NoStorageLeak`
- `NothingErasedUnasked`: `Spec => ErasedOnRequest`

Neither is inductive: a job works on the storage long after the pass that sent it, which
read a copy of the Volume, and the handle that tells whose job it was may have been lost. `ReclaimInv`
relates the three:

- `CopiesInv`, `FreshInv`: a copy that is behind is behind by one pass and what users did; while the
  Volume has its finalizer, what a copy shows as irreversible is so. A Volume to finalize (`Retired`)
  stays one, and its finalization is not undone by a write that the API server accepts.
- `ReasonInv`: what a pass is about to do, it has a reason for, in its copy and in the cache. No
  Prepare job is submitted for a Volume that any copy shows as being unprepared.
- `QueueInv`: the minion starts jobs in the order they were sent, one at a time, and each ID
  belongs to one of them.
- `NodeStorageInv`: only the Volume there is has storage, or jobs that create it, and only once it has its
  finalizer; while the operator cannot know that it is retired, no job erases after a
  preparation.
- `RemovalsInv`: the removal that a status records comes after every preparation, those
  whose ID was lost included; once it succeeded nothing is left at the node, nor will be.

`RemovalsInv` is the heart of it: a lost Prepare job is harmless because the removal waits behind it.

### PersistentVolumes that are not read outdated

The second part of `VolumeStorageProofs`:

- `StorageSound`: `Spec => []StorageInv`, from `BoundsAssumption` alone
- `StorageServed`: `Spec => []ServedStorageKept`
- `DevicesMatch`: `Spec => []PvDeviceMatchesOwner`
- `PersistentVolumeGoesFirst`: `Spec => []VolumeOutlivesPv`
- `PhasesInOrder`: `Spec => PhasesFollowed`
- `LifecycleImplemented`: `Spec => ImplementsLifecycle`, the refinement

All but the first assume `"PersistentVolume" \notin CacheMayLag`. The code does not guarantee it: section 6
shows what happens otherwise. Volumes may be read outdated. TLC
violates `ServedStorageKept`, `VolumeOutlivesPv`, `PhasesFollowed` and `ImplementsLifecycle` on an
instance with both caches lagging (2 incarnations, 2 job IDs, 1 fault), so that these
theorems need the hypothesis. `PvDeviceMatchesOwner` holds on that instance too: its proof uses the
hypothesis, and may be stronger than it has to be.

`StorageInv` is `ReclaimInv` and, under the same hypothesis, `ServingInv`:

- `PvInv`: a PersistentVolume belongs to the Volume there is, names its device, serves
  storage that is prepared, and is withdrawn before any job at the node may erase it.
- `ProgressesInv`: what a status, in any copy, says was done was done: the job with its handle is the
  one it names, a device info that is recorded is the right incarnation's, a Volume that is or was
  Available has its PersistentVolume.
- `CreatingInv`, `UnusedInv`, `RefreshReason`: what a pass has read before it creates, reclaims or removes a
  finalizer still holds when it does.
- `PhaseInv`: what a pass with a current copy is about to make of the phase.

The proofs have a lemma per kind of step, as for `VolumeInv`, under the heading of the part of the
invariant it preserves. For the refinement, `StageOf` and `NextStageOf` compute the stage of an
incarnation from the invariant, and each step is shown to be the abstract step it stands for, or
none: storage that the node writes, a PersistentVolume created, deleted or collected, a Volume
declared, marked, gone.

### Volumes on a node

`SaltVolumeProofs`, for any Volumes, disks, partitions, kinds, faults, highstates and reboots, from
`DevicesAssumption` (the types of the constants):

- `VolumesTypeCorrect`: `Spec => []TypeOK`
- `LoopsHaveFiles`: `Spec => []LoopHasFile`
- `AvailableStays`: `Spec => []AvailableIntact`, if `NoSharedBlocks`
- `NothingIsOverwritten`: `Spec => NothingOverwritten`, if `NoSharedBlocks`
- `PrepareIsIdempotent`: `Spec => PrepareIdempotent`, if `NoSharedBlocks` and no sparse file is used raw
- `RemovalLeavesNothing`: `Spec => []ReclaimedIsUnserved`, if `MaxRedeploys = 0`

`NodeInv` has what everything rests on: a UUID is only found on the backing of its Volume (`LabelInv`), what
systemd serves or will serve after a boot is a whole file with the Volume's identity
(`ServedInv`), and a job has achieved what the steps before its next one are for (`JobInv`). `OfferedInv` adds that a
Volume about to be acknowledged is intact already; the module's `ReclaimInv`, that nothing is
left once the operator may know of a removal.

Each hypothesis is a limit of the code, and TLC finds the counterexample without it.
`NoSharedBlocks` says that devices are shared, if at all, for filesystems only: in Block mode prepare does not look at
what a device holds. A raw sparse Volume is never recognised as prepared, and a highstate
brings the file of a deleted Volume back (section 6).

### The Salt jobs of the browser

`UiSaltJobsProofs`, for any set of deployments and any number of connections and reloads:

- `JobsAgree`: `Spec => []PageMatchesStorage`
- `JobsAreSafe`: `Spec => []JobsSafe`

An answer adds a job as pending, which would contradict a localStorage that has it as
completed. `FreshInv` excludes that: a deployment that was not asked for, or is not
answered, was never saved. Completing, connecting (each saved job is listed again with its saved
completion time), collecting and reloading preserve the agreement, one lemma each; the
other actions touch neither copy.

`JobsSafe` has two halves, and neither is inductive. That an end which came before the connection is
seen rests on `SeenInv`: a connection polls each job that localStorage had as pending, waits for
those polls before it opens, and a job that is not polled, or whose poll found it ended, is pending no
more. That an end is told once rests on `OnceInv`: what was told is completed in localStorage for good, so
that no answer, poll or event can complete it again. `OnceInv` holds while no load connects twice, as the
property does (section 6).

### Session, forms, lists, graphs and alerts

`UiPagesProofs`, for any pages, languages and groups, and any number of tokens, loads, logins and choices:

- `SessionIsSafe`: `S!Spec => []SessionSafe`, from
  `SessionAssumption` (the default language is one of the languages, "none" is no page or language, the pages the
  menu names exist, the bounds are natural numbers)
- `FormsAreSafe`: `F!Spec => []FormsSafe`, if `WholeNumbers`
- `ListsAreSafe`: `L!Spec => []ListsSafe`, for any rows, words and number of moves, from `ListsAssumption` (ranks are
  natural numbers, an absent parameter is no column and no word)
- `MetricsAreSafe`: `M!Spec => []MetricsSafe`, for any spans, outages, samples and number of moves, from
  `MetricsAssumption` (a duration is a multiple of its sampling period and not longer than the time of the clock's
  start, "none" and "unknown" are no span)
- `AlertsDoAgree`: `Al!Spec => AlertsAgree`, for any alerts, in any order, without assumptions

`BootInv` is the order in which a page comes to life: configuration, script, navbar, user, clients. Without it
nothing says that there is no user before the navbar is shown. `LoginInv` says which of the logins in flight the
token of Salt will come from, `AskedInv` what the tab remembers of the page asked while it is at the
provider, and `DrawnInv` for which page the navbar was drawn.

For the forms, `GoodForm` says that rows and number agree after any sequence of edits, `GoodBatch`
that the schema let the batch in, which is still true of what is left of it after any answer: the saga may post
what remains when the form it came from is long gone. `SagaInv` follows each request: the saga's own, which it will
report, or one that nobody waits for, which is abandoned (`Cancelled`). `RowsOfNumber` is the lemma on `setVolumeNumber`, for any
whole number. `WholeNumbers` (whole numbers from 0 on) is a limit of the code: section 6 shows what other
numbers do to it.

For the lists, `DataInv` says that rows come sorted by health, so that a table without an order and one in
the default order, which the URL does not tell apart, look the same (`SortedStays`); `SyncInv` that the query tells
the order whenever the effect is not due, even after new rows of the same number, which do not run it
again; `LoopInv` how many replacements a location has left: one to follow the table, two more if it has no row yet.
`Sorted` is a choice of a permutation, so a proof about it has to show that there is one: `SomeOrder` adds the next row to
those already placed (`OneMore`), from the least number of rows that could not be (`HasLeast`).

For the graphs, `MetricsInv` says that samples are on the grid of the span they were fetched for, and
that the fetch in flight is for the span of the store. What a grid is once its gaps are filled is a fold over samples of any
number; it is proved by a least counterexample. Values come in order (`SeriesSorted`); the walk of
`addMissingDataPoint` passes a value at its own point only, since a first point at which it lags behind would have a value
before it that it did not take (`NoneSkipped`); hence all are drawn (`AllDrawn`). `TwoByTwo` and
`FourLines` give the lines of a chart their colours by rank.

For the alerts, no order and no index matter: each warning to hide costs the list one alert (`SpliceTakesOne`), which
may be the wrong one. The first removal is right, since no index has shifted yet, and each pair has a
critical alert of its own (`PairsHaveCriticals`); hence fewer critical alerts are lost than there are (`LeftOver`), and the highest
severity does not turn to "warning". The same count, of the leaves alone, holds for the header of the alert page when no alert that groups
others is doubled: then each pair has a critical leaf of its own. That the list is otherwise right is false (section 6). A counter leads to a filter by its
severity alone (`LinkedIsOne`), under which both tabs list what it counts.

### Pages of a node

`UiNodePagesProofs`, for any number of deployments, fetches and visits, and any pods, partitions and alerts:

- `NodesAreSafe`: `D!Spec /\ P!Spec /\ Q!Spec => []NodesSafe`, from `NodesAssumption` (the bounds are
  natural numbers)

"Deploy" is offered from a row that a fetch wrote, which computed it from jobs read before it asked. `FetchesInv` and
`EntryInv` carry what was read through the fetch: who read that the node is not deploying read it of jobs
that had all ended, and a job does not start again. A later deployment is none of those it saw, since its
number is that of no job yet (`Answered`). `PodTypeInv` is why pods are as recent as the last request:
`takeLatest` leaves one request. `QueryOK` says that what has come of a
request which no change of the partitions crossed is what is mounted, so that a size is missing only after a change.

### Graphs, refresh loops and the volume page

`UiLoopsProofs`:

- `GraphsCurrentOrComing`: `Spec => []CurrentOrComing`, for any set of nodes and any number of fetches and updates
- `RefreshIsSafe`: `R!Spec => []RefreshSafe`, for each loop of the UI and any number of mounts, fetches, changes and failures,
  from `RefreshAssumption` (the bounds are natural numbers)
- `RefreshNeverGoesBack`: `R!Spec => R!NeverGoesBack`, the safety half of `EndsUpToDate`
- `VolumesAreSafe`: `V!Spec => []VolumesSafe`, for any volumes on any nodes and any number of changes, moves and
  reads, from `VolumesAssumption` (each volume has a node and one place in the list, ...)

When the fetch that `CurrentOrComing` relies on ends, the graphs match, but another may end next.
`InFlightInv` says that, unless the last fork overtook one, all fetches in flight are for the
arguments of the store; `LoopInv` says that the watcher runs its loop while a page is mounted,
so that new arguments are forked for in the same turn.

`RefreshSafe` makes two exceptions, which the code makes: a screen that leaves stops the loop of those that stay
(`left`), and a change that cancels the fetch of another leaves the loader to its own fetch, which a refused deployment never makes
(`cancelled`). Without them it needs `TaskInv`, in which phases a task of each kind may be (a loop waits, a change calls the API,
nothing else does), and `SlotsInv`, that a free slot is left for each saga, since
a busy one was taken by a mount, a fetch or a change. `OrderInv` orders the versions that the sagas will bring,
which is why a page never goes back where `takeLatest` should prevent it.

`ListInv` says of the volume page what it keeps between clicks: the node of the URL is that of its volume
(`UrlOK`), and the one read under way, if there is one, is for the volume of the URL (`ReadsOK`).

*Only model-checked*: the liveness properties, `EndsUpToDate`, `ShowsItsNode` and those of the
other components, which are out of the reach of the prover. Each safety property of the passing runs
has its theorem, under the hypotheses named above.

What recursive functions compute over data of any length (`addMissingDataPoint`, `removeWarningAlerts`) is proved without an
induction theorem, which would take an operator as its parameter: a function that solves the equation exists, or there would be a
shortest length without one (`Walks`, `Removes`), and what it computes is right, or there would be a first place
where it is not.

## 5. Mutants

Each property of a passing run is broken by a plausible mistake, kept beside the
definition it replaces: a status that keeps its old job, a PersistentVolume taken as unused
because ours is the only finalizer, a pillar error read as "nothing to clean up", a last
write that wins, a unit that is never enabled, a look at the device that only refuses foreign
filesystems, a cordon that is forgotten, a pod taken for gone by its name only, a completion that is not written to localStorage, a poll that
completes a job again, arguments that wait for the next period, a stop that is missed, a
span fetched before it is stored, rows that are only ever added. They are never part of the specification.

## 6. Where the code and its documentation disagree

1. **A bound PersistentVolume loses its storage** (`vc_lag_bound`, `BoundStorageKept`). The operator
   creates the PersistentVolume, a claim is bound to it, the user deletes the Volume; the
   informer of Volumes shows the deletion, that of PersistentVolumes does not show the object yet.
   `finalizeVolume` takes it for missing and reclaims. `volume.rst` says that such a
   Volume cannot be deleted. The comment in `Reconcile` on lifetimes relies on the same order.
2. **A raw Volume whose device is gone cannot be deleted** (`sv_stuck`, `DeletedIsReclaimed`). The class
   resolves the device before it is asked whether there is anything to clean up.
3. **A drain that fails may not say what remains** (`nd_report`, `FailureIsReported`). The second listing
   applies the filters again, in the handler of the timeout. Without `force`, a pod whose
   controller was deleted meanwhile makes them raise `DrainException`, which nobody catches.
4. **Hiding warnings hides other alerts** (`ui_alerts`, `OnlyDoubledWarningsHidden`). `removeWarningAlerts`
   collects indexes, then removes them one after the other from the list that shifts under them. With
   two warnings doubled by critical alerts the second removal takes another alert, which may
   be critical (`CriticalStillSeen` says that one remains).

Observed while modelling, and not kept as runs:

- *A Volume that lost its StorageClass cannot be deleted.* The class is deleted after the storage was prepared and
  before the PersistentVolume is created: `createPersistentVolume` fails (`volume_controller.go:876`, or `:939` when the class
  is back without `fsType`), the request is queued again, and the Volume stays Pending, in which `Reconcile`
  never finalizes it (`:605`). A scenario of `tests/post/features/volume.feature` (line 136) deletes the class and then the
  Volume, and expects the Volume to go; `volume.rst` (line 250) promises that a Volume becomes Failed or Available. With
  `WaitsForClass` taken out, TLC violates `DeletedVolumeGoes` and `VolumeSettles` on the instance of `vc_liveness`.
- *A raw sparse Volume is never recognised as prepared.* The test at `metalk8s_volumes.py:324` compares a
  partition of a loop device with the name of the file: `PrepareIdempotent` fails with
  `Kinds = {<<"sparseLoopDevice", "Block">>}` and one redeployment.
- *A highstate brings back a deleted Volume's file.* The pillar lists Volumes marked for deletion; between
  the end of Unprepare and the removal of the finalizer a highstate creates the file again. A crash
  between the creation of a file and its truncation has the same result, with an empty file that
  `clean_up` takes for removed; this is why `ReclaimedIsUnserved` speaks of files of the right size.
- *A pod without a controller is evicted without `force`.* `unreplicated_filter` warns
  (`metalk8s_drain.py:217`) where its docstring says it raises. `deploy_node.sls` drains with `force`.
- *The form of volumes hangs on 1.5.* `setVolumeNumber` counts down from a difference that never
  becomes zero (`CreateVolume.js:516`): `RowsMatchNumber` fails when `NumberInputs` has an odd number of halves. Nor
  do rows and number agree after a negative number: 1 typed after -1 adds two rows. `FormsAreSafe` therefore
  assumes whole numbers from 0 on.
- *The end of a job may be told twice*, once per connection, when a token is renewed while the
  saved jobs are polled (`salt.js:194`): `AnnouncedOncePerConnection` assumes one connection per load.
- *The panel of a node may not show the most recent deployment.* The comparison at
  `NodePageOverviewTab.js:131` compares the present date with itself.
- *A pod that has succeeded has no colour*, where the comment at `NodePagePodsTab.js:69` says green;
  one without any running container is orange like one with some.
- *A node without conditions is red*, where the comment at `NodeUtils.js:91` says grey.
- *A refresh loop that two screens share stops when one leaves.* The tab of volumes of a node lowers, when it is closed, the flag
  that the page around it had raised (`NodePageVolumesTab.js:47`, `NodePageRSP.js:80`): the page's list of volumes is not
  refreshed any more.
- *A loader may stay up without a fetch.* `takeLatest` cancels the fetch that ends a deployment or a deletion when another one is asked for
  (`nodes.js:540`, `volumes.js:535`). The next fetch lowers the loader; a second deployment that is refused makes none.
- *A volume may be created in silence.* An answer without a body to the creation of a node throws in the handler of the error
  (`nodes.js:394`), which ends the root saga and with it the batch of volumes under way: the one being posted is
  created, and nobody reports it. A second batch sent during the first does the same to it.
- *The header of the alert page may miss a critical alert* when an alert that groups others is doubled: the removal of its warning can take the
  last critical leaf, and the header counts leaves only (`AlertPage.js:429`).
- *Logins to the Salt API that overlap* leave the client with the token that was answered last
  (`login.js:57`): `ClientsAreOfUser` excludes them.

`NothingOverwritten` holds for Volumes with a filesystem, on which `prepare` looks at the device
first. It does not for raw ones: `sgdisk` writes a partition table on a disk that holds
a filesystem without one. No document promises more, so this is a hazard and not a
finding.

## 7. Plan

In order of importance:

1. `SaltVolume`: the unit's start timeout and its lock.
2. `ClusterUpgrade`: nodes, version labels, what each node runs, etcd members; a rerun after a failure at any
   step; abstract specification: one node at a time, in order.
3. `NodeDrain`: uncordoning and the taints it rewrites, a scheduler that lags behind the cordon, and
   the drain as a step of the orchestration.
4. `SaltClient`: token expiry, 401 and retry; then `Solutions`.
5. `UiSession`: several tabs that share localStorage, and a session that ends at the provider.
6. Proofs: `PvDeviceMatchesOwner` without its hypothesis.
