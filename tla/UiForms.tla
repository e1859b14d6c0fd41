------------------------------- MODULE UiForms -------------------------------
(***************************************************************************)
(* The two forms of the UI and the sagas behind them: CreateVolume.js with *)
(* createVolumes of ducks/app/volumes.js, NodeCreateForm.js with           *)
(* createNode of ducks/app/nodes.js.                                       *)
(*                                                                         *)
(* A user fills a form, sends it, may change and send it again, and may    *)
(* leave the page at any time; the sagas go on in the background, and a    *)
(* creation that succeeds takes the page over.  A name, a path or a size   *)
(* stands for its class: "" is empty, "a" a valid name and "A" an invalid  *)
(* one; "vd" is a path under /dev/vd, "sd" another absolute one, "rel" a   *)
(* relative one.  <<n, i>> is the name or path derived from n for the row  *)
(* of rank i.  Typing in a field and leaving it are one action.            *)
(* The number of rows is counted in halves: the field takes any number.    *)
(***************************************************************************)
EXTENDS Integers, Sequences, FiniteSets

CONSTANTS
    NumberInputs,  \* what users type as number of volumes, in halves
    MaxBatch,      \* MAX_VOLUME_BATCH_CREATION
    MaxEdits,      \* bound: edits of the forms
    MaxSubmits     \* bound: submissions

FormsAssumption == MaxBatch \in Nat \ {0} /\ NumberInputs \subseteq Int

\* Users type whole numbers from 0 on, 0 being an empty field too.
WholeNumbers == \A n \in NumberInputs : n \in Nat /\ n % 2 = 0

VARIABLES
    page,       \* the page that is shown
    alive,      \* the root saga runs
    scLoading,  \* state.app.volumes.isSCLoading
    classes,    \* the storage classes are in the store
    nodes,      \* the nodes are in the store
    form,       \* the values of CreateVolume, Closed when it is not mounted
    batch,      \* the createVolumes saga (takeLatest): what is left to create
    call,       \* the body being posted
    unheard,    \* names posted by sagas that were cancelled since
    cluster,    \* names of the Volumes that this page has created
    told,       \* names whose creation was reported, in success or failure
    superseded, \* a batch was cancelled by a later one
    abandoned,  \* names that were being posted when their saga was cancelled
    nodeForm,   \* the values of NodeCreateForm
    asked,      \* the createNode sagas (takeEvery)
    created,    \* the bodies of the nodes that were created
    nodeError,  \* state.app.nodes.errors.create_node is set
    edits, submits

storeVars == <<alive, scLoading, classes, nodes>>
sagaVars == <<batch, call, unheard, cluster, told, superseded, abandoned>>
nodeSagaVars == <<asked, created, nodeError>>
vars == <<page, storeVars, form, sagaVars, nodeForm, nodeSagaVars, edits,
          submits>>

Nothing == [none |-> TRUE]
Empty == <<"", 0>>
Closed == [open |-> FALSE]
Types == {"rawBlockDevice", "sparseLoopDevice"}
EmptyRow == [name |-> Empty, path |-> Empty, nameTouched |-> FALSE,
             pathTouched |-> FALSE]

-----------------------------------------------------------------------------
(* CreateVolume: its values, validation and effects.                       *)

\* initialValues, as the store is when Formik mounts; not initialised again.
InitialValues(nodesKnown, classesKnown) ==
    [open |-> TRUE, name |-> "", node |-> nodesKnown,
     storageClass |-> classesKnown, type |-> "rawBlockDevice", path |-> "",
     size |-> "", labels |-> {}, labelName |-> "", multi |-> FALSE,
     number |-> 2, rows |-> <<EmptyRow>>, hung |-> FALSE]

ValidName(n) == n[1] = "a"

\* validationSchema.  Formik hands "" to yup as undefined, so that an empty
\* number or row name passes; row paths are not validated at all.
NumberValid(n) == n = 0 \/ (n > 0 /\ n <= 2 * MaxBatch /\ n % 2 = 0)
Valid(f) ==
    /\ f.name = "a" /\ f.node /\ f.storageClass
    /\ f.path # "rel"
    /\ f.type = "rawBlockDevice" => f.path # ""
    /\ f.type = "sparseLoopDevice" => f.size = "1"
    /\ NumberValid(f.number)
    /\ \A i \in DOMAIN f.rows :
         f.rows[i].name = Empty \/ ValidName(f.rows[i].name)

\* linuxDrivesNamingIncrement and formatBatchName.
NextDrive(path, i) == IF path = "vd" THEN <<path, i>> ELSE Empty
BatchName(name, i) == <<name, i>>

\* RecommendField: an empty name or path of a row that is shown is filled from
\* the field above, after every render.
RowFilled(f, r, i) ==
    [r EXCEPT
       !.name = IF f.name # "" /\ r.name = Empty THEN BatchName(f.name, i)
                ELSE r.name,
       !.path = IF f.type = "rawBlockDevice" /\ f.path # "" /\ r.path = Empty
                THEN NextDrive(f.path, i - 1) ELSE r.path]
Recommended(f) ==
    IF ~f.multi \/ f.number > 2 * MaxBatch THEN f
    ELSE [f EXCEPT !.rows = [i \in DOMAIN f.rows |-> RowFilled(f, f.rows[i], i)]]

CanEdit == /\ alive /\ edits < MaxEdits /\ edits' = edits + 1

Edit(f) ==
    /\ page = "createVolume" /\ form.open /\ ~form.hung
    /\ CanEdit
    /\ form' = Recommended(f)
    /\ UNCHANGED <<page, storeVars, call, unheard, cluster, told, superseded,
                   abandoned, nodeForm, nodeSagaVars, submits>>

\* handleChange and handleSelectChange.
TypeField ==
    \/ \E n \in {"", "a", "A"} \ {form.name} : Edit([form EXCEPT !.name = n])
    \/ \E t \in Types \ {form.type} : Edit([form EXCEPT !.type = t])
    \/ \E p \in {"", "vd", "sd", "rel"} \ {form.path} :
         Edit([form EXCEPT !.path = p])
    \/ \E z \in {"", "0", "1"} \ {form.size} : Edit([form EXCEPT !.size = z])
    \/ nodes /\ ~form.node /\ Edit([form EXCEPT !.node = TRUE])
    \/ classes /\ ~form.storageClass
       /\ Edit([form EXCEPT !.storageClass = TRUE])
    \/ \E l \in {"", "k", "k&"} \ {form.labelName} :
         Edit([form EXCEPT !.labelName = l])

\* A field of a row; RecommendField fills one that is emptied.
RowShown(i) ==
    form.multi /\ form.number <= 2 * MaxBatch /\ i \in DOMAIN form.rows
TypeRow(i) ==
    /\ RowShown(i)
    /\ \/ \E n \in {"", "a", "A"} :
            Edit([form EXCEPT !.rows[i].name = <<n, 0>>,
                              !.rows[i].nameTouched = TRUE])
       \/ \E q \in {"", "sd", "rel"} :
            /\ form.type = "rawBlockDevice"
            /\ Edit([form EXCEPT !.rows[i].path = <<q, 0>>,
                                 !.rows[i].pathTouched = TRUE])

\* handleCheckboxChange: the untouched fields of the first rows are cleared.
Cleared(r) ==
    [r EXCEPT !.name = IF r.nameTouched THEN r.name ELSE Empty,
              !.path = IF r.pathTouched THEN r.path ELSE Empty]
ToggleMulti ==
    Edit([form EXCEPT
            !.multi = ~form.multi,
            !.rows = [i \in DOMAIN form.rows |->
                        IF 2 * i > form.number + 1 THEN form.rows[i]
                        ELSE Cleared(form.rows[i])]])

\* setVolumeNumber.  Rows are pushed while a counter that starts at the
\* difference is not 0: a difference of half a volume never gets there.
RowsOnlyAdded(f, n) ==
    f.rows \o [i \in 1..(IF n > f.number THEN (n - f.number) \div 2 ELSE 0) |->
                 EmptyRow]

RowsOf(f, n) ==
    IF n < f.number
    THEN SubSeq(f.rows, 1, IF n <= 0 THEN 0 ELSE (n + 1) \div 2)
    ELSE f.rows \o [i \in 1..((n - f.number) \div 2) |-> EmptyRow]
SetVolumeNumber ==
    \E n \in NumberInputs \ {form.number} :
        /\ form.multi
        /\ Edit([form EXCEPT
                   !.number = n,
                   !.hung = n > form.number /\ (n - form.number) % 2 = 1,
                   !.rows = RowsOf(form, n)])

\* addLabel and removeLabel change the object in place, and with it the labels
\* of the batch that this form has sent.
SetLabels(labels) ==
    /\ Edit([form EXCEPT !.labels = labels, !.labelName = ""])
    /\ batch' = IF batch # Nothing /\ batch.live
                THEN [batch EXCEPT !.labels = labels] ELSE batch
AddLabel == form.labelName = "k" /\ SetLabels({"k"})
RemoveLabel == form.labels # {} /\ SetLabels({})

EditVolume ==
    /\ form.open
    /\ \/ /\ \/ TypeField \/ ToggleMulti \/ SetVolumeNumber
             \/ \E i \in 1..MaxBatch : TypeRow(i)
          /\ UNCHANGED batch
       \/ AddLabel \/ RemoveLabel

-----------------------------------------------------------------------------
(* createVolumes.                                                          *)

\* formatVolumeCreationData.
FormatVolumeCreationData(f) ==
    IF f.multi
    THEN [i \in DOMAIN f.rows |-> [name |-> f.rows[i].name,
                                   path |-> f.rows[i].path[1]]]
    ELSE <<[name |-> <<f.name, 0>>, path |-> f.path]>>

\* A saga is cancelled: its request goes on, and nobody waits for the answer.
CancelCall ==
    /\ call' = Nothing
    /\ IF call = Nothing THEN UNCHANGED <<unheard, abandoned>>
       ELSE /\ unheard' = unheard \cup {call.name}
            /\ abandoned' = abandoned \cup {call.name}

\* onSubmit.  The button is disabled on errors and while a label is typed.
Submit ==
    /\ alive /\ page = "createVolume" /\ form.open /\ ~form.hung
    /\ Valid(form) /\ form.labelName = ""
    /\ submits < MaxSubmits /\ submits' = submits + 1
    /\ LET vols == FormatVolumeCreationData(form) IN
       batch' = IF vols = <<>> THEN Nothing
                ELSE [vols |-> vols, type |-> form.type, size |-> form.size,
                      storageClass |-> form.storageClass,
                      labels |-> form.labels, live |-> TRUE]
    /\ superseded' = (superseded \/ batch # Nothing)
    /\ CancelCall
    /\ UNCHANGED <<page, storeVars, form, cluster, told, nodeForm,
                   nodeSagaVars, edits>>

\* The size of a sparse device is never empty: it ends with a unit.
IsNewVolumeValid(v) ==
    /\ v.name # Empty /\ batch.storageClass
    /\ batch.type = "rawBlockDevice" => v.path # ""

Rest(b) == IF Len(b.vols) = 1 THEN Nothing ELSE [b EXCEPT !.vols = Tail(@)]

\* The next Volume of the batch is posted, or reported as incomplete.
CreateNext ==
    /\ alive /\ batch # Nothing /\ call = Nothing
    /\ LET v == Head(batch.vols)
           sparse == batch.type = "sparseLoopDevice"
       IN IF IsNewVolumeValid(v)
          THEN /\ call' = [name |-> v.name, labels |-> batch.labels,
                           devicePath |-> IF sparse THEN "" ELSE v.path,
                           size |-> IF sparse THEN batch.size ELSE ""]
               /\ UNCHANGED <<batch, told>>
          ELSE /\ told' = told \cup {v.name}
               /\ batch' = Rest(batch)
               /\ UNCHANGED call
    /\ UNCHANGED <<page, storeVars, form, unheard, cluster, superseded,
                   abandoned, nodeForm, nodeSagaVars, edits, submits>>

\* The page changes: the form it showed is unmounted, with its values, and
\* NodeCreateForm clears its error.
Show(p) ==
    /\ page' = p
    /\ form' = Closed
    /\ nodeForm' = [roles |-> {"workload_plane"}, filled |-> FALSE]
    /\ nodeError' = (nodeError /\ page # "createNode")

\* The Volume is created: the saga shows it, reports it and goes on.
VolumeCreated ==
    /\ alive /\ call # Nothing /\ call.name \notin cluster
    /\ cluster' = cluster \cup {call.name}
    /\ told' = told \cup {call.name}
    /\ call' = Nothing
    /\ batch' = IF Rest(batch) = Nothing THEN Nothing
                ELSE [Rest(batch) EXCEPT !.live = FALSE]
    /\ Show("volumes")
    /\ UNCHANGED <<storeVars, unheard, superseded, abandoned, asked, created,
                   edits, submits>>

\* The request fails, after the Volume was created or before.
VolumeFailed ==
    /\ alive /\ call # Nothing
    /\ cluster' \in {cluster, cluster \cup {call.name}}
    /\ told' = told \cup {call.name}
    /\ call' = Nothing
    /\ batch' = Rest(batch)
    /\ UNCHANGED <<page, storeVars, form, unheard, superseded, abandoned,
                   nodeForm, nodeSagaVars, edits, submits>>

\* A request whose saga was cancelled is served all the same.
CreatedUnheard == \E n \in unheard :
    /\ cluster' = cluster \cup {n}
    /\ unheard' = unheard \ {n}
    /\ UNCHANGED <<page, storeVars, form, batch, call, told, superseded,
                   abandoned, nodeForm, nodeSagaVars, edits, submits>>

-----------------------------------------------------------------------------
(* Navigation and the store.                                               *)

\* CreateVolume is mounted: it asks for nodes and storage classes, and shows a
\* loader while it waits for the latter.
OpenCreateVolume ==
    /\ alive /\ page # "createVolume"
    /\ Show("createVolume")
    /\ scLoading' = TRUE
    /\ UNCHANGED <<alive, classes, nodes, sagaVars, asked, created, edits,
                   submits>>

\* fetchStorageClass ends, with an answer or an error: Formik is mounted.
StorageClassesAnswered(ok) ==
    /\ alive /\ scLoading
    /\ scLoading' = FALSE
    /\ classes' = (classes \/ ok)
    /\ form' = IF page = "createVolume" THEN InitialValues(nodes, classes')
               ELSE form
    /\ UNCHANGED <<page, alive, nodes, sagaVars, nodeForm, nodeSagaVars,
                   edits, submits>>

\* fetchNodes ends: the options change, the values of the form do not.
NodesAnswered ==
    /\ alive /\ ~nodes
    /\ nodes' = TRUE
    /\ UNCHANGED <<page, alive, scLoading, classes, form, sagaVars, nodeForm,
                   nodeSagaVars, edits, submits>>

\* The cancel buttons and the sidebar.
Leave(p) ==
    /\ alive /\ page # p
    /\ ~(form.open /\ form.hung)
    /\ Show(p)
    /\ batch' = IF batch = Nothing THEN Nothing ELSE [batch EXCEPT !.live = FALSE]
    /\ UNCHANGED <<storeVars, call, unheard, cluster, told, superseded,
                   abandoned, asked, created, edits, submits>>

-----------------------------------------------------------------------------
(* NodeCreateForm and createNode.                                          *)

RoleBoxes == {"control_plane", "workload_plane", "infra"}

\* roleTaintMap, in its order; `bootstrap` is not looked at.
Entry(boxes, labels, taints) ==
    [boxes |-> boxes, labels |-> labels, taints |-> taints]
RoleTaintMap == <<
    Entry({}, {"bootstrap", "master", "etcd", "infra"},
          {"bootstrap", "infra"}),
    Entry({"control_plane"}, {"master", "etcd"}, {"master", "etcd"}),
    Entry({"workload_plane"}, {"node"}, {}),
    Entry({"infra"}, {"infra"}, {"infra"}),
    Entry({"control_plane", "workload_plane"}, {"etcd", "master", "node"}, {}),
    Entry({"control_plane", "infra"}, {"etcd", "master", "infra"}, {"infra"}),
    Entry({"workload_plane", "infra"}, {"infra"}, {}),
    Entry(RoleBoxes, {"etcd", "master", "infra"}, {})>>
RoleTaintMatched(boxes) ==
    RoleTaintMap[CHOOSE i \in DOMAIN RoleTaintMap :
                   RoleTaintMap[i].boxes = boxes]

TickRole(r) ==
    /\ page = "createNode" /\ CanEdit
    /\ nodeForm' = [nodeForm EXCEPT
                      !.roles = IF r \in @ THEN @ \ {r} ELSE @ \cup {r}]
    /\ UNCHANGED <<page, storeVars, form, sagaVars, nodeSagaVars, submits>>
FillNode ==
    /\ page = "createNode" /\ CanEdit
    /\ nodeForm' = [nodeForm EXCEPT !.filled = ~@]
    /\ UNCHANGED <<page, storeVars, form, sagaVars, nodeSagaVars, submits>>

\* The button asks for a role, which the schema does not.
SubmitNode ==
    /\ alive /\ page = "createNode"
    /\ nodeForm.filled /\ nodeForm.roles # {}
    /\ submits < MaxSubmits /\ submits' = submits + 1
    /\ asked' = asked \cup {[id |-> submits', boxes |-> nodeForm.roles,
                             phase |-> "posted"]}
    /\ UNCHANGED <<page, storeVars, form, sagaVars, nodeForm, created,
                   nodeError, edits>>

\* The body that asks for a node.
Body(a) == [RoleTaintMatched(a.boxes) EXCEPT !.boxes = a.boxes]

\* The node is created; its saga, if it is still there, reads the nodes again,
\* which takes a second or more, and only then shows their list.
NodeCreated(a) ==
    /\ a.phase = "posted"
    /\ created' = created \cup {Body(a)}
    /\ asked' = (asked \ {a}) \cup
                (IF alive THEN {[a EXCEPT !.phase = "reading"]} ELSE {})
    /\ UNCHANGED <<page, storeVars, form, sagaVars, nodeForm, nodeError,
                   edits, submits>>
NodeShown(a) ==
    /\ alive /\ a.phase = "reading"
    /\ Show("nodes")
    /\ asked' = asked \ {a}
    /\ batch' = IF batch = Nothing THEN Nothing ELSE [batch EXCEPT !.live = FALSE]
    /\ UNCHANGED <<storeVars, call, unheard, cluster, told, superseded,
                   abandoned, created, edits, submits>>

\* CREATE_NODE_FAILED, even if the form is gone: the API server refused.
NodeFailed(a) ==
    /\ alive /\ a.phase = "posted"
    /\ asked' = asked \ {a}
    /\ nodeError' = TRUE
    /\ UNCHANGED <<page, storeVars, form, sagaVars, nodeForm, created, edits,
                   submits>>

\* No answer came, created or not: reading the body of the error throws, which
\* stops the root saga and cancels all others.  What they had posted is served.
NodeThrows(a) ==
    /\ alive /\ a.phase = "posted"
    /\ alive' = FALSE
    /\ asked' = {b \in asked \ {a} : b.phase = "posted"}
    /\ created' \in {created, created \cup {Body(a)}}
    /\ batch' = Nothing
    /\ CancelCall
    /\ UNCHANGED <<page, scLoading, classes, nodes, form, cluster, told,
                   superseded, nodeForm, nodeError, edits, submits>>

-----------------------------------------------------------------------------

Init ==
    /\ page = "volumes"
    /\ alive = TRUE
    /\ scLoading = FALSE /\ classes = FALSE /\ nodes \in BOOLEAN
    /\ form = Closed
    /\ batch = Nothing /\ call = Nothing /\ unheard = {}
    /\ cluster = {} /\ told = {}
    /\ superseded = FALSE /\ abandoned = {}
    /\ nodeForm = [roles |-> {"workload_plane"}, filled |-> FALSE]
    /\ asked = {} /\ created = {} /\ nodeError = FALSE
    /\ edits = 0 /\ submits = 0

Next ==
    \/ EditVolume \/ Submit
    \/ CreateNext \/ VolumeCreated \/ VolumeFailed \/ CreatedUnheard
    \/ OpenCreateVolume \/ NodesAnswered
    \/ \E ok \in BOOLEAN : StorageClassesAnswered(ok)
    \/ \E p \in {"volumes", "createNode"} : Leave(p)
    \/ \E r \in RoleBoxes : TickRole(r)
    \/ FillNode \/ SubmitNode
    \/ \E a \in asked :
         NodeCreated(a) \/ NodeShown(a) \/ NodeFailed(a) \/ NodeThrows(a)

Spec == Init /\ [][Next]_vars

-----------------------------------------------------------------------------
(* Properties.                                                             *)

\* The rows of a batch follow the number that was typed, whatever was typed
\* before, and typing a number ends ("Update the number of the volumes to
\* create base on the input number", CreateVolume.js:500).  It holds while
\* NumberInputs has whole numbers from 0 on only: typing a half never ends,
\* and 1 typed after -1 makes two rows.
RowsMatchNumber ==
    form.open =>
        /\ ~form.hung
        /\ form.number > 0 /\ NumberValid(form.number)
               => 2 * Len(form.rows) = form.number

\* What is posted is a Volume the operator accepts, although the form, its
\* schema, the rows filled by default and the saga each check a part of it:
\* its name is valid and it has a device path or a size, not both.
PostsAreComplete ==
    call # Nothing => /\ ValidName(call.name)
                   /\ (call.devicePath = "") # (call.size = "")
                   /\ call.size \in {"", "1"}

\* A Volume that was created and never reported, in success or failure, was
\* being posted when its saga was cancelled: it is that of one request for each
\* cancelled saga, never another of its batch.  And a saga is cancelled only by
\* a later batch or by an error that stopped them all (nodes.js:394): until
\* one of these happens, every Volume that was created was reported.
NothingSilent ==
    /\ cluster \ told \subseteq abandoned
    /\ ~superseded /\ alive => abandoned = {}

\* A node never gets the labels or the taints of the bootstrap node, has the
\* control plane's two roles or none, and takes no taint exactly if ordinary
\* workloads were asked for.
RolesAsTicked ==
    \A c \in created :
        /\ "bootstrap" \notin c.labels \cup c.taints
        /\ "control_plane" \in c.boxes <=> {"master", "etcd"} \subseteq c.labels
        /\ "infra" \in c.boxes <=> "infra" \in c.labels
        /\ "workload_plane" \in c.boxes <=> c.taints = {}

\* What the forms promise, as stated above each part.
FormsSafe ==
    RowsMatchNumber /\ PostsAreComplete /\ NothingSilent /\ RolesAsTicked
=============================================================================
