----------------------------- MODULE UiVolumes -----------------------------
(***************************************************************************)
(* The volume page: the lists it fetches, each at its own pace (volumes    *)
(* and persistent volumes again and again, claims once, alerts by the      *)
(* shell), the rows computed from them, the volume of the URL, its         *)
(* overview with the deletion, and the object of its details.              *)
(*                                                                         *)
(* The cluster changes meanwhile.  What an answer carries is what is there *)
(* when it arrives, but for the object of the details, whose answers may   *)
(* overtake each other.                                                    *)
(***************************************************************************)
EXTENDS Integers, Sequences, FiniteSets, SequencesExt

CONSTANTS
    Volumes,    \* names of volumes
    ByName,     \* the volumes in the order the API lists them
    Nodes,      \* nodes they may be on
    NodeOf,     \* the node of each volume
    None,       \* no volume, no node
    MaxEvents,  \* bound: changes of the cluster
    MaxMoves,   \* bound: what the user does
    MaxReads    \* bound: reads of the details' object under way

VolumesAssumption ==
    /\ NodeOf \in [Volumes -> Nodes] /\ None \notin Volumes \cup Nodes
    /\ ToSet(ByName) = Volumes /\ IsInjective(ByName)
    /\ {MaxEvents, MaxMoves, MaxReads} \subseteq Nat

VARIABLES
    conditions, \* the cluster: the Ready condition of each Volume, or "absent"
    pvs,        \* the cluster: the phase of each PersistentVolume, or "absent"
    alerting,   \* the cluster: volumes an alert is firing for
    list,       \* state.app.volumes.list: a condition, or "absent"
    pVList,     \* state.app.volumes.pVList: a phase, or "absent"
    pVCList,    \* state.app.volumes.pVCList: the volumes that are claimed
    alerts,     \* the alerts of useAlerts
    loaded,     \* the lists that were answered
    at,         \* the URL: the volume, or None, and the node filter
    modal,      \* whether the deletion is to be confirmed
    reads,      \* the requests of fetchCurrentVolumeObject without an answer
    object,     \* state.app.volumes.currentVolumeObject: a name, or None
    events, moves \* bounds

cluster == <<conditions, pvs, alerting, events>>
redux == <<list, pVList, pVCList, alerts, loaded>>
page == <<at, modal, reads, object>>
vars == <<cluster, redux, page, moves>>

\* What the operator writes in the condition, and what the page makes of it.
Conditions == {"absent", "none", "Unknown/Pending", "Unknown/Terminating",
               "True", "False"}
Phases == {"absent", "Available", "Bound", "Released"}
Lists == {"volumes", "pvs", "pvcs", "alerts"}

-----------------------------------------------------------------------------
(* Data of a row.                                                          *)

ComputeVolumeGlobalStatus(condition) ==
    CASE condition = "True" -> "Ready"
      [] condition = "False" -> "Failed"
      [] condition = "Unknown/Pending" -> "Pending"
      [] condition = "Unknown/Terminating" -> "Terminating"
      [] OTHER -> "Unknown"

\* A persistent volume that is not in the list is one that does not exist.
IsVolumeDeletable(status, v) ==
    /\ status \in {"Failed", "Ready"}
    /\ pVList[v] \in {"absent", "Failed", "Available", "Released"}

ComputeVolumeCondition(status, bound) ==
    CASE status = "Failed" /\ ~bound -> "exclamation"
      [] status = "Ready" /\ ~bound -> "unlink"
      [] status = "Ready" /\ bound -> "link"
      [] OTHER -> "unknown"

\* A volume without a claim has no health.
Health(v, claimed, firing) ==
    IF v \notin claimed THEN "none"
    ELSE IF v \in firing THEN "critical" ELSE "healthy"

CompareHealth == [critical |-> 3, warning |-> 2, none |-> 1, healthy |-> 0]

Row(v) ==
    [name |-> v,
     status |-> ComputeVolumeCondition(ComputeVolumeGlobalStatus(list[v]),
                                       pVList[v] = "Bound"),
     health |-> Health(v, pVCList, alerts)]

\* The volumes of the list, or those of the node of the URL; and their rows.
Listed == {v \in Volumes : list[v] # "absent" /\ at.node \in {None, NodeOf[v]}}
GetVolumeListData == {Row(v) : v \in Listed}

\* The worst health first, then as the API lists them.
Position(v) == CHOOSE i \in DOMAIN ByName : ByName[i] = v
Before(v, w) ==
    LET worst(u) == CompareHealth[Health(u, pVCList, alerts)]
    IN \/ worst(v) > worst(w)
       \/ worst(v) = worst(w) /\ Position(v) < Position(w)
IsFirst(v, vs) == v \in vs /\ \A w \in vs \ {v} : Before(v, w)

Names(rows) == {row.name : row \in rows}

-----------------------------------------------------------------------------
(* The cluster.                                                            *)

Event == events < MaxEvents /\ events' = events + 1

ConditionChanges(v, c) ==
    /\ Event
    /\ \/ conditions[v] = "absent" /\ c = "none"
       \/ conditions[v] = "none" /\ c \in {"Unknown/Pending", "False"}
       \/ conditions[v] = "Unknown/Pending" /\ c \in {"True", "False"}
       \/ conditions[v] = "Unknown/Terminating" /\ c = "absent" /\ pvs[v] # "Bound"
    /\ conditions' = [conditions EXCEPT ![v] = c]
    /\ pvs' = CASE c = "True" -> [pvs EXCEPT ![v] = "Available"]
                [] c = "absent" -> [pvs EXCEPT ![v] = "absent"]
                [] OTHER -> pvs
    /\ UNCHANGED <<alerting, redux, page, moves>>

PhaseChanges(v, phase) ==
    /\ Event
    /\ \/ pvs[v] = "Available" /\ phase = "Bound"
       \/ pvs[v] = "Bound" /\ phase = "Released"
    /\ pvs' = [pvs EXCEPT ![v] = phase]
    /\ UNCHANGED <<conditions, alerting, redux, page, moves>>

AlertFires(v) ==
    /\ Event /\ pvs[v] = "Bound" /\ v \notin alerting
    /\ alerting' = alerting \cup {v}
    /\ UNCHANGED <<conditions, pvs, redux, page, moves>>

-----------------------------------------------------------------------------
(* Answers.                                                                *)

Answered(l) == loaded' = loaded \cup {l}

FetchVolumes ==
    /\ list' = conditions /\ Answered("volumes")
    /\ UNCHANGED <<cluster, pVList, pVCList, alerts, page, moves>>

FetchPersistentVolumes ==
    /\ pVList' = pvs /\ Answered("pvs")
    /\ UNCHANGED <<cluster, list, pVCList, alerts, page, moves>>

\* Once a mount: claims that come later are not seen.
FetchPersistentVolumeClaims ==
    /\ "pvcs" \notin loaded
    /\ pVCList' = {v \in Volumes : pvs[v] = "Bound"} /\ Answered("pvcs")
    /\ UNCHANGED <<cluster, list, pVList, alerts, page, moves>>

FetchAlerts ==
    /\ alerts' = alerting /\ Answered("alerts")
    /\ UNCHANGED <<cluster, list, pVList, pVCList, page, moves>>

ReadEveryVolume(v) == reads' = IF v = None THEN reads ELSE Append(reads, v)

\* takeLatest: an answer to an older request is dropped.
FetchCurrentVolumeObject(v) == reads' = IF v = None THEN reads ELSE <<v>>

\* The answer, or an error.
CurrentVolumeObjectAnswered(i, found) ==
    /\ i \in DOMAIN reads
    /\ object' = IF found THEN reads[i] ELSE None
    /\ reads' = RemoveAt(reads, i)
    /\ UNCHANGED <<cluster, redux, at, modal, moves>>

-----------------------------------------------------------------------------
(* The page.                                                               *)

\* The URL changes; the effect reads the object when the volume does.
GoTo(v, node) ==
    /\ at' = [volume |-> v, node |-> node]
    /\ IF v = at.volume THEN UNCHANGED reads ELSE FetchCurrentVolumeObject(v)
    /\ Len(reads') <= MaxReads
    /\ UNCHANGED object

\* "If data has been retrieved and no volume is selected yet we select the
\* first one".
SelectFirst ==
    /\ pVCList # {} /\ at.volume = None
    /\ \E v \in Listed : IsFirst(v, Listed) /\ GoTo(v, at.node)
    /\ UNCHANGED <<cluster, redux, modal, moves>>

Move == moves < MaxMoves /\ moves' = moves + 1

ClickRow(v) ==
    /\ Move /\ ~modal /\ v \in Listed
    /\ GoTo(v, at.node)
    /\ UNCHANGED <<cluster, redux, modal>>

\* The browser's history still works behind the modal: the overview that is
\* open stays open, with another volume.
Back(v) ==
    /\ Move /\ at.volume # None /\ at.node \in {None, NodeOf[v]}
    /\ GoTo(v, at.node)
    /\ UNCHANGED <<cluster, redux, modal>>

\* The sidebar, or the volumes of a node, from its page: a new page.
Enter(v, node) ==
    /\ Move /\ ~modal
    /\ IF node = None THEN v = None
       ELSE v \in Volumes /\ NodeOf[v] = node /\ list[v] # "absent"
    /\ at' = [volume |-> v, node |-> node]
    /\ FetchCurrentVolumeObject(v)
    /\ Len(reads') <= MaxReads
    /\ loaded' = loaded \ {"pvcs"}
    /\ UNCHANGED <<cluster, list, pVList, pVCList, alerts, modal, object>>

\* The overview is there when the volume is.
Overview == at.volume # None /\ list[at.volume] # "absent"

ClickDelete ==
    /\ Move /\ Overview /\ ~modal
    /\ IsVolumeDeletable(ComputeVolumeGlobalStatus(list[at.volume]), at.volume)
    /\ modal' = TRUE
    /\ UNCHANGED <<cluster, redux, at, reads, object>>

Cancel ==
    /\ modal /\ modal' = FALSE
    /\ UNCHANGED <<cluster, redux, at, reads, object, moves>>

\* The API server marks the object; the operator does the rest.
DeleteVolume(v) ==
    conditions' = IF conditions[v] = "absent" THEN conditions
                  ELSE [conditions EXCEPT ![v] = "Unknown/Terminating"]

\* onClickDeleteButton: it does not ask again whether the volume may go.
OnClickDeleteButton ==
    /\ modal /\ Overview
    /\ DeleteVolume(at.volume)
    /\ modal' = FALSE
    /\ LET others == Listed \ {at.volume}
           node == IF at.node = None THEN None ELSE NodeOf[at.volume]
       IN \/ others = {} /\ GoTo(None, node)
          \/ \E v \in others : IsFirst(v, others) /\ GoTo(v, node)
    /\ UNCHANGED <<pvs, alerting, events, redux, moves>>

\* The volume left the list: its overview, and the modal in it, are gone.
Unmount ==
    /\ modal /\ ~Overview
    /\ modal' = FALSE
    /\ UNCHANGED <<cluster, redux, at, reads, object, moves>>

-----------------------------------------------------------------------------

Nothing == [v \in Volumes |-> "absent"]

Init ==
    /\ conditions \in [Volumes -> {"absent", "True"}]
    /\ pvs \in {f \in [Volumes -> {"absent", "Available", "Bound"}] :
                  \A v \in Volumes : f[v] = "absent" <=> conditions[v] = "absent"}
    /\ alerting \in SUBSET {v \in Volumes : pvs[v] = "Bound"}
    /\ list = Nothing /\ pVList = Nothing /\ pVCList = {} /\ alerts = {}
    /\ loaded = {}
    /\ at = [volume |-> None, node |-> None] /\ modal = FALSE
    /\ reads = <<>> /\ object = None
    /\ events = 0 /\ moves = 0

Next ==
    \/ \E v \in Volumes, c \in Conditions : ConditionChanges(v, c)
    \/ \E v \in Volumes, p \in Phases : PhaseChanges(v, p)
    \/ \E v \in Volumes : AlertFires(v)
    \/ FetchVolumes \/ FetchPersistentVolumes
    \/ FetchPersistentVolumeClaims \/ FetchAlerts
    \/ \E i \in 1..MaxReads, found \in BOOLEAN :
           CurrentVolumeObjectAnswered(i, found)
    \/ SelectFirst
    \/ \E v \in Volumes : ClickRow(v) \/ Back(v)
    \/ \E v \in Volumes \cup {None}, n \in Nodes \cup {None} : Enter(v, n)
    \/ ClickDelete \/ Cancel \/ OnClickDeleteButton \/ Unmount

Spec == Init /\ [][Next]_vars

-----------------------------------------------------------------------------
(* Properties.                                                             *)

TypeOK ==
    /\ conditions \in [Volumes -> Conditions] /\ pvs \in [Volumes -> Phases]
    /\ list \in [Volumes -> Conditions] /\ pVList \in [Volumes -> Phases]
    /\ alerting \subseteq Volumes /\ alerts \subseteq Volumes
    /\ pVCList \subseteq Volumes /\ loaded \subseteq Lists
    /\ at \in [volume : Volumes \cup {None}, node : Nodes \cup {None}]
    /\ modal \in BOOLEAN /\ object \in Volumes \cup {None}
    /\ reads \in Seq(Volumes) /\ Len(reads) <= MaxReads

\* The details show the object of the volume of the URL, or an error, as soon
\* as no request is under way, whatever the order of the clicks and answers.
DetailsOfSelected ==
    at.volume # None /\ reads = <<>> => object \in {at.volume, None}

\* The page reads the row of the volume without asking whether there is one,
\* and throws when the filter hides it: its own links never lead there.
RowIsThere ==
    Overview => at.volume \in Names(GetVolumeListData)
=============================================================================
