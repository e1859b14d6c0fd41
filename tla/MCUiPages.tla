------------------------------ MODULE MCUiPages ------------------------------
(***************************************************************************)
(* The instance of the pages of the UI: the Salt jobs, the session, the    *)
(* forms, the lists with their URL, the graphs and the alerts, and the     *)
(* pages of a node (the modules this one extends).                         *)
(*                                                                         *)
(* These components share no variable: each meets the others only through  *)
(* inputs its own module leaves open.  So a behaviour moves one of them,   *)
(* chosen by Init, and TLC visits the sum of their states instead of the   *)
(* product; the others stay in one of their initial states.                *)
(***************************************************************************)
EXTENDS UiSaltJobs, UiPages, UiNodePages, Sequences

Row(name, health) == [name |-> name, health |-> health, other |-> 1]
MCAnswers == {<<Row(1, 2), Row(2, 1)>>, <<Row(1, 1), Row(2, 1)>>}

\* Spans of 2, 4 and 6 periods, sampled at each, every second and every third.
MCDuration == [s \in {"1h", "24h", "7d"} |->
                 CASE s = "1h" -> 2 [] s = "24h" -> 4 [] OTHER -> 6]
MCFrequency == [s \in {"1h", "24h", "7d"} |->
                  CASE s = "1h" -> 1 [] s = "24h" -> 2 [] OTHER -> 3]
MCOutages == {{}, {6}, {4, 5}, {0, 1, 2, 3}}

MCPodStates ==
    {[node |-> "n1", phase |-> "Running", containers |-> 2, running |-> 2, told |-> TRUE],
     [node |-> "n1", phase |-> "Running", containers |-> 2, running |-> 1, told |-> TRUE],
     [node |-> "n1", phase |-> "Pending", containers |-> 2, running |-> 0, told |-> FALSE],
     [node |-> "n1", phase |-> "Succeeded", containers |-> 2, running |-> 0, told |-> TRUE],
     [node |-> "n2", phase |-> "Running", containers |-> 1, running |-> 1, told |-> TRUE],
     [node |-> "n2", phase |-> "Failed", containers |-> 1, running |-> 0, told |-> TRUE]}

\* An alert about the partition of each node, one about something else of the
\* first, and one about a network interface, which has no mount point.
MCAlertLabels ==
    {[alertname |-> "NodeFilesystemSpaceFillingUp", instance |-> n,
      mountpoint |-> "root", severity |-> "critical"] : n \in {"n1", "n2"}}
    \cup {[alertname |-> "NodeFilesystemAlmostOutOfFiles", instance |-> "n1",
           mountpoint |-> "root", severity |-> "warning"],
          [alertname |-> "Other", instance |-> "n1",
           mountpoint |-> "root", severity |-> "critical"],
          [alertname |-> "NodeNetworkReceiveErrs", instance |-> "n1",
           severity |-> "critical"]}

VARIABLE focus   \* the component that moves

-----------------------------------------------------------------------------
(* The assumptions of the instances.                                       *)

ASSUME AlertsAssumed == Al!ThingsAssumption
ASSUME ListsAssumed == L!ListsAssumption
ASSUME SessionAssumed == S!SessionAssumption
ASSUME FormsAssumed == F!FormsAssumption /\ F!WholeNumbers
ASSUME MetricsAssumed == M!MetricsAssumption
ASSUME NodesAssumed == D!NodesAssumption
ASSUME PodsAssumed == P!PodsAssumption
ASSUME PartitionsAssumed == Q!PartitionsAssumption

-----------------------------------------------------------------------------
Components == {"jobs", "alerts", "lists", "session", "forms", "metrics", "nodes",
               "pods", "partitions"}

MCInit ==
    /\ focus \in Components
    /\ Init /\ Al!Init /\ L!Init /\ S!Init
    /\ F!Init /\ M!Init /\ D!Init
    /\ P!Init /\ Q!Init
    /\ focus # "lists" => lAt.page = "volumes"
    /\ focus # "session" => sUrl = "nodes" /\ sGroups = {}
    /\ focus # "forms" => ~fNodes
    /\ focus # "metrics" => mDown = {}
    /\ focus # "pods" => pPods[1].phase = "Failed"

JobsMove == /\ focus = "jobs" /\ Next
            /\ UNCHANGED <<focus, aVars, lVars, sVars, fVars, mVars, nVars, pVars, dVars>>
\* While an alert that groups others fires, nothing fires about the claim.
AlertsMove == /\ focus = "alerts" /\ Al!Next
              /\ \A a, b \in aFiring' : a.name \in Parents => b.on \notin Claims
              /\ UNCHANGED <<focus, vars, lVars, sVars, fVars, mVars, nVars, pVars, dVars>>
ListsMove == /\ focus = "lists" /\ L!Next
             /\ UNCHANGED <<focus, vars, aVars, sVars, fVars, mVars, nVars, pVars, dVars>>
SessionMoves == /\ focus = "session" /\ S!Next
                /\ UNCHANGED <<focus, vars, aVars, lVars, fVars, mVars, nVars, pVars, dVars>>
FormsMove == /\ focus = "forms" /\ F!Next
             /\ UNCHANGED <<focus, vars, aVars, lVars, sVars, mVars, nVars, pVars, dVars>>
MetricsMove == /\ focus = "metrics" /\ M!Next
               /\ UNCHANGED <<focus, vars, aVars, lVars, sVars, fVars, nVars, pVars, dVars>>
NodesMove == /\ focus = "nodes" /\ D!Next
             /\ UNCHANGED <<focus, vars, aVars, lVars, sVars, fVars, mVars, pVars, dVars>>

PodsMove == /\ focus = "pods" /\ P!Next
            /\ UNCHANGED <<focus, vars, aVars, lVars, sVars, fVars, mVars, nVars, dVars>>
PartitionsMove ==
    /\ focus = "partitions" /\ Q!Next
    /\ UNCHANGED <<focus, vars, aVars, lVars, sVars, fVars, mVars, nVars, pVars>>

MCNext == JobsMove \/ AlertsMove \/ ListsMove \/ SessionMoves
          \/ FormsMove \/ MetricsMove \/ NodesMove \/ PodsMove \/ PartitionsMove

MCSpec == MCInit /\ [][MCNext]_<<focus, vars, aVars, lVars, sVars,
                                         fVars, mVars, nVars, pVars, dVars>>

=============================================================================
