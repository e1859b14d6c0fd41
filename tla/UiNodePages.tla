------------------------------ MODULE UiNodePages ------------------------------
(***************************************************************************)
(* The pages of a node, side by side: its row and its deployment (UiNodes),*)
(* its pods (UiPods) and its system partitions (UiPartitions).  They share *)
(* no variable: each asks for what it shows.                               *)
(***************************************************************************)
EXTENDS Integers, Sequences, FiniteSets

CONSTANTS
    MaxJobs, MaxFetches,
    MaxNodeChanges, MaxNodeReloads,   \* bounds of UiNodes
    Nodes, PodStates,
    MaxPodChanges, MaxVisits,         \* bounds of UiPods
    Mounts, AlertLabels,
    MaxPartitionChanges               \* bound of UiPartitions

-----------------------------------------------------------------------------
(* UiNodes *)

VARIABLES
    nNode, nJobs, nAsked, nPending, nFetches, nEntry, nChanges, nReloads

nVars ==
    <<nNode, nJobs, nAsked, nPending, nFetches, nEntry, nChanges, nReloads>>

D == INSTANCE UiNodes WITH
    MaxChanges <- MaxNodeChanges, MaxReloads <- MaxNodeReloads,
    node <- nNode, jobs <- nJobs, asked <- nAsked, pending <- nPending,
    fetches <- nFetches, entry <- nEntry, changes <- nChanges,
    reloads <- nReloads

-----------------------------------------------------------------------------
(* UiPods *)

VARIABLES
    pPods, pList, pAsking, pAt, pVisits, pSince, pFailed

pVars ==
    <<pPods, pList, pAsking, pAt, pVisits, pSince, pFailed>>

P == INSTANCE UiPods WITH
    MaxChanges <- MaxPodChanges, pods <- pPods, list <- pList,
    asking <- pAsking, at <- pAt, visits <- pVisits, since <- pSince,
    failed <- pFailed

-----------------------------------------------------------------------------
(* UiPartitions *)

VARIABLES
    dName, dMounted, dQuery, dChanges

dVars ==
    <<dName, dMounted, dQuery, dChanges>>

Q == INSTANCE UiPartitions WITH
    MaxChanges <- MaxPartitionChanges, name <- dName, mounted <- dMounted,
    query <- dQuery, changes <- dChanges

-----------------------------------------------------------------------------
(* What they promise.                                                      *)

\* UiNodes, UiPods, UiPartitions, the pages of a node: a deployment is offered
\* when the ones known have ended, its outcome and the state of the node are
\* told as they are, the pods are those the page asked for, and its partitions
\* have their own sizes and alerts.
NodesSafe ==
    /\ D!TypeOK /\ D!OfferedWhenEnded
    /\ D!ColoursFollowRules /\ D!PanelTellsOutcome
    /\ P!PodsOfVisit /\ P!GreenWasRunning
    /\ Q!SizeMissingOnlyAfterChange
    /\ Q!HealthOfPartition /\ Q!TableTells
=============================================================================
