-------------------------------- MODULE UiLoops --------------------------------
(***************************************************************************)
(* The parts of the UI that must settle, side by side: the graphs of a     *)
(* node (UiNodeStats, which this module extends), a refresh loop           *)
(* (UiRefresh) and the volume page (UiVolumes).  They share no variable.   *)
(***************************************************************************)
EXTENDS UiNodeStats, FiniteSets

CONSTANTS
    MaxMounts, MaxVersion, MaxFetches, MaxFailures,  \* bounds of UiRefresh
    Volumes, ByName, NodeOf,                         \* those of the page
    MaxEvents, MaxMoves, MaxReads                    \* bounds of UiVolumes

-----------------------------------------------------------------------------
(* UiRefresh *)

VARIABLES
    rLoop, rViews, rIsRefreshing, rIsLoading, rTasks, rList, rRemote,
    rMounts, rFetches, rFailures, rLeft, rCancelled, rFailed

rVars ==
    <<rLoop, rViews, rIsRefreshing, rIsLoading, rTasks, rList, rRemote,
      rMounts, rFetches, rFailures, rLeft, rCancelled, rFailed>>

R == INSTANCE UiRefresh WITH
    loop <- rLoop, views <- rViews, isRefreshing <- rIsRefreshing,
    isLoading <- rIsLoading, tasks <- rTasks, list <- rList,
    remote <- rRemote, mounts <- rMounts, fetches <- rFetches,
    failures <- rFailures, left <- rLeft, cancelled <- rCancelled,
    failed <- rFailed

-----------------------------------------------------------------------------
(* UiVolumes *)

VARIABLES
    vConditions, vPvs, vAlerting, vList, vPVList, vPVCList, vAlerts, vLoaded,
    vAt, vModal, vReads, vObject, vEvents, vMoves

vVars ==
    <<vConditions, vPvs, vAlerting, vList, vPVList, vPVCList, vAlerts,
      vLoaded, vAt, vModal, vReads, vObject, vEvents, vMoves>>

V == INSTANCE UiVolumes WITH
    None <- NoNode, conditions <- vConditions, pvs <- vPvs,
    alerting <- vAlerting, list <- vList, pVList <- vPVList,
    pVCList <- vPVCList, alerts <- vAlerts, loaded <- vLoaded, at <- vAt,
    modal <- vModal, reads <- vReads, object <- vObject, events <- vEvents,
    moves <- vMoves

-----------------------------------------------------------------------------
(* What they promise.                                                      *)

\* UiRefresh: whatever the order of mounts, unmounts, changes, answers and
\* errors, a mounted screen has a loop, unless another took it away, and the
\* loader is up only during a fetch, unless a change has cancelled it.
RefreshSafe == R!RefreshSafe

\* UiVolumes: the details are those of the selected volume, which has a row.
VolumesSafe == V!TypeOK /\ V!DetailsOfSelected /\ V!RowIsThere
=============================================================================
