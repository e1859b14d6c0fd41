------------------------------ MODULE MCUiLoops ------------------------------
(***************************************************************************)
(* The instance of the parts of the UI that must settle (UiLoops, which    *)
(* this module extends).  One part moves in a behaviour, as in MCUiPages,  *)
(* and the others stay in an initial state in which none of their fair     *)
(* actions is enabled.                                                     *)
(***************************************************************************)
EXTENDS UiLoops, Sequences

MCByName == <<"v1", "v2">>
MCNodeOf == [v1 |-> "n1", v2 |-> "n2"]

CONSTANT MaxLaunches   \* bound: what starts a saga of the refresh loop

VARIABLE focus   \* the part that moves

-----------------------------------------------------------------------------
(* The assumptions of the instances.                                       *)

ASSUME RefreshAssumed == R!RefreshAssumption
ASSUME VolumesAssumed == V!VolumesAssumption

-----------------------------------------------------------------------------
MCInit ==
    /\ focus \in {"stats", "refresh", "volumes"}
    /\ Init /\ R!Init /\ V!Init
    /\ focus # "refresh" => rLoop = R!refreshNodes
    /\ focus # "volumes" => \A v \in Volumes : vConditions[v] = "absent"

StatsMove == /\ focus = "stats" /\ Next
             /\ UNCHANGED <<focus, rVars, vVars>>
RefreshMoves == /\ focus = "refresh" /\ R!Next
                /\ rMounts' + rFetches' <= MaxLaunches
                /\ UNCHANGED <<focus, vars, vVars>>
VolumesMove == /\ focus = "volumes" /\ V!Next
               /\ UNCHANGED <<focus, vars, rVars>>

MCNext == StatsMove \/ RefreshMoves \/ VolumesMove

MCSpec == MCInit /\ [][MCNext]_<<focus, vars, rVars, vVars>>
                 /\ Fairness /\ R!Fairness

-----------------------------------------------------------------------------
(* What is checked, besides CurrentOrComing, ShowsItsNode, RefreshSafe and *)
(* VolumesSafe of the modules this one extends.                            *)

\* UiRefresh: a screen that stays shows in the end what the server holds, and
\* never goes back to an older version where takeLatest should prevent it.
EndsUpToDate == R!EndsUpToDate /\ R!NeverGoesBack
=============================================================================
