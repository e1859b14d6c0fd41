----------------------------- MODULE MCNodeDrain -----------------------------
(***************************************************************************)
(* The casts of the runs of NodeDrain: three pods, of owners that interact *)
(* (two under the budget, one that the filters treat apart).               *)
(***************************************************************************)
EXTENDS NodeDrain, TLC

CONSTANTS p1, p2, p3

Plain(kind) == [kind |-> kind, local |-> FALSE, here |-> TRUE,
                managed |-> kind \in Owned]
Local(kind) == [Plain(kind) EXCEPT !.local = TRUE]
Orphan(kind) == [Plain(kind) EXCEPT !.managed = FALSE]
ToCome(kind) == [Plain(kind) EXCEPT !.here = FALSE]

Cast(a, b, c) == p1 :> a @@ p2 :> b @@ p3 :> c

MixedCasts ==
    {Cast(Plain("ReplicaSet"), ToCome("StatefulSet"), Plain("Mirror")),
     Cast(Plain("ReplicaSet"), Local("StatefulSet"), Plain("DaemonSet")),
     Cast(Plain("Job"), Local("Unmanaged"), Orphan("DaemonSet"))}

\* node_drained in deploy_node.sls, with a timeout or not, and calls that
\* leave options out.
Call(force, ignore, local, timed, dry) ==
    [force |-> force, ignoreDaemonset |-> ignore, deleteLocalData |-> local,
     timed |-> timed, dryRun |-> dry]

MixedCalls ==
    {Call(TRUE, TRUE, TRUE, timed, FALSE) : timed \in BOOLEAN}
    \cup {Call(FALSE, TRUE, local, timed, FALSE) :
             local \in BOOLEAN, timed \in BOOLEAN}
    \cup {Call(force, FALSE, TRUE, TRUE, ~force) : force \in BOOLEAN}

\* A bare pod and a replica.
BareCast == {Cast(Plain("Unmanaged"), Plain("ReplicaSet"), Plain("Mirror"))}
=============================================================================
