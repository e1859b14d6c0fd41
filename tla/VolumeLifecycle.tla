--------------------------- MODULE VolumeLifecycle ---------------------------
(***************************************************************************)
(* What the storage operator promises about the storage behind a Volume    *)
(* name, whatever the jobs, caches, retries and crashes it takes: an       *)
(* incarnation of the Volume is declared, serves its storage to the        *)
(* cluster once, is retired, and is gone when nothing of it is left on the *)
(* node; only then may the name be declared again.                         *)
(***************************************************************************)
EXTENDS Naturals

CONSTANT MaxUid

VARIABLES
    stage,   \* of each incarnation
    data     \* what its backing storage holds

lifeVars == <<stage, data>>

Incarnations == 1 .. MaxUid
Stages == {"unborn", "declared", "serving", "retired", "gone"}
Data   == {"absent", "created", "prepared"}

LifeTypeOK ==
    /\ stage \in [Incarnations -> Stages]
    /\ data \in [Incarnations -> Data]

LifeInit ==
    /\ stage = [u \in Incarnations |-> "unborn"]
    /\ data = [u \in Incarnations |-> "absent"]

Move(u, from, to) ==
    /\ stage[u] \in from
    /\ stage' = [stage EXCEPT ![u] = to]
    /\ UNCHANGED data

\* One incarnation at a time, in order.
Declare(u) ==
    /\ \A w \in Incarnations : w < u => stage[w] = "gone"
    /\ Move(u, {"unborn"}, "declared")

\* The node works on storage that nobody can use.
Work(u) ==
    /\ stage[u] \in {"declared", "retired"}
    /\ \E d \in Data : data' = [data EXCEPT ![u] = d]
    /\ UNCHANGED stage

\* The storage is offered to the cluster once it is ready.
Serve(u) == data[u] = "prepared" /\ Move(u, {"declared"}, "serving")

\* Withdrawn from the cluster, for good.
Retire(u) == Move(u, {"declared", "serving"}, "retired")

\* Nothing is left behind.
Leave(u) == data[u] = "absent" /\ Move(u, {"declared", "retired"}, "gone")

LifeNext ==
    \E u \in Incarnations :
        Declare(u) \/ Work(u) \/ Serve(u) \/ Retire(u) \/ Leave(u)

LifeSpec == LifeInit /\ [][LifeNext]_lifeVars
=============================================================================
