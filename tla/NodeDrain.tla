------------------------------- MODULE NodeDrain -------------------------------
(***************************************************************************)
(* The drain of a Kubernetes node before it is redeployed                  *)
(* (src/salt/_modules/metalk8s_drain.py): the node is cordoned, its pods   *)
(* are listed and filtered, those to evict are evicted one by one under a  *)
(* disruption budget, then the drain waits until they are gone.            *)
(*                                                                         *)
(* An element of Pods is a place that a pod may take: each pod that takes  *)
(* it has its own UID (1, 2, ...).  The drain makes one call to the API    *)
(* server per step; users, controllers and kubelets act between its calls. *)
(***************************************************************************)
EXTENDS Naturals, FiniteSets

CONSTANTS
    Pods,           \* places for pods, on this node or elsewhere
    Casts,          \* owner and volumes of each pod, and where it starts
    MinAvailable,   \* the budget: guarded pods that must stay available
    Calls,          \* how node_drain is called
    MaxMishaps      \* bound: what users do meanwhile, and calls that fail

Kinds == {"ReplicaSet", "StatefulSet", "DaemonSet", "Job", "Unmanaged",
          "Mirror"}

Owned     == Kinds \ {"Unmanaged", "Mirror"}    \* have a controller reference
KeepsName == {"StatefulSet", "Unmanaged", "Mirror"}     \* across incarnations
Guarded   == {"ReplicaSet", "StatefulSet"}      \* covered by the budget

\* The arguments of node_drain; "timed" is a timeout other than zero.
Options == [force: BOOLEAN, ignoreDaemonset: BOOLEAN,
            deleteLocalData: BOOLEAN, timed: BOOLEAN, dryRun: BOOLEAN]

ASSUME DrainAssumption ==
    /\ IsFiniteSet(Pods)
    /\ Casts \subseteq [Pods -> [kind: Kinds, local: BOOLEAN, here: BOOLEAN,
                               managed: BOOLEAN]]
    /\ MinAvailable \in Nat
    /\ Calls \subseteq Options
    /\ MaxMishaps \in Nat

\* Bound: a pod there at first, one for each mishap, one for the eviction.
MaxUid == MaxMishaps + 2

VARIABLES
    cast,       \* kind of each pod, its emptyDir volume, its first state
    pod,        \* the pod of each place, as the API server knows it
    cordoned,   \* spec.unschedulable of the node
    opts,       \* how the drain was called
    pc,         \* the drain's progress, or how it ended
    again,      \* does it list pods again, to report those that remain?
    seen,       \* the pods of the node when it last listed them
    failing,    \* did a filter raise DrainException?
    pods,       \* pods to evict, then pods not seen gone yet
    rest,       \* what the loop under way has still to go through
    cur,        \* the pod whose eviction is retried, as a set
    expired,    \* is the timeout over?
    evicted,    \* incarnations the drain has evicted
    mishaps     \* mishaps that may still happen

world == <<cast, pod, opts>>
vars  == <<world, cordoned, pc, again, seen, failing, pods, rest, cur,
           expired, evicted, mishaps>>

Kind(p) == cast[p].kind

PodState == [uid: 0 .. MaxUid, at: {"node", "elsewhere", "nowhere"},
             finished: BOOLEAN, deleting: BOOLEAN, managed: BOOLEAN]

Ended == {"done", "dry", "refused", "failed", "left", "escaped"}

TypeOK ==
    /\ cast \in Casts
    /\ pod \in [Pods -> PodState]
    /\ cordoned \in BOOLEAN
    /\ opts \in Calls
    /\ pc \in {"cordon", "list", "filter", "evict", "tick", "look"} \cup Ended
    /\ again \in BOOLEAN
    /\ DOMAIN seen \subseteq Pods
    /\ seen \in [DOMAIN seen -> PodState]
    /\ failing \in BOOLEAN
    /\ pods \subseteq DOMAIN seen
    /\ rest \subseteq DOMAIN seen
    /\ cur \subseteq Pods
    /\ expired \in BOOLEAN
    /\ evicted \subseteq Pods \X (0 .. MaxUid)
    /\ mishaps \in 0 .. MaxMishaps

-----------------------------------------------------------------------------
(***************************************************************************)
(* The node's pods, as users, controllers and kubelets change them.        *)
(***************************************************************************)
Exists(p) == pod[p].at # "nowhere"
OnNode    == {p \in Pods : pod[p].at = "node"}
Healthy   == {p \in Pods : Kind(p) \in Guarded /\ Exists(p)
                           /\ ~pod[p].deleting}

Mishap == mishaps > 0 /\ mishaps' = mishaps - 1

\* The model stops with a drain that does not complete.
PodChanges(p, state) ==
    /\ pc \notin Ended \ {"done"}
    /\ pod' = [pod EXCEPT ![p] = state]
    /\ UNCHANGED <<cast, opts, cordoned, pc, again, seen, failing, pods, rest,
                   cur, expired, evicted>>

\* A pod takes the place.  The scheduler leaves a cordoned node alone, the
\* controller of daemons does not care.
Arrives(p) ==
    /\ ~Exists(p)
    /\ pod[p].uid < MaxUid        \* never reached
    /\ \E place \in {"node", "elsewhere"} :
          /\ Kind(p) = "DaemonSet" => place = "node"
          /\ Kind(p) # "DaemonSet" /\ cordoned => place = "elsewhere"
          /\ PodChanges(p, [pod[p] EXCEPT !.uid = @ + 1, !.at = place,
                                          !.finished = FALSE])

\* A controller replaces the pods it lacks, but those of a job that is over.
Replace(p) ==
    /\ pod[p].managed
    /\ ~(Kind(p) = "Job" /\ pod[p].finished)
    /\ Arrives(p)
    /\ UNCHANGED mishaps

UserCreates(p) ==
    /\ Kind(p) = "Unmanaged"
    /\ Mishap
    /\ Arrives(p)

DeletePod(p) ==
    /\ Exists(p) /\ ~pod[p].deleting
    /\ Kind(p) # "Mirror"
    /\ Mishap
    /\ PodChanges(p, [pod[p] EXCEPT !.deleting = TRUE])

DeleteController(p) ==
    /\ pod[p].managed
    /\ Mishap
    /\ PodChanges(p, [pod[p] EXCEPT !.managed = FALSE])

Finish(p) ==
    /\ Exists(p) /\ ~pod[p].deleting /\ ~pod[p].finished
    /\ Kind(p) \in {"Job", "Unmanaged"}
    /\ PodChanges(p, [pod[p] EXCEPT !.finished = TRUE])
    /\ UNCHANGED mishaps

\* The kubelet has stopped the containers.
Terminate(p) ==
    /\ Exists(p) /\ pod[p].deleting
    /\ PodChanges(p, [pod[p] EXCEPT !.at = "nowhere", !.deleting = FALSE])
    /\ UNCHANGED mishaps

-----------------------------------------------------------------------------
(***************************************************************************)
(* Which pods to evict.                                                    *)
(***************************************************************************)
\* A pod that is over does not need its controller, unless it is a daemon.
NeedsController(p) ==
    Kind(p) \in Owned /\ (~seen[p].finished \/ Kind(p) = "DaemonSet")

\* A filter raises DrainException.  Owner, volumes and phase are those of the
\* listed pod; the controller is looked up now.
Fatal(p) ==
    \/ cast[p].local /\ ~opts.deleteLocalData
    \/ NeedsController(p) /\ ~pod[p].managed /\ ~opts.force
    \/ Kind(p) = "DaemonSet" /\ pod[p].managed /\ ~opts.ignoreDaemonset

Deletable(p) ==
    /\ Kind(p) # "Mirror"
    /\ ~(Kind(p) = "DaemonSet" /\ pod[p].managed)

CordonForgotten ==
    /\ pc = "cordon"
    /\ pc' = "list"
    /\ UNCHANGED <<world, cordoned, again, seen, failing, pods, rest, cur,
                   expired, evicted, mishaps>>

Cordon ==
    /\ pc = "cordon"
    /\ cordoned' = TRUE
    /\ pc' = "list"
    /\ UNCHANGED <<world, again, seen, failing, pods, rest, cur, expired,
                   evicted, mishaps>>

ListKeepsPods ==
    /\ pc = "list"
    /\ pc' = "filter"
    /\ seen' = [p \in OnNode |-> pod[p]]
    /\ rest' = OnNode
    /\ failing' = FALSE
    /\ UNCHANGED <<world, cordoned, again, pods, cur, expired, evicted,
                   mishaps>>

ListPods ==
    /\ pc = "list"
    /\ pc' = "filter"
    /\ seen' = [p \in OnNode |-> pod[p]]
    /\ rest' = OnNode
    /\ pods' = {}
    /\ failing' = FALSE
    /\ UNCHANGED <<world, cordoned, again, cur, expired, evicted, mishaps>>

FilterPod(p) ==
    /\ pc = "filter" /\ p \in rest
    /\ rest' = rest \ {p}
    /\ failing' = (failing \/ Fatal(p))
    /\ pods' = IF Deletable(p) THEN pods \cup {p} ELSE pods
    /\ UNCHANGED <<world, cordoned, pc, again, seen, cur, expired, evicted,
                   mishaps>>

RefuseOnlyIfNothing ==
    /\ pc = "filter" /\ rest = {}
    /\ pc' = IF failing /\ pods = {}
             THEN IF again THEN "escaped" ELSE "refused"
             ELSE IF again THEN "left"
             ELSE IF opts.dryRun THEN "dry" ELSE "evict"
    /\ rest' = IF pc' = "evict" THEN pods ELSE {}
    /\ UNCHANGED <<world, cordoned, again, seen, failing, pods, cur, expired,
                   evicted, mishaps>>

\* The end of get_pods_for_eviction: back in run_drain, which caught an
\* exception of evict_pods if it lists pods for the second time.
EndFilter ==
    /\ pc = "filter" /\ rest = {}
    /\ pc' = IF failing THEN IF again THEN "escaped" ELSE "refused"
             ELSE IF again THEN "left"
             ELSE IF opts.dryRun THEN "dry" ELSE "evict"
    /\ rest' = IF pc' = "evict" THEN pods ELSE {}
    /\ UNCHANGED <<world, cordoned, again, seen, failing, pods, cur, expired,
                   evicted, mishaps>>

-----------------------------------------------------------------------------
(***************************************************************************)
(* Evictions, then the wait.                                               *)
(***************************************************************************)
\* The name of the listed pod is known to the API server.
NameTaken(p) ==
    Exists(p) /\ (Kind(p) \in KeepsName \/ pod[p].uid = seen[p].uid)

\* The budget lets the pod go; one that is being deleted does not count.
BudgetAllows(p) ==
    \/ Kind(p) \notin Guarded
    \/ pod[p].deleting
    \/ Cardinality(Healthy) > MinAvailable

\* What an accepted eviction does to a pod.
Evict(p) ==
    /\ NameTaken(p) /\ BudgetAllows(p)
    /\ pod' = [pod EXCEPT ![p].deleting = TRUE]
    /\ evicted' = evicted \cup {<<p, pod[p].uid>>}

\* The pod of the for loop: the one being retried, or the next one.
Current(p) == p \in rest /\ (cur = {} \/ cur = {p})

EvictPod(p) ==
    /\ pc = "evict" /\ Current(p)
    /\ ~expired
    /\ \/ /\ Evict(p)
          /\ rest' = rest \ {p} /\ cur' = {}
       \/ /\ ~NameTaken(p)                          \* 404
          /\ rest' = rest \ {p} /\ cur' = {}
          /\ UNCHANGED <<pod, evicted>>
       \/ /\ NameTaken(p) /\ ~BudgetAllows(p)       \* 429
          /\ cur' = {p}
          /\ UNCHANGED <<pod, evicted, rest>>
    /\ UNCHANGED <<cast, opts, cordoned, pc, again, seen, failing, pods,
                   expired, mishaps>>

EndEvictions ==
    /\ pc = "evict" /\ rest = {}
    /\ pc' = "tick"
    /\ UNCHANGED <<world, cordoned, again, seen, failing, pods, rest, cur,
                   expired, evicted, mishaps>>

\* wait_for_eviction checks the timer, then looks at every pending pod.
Tick ==
    /\ pc = "tick"
    /\ ~expired
    /\ pc' = "look"
    /\ rest' = pods
    /\ UNCHANGED <<world, cordoned, again, seen, failing, pods, cur, expired,
                   evicted, mishaps>>

GoneByName(p) == ~NameTaken(p)

Gone(p) == ~NameTaken(p) \/ pod[p].uid # seen[p].uid

LookAt(p) ==
    /\ pc = "look" /\ p \in rest
    /\ rest' = rest \ {p}
    /\ pods' = IF Gone(p) THEN pods \ {p} ELSE pods
    /\ UNCHANGED <<world, cordoned, pc, again, seen, failing, cur, expired,
                   evicted, mishaps>>

EndLook ==
    /\ pc = "look" /\ rest = {}
    /\ pc' = IF pods = {} THEN "done" ELSE "tick"
    /\ UNCHANGED <<world, cordoned, again, seen, failing, pods, rest, cur,
                   expired, evicted, mishaps>>

-----------------------------------------------------------------------------
\* evict_pods raised an exception: the pods that remain are listed.
ReportRemaining ==
    /\ pc' = "list"
    /\ again' = TRUE
    /\ rest' = {} /\ cur' = {}
    /\ UNCHANGED <<cast, opts, cordoned, seen, failing, pods, expired>>

\* check_timer raises DrainTimeoutException.
Timeout ==
    /\ expired
    /\ (pc = "evict" /\ rest # {}) \/ pc = "tick"
    /\ ReportRemaining
    /\ UNCHANGED <<pod, evicted, mishaps>>

Expire ==
    /\ opts.timed /\ ~expired
    /\ pc \in {"evict", "tick", "look"}
    /\ expired' = TRUE
    /\ UNCHANGED <<world, cordoned, pc, again, seen, failing, pods, rest, cur,
                   evicted, mishaps>>


\* The node cannot be patched, pods cannot be listed, or a controller cannot
\* be looked up: CommandExecutionError ends the drain.
SelectionFails ==
    /\ Mishap
    /\ \/ pc \in {"cordon", "list"}
       \/ pc = "filter" /\ \E p \in rest : NeedsController(p)
    /\ pc' = "failed"
    /\ rest' = {}
    /\ UNCHANGED <<world, cordoned, again, seen, failing, pods, cur, expired,
                   evicted>>

\* An eviction whose answer is an error, done or not, or a look that fails.
EvictionFails ==
    /\ Mishap
    /\ \/ /\ pc = "evict" /\ ~expired
          /\ \E p \in rest : Current(p) /\ (Evict(p) \/ UNCHANGED <<pod, evicted>>)
       \/ /\ pc = "look" /\ rest # {}
          /\ UNCHANGED <<pod, evicted>>
    /\ ReportRemaining

-----------------------------------------------------------------------------
Init ==
    /\ cast \in Casts
    /\ pod = [p \in Pods |->
                [uid |-> IF cast[p].here THEN 1 ELSE 0,
                 at |-> IF cast[p].here THEN "node" ELSE "nowhere",
                 finished |-> FALSE, deleting |-> FALSE,
                 managed |-> cast[p].managed]]
    /\ cordoned = FALSE
    /\ opts \in Calls
    /\ pc = "cordon"
    /\ again = FALSE
    /\ seen = <<>>
    /\ failing = FALSE
    /\ pods = {} /\ rest = {} /\ cur = {}
    /\ expired = FALSE
    /\ evicted = {}
    /\ mishaps = MaxMishaps

DrainStep ==
    \/ Cordon \/ ListPods \/ EndFilter
    \/ EndEvictions \/ Tick \/ EndLook \/ Timeout
    \/ \E p \in Pods : FilterPod(p) \/ EvictPod(p) \/ LookAt(p)

Next ==
    \/ DrainStep
    \/ Expire \/ SelectionFails \/ EvictionFails
    \/ \E p \in Pods :
          \/ Replace(p) \/ UserCreates(p)
          \/ DeletePod(p) \/ Finish(p) \/ Terminate(p) \/ DeleteController(p)

Spec == Init /\ [][Next]_vars

\* The drain goes on, time passes, controllers and kubelets do their work.
Fairness ==
    /\ WF_vars(DrainStep)
    /\ WF_vars(Expire)
    /\ \A p \in Pods : WF_vars(Replace(p)) /\ WF_vars(Terminate(p))

FairSpec == Spec /\ Fairness

-----------------------------------------------------------------------------
(***************************************************************************)
(* Properties.                                                             *)
(***************************************************************************)
\* A drain that completes leaves nothing on the node but the pods that do not
\* leave it: what came before the node was cordoned has been listed, what was
\* listed is gone, and what replaces it is elsewhere.
NodeEmptied ==
    pc = "done" => \A p \in OnNode : Kind(p) \in {"DaemonSet", "Mirror"}

\* What the options allow for a pod of the list: it may be evicted or ignored.
Allowed(p) ==
    /\ cast[p].local => opts.deleteLocalData
    /\ Kind(p) = "DaemonSet" => opts.ignoreDaemonset \/ opts.force
    /\ Kind(p) \in Owned /\ ~seen[p].managed /\ ~seen[p].finished
           => opts.force

\* run_drain evicts something only if every pod of the node may be evicted or
\* ignored with the options given: one pod with data to keep, or whose
\* controller is missing, protects all the others.
AllOrNothing == evicted # {} /\ ~again => \A p \in DOMAIN seen : Allowed(p)

\* A drain ends, one way or the other, if it has a timeout.  Without one it
\* ends if the controllers that stay can keep the budget elsewhere: pods
\* replaced meanwhile, under another name or the same, do not hold it up.
DrainEnds ==
    opts.timed \/ <>[](Cardinality({p \in Pods : Kind(p) \in Guarded
                                        /\ pod[p].managed}) > MinAvailable)
        => <>(pc \in Ended)

\* The docstring of run_drain: a timeout or an eviction that fails raises
\* CommandExecutionError, with the pods that remain; no other exception
\* leaves it.
FailureIsReported == pc # "escaped"
=============================================================================
