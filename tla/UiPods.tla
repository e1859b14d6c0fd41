------------------------------- MODULE UiPods --------------------------------
(***************************************************************************)
(* The pods the UI shows: the saga fetchPods (src/ui/src/ducks/app/pods.js)*)
(* whose list the node page and the volume page share, and the rows of the *)
(* pods tab of a node.  Nothing refreshes the list: each page asks for it  *)
(* when it is opened, and the node page when its arguments change.         *)
(*                                                                         *)
(* What the API server holds is the list of its past and present pods; an  *)
(* answer is the list of some moment between the request and the answer.   *)
(***************************************************************************)
EXTENDS Integers, Sequences, FiniteSets, SequencesExt

CONSTANTS
    Nodes,
    PodStates,    \* what a pod may be: node, phase and its containers, if told
    MaxChanges,   \* bound: changes of the pods
    MaxVisits     \* bound: requests for pods

PodsAssumption ==
    /\ {MaxChanges, MaxVisits} \subseteq Nat
    /\ \A p \in PodStates :
         p.node \in Nodes /\ p.running \in 0..p.containers /\ p.told \in BOOLEAN

VARIABLES
    pods,         \* the pod in the cluster, from the first moment to the present
    list,         \* state.app.pods.list: an index of pods, 0 before an answer
    asking,       \* the moments at which the fetchPods that run began
    at,           \* the selected node, or "volumes", the volume page
    visits,
    since,        \* history: the moment of the last FETCH_PODS
    failed        \* history: that request failed

vars == <<pods, list, asking, at, visits, since, failed>>

Init ==
    /\ \E p \in PodStates : pods = <<p>>
    /\ list = 0
    /\ asking = {}
    /\ at = "volumes"
    /\ visits = 0
    /\ since = 0
    /\ failed = FALSE

\* podsSaga: the saga that runs, if any, is cancelled.
TakeLatest(start) == {start}

FetchPods ==
    /\ visits < MaxVisits
    /\ visits' = visits + 1
    /\ asking' = TakeLatest(Len(pods))
    /\ since' = Len(pods)
    /\ failed' = FALSE
    /\ UNCHANGED <<pods, list>>

PodsAnswered(start) ==
    /\ start \in asking
    /\ list' \in start..Len(pods)
    /\ asking' = asking \ {start}
    /\ UNCHANGED <<pods, at, visits, since, failed>>

\* The list stays, and nobody is told.
PodsFailed(start) ==
    /\ start \in asking
    /\ asking' = asking \ {start}
    /\ failed' = TRUE
    /\ UNCHANGED <<pods, list, at, visits, since>>

PodChanges(p) ==
    /\ Len(pods) <= MaxChanges /\ p # Last(pods)
    /\ pods' = Append(pods, p)
    /\ UNCHANGED <<list, asking, at, visits, since, failed>>

\* NodePageRSP, of another node, and VolumePage, when it is mounted.
Visit(page) ==
    /\ at # page
    /\ at' = page
    /\ FetchPods

\* The span, the average or the interfaces of the node page: its effect again.
ChangeArguments ==
    /\ at # "volumes"
    /\ FetchPods
    /\ UNCHANGED at

Next ==
    \/ \E start \in asking : PodsAnswered(start) \/ PodsFailed(start)
    \/ ChangeArguments
    \/ \E p \in PodStates : PodChanges(p)
    \/ \E page \in Nodes \cup {"volumes"} : Visit(page)

Spec == Init /\ [][Next]_vars

-----------------------------------------------------------------------------
(* The pods tab.                                                           *)

\* getPodsListData: the pods of the node, with the containers they tell of.
PodsListData(name) ==
    {[phase |-> p.phase,
      numContainer |-> IF p.told THEN p.containers ELSE 0,
      numContainerRunning |-> IF p.told THEN p.running ELSE 0] :
        p \in {q \in {pods[i] : i \in {list} \ {0}} : q.node = name}}

\* StatusText: a pod that has succeeded gets no colour of its own.
StatusText(row) ==
    CASE row.phase = "Running" /\ row.numContainer = row.numContainerRunning -> "green"
      [] row.phase = "Pending" -> "orange"
      [] row.phase = "Running" /\ row.numContainer # row.numContainerRunning -> "orange"
      [] row.phase \in {"Failed", "Unknown"} -> "red"
      [] OTHER -> "none"

-----------------------------------------------------------------------------
(* Properties.                                                             *)

\* The pods a page shows are at least as recent as its last request, once that
\* is answered: an answer to an earlier page, or to the earlier arguments of
\* this one, never takes its place (takeLatest of FETCH_PODS).
PodsOfVisit == (asking = {} /\ ~failed) => list >= since

\* A pod is green on a tab only if it ran on that node, with all of the
\* containers it told of, at some moment since the page asked for it or, when
\* that request is not answered or failed, at some moment before.
GreenWasRunning ==
    at # "volumes" => \A row \in PodsListData(at) :
        StatusText(row) = "green" =>
            \E i \in 1..Len(pods) :
                /\ (asking = {} /\ ~failed) => i >= since
                /\ pods[i].node = at /\ pods[i].phase = "Running"
                /\ pods[i].told => pods[i].running = pods[i].containers
=============================================================================
