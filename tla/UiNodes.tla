-------------------------------- MODULE UiNodes --------------------------------
(***************************************************************************)
(* A node in the UI, from "Deploy" to the end of the deployment: fetchNodes*)
(* and deployNode of src/ui/src/ducks/app/nodes.js, the row getNodeListData*)
(* makes of it and the panel of NodePageOverviewTab.                       *)
(*                                                                         *)
(* fetchNodes decides whether the node is deploying from the jobs the store*)
(* has before it asks Kubernetes, and writes that with the answer.  Several*)
(* fetches can be in flight (the refresh loop, the end of a deployment     *)
(* request, each dispatch of FETCH_NODES), and the last to be answered     *)
(* wins.  The "Deploy" button follows what was written.                    *)
(***************************************************************************)
EXTENDS Integers, Sequences, FiniteSets, SequencesExt

CONSTANTS
    MaxJobs,      \* bound: deployments asked for
    MaxFetches,   \* bound: fetches in flight
    MaxChanges,   \* bound: changes of the node in Kubernetes
    MaxReloads    \* bound: reloads of the page

NodesAssumption ==
    {MaxJobs, MaxFetches, MaxChanges, MaxReloads} \subseteq Nat

VARIABLES
    node,         \* the Ready condition in Kubernetes and whether others are true
    jobs,         \* state.app.salt.jobs, those of this node
    asked,        \* deployments asked for, numbered from 1
    pending,      \* the deployNode saga that waits for its answer, or 0
    fetches,      \* the fetchNodes in flight, by slot
    entry,        \* the node in state.app.nodes.list, none before an answer
    changes, reloads

vars == <<node, jobs, asked, pending, fetches, entry, changes, reloads>>

Slots == 1..MaxFetches
Ids == 1..MaxJobs
NodeStates == [ready : {"True", "False", "Unknown", "absent"}, others : BOOLEAN]
Job == [id : Ids, completed : BOOLEAN, status : {"none", "success", "failed"},
        started : BOOLEAN]
Idle == [phase |-> "idle", deploying |-> FALSE, seen |-> {}]
NoEntry == [status |-> "none", others |-> FALSE, conditions |-> FALSE,
            deploying |-> FALSE, seen |-> {}]

Init ==
    /\ node = [ready |-> "absent", others |-> FALSE]
    /\ jobs = <<>>
    /\ asked = 0
    /\ pending = 0
    /\ fetches = [s \in Slots |-> Idle]
    /\ entry = NoEntry
    /\ changes = 0
    /\ reloads = 0

-----------------------------------------------------------------------------
(* Fetching the node.                                                      *)

DeployingIfAllRun(js) == js # <<>> /\ \A i \in DOMAIN js : ~js[i].completed

\* deployingNodes, of the jobs js.
Deploying(js) == \E i \in DOMAIN js : ~js[i].completed
IdsOf(js) == {js[i].id : i \in DOMAIN js}

\* The first half of fetchNodes, up to the request.
StartFetch(s, js) ==
    /\ fetches[s] = Idle
    /\ fetches' = [fetches EXCEPT ![s] =
         [phase |-> "asked", deploying |-> Deploying(js), seen |-> IdsOf(js)]]

FetchNodes(s) ==
    /\ StartFetch(s, jobs)
    /\ UNCHANGED <<node, jobs, asked, pending, entry, changes, reloads>>

StatusOf(ready) ==
    CASE ready = "True" -> "ready"
      [] ready = "False" -> "not_ready"
      [] OTHER -> "unknown"

\* The answer: the node is as it is now, `deploying` as it was read.
NodesAnswered(s) ==
    /\ fetches[s] # Idle
    /\ entry' = [status |-> StatusOf(node.ready), others |-> node.others,
                 conditions |-> node.ready # "absent",
                 deploying |-> fetches[s].deploying, seen |-> fetches[s].seen]
    /\ fetches' = [fetches EXCEPT ![s] = Idle]
    /\ UNCHANGED <<node, jobs, asked, pending, changes, reloads>>

NodesFailed(s) ==
    /\ fetches[s] # Idle
    /\ fetches' = [fetches EXCEPT ![s] = Idle]
    /\ UNCHANGED <<node, jobs, asked, pending, entry, changes, reloads>>

\* The kubelet reports, or stops reporting; without conditions no other is true.
NodeChanges(n) ==
    /\ changes < MaxChanges /\ n # node
    /\ n.ready = "absent" => ~n.others
    /\ changes' = changes + 1
    /\ node' = n
    /\ UNCHANGED <<jobs, asked, pending, fetches, entry, reloads>>

-----------------------------------------------------------------------------
(* Deployments.                                                            *)

DeployOffered == entry.status = "unknown" /\ ~entry.deploying

\* The button: takeLatest cancels a deployNode that waits for its answer.
ClickDeploy ==
    /\ DeployOffered /\ asked < MaxJobs
    /\ asked' = asked + 1
    /\ pending' = asked'
    /\ UNCHANGED <<node, jobs, fetches, entry, changes, reloads>>

\* addJobAction, then fetchNodes.
DeployAnswered(s) ==
    /\ pending # 0
    /\ jobs' = Append(jobs, [id |-> pending, completed |-> FALSE,
                             status |-> "none", started |-> FALSE])
    /\ StartFetch(s, jobs')
    /\ pending' = 0
    /\ UNCHANGED <<node, asked, entry, changes, reloads>>

DeployFailed ==
    /\ pending # 0
    /\ pending' = 0
    /\ UNCHANGED <<node, jobs, asked, fetches, entry, changes, reloads>>

\* An event of the orchestration other than its return is kept with the job;
\* the panel looks for the one that says it is new.
JobStarts(i) ==
    /\ ~jobs[i].started /\ ~jobs[i].completed
    /\ jobs' = [jobs EXCEPT ![i].started = TRUE]
    /\ UNCHANGED <<node, asked, pending, fetches, entry, changes, reloads>>

\* getJobStatusFromEventRet and JOB_COMPLETED.
JobCompleted(i, outcome) ==
    /\ ~jobs[i].completed
    /\ jobs' = [jobs EXCEPT ![i].completed = TRUE, ![i].status = outcome]
    /\ UNCHANGED <<node, asked, pending, fetches, entry, changes, reloads>>

\* A saved job that was completed is polled: SET_JOB_STATUS.
StatusPolled(i, outcome) ==
    /\ jobs[i].completed /\ jobs[i].status = "none"
    /\ jobs' = [jobs EXCEPT ![i].status = outcome]
    /\ UNCHANGED <<node, asked, pending, fetches, entry, changes, reloads>>

\* The garbage collector, five minutes after the end.
JobForgotten(i) ==
    /\ jobs[i].completed
    /\ jobs' = RemoveAt(jobs, i)
    /\ UNCHANGED <<node, asked, pending, fetches, entry, changes, reloads>>

\* The saved jobs come back without status and events.
Reload ==
    /\ reloads < MaxReloads
    /\ reloads' = reloads + 1
    /\ jobs' = [i \in DOMAIN jobs |->
                  [jobs[i] EXCEPT !.status = "none", !.started = FALSE]]
    /\ pending' = 0
    /\ fetches' = [s \in Slots |-> Idle]
    /\ entry' = NoEntry
    /\ UNCHANGED <<node, asked, changes>>

Next ==
    \/ \E s \in Slots : FetchNodes(s) \/ NodesAnswered(s) \/ NodesFailed(s)
                          \/ DeployAnswered(s)
    \/ \E n \in NodeStates : NodeChanges(n)
    \/ ClickDeploy
    \/ DeployFailed
    \/ \E i \in DOMAIN jobs :
         \/ JobStarts(i) \/ JobForgotten(i)
         \/ \E o \in {"success", "failed"} : JobCompleted(i, o) \/ StatusPolled(i, o)
    \/ Reload

Spec == Init /\ [][Next]_vars

-----------------------------------------------------------------------------
(* What the user sees.                                                     *)

\* getNodeListData: the colour of the status, its words and the health, where
\* the health "alerts" is that of the node's alerts.
Row(color, words, health) == [color |-> color, words |-> words, health |-> health]

NodeListData ==
    CASE entry.status = "ready" /\ ~entry.others -> Row("green", "ready", "alerts")
      [] entry.status = "ready" /\ entry.others ->
           Row("yellow", "conditions", "alerts")
      [] entry.status = "unknown" /\ entry.deploying ->
           Row("grey", "deploying", "none")
      [] OTHER -> Row("red", "not_ready", "none")

\* activeJob: the first job that runs, else the first of the list sorted by a
\* comparison that compares the present date with itself and always says
\* "greater": engines leave such a list as it is or reverse it.
ActiveJobs ==
    LET running == {i \in DOMAIN jobs : ~jobs[i].completed}
    IN IF running # {}
       THEN {jobs[i] : i \in {k \in running : \A l \in running : k <= l}}
       ELSE {jobs[i] : i \in {1, Len(jobs)} \cap DOMAIN jobs}

\* The steps of the panel for a job, and how many of them are done.
Steps(job) ==
    <<"registered">>
      \o (IF job.started THEN <<"started">> ELSE <<>>)
      \o (IF job.completed THEN <<"completed">> ELSE <<"deploying">>)

ActiveStep(job) ==
    IF job.status = "success" THEN Len(Steps(job)) ELSE Len(Steps(job)) - 1

Panel(job) == IF job.completed /\ job.status = "none" THEN "refreshing" ELSE "steps"

-----------------------------------------------------------------------------
(* Properties.                                                             *)

\* The type of the state.
TypeOK ==
    /\ node \in NodeStates
    /\ \A i \in DOMAIN jobs : jobs[i] \in Job
    /\ asked \in 0..MaxJobs /\ pending \in 0..asked
    /\ \A s \in Slots : fetches[s].phase \in {"idle", "asked"}
    /\ entry.status \in {"none", "ready", "not_ready", "unknown"}
    /\ changes \in 0..MaxChanges /\ reloads \in 0..MaxReloads

\* The button is offered only when every deployment the fetch behind it could
\* know of has ended, whatever the order the fetches are answered in; the one
\* it was offered too early for is a deployment the fetch did not know.
OfferedWhenEnded ==
    DeployOffered =>
        \A i \in DOMAIN jobs : jobs[i].id \in entry.seen => jobs[i].completed

\* "The rules of the color of the node status" (NodeUtils.js:87-90) for a node
\* that Kubernetes has conditions of, and a health only where there is one.
ColoursFollowRules ==
    /\ entry.status = "ready" =>
         NodeListData.color = IF entry.others THEN "yellow" ELSE "green"
    /\ entry.status = "not_ready" => NodeListData.color = "red"
    /\ NodeListData.health = "alerts" <=> entry.status = "ready"

\* The panel says a deployment is done exactly when it succeeded: a job that
\* runs or failed leaves its last step open, and a job whose end is known but
\* not its outcome shows no steps.
PanelTellsOutcome ==
    \A job \in ActiveJobs :
        Panel(job) = "steps" =>
            /\ ActiveStep(job) = Len(Steps(job)) <=> job.status = "success"
            /\ Last(Steps(job)) = "completed" <=> job.status # "none"
=============================================================================
