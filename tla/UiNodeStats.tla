----------------------------- MODULE UiNodeStats ------------------------------
(***************************************************************************)
(* The graphs of the node page: watchRefreshNodeStats and fetchNodeStats   *)
(* of src/ui/src/ducks/app/monitoring.js, and the effects of NodePageRSP   *)
(* and NodePageMetricsTab that drive them.                                 *)
(*                                                                         *)
(* One watcher runs one loop: it forks a fetch, then waits for a stop, the *)
(* end of the period or new arguments, whichever comes first.  A fetch     *)
(* works on the arguments the store held when it was forked and writes     *)
(* what it gets to the one place the page reads.  Only a stop cancels a    *)
(* fetch, and only the last one.                                           *)
(***************************************************************************)
EXTENDS Integers

CONSTANTS
    Nodes,
    NoNode,
    MaxTasks,     \* bound: fetches in flight
    MaxUpdates    \* bound: visits, and changes of the arguments

ASSUME UiNodeStatsAssumption ==
    NoNode \notin Nodes /\ MaxTasks \in Nat /\ MaxUpdates \in Nat

VARIABLES
    page,         \* the node of the page that is mounted, or NoNode
    known,        \* IPsInfo: the nodes whose interfaces the store has
    showAvg,      \* the "average" toggle of the URL and the store
    args,         \* nodeStats: instanceIP, interfaces, showAvg
    looping,      \* the watcher is in its inner loop
    tasks,        \* the forked fetches, by slot
    last,         \* the slot of fetchNodeStatsTask, 0 when it wrote nothing
    metrics,      \* nodeStats.metrics and metricsAvg: whose they are
    overtaking,   \* the last fork left fetches for other arguments in flight
    updates

vars == <<page, known, showAvg, args, looping, tasks, last, metrics,
          overtaking, updates>>

Slots == 1..MaxTasks
\* ready: instanceIP and both interfaces are set.
Args == [node : Nodes \cup {NoNode}, ready : BOOLEAN, avg : BOOLEAN]
Idle == [phase |-> "none", node |-> NoNode, avg |-> FALSE]
Task == [phase : {"none", "plain", "avg"}, node : Nodes \cup {NoNode},
         avg : BOOLEAN]
Shown == [node : Nodes \cup {NoNode}, avg : BOOLEAN]

Init ==
    /\ page = NoNode
    /\ known = {}
    /\ showAvg = FALSE
    /\ args = [node |-> NoNode, ready |-> FALSE, avg |-> FALSE]
    /\ looping = FALSE
    /\ tasks = [s \in Slots |-> Idle]
    /\ last = 0
    /\ metrics = [node |-> NoNode, avg |-> FALSE]
    /\ overtaking = FALSE
    /\ updates = 0

FreeSlots(ts) == {s \in Slots : ts[s] = Idle}
AnySlot(ts) == CHOOSE s \in FreeSlots(ts) : TRUE

-----------------------------------------------------------------------------
(* Fetches.                                                                *)

Same(t, a) == t.node = a.node /\ t.avg = a.avg

\* The fork of fetchNodeStats: the arguments are read now; a fetch whose
\* arguments are not all there ends at once.
ForkFetch(a, ts) ==
    IF ~a.ready THEN tasks' = ts /\ last' = 0 /\ UNCHANGED overtaking
    ELSE LET s == AnySlot(ts)
         IN /\ tasks' = [ts EXCEPT ![s] =
                 [phase |-> "plain", node |-> a.node, avg |-> a.avg]]
            /\ last' = s
            /\ overtaking' = \E r \in Slots : ts[r] # Idle /\ ~Same(ts[r], a)

\* The nine queries of the node are answered; with showAvg nine more follow.
PlainAnswered(s) ==
    /\ tasks[s].phase = "plain" /\ tasks[s].avg
    /\ tasks' = [tasks EXCEPT ![s].phase = "avg"]
    /\ UNCHANGED <<page, known, showAvg, args, looping, last, metrics,
                   overtaking, updates>>

\* The last batch is answered: metrics and metricsAvg are replaced together.
Written(s) ==
    /\ tasks[s].phase = IF tasks[s].avg THEN "avg" ELSE "plain"
    /\ metrics' = [node |-> tasks[s].node, avg |-> tasks[s].avg]
    /\ tasks' = [tasks EXCEPT ![s] = Idle]
    /\ last' = IF last = s THEN 0 ELSE last
    /\ UNCHANGED <<page, known, showAvg, args, looping, overtaking, updates>>

\* The period is over.
Requeue ==
    /\ looping
    /\ FreeSlots(tasks) # {}
    /\ ForkFetch(args, tasks)
    /\ UNCHANGED <<page, known, showAvg, args, looping, metrics, updates>>

-----------------------------------------------------------------------------
(* The page.                                                               *)

ArgsOf(n) == [node |-> n, ready |-> n \in known', avg |-> showAvg']

UpdateArgsForNextPeriod(n, running) ==
    /\ args' = ArgsOf(n)
    /\ UNCHANGED <<tasks, last, overtaking>>

\* UPDATE_NODESTATS_FETCH_ARG: the reducer, then the watcher if it waits.
UpdateArgs(n, running) ==
    /\ args' = ArgsOf(n)
    /\ IF running THEN ForkFetch(args', tasks)
       ELSE UNCHANGED <<tasks, last, overtaking>>

Counts == updates < MaxUpdates /\ updates' = updates + 1

\* The page is mounted.  Its first effect dispatches REFRESH_NODESTATS, which
\* forks a fetch with the arguments of the page visited before; its second
\* effect dispatches the new arguments, which forks another.
OpenNode(n) ==
    /\ page = NoNode /\ Counts
    /\ \E r, s \in FreeSlots(tasks) : r # s
    /\ page' = n
    /\ looping' = TRUE
    /\ UNCHANGED <<known, showAvg, metrics>>
    /\ args' = ArgsOf(n)
    /\ LET forked == IF args.ready
                     THEN [tasks EXCEPT ![AnySlot(tasks)] =
                            [phase |-> "plain", node |-> args.node,
                             avg |-> args.avg]]
                     ELSE tasks
       IN ForkFetch(args', forked)

SwitchNodeStops(n) ==
    /\ page \notin {NoNode, n} /\ Counts
    /\ page' = n
    /\ looping' = FALSE
    /\ UNCHANGED <<known, showAvg, metrics>>
    /\ UpdateArgs(n, FALSE)

\* The name in the URL changes, the page stays mounted.
SwitchNode(n) ==
    /\ page \notin {NoNode, n} /\ Counts
    /\ FreeSlots(tasks) # {}
    /\ page' = n
    /\ UNCHANGED <<known, showAvg, looping, metrics>>
    /\ UpdateArgs(n, looping)

\* nodesCPWPIPsInterface: a minion that did not return is a string, and its node
\* gets empty interfaces.
NodesCPWPIPsInterface(answer) == answer = "grains"

\* The nodes loop brings the IPs and the interfaces of all nodes, in place of
\* those the store had.
InfoArrives(answers) ==
    /\ FreeSlots(tasks) # {}
    /\ known' = {n \in Nodes : NodesCPWPIPsInterface(answers[n])}
    /\ known' # known
    /\ UNCHANGED <<page, showAvg, looping, metrics, updates>>
    /\ IF page # NoNode /\ (page \in known) # (page \in known')
       THEN UpdateArgs(page, looping)
       ELSE UNCHANGED <<args, tasks, last, overtaking>>

\* The toggle changes the URL, and with it the arguments of the effect.
ToggleAvg ==
    /\ page # NoNode /\ Counts
    /\ FreeSlots(tasks) # {}
    /\ showAvg' = ~showAvg
    /\ UNCHANGED <<page, known, looping, metrics>>
    /\ UpdateArgs(page, looping)

\* The page is unmounted: STOP_REFRESH_NODESTATS cancels the last fetch.
LeaveNode ==
    /\ page # NoNode
    /\ page' = NoNode
    /\ looping' = FALSE
    /\ tasks' = IF last = 0 THEN tasks ELSE [tasks EXCEPT ![last] = Idle]
    /\ last' = 0
    /\ UNCHANGED <<known, showAvg, args, metrics, overtaking, updates>>

Next ==
    \/ \E n \in Nodes : OpenNode(n) \/ SwitchNode(n)
    \/ \E answers \in [Nodes -> {"grains", "no response"}] : InfoArrives(answers)
    \/ ToggleAvg
    \/ LeaveNode
    \/ Requeue
    \/ \E s \in Slots : PlainAnswered(s) \/ Written(s)

\* Queries are answered (or fail, which is an answer), the period ends.
Fairness ==
    /\ WF_vars(Requeue)
    /\ \A s \in Slots : WF_vars(PlainAnswered(s)) /\ WF_vars(Written(s))

Spec == Init /\ [][Next]_vars /\ Fairness

-----------------------------------------------------------------------------
(* Properties.                                                             *)

\* The type of the state.
TypeOK ==
    /\ page \in Nodes \cup {NoNode}
    /\ known \subseteq Nodes
    /\ {showAvg, looping, overtaking} \subseteq BOOLEAN
    /\ args \in Args
    /\ tasks \in [Slots -> Task]
    /\ last \in 0..MaxTasks
    /\ metrics \in Shown
    /\ updates \in 0..MaxUpdates

\* While the page is mounted the arguments are those of its node.  If they are
\* complete, the graphs match them or a fetch that will make them match is on
\* its way, except when the last fork overtook a fetch for other arguments,
\* which may still write last: new arguments never wait for the next period.
CurrentOrComing ==
    (page # NoNode /\ args.ready) =>
        /\ args.node = page
        /\ \/ overtaking
           \/ Same(metrics, args)
           \/ \E s \in Slots : tasks[s] # Idle /\ Same(tasks[s], args)

\* A page that stays on a node shows that node in the end, and from then on:
\* a late answer about another node is overwritten.
ShowsItsNode ==
    \A n \in Nodes :
        <>[](page = n /\ args.ready) => <>[](metrics.node = n)
=============================================================================
