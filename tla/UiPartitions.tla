----------------------------- MODULE UiPartitions ------------------------------
(***************************************************************************)
(* The system partitions of a node: NodePartitionTable asks Prometheus for *)
(* usages and for sizes through react-query, one query for each node, and  *)
(* joins the answers with the alerts.  A query outlives the tab: it goes on*)
(* and is shared by the next visit, until it is collected.                 *)
(***************************************************************************)
EXTENDS Integers, FiniteSets

CONSTANTS
    Nodes,        \* nodes, told apart by their address
    Mounts,       \* mount points, which nodes may have in common
    AlertLabels,  \* the labels alerts about partitions and others may have
    MaxChanges    \* bound: changes of the partitions

PartitionsAssumption == MaxChanges \in Nat

VARIABLES
    name,         \* the node whose tab is open, or "none"
    mounted,      \* the partitions of each node
    query,        \* react-query's nodeDevices, by node
    changes

vars == <<name, mounted, query, changes>>

FileSystemAlerts ==
    {"NodeFilesystemSpaceFillingUp", "NodeFilesystemAlmostOutOfSpace",
     "NodeFilesystemFilesFillingUp", "NodeFilesystemAlmostOutOfFiles"}

NotYet == {"not yet"}
\* answered: it has data.  parts: the answers that have come; steady: the
\* partitions have not changed since the request (history).
NoQuery == [status |-> "idle", answered |-> FALSE, usages |-> {}, sizes |-> {},
            fetching |-> FALSE, partUsages |-> NotYet, partSizes |-> NotYet,
            steady |-> TRUE, wasSteady |-> TRUE]

Init ==
    /\ name = "none"
    /\ mounted = [n \in Nodes |-> Mounts]
    /\ query = [n \in Nodes |-> NoQuery]
    /\ changes = 0

-----------------------------------------------------------------------------
(* The query.                                                              *)

\* A mounted useQuery asks again, unless its request is already on its way: a
\* query that has no data, of an error too, is loading again.
Started(q) ==
    IF q.fetching THEN q
    ELSE [q EXCEPT !.fetching = TRUE, !.partUsages = NotYet, !.partSizes = NotYet,
                   !.steady = TRUE,
                   !.status = IF q.answered THEN @ ELSE "loading"]

StartFetch(n) == query' = [query EXCEPT ![n] = Started(@)]

\* Promise.all: the table gets both answers at once.
Joined(q) ==
    IF NotYet \in {q.partUsages, q.partSizes} THEN q
    ELSE [q EXCEPT !.status = "success", !.answered = TRUE,
                   !.usages = q.partUsages, !.sizes = q.partSizes,
                   !.fetching = FALSE, !.wasSteady = q.steady,
                   !.partUsages = NotYet, !.partSizes = NotYet]

UsageAnswered(n) ==
    /\ query[n].fetching /\ query[n].partUsages = NotYet
    /\ query' = [query EXCEPT ![n] =
                   Joined([query[n] EXCEPT !.partUsages = mounted[n]])]
    /\ UNCHANGED <<name, mounted, changes>>

SizeAnswered(n) ==
    /\ query[n].fetching /\ query[n].partSizes = NotYet
    /\ query' = [query EXCEPT ![n] =
                   Joined([query[n] EXCEPT !.partSizes = mounted[n]])]
    /\ UNCHANGED <<name, mounted, changes>>

\* One of the two failed, and with it both: react-query asks again...
QueryRetried(n) ==
    /\ query[n].fetching
    /\ query' = [query EXCEPT ![n].partUsages = NotYet,
                              ![n].partSizes = NotYet]
    /\ UNCHANGED <<name, mounted, changes>>

\* ... or gives up; what it had stays.
QueryFailed(n) ==
    /\ query[n].fetching
    /\ query' = [query EXCEPT ![n].fetching = FALSE, ![n].status = "error",
                              ![n].partUsages = NotYet,
                              ![n].partSizes = NotYet]
    /\ UNCHANGED <<name, mounted, changes>>

\* The cache of a node that is not shown is dropped.
QueryCollected(n) ==
    /\ name # n /\ ~query[n].fetching
    /\ query' = [query EXCEPT ![n] = NoQuery]
    /\ UNCHANGED <<name, mounted, changes>>

PartitionsChange(n, mounts) ==
    /\ changes < MaxChanges /\ mounts # mounted[n]
    /\ changes' = changes + 1
    /\ mounted' = [mounted EXCEPT ![n] = mounts]
    /\ query' = [query EXCEPT ![n].steady = FALSE]
    /\ UNCHANGED name

\* The tab is opened, or its node changes with the tab open, or the window
\* gets the focus.
Open(n) ==
    /\ name' = n
    /\ StartFetch(n)
    /\ UNCHANGED <<mounted, changes>>

Close ==
    /\ name # "none"
    /\ name' = "none"
    /\ UNCHANGED <<mounted, query, changes>>

Next ==
    \/ \E n \in Nodes :
         \/ UsageAnswered(n) \/ SizeAnswered(n)
         \/ QueryRetried(n) \/ QueryFailed(n) \/ QueryCollected(n)
         \/ \E ms \in SUBSET Mounts : PartitionsChange(n, ms)
         \/ Open(n)
    \/ Close

Spec == Init /\ [][Next]_vars

-----------------------------------------------------------------------------
(* The table, for the alerts the library has, none while it has no answer. *)

\* isAlertSelected, with a set for the values a filter takes.
IsAlertSelected(labels, filters) ==
    \A key \in DOMAIN filters :
        key \in DOMAIN labels /\ labels[key] \in filters[key]

FilterAlerts(labels, filters) == {l \in labels : IsAlertSelected(l, filters)}

\* getHealthStatus, of alerts that are active now.
GetHealthStatus(labels) ==
    LET severities == {l.severity : l \in labels} IN
    IF severities = {} THEN "healthy"
    ELSE IF "critical" \in severities THEN "critical"
    ELSE IF "warning" \in severities THEN "warning" ELSE "none"

\* useAlerts of NodePartitionTable.
AlertNF(n, alerts) ==
    FilterAlerts(alerts, [alertname |-> FileSystemAlerts, instance |-> {n}])

\* getNodePartitionsTableData.
NodePartitionsTableData(n, alerts) ==
    {[partitionPath |-> m,
      health |-> GetHealthStatus(FilterAlerts(AlertNF(n, alerts), [mountpoint |-> {m}])),
      sized |-> m \in query[n].sizes] : m \in query[n].usages}

\* The body of NodePartitionTable: rows, or one line instead of them.
Partitions(n, alerts) ==
    IF query[n].status = "success" THEN NodePartitionsTableData(n, alerts) ELSE {}

Message(n) ==
    CASE query[n].status = "success" /\ query[n].usages = {} ->
           "no_system_partition"
      [] query[n].status \in {"loading", "error"} -> query[n].status
      [] OTHER -> "none"

-----------------------------------------------------------------------------
(* Properties.                                                             *)

\* A partition is without its size only when the partitions have changed
\* between the two requests, however often they were retried, shared by two
\* visits of the tab or continued after it was left.
SizeMissingOnlyAfterChange ==
    \A n \in Nodes : query[n].wasSteady =>
        \A row \in Partitions(n, {}) : row.sized

\* A partition is critical exactly when one of the four alerts about file
\* systems says so of this partition of this node, whatever is said of the
\* same mount point of another node or by other alerts.
HealthOfPartition ==
    \A n \in Nodes : query[n].status = "success" =>
        \A alerts \in SUBSET AlertLabels : \A row \in Partitions(n, alerts) :
            row.health = "critical" <=>
                \E l \in alerts :
                    /\ {"alertname", "instance"} \subseteq DOMAIN l
                    /\ l.alertname \in FileSystemAlerts
                    /\ l.severity = "critical" /\ l.instance = n
                    /\ "mountpoint" \in DOMAIN l
                    /\ l.mountpoint = row.partitionPath

\* The open tab never stays blank: it has rows or says why it has none,
\* whatever was cached, failed or collected before it was opened.
TableTells ==
    name # "none" =>
        (Partitions(name, {}) = {} <=> Message(name) # "none")
=============================================================================
