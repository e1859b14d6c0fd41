------------------------------ MODULE UiAlerts ------------------------------
(***************************************************************************)
(* Alerts, from Alertmanager to what the pages show: the alerts library of *)
(* the shell (getAlerts, removeWarningAlerts, useAlerts), the alert page,  *)
(* and the health, counters, links and lists of a node or of a volume.     *)
(*                                                                         *)
(* An alert is a name, the thing it is about (a node's instance or a claim)*)
(* and a severity; its other labels and its annotations follow from the    *)
(* first two: so does whether it has `children`, the alerts that it groups.*)
(* Alertmanager never lists the same alert twice, and lists alerts by      *)
(* fingerprint, that is, in an order that means nothing.  Pages have a set *)
(* of them: nothing here depends on how sortAlerts orders it.              *)
(***************************************************************************)
EXTENDS Integers, Sequences, FiniteSets, SequencesExt

CONSTANTS
    Names,      \* names of alerts
    Parents,    \* the names among them of the alerts that group others
    Things,     \* what alerts are about
    Volumes,    \* the things among them that are claims of volumes
    MaxFiring   \* bound: alerts that fire at a time

ThingsAssumption == Volumes \subseteq Things /\ Parents \subseteq Names

VARIABLES
    firing,  \* the alerts Alertmanager would list, a set
    query,   \* react-query's activeAlerts: its status and its data
    asOf,    \* history: the alerts of the last answer
    page,    \* "alerts", "highest", or a tab of a thing
    filter   \* the values of `severity` in the URL

vars == <<firing, query, asOf, page, filter>>

Severities == {"critical", "warning"}
Alerts == [name : Names, on : Things, severity : Severities]
Page(thing, tab) == [thing |-> thing, tab |-> tab]
AlertPage == Page("all", "alerts")

-----------------------------------------------------------------------------
(* The alerts library.                                                     *)

IsSameAlertWithDiffSeverity(a, b) == a.name = b.name /\ a.on = b.on

\* Where the same alert is met again: at one place at most, with the other
\* severity, since alerts are listed once.
Twins(alerts, i) ==
    {j \in (i + 1)..Len(alerts) :
        IsSameAlertWithDiffSeverity(alerts[i], alerts[j])}

\* What the two loops push for an alert that is met again.
RemoveIndex(alerts, i) ==
    IF alerts[i].severity = "warning" THEN i
    ELSE CHOOSE j \in Twins(alerts, i) : TRUE

\* `splice`: nothing is removed beyond the end.
Splice(list, index) ==
    IF index > Len(list) THEN list ELSE RemoveAt(list, index)

\* The indexes are those of the whole list: each removal shifts the next ones.
RemoveWarningAlerts(alerts) ==
    LET rest[i \in 0..Len(alerts)] ==
          IF i = 0 THEN alerts
          ELSE IF Twins(alerts, i) = {} THEN rest[i - 1]
          ELSE Splice(rest[i - 1], RemoveIndex(alerts, i))
    IN rest[Len(alerts)]

Of(alerts, severity) == {a \in alerts : a.severity = severity}

\* AlertPage: an alert that groups others is left out.
LeafAlerts(alerts) == {a \in alerts : a.name \notin Parents}

\* useAlerts, isAlertSelected: alerts are only there while the last request
\* succeeded, and pages take alerts that are not there for none.
UseAlerts(thing) ==
    IF query.status # "success" THEN {} ELSE {a \in query.data : a.on = thing}

\* getHealthStatus, of alerts that are active now.
GetHealthStatus(alerts) ==
    IF Of(alerts, "critical") # {} THEN "critical"
    ELSE IF Of(alerts, "warning") # {} THEN "warning" ELSE "healthy"

-----------------------------------------------------------------------------
(* Pages.                                                                  *)

\* The counters of the overview of a node or a volume.
Counter(thing, severity) == Cardinality(Of(UseAlerts(thing), severity))

\* NodePageAlertsTab takes every severity of the URL, VolumeAlertsTab the
\* first; without any both show all alerts.
NodeTabList(alerts, severities) ==
    {a \in alerts : severities = <<>> \/ Contains(severities, a.severity)}

VolumeTabList(alerts, severities) ==
    {a \in alerts : severities = <<>> \/ a.severity = severities[1]}

TabList(thing, severities) ==
    IF thing \in Volumes THEN VolumeTabList(UseAlerts(thing), severities)
    ELSE NodeTabList(UseAlerts(thing), severities)

\* AlertPageHeader, of the leaves alone.
HeaderColor == GetHealthStatus(LeafAlerts(query.data))

\* useHighestSeverityAlerts without a filter, of all alerts.
HighestSeverity == GetHealthStatus(query.data)

LinkedAdds(severity) ==
    IF Contains(filter, severity) THEN filter ELSE Append(filter, severity)

\* getLink: the counter's severity, unless the URL has it already.
Linked(severity) ==
    IF Contains(filter, severity) THEN filter ELSE <<severity>>

-----------------------------------------------------------------------------

Fires(a) ==
    /\ Cardinality(firing) < MaxFiring /\ a \notin firing
    /\ firing' = firing \cup {a}
    /\ UNCHANGED <<query, asOf, page, filter>>

Resolves(a) ==
    /\ a \in firing
    /\ firing' = firing \ {a}
    /\ UNCHANGED <<query, asOf, page, filter>>

\* getAlerts, every 10 seconds.
Answered ==
    /\ \E list \in SetToSeqs(firing) :
         query' = [status |-> "success", data |-> ToSet(RemoveWarningAlerts(list))]
    /\ asOf' = firing
    /\ UNCHANGED <<firing, page, filter>>

\* The retries failed too; the data stay.  AlertPage and
\* useHighestSeverityAlerts read alerts that are not there, and throw.
Fails ==
    /\ query' = [query EXCEPT !.status = "error"]
    /\ page' = IF page.tab \in {"alerts", "highest"} /\ page.thing = "all"
               THEN Page("all", "error") ELSE page
    /\ UNCHANGED <<firing, asOf, filter>>

\* Links of the sidebar, of a list and of the notification centre.
Open(p) ==
    /\ page # p /\ filter' = <<>>
    /\ page' = IF p.thing = "all" /\ query.status = "error"
               THEN Page("all", "error") ELSE p
    /\ UNCHANGED <<firing, query, asOf>>

\* The tabs of a thing keep the query of the URL.
SwitchTab(tab) ==
    /\ page.thing \in Things
    /\ page' = [page EXCEPT !.tab = tab]
    /\ UNCHANGED <<firing, query, asOf, filter>>

\* ActiveAlertsCounter, which a volume has while alerts are there.
FollowCounter(severity) ==
    /\ page.tab = "overview"
    /\ page.thing \in Volumes => query.status = "success"
    /\ page' = [page EXCEPT !.tab = "alerts"]
    /\ filter' = Linked(severity)
    /\ UNCHANGED <<firing, query, asOf>>

\* ActiveAlertsFilters: `query.set` replaces every severity by one.
ChooseFilter(severities) ==
    /\ page.thing \in Things /\ page.tab = "alerts"
    /\ filter' = severities
    /\ UNCHANGED <<firing, query, asOf, page>>

-----------------------------------------------------------------------------

\* initialData is an answer without alerts.
Init ==
    /\ firing = {}
    /\ query = [status |-> "success", data |-> {}]
    /\ asOf = {}
    /\ page = AlertPage
    /\ filter = <<>>

FilterItems == {<<>>, <<"healthy">>, <<"warning">>, <<"critical">>}

Next ==
    \/ \E a \in Alerts : Fires(a) \/ Resolves(a)
    \/ Answered \/ Fails
    \/ \E t \in Things : Open(Page(t, "overview"))
    \/ Open(AlertPage) \/ Open(Page("all", "highest"))
    \/ \E tab \in {"overview", "alerts"} : SwitchTab(tab)
    \/ \E s \in Severities : FollowCounter(s)
    \/ \E c \in FilterItems : ChooseFilter(c)

Spec == Init /\ [][Next]_vars

-----------------------------------------------------------------------------
(* Properties.                                                             *)

TypeOK ==
    /\ firing \subseteq Alerts /\ asOf \subseteq Alerts
    /\ query \in [status : {"success", "error"}, data : SUBSET Alerts]
    /\ page \in [thing : Things \cup {"all"},
                 tab : {"alerts", "highest", "overview", "error"}]
    /\ filter \in Seq({"healthy"} \cup Severities)

\* An alert that groups others was listed with both severities.
ParentDoubled ==
    \E a, b \in asOf : /\ a.name \in Parents /\ a.severity # b.severity
                       /\ IsSameAlertWithDiffSeverity(a, b)

\* While warnings are hidden behind critical alerts, the highest severity is
\* still critical exactly when a critical alert was listed, whichever alerts
\* the removal drops (removeWarningAlerts, useHighestSeverityAlerts).  So is
\* the header of the alert page when a critical leaf was listed, as long as
\* no alert that groups others is hidden as well: the removal of its warning
\* can take the last critical leaf (AlertPage.js:429).
CriticalStillSeen ==
    /\ HighestSeverity = "critical" <=> Of(asOf, "critical") # {}
    /\ HeaderColor = "critical" => Of(LeafAlerts(asOf), "critical") # {}
    /\ ~ParentDoubled /\ Of(LeafAlerts(asOf), "critical") # {}
         => HeaderColor = "critical"

\* A counter leads to exactly the alerts it counts, whatever filter earlier
\* links and choices have left in the URL (getLink, the two alert tabs).
CounterMatchesList ==
    [][\A s \in Severities : FollowCounter(s) =>
         Cardinality(TabList(page.thing, filter')) = Counter(page.thing, s)]_vars

\* The warning is removed when the critical one is triggered, and nothing else
\* ("This function removes the warning alert from the list when critical one
\* is triggered", alertUtils.js:58).
OnlyDoubledWarningsHidden ==
    LET doubled == {a \in asOf :
                      a.severity = "warning" /\
                      [a EXCEPT !.severity = "critical"] \in asOf}
    IN query.data = asOf \ doubled
=============================================================================
