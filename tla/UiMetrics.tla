------------------------------- MODULE UiMetrics -------------------------------
(***************************************************************************)
(* The time span of the graphs and what the graphs draw: VolumeMetricsTab, *)
(* NodePageMetricsTab and fetchVolumeStats of src/ui/src.                  *)
(*                                                                         *)
(* The span the user chose is kept twice, in the Redux store and as `from` *)
(* in the URL, for the volume pages and for the node pages.  The samples   *)
(* of a volume are fetched for the span the store holds when the fetch     *)
(* starts, and are drawn on a grid computed from the span the store holds  *)
(* when the page is drawn; where the machine was down the grid has a gap.  *)
(*                                                                         *)
(* Time is counted in the smallest sampling period.  The value of a sample *)
(* is the time it was taken, so that a point drawn at a wrong place shows. *)
(***************************************************************************)
EXTENDS Integers, FiniteSets, Sequences

CONSTANTS
    Spans,        \* the known spans, each named by its code in the URL
    Default,      \* Last 24 hours
    Duration,     \* SAMPLE_DURATION_*
    Frequency,    \* SAMPLE_FREQUENCY_*
    Metrics,      \* the series fetched for the volumes
    Outages,      \* sets of times at which Prometheus may have no sample
    StartTime, MaxTime,   \* bounds of the clock
    MaxMoves,             \* bound: what the user does
    None, Unknown         \* no `from` in the URL; one that is no known code

MetricsAssumption ==
    /\ {StartTime, MaxTime} \subseteq Nat /\ StartTime <= MaxTime
    /\ Default \in Spans /\ None \notin Spans /\ Unknown \notin Spans
    /\ \A s \in Spans : /\ Duration[s] \in Nat /\ Frequency[s] \in Nat \ {0}
                        /\ Duration[s] % Frequency[s] = 0
                        /\ Duration[s] <= StartTime

VARIABLES
    alive,        \* the root saga runs
    now, down,    \* the clock; the times without samples
    page,         \* "other", "volume", "volumeMetrics" or "node"
    from,         \* the `from` of the URL
    backed,       \* `from` was changed by Back since the tab last read it
    span,         \* volumeStats.metricsTimeSpan
    nodeSpan,     \* nodeStats.metricsTimeSpan
    showAvg,      \* nodeStats.showAvg
    fetch,        \* the running fetchVolumeStats (takeLatest), or Idle
    stats,        \* volumeStats.metrics
    moves

vars == <<alive, now, down, page, from, backed, span, nodeSpan, showAvg,
          fetch, stats, moves>>

Null == -1
Times == 0..MaxTime
Idle == [span |-> None, start |-> 0]
NoStats == [span |-> None, start |-> 0, samples |-> [m \in Metrics |-> {}]]

Init ==
    /\ alive = TRUE
    /\ now = StartTime
    /\ down \in Outages
    /\ page = "other"
    /\ from = None
    /\ backed = FALSE
    /\ span = Default
    /\ nodeSpan = Default
    /\ showAvg = FALSE
    /\ fetch = Idle
    /\ stats = NoStats
    /\ moves = 0

Moves == moves < MaxMoves /\ moves' = moves + 1

-----------------------------------------------------------------------------
(* Fetching.                                                               *)

\* FETCH_VOLUMESTATS: the span is read from the store after the dispatches
\* that came before; a fetch in flight is cancelled.
FetchVolumeStats(s) ==
    fetch' = IF alive THEN [span |-> s, start |-> now - Duration[s]] ELSE fetch

\* queryPrometheusRange: a sample per step from the start to the end, which is
\* included.
QueryRange(f) ==
    {t \in Times \ down : /\ f.start <= t /\ t <= f.start + Duration[f.span]
                          /\ (t - f.start) % Frequency[f.span] = 0}

\* All the queries are answered; those that failed leave no samples.
StatsAnswered(failed) ==
    /\ alive /\ fetch # Idle
    /\ stats' = [span |-> fetch.span, start |-> fetch.start,
                 samples |-> [m \in Metrics |->
                   IF m \in failed THEN {} ELSE QueryRange(fetch)]]
    /\ fetch' = Idle
    /\ UNCHANGED <<alive, now, down, page, from, backed, span, nodeSpan,
                   showAvg, moves>>

Tick ==
    /\ now < MaxTime
    /\ now' = now + 1
    /\ UNCHANGED <<alive, down, page, from, backed, span, nodeSpan, showAvg,
                   fetch, stats, moves>>

-----------------------------------------------------------------------------
(* The metrics tab of a volume.                                            *)

\* writeUrlTimeSpan
WriteUrlTimeSpan(s) == from' = s

\* handleUrlQuery, with the URL in u: it applies a span it knows, else it
\* writes the span of the store, unless that is the default.
HandleUrlQuery(u, fetched) ==
    /\ backed' = FALSE
    /\ IF u \in Spans
       THEN /\ span' = u
            /\ from' = u
            /\ FetchVolumeStats(u)
       ELSE /\ UNCHANGED span
            /\ IF span # Default THEN WriteUrlTimeSpan(span) ELSE from' = u
            /\ IF fetched THEN FetchVolumeStats(span) ELSE UNCHANGED fetch

\* The volume page is opened on another tab, then it fetches once.
OpenVolume(u) ==
    /\ page \notin {"volume", "volumeMetrics"} /\ Moves
    /\ page' = "volume"
    /\ from' = u
    /\ backed' = FALSE
    /\ FetchVolumeStats(span)
    /\ UNCHANGED <<alive, now, down, span, nodeSpan, showAvg, stats>>

\* The volume page is opened on this tab by its URL.
OpenVolumeMetrics(u) ==
    /\ page \notin {"volume", "volumeMetrics"} /\ Moves
    /\ page' = "volumeMetrics"
    /\ HandleUrlQuery(u, TRUE)
    /\ UNCHANGED <<alive, now, down, nodeSpan, showAvg, stats>>

\* The tab is opened, or another volume is chosen while it is open; the link
\* keeps the query of the URL.
ReadUrl ==
    /\ page \in {"volume", "volumeMetrics"} /\ Moves
    /\ page' = "volumeMetrics"
    /\ HandleUrlQuery(from, FALSE)
    /\ UNCHANGED <<alive, now, down, nodeSpan, showAvg, stats>>

ChooseSpanFetchesFirst(s) ==
    /\ page = "volumeMetrics" /\ s # span /\ Moves
    /\ FetchVolumeStats(span)
    /\ span' = s
    /\ WriteUrlTimeSpan(s)
    /\ UNCHANGED <<alive, now, down, page, backed, nodeSpan, showAvg, stats>>

\* A choice in the dropdown, which does not offer the current span.
ChooseSpan(s) ==
    /\ page = "volumeMetrics" /\ s # span /\ Moves
    /\ span' = s
    /\ WriteUrlTimeSpan(s)
    /\ FetchVolumeStats(s)
    /\ UNCHANGED <<alive, now, down, page, backed, nodeSpan, showAvg, stats>>

-----------------------------------------------------------------------------
(* The node page, and the browser.                                         *)

\* NodePageRSP: the span of the URL if there is a `from`, known or not.
SpanOfUrl(u) == IF u = None THEN nodeSpan ELSE u

\* Its effect puts the span in the store and the watcher forks fetchNodeStats,
\* where a span that is not known makes an invalid date and throws.
ShowNode(u) ==
    /\ page' = "node"
    /\ from' = u
    /\ nodeSpan' = SpanOfUrl(u)
    /\ alive' = (alive /\ nodeSpan' # Unknown)

OpenNode(u, avg) ==
    /\ page # "node" /\ Moves
    /\ ShowNode(u)
    /\ backed' = FALSE
    /\ showAvg' = (avg \/ showAvg)
    /\ UNCHANGED <<now, down, span, fetch, stats>>

ChooseNodeSpan(s) ==
    /\ page = "node" /\ s # nodeSpan /\ Moves
    /\ ShowNode(s)
    /\ UNCHANGED <<now, down, backed, span, showAvg, fetch, stats>>

ToggleAvg ==
    /\ page = "node" /\ Moves
    /\ showAvg' = ~showAvg
    /\ UNCHANGED <<alive, now, down, page, from, backed, span, nodeSpan, fetch,
                   stats>>

\* Back, within the page: the volume tab does not look at the URL again, the
\* node page does.
Back(u) ==
    /\ page \in {"volumeMetrics", "node"} /\ u # from /\ Moves
    /\ IF page = "node" THEN ShowNode(u) /\ UNCHANGED backed
       ELSE /\ from' = u
            /\ backed' = TRUE
            /\ UNCHANGED <<alive, page, nodeSpan>>
    /\ UNCHANGED <<now, down, span, showAvg, fetch, stats>>

Leave ==
    /\ page # "other"
    /\ page' = "other"
    /\ from' = None
    /\ backed' = FALSE
    /\ UNCHANGED <<alive, now, down, span, nodeSpan, showAvg, fetch, stats,
                   moves>>

Urls == Spans \cup {None, Unknown}

Next ==
    \/ Tick
    \/ \E failed \in SUBSET Metrics : StatsAnswered(failed)
    \/ \E u \in Urls : \/ OpenVolume(u) \/ OpenVolumeMetrics(u) \/ Back(u)
                       \/ \E avg \in BOOLEAN : OpenNode(u, avg)
    \/ ReadUrl
    \/ \E s \in Spans : ChooseSpan(s) \/ ChooseNodeSpan(s)
    \/ ToggleAvg
    \/ Leave

Spec == Init /\ [][Next]_vars

-----------------------------------------------------------------------------
(* What the volume graphs draw.                                            *)

Point(t, v) == [time |-> t, value |-> v]

\* The values of a series, in the order of their times.
TimeOf(times, i) == CHOOSE t \in times : Cardinality({u \in times : u <= t}) = i
Values(times) ==
    [i \in 1..Cardinality(times) |-> Point(TimeOf(times, i), TimeOf(times, i))]

\* The time of a point of the grid.
TimeAt(start, frequency, i) == start + (i - 1) * frequency

\* The first value that is not copied before a point.
NextIndex(values, start, frequency, size) ==
    LET next[i \in 1..(size + 1)] ==
          IF i = 1 THEN 1
          ELSE IF /\ next[i - 1] <= Len(values)
                  /\ values[next[i - 1]].time = TimeAt(start, frequency, i - 1)
               THEN next[i - 1] + 1 ELSE next[i - 1]
    IN next

\* addMissingDataPoint: a grid of points without value, into which the values
\* are copied in order: next[i] is the first value not copied before point i.
AddMissingDataPoint(values, start, duration, frequency) ==
    IF values = <<>> \/ start < 0 THEN <<>>
    ELSE LET size == duration \div frequency
             next == NextIndex(values, start, frequency, size)
         IN [i \in 1..size |->
               Point(TimeAt(start, frequency, i),
                     IF next[i + 1] > next[i] THEN values[next[i]].value ELSE Null)]

\* operateMetricRawData, with the span of the store, whatever was fetched.
Operated(m) ==
    AddMissingDataPoint(Values(stats.samples[m]), stats.start,
                        Duration[span], Frequency[span])

-----------------------------------------------------------------------------
(* What the node charts draw.                                              *)

\* typedMetrics and typedAvgMetrics: the legend of each series.
TypedMetrics ==
    [cpuUsage |-> "CPU Usage", systemLoad |-> "System Load",
     memory |-> "Memory", iopsRead |-> "Read", iopsWrite |-> "Write",
     controlPlaneIn |-> "In", controlPlaneOut |-> "Out",
     workloadPlaneIn |-> "In", workloadPlaneOut |-> "Out"]

TypedAvgMetrics ==
    [cpuUsage |-> "cluster avg", systemLoad |-> "cluster avg",
     memory |-> "cluster avg", iopsRead |-> "read avg",
     iopsWrite |-> "write avg",
     controlPlaneIn |-> "in avg", controlPlaneOut |-> "out avg",
     workloadPlaneIn |-> "in avg", workloadPlaneOut |-> "out avg"]

\* What each chart is given: its series, its tooltip and its colours.
Chart(data, tooltip, color) == [data |-> data, tooltip |-> tooltip, color |-> color]
Charts ==
    {Chart({"cpuUsage"}, "tooltipConfigCPU", "colorCPU"),
     Chart({"systemLoad"}, "tooltipConfigSystemLoad", "colorSystemLoad"),
     Chart({"memory"}, "tooltipConfigMemory", "colorMemory"),
     Chart({"iopsRead", "iopsWrite"}, "tooltipConfigIops", "colorsWriteRead"),
     Chart({"controlPlaneIn", "controlPlaneOut"}, "tooltipConfigInOut",
           "colorsInOut"),
     Chart({"workloadPlaneIn", "workloadPlaneOut"}, "tooltipConfigInOut",
           "colorsInOut")}

Drawn(chart) ==
    {TypedMetrics[m] : m \in chart.data}
        \cup (IF showAvg THEN {TypedAvgMetrics[m] : m \in chart.data} ELSE {})

\* The fields of the tooltips.
Tooltip(config) ==
    LET fields(plain, avg) == plain \cup (IF showAvg THEN avg ELSE {}) IN
    CASE config = "tooltipConfigCPU" -> fields({"CPU Usage"}, {"cluster avg"})
      [] config = "tooltipConfigSystemLoad" ->
           fields({"System Load"}, {"cluster avg"})
      [] config = "tooltipConfigMemory" -> fields({"Memory"}, {"cluster avg"})
      [] config = "tooltipConfigIops" ->
           fields({"Read", "Write"}, {"read avg", "write avg"})
      [] config = "tooltipConfigInOut" ->
           fields({"In", "Out"}, {"in avg", "out avg"})

\* The colour ranges.
ColorRange(color) ==
    LET once == IF color = "colorsWriteRead" THEN <<"purple", "sand">>
                ELSE IF color = "colorsInOut" THEN <<"sand", "purple">>
                ELSE <<"purple">>
    IN IF showAvg /\ Len(once) = 2 THEN once \o once ELSE once

Alphabet == <<"CPU Usage", "In", "Memory", "Out", "Read", "System Load",
              "Write", "cluster avg", "in avg", "out avg", "read avg",
              "write avg">>

\* The types drawn that come before one.
Before(chart, type) ==
    {t \in Drawn(chart) : \E i, j \in DOMAIN Alphabet :
        i < j /\ Alphabet[i] = t /\ Alphabet[j] = type}

\* Vega gives the colours of the range to the types in alphabetical order,
\* and starts the range again when it is too short.
ColorOf(chart, type) ==
    ColorRange(chart.color)[
        (Cardinality(Before(chart, type)) % Len(ColorRange(chart.color))) + 1]

-----------------------------------------------------------------------------
(* Properties.                                                             *)

\* The type of the state.
TypeOK ==
    /\ alive \in BOOLEAN /\ backed \in BOOLEAN /\ showAvg \in BOOLEAN
    /\ now \in StartTime..MaxTime
    /\ page \in {"other", "volume", "volumeMetrics", "node"}
    /\ from \in Urls
    /\ span \in Spans
    /\ nodeSpan \in Spans \cup {Unknown}
    /\ fetch \in [span : Spans \cup {None}, start : Times]
    /\ stats \in [span : Spans \cup {None}, start : Times,
                  samples : [Metrics -> SUBSET Times]]

\* A graph never shifts a value: a point of the grid carries the sample of its
\* own time or none, also while the span was changed and the new samples are
\* not there yet; and once they are, every sample but the newest is drawn,
\* those after a gap too.
GraphIsFaithful ==
    page = "volumeMetrics" =>
        \A m \in Metrics :
            LET points == Operated(m)
                drawn == {points[i].time : i \in
                            {k \in DOMAIN points : points[k].value # Null}}
            IN /\ \A i \in DOMAIN points :
                    points[i].value \in {Null, points[i].time}
               /\ stats.span = span =>
                    drawn = stats.samples[m] \ {stats.start + Duration[span]}

\* When no fetch is on its way the samples are those of the span on the page:
\* every change of the span is followed by a fetch that reads the new one.
GraphSettles ==
    (alive /\ page \in {"volume", "volumeMetrics"} /\ fetch = Idle)
        => stats.span = span

\* A link copied from the URL opens the graphs with the span now on the page:
\* on the volume tab unless Back was used since, on the node page always.
UrlTellsSpan ==
    /\ (page = "volumeMetrics" /\ ~backed) =>
         \/ from = span
         \/ from \notin Spans /\ span = Default
    /\ (page = "node" /\ from # None) => nodeSpan = from

TwoColours == {"iopsRead", "iopsWrite", "controlPlaneIn", "controlPlaneOut",
               "workloadPlaneIn", "workloadPlaneOut"}

\* "the `read` and `out` should be the same color, the `write` and `in` should
\* be the same color" (NodePageMetricsTab.js:381), their cluster averages too,
\* and each line drawn has its line in the tooltip.
ChartsReadable ==
    page = "node" =>
        /\ \A chart \in Charts : Tooltip(chart.tooltip) = Drawn(chart)
        /\ \A chart \in Charts : \A m \in chart.data \cap TwoColours :
             LET color == IF TypedMetrics[m] \in {"Read", "Out"}
                          THEN "purple" ELSE "sand"
             IN /\ ColorOf(chart, TypedMetrics[m]) = color
                /\ showAvg => ColorOf(chart, TypedAvgMetrics[m]) = color
=============================================================================
