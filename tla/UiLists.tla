------------------------------ MODULE UiLists ------------------------------
(***************************************************************************)
(* The lists of volumes, of nodes and of alerts: each is a table that      *)
(* react-table sorts and filters, and whose order and search are kept in   *)
(* the query of the URL (useTableSortURLSync, GlobalFilter), which links,  *)
(* rows, the search box and the browser also change.  The table of volumes *)
(* on a node's page keeps its order to itself.                             *)
(*                                                                         *)
(* A row has a name, a health and one more value that stands for every     *)
(* other column; each is a rank.  The rest of a page is left out.          *)
(***************************************************************************)
EXTENDS Integers, Sequences, FiniteSets, SequencesExt

CONSTANTS
    Words,      \* what the user types in a search box
    Clicked,    \* bound: columns whose header the user clicks
    Shown,      \* bound: tabs the user opens
    Ranks,      \* what rows are compared by
    Answers,    \* bound: the rows of an answer, from Rows
    None,       \* an absent parameter of the URL
    MaxMoves,   \* bound: what the user does
    MaxReplaces \* bound: replacements of the URL in a row

NoRow == 0
Rows == [name : Ranks, health : Ranks, other : Ranks]

VARIABLES
    data,     \* the rows the selector returned
    at,       \* the location: page, row, tab and query
    past,     \* the entries of the browser before it
    table,    \* react-table's state: sortBy and globalFilter
    tabSort,  \* the sortBy of the table on a node's volumes tab
    box,      \* the text of the search box
    typed,    \* the debounced search: its word, page, and the query it saw
    due,      \* whether the effect of useTableSortURLSync is due
    replaces, \* history: replacements of the URL since a user, a timer or an
              \* answer moved
    moves     \* history: what the user did

vars == <<data, at, past, table, tabSort, box, typed, due, replaces, moves>>

NoQuery == [sort |-> None, desc |-> FALSE, search |-> None, node |-> NoRow]
Location(page, row, tab, query) ==
    [page |-> page, row |-> row, tab |-> tab, query |-> query]

-----------------------------------------------------------------------------
(* The tables.                                                             *)

VolumeColumns == {"health", "name", "node", "usage", "storageCapacity",
                  "status", "latency"}
NodeColumns == {"health", "name", "roles", "status"}
NodeVolumesColumns == {"health", "name", "usage", "storageCapacity", "status",
                       "latency"}
AlertColumns == {"severity", "labels.alertname", "Description", "startsAt"}

VolumeTable == [columns |-> VolumeColumns, default |-> "health"]
NodeTable == [columns |-> NodeColumns, default |-> "health"]
NodeVolumesTable == [columns |-> NodeVolumesColumns, default |-> "health"]
AlertTable == [columns |-> AlertColumns, default |-> "severity"]

Columns == VolumeColumns \cup NodeColumns \cup AlertColumns

ListsAssumption ==
    /\ None \notin Words \cup Columns /\ "" \notin Words
    /\ Ranks \subseteq Nat \ {NoRow} /\ Answers \subseteq Seq(Rows)
    /\ MaxMoves \in Nat /\ MaxReplaces \in Nat

TableOf(page) == CASE page = "volumes" -> VolumeTable
                   [] page = "nodes" -> NodeTable
                   [] page = "alerts" -> AlertTable

Unsorted == [id |-> None, desc |-> FALSE]

\* The tables' `initialState`.  react-table ignores a column it does not have.
Mounted(page, query) ==
    [sortBy |->
        IF query.sort = None
        THEN [id |-> TableOf(page).default, desc |-> query.desc]
        ELSE IF query.sort \in TableOf(page).columns
             THEN [id |-> query.sort, desc |-> query.desc] ELSE Unsorted,
     filter |-> IF query.search = "" THEN None ELSE query.search]

\* toggleSortBy: ascending, descending, and no order at all.
Toggled(sortBy, column) ==
    IF sortBy.id # column THEN [id |-> column, desc |-> FALSE]
    ELSE IF ~sortBy.desc THEN [id |-> column, desc |-> TRUE] ELSE Unsorted

\* sortTypes: the worst health comes first.
Rank(row, column) ==
    CASE column \in {"health", "severity"} -> row.health
      [] column \in {"name", "labels.alertname"} -> row.name
      [] OTHER -> row.other

\* react-table's sort: rows that are equal keep their order, or reverse it.
Precedes(rows, column, i, j) ==
    \/ Rank(rows[i], column) < Rank(rows[j], column)
    \/ Rank(rows[i], column) = Rank(rows[j], column) /\ i < j

Ascending(rows, column) ==
    CHOOSE order \in Bijection(DOMAIN rows, DOMAIN rows) :
        \A i, j \in DOMAIN rows :
            i < j => Precedes(rows, column, order[i], order[j])

Sorted(rows, sortBy) ==
    LET up == Ascending(rows, sortBy.id)
        order == IF sortBy.desc THEN Reverse(up) ELSE up
    IN IF sortBy.id = None THEN rows
       ELSE [i \in DOMAIN rows |-> rows[order[i]]]

\* getVolumeListData, getNodeListData and SortAlerts sort by health.
Fetched(rows) == Sorted(rows, [id |-> "health", desc |-> FALSE])

\* The volumes tab of a node is there when it is the tab of the location.  Its
\* table stays from one node to another, and starts again when it is shown.
OnTab(location) ==
    location.page = "nodes" /\ location.row # NoRow /\ location.tab = "volumes"

ShowTab(location) ==
    tabSort' = IF OnTab(at) /\ OnTab(location) THEN tabSort
               ELSE [id |-> NodeVolumesTable.default, desc |-> FALSE]

-----------------------------------------------------------------------------

\* Another entry of the history, the page's table being mounted or not.
Push(location) ==
    /\ past' = Append(past, at)
    /\ at' = location
    /\ ShowTab(location)
    /\ due' = TRUE
    /\ replaces' = 0
    /\ IF location.page = at.page THEN UNCHANGED <<table, box>>
       ELSE /\ table' = Mounted(location.page, location.query)
            /\ box' = IF location.query.search = None THEN ""
                      ELSE location.query.search

Move == moves < MaxMoves /\ moves' = moves + 1

SyncedKeepsDesc(query, sortBy, default) ==
    IF sortBy.id = None \/ (sortBy.id = default /\ ~sortBy.desc)
    THEN [query EXCEPT !.sort = None]
    ELSE [query EXCEPT !.sort = sortBy.id, !.desc = sortBy.desc]

\* useTableSortURLSync: what the query should be.
Synced(query, sortBy, default) ==
    IF sortBy.id = None \/ (sortBy.id = default /\ ~sortBy.desc)
    THEN [query EXCEPT !.sort = None, !.desc = FALSE]
    ELSE [query EXCEPT !.sort = sortBy.id, !.desc = sortBy.desc]

UseTableSortURLSync ==
    /\ due
    /\ LET query == Synced(at.query, table.sortBy, TableOf(at.page).default)
           same == data = <<>> \/ query = at.query
       IN /\ at' = IF same THEN at ELSE [at EXCEPT !.query = query]
          /\ due' = ~same
          /\ replaces' = IF same THEN replaces ELSE replaces + 1
    /\ replaces < MaxReplaces
    /\ UNCHANGED <<data, past, table, tabSort, box, typed, moves>>

ClickHeader(column) ==
    /\ Move
    /\ column \in TableOf(at.page).columns \cap Clicked
    /\ table' = [table EXCEPT !.sortBy = Toggled(@, column)]
    /\ due' = TRUE /\ replaces' = 0
    /\ UNCHANGED <<data, at, past, tabSort, box, typed>>

\* A header of the table on the node's tab: the URL does not change.
ClickTabHeader(column) ==
    /\ Move
    /\ OnTab(at) /\ column \in NodeVolumesTable.columns \cap Clicked
    /\ tabSort' = Toggled(tabSort, column)
    /\ UNCHANGED <<data, at, past, table, box, typed, due, replaces>>

\* GlobalFilter: each key starts the 500 ms again.
Type(word) ==
    /\ Move
    /\ box' = word
    /\ typed' = [word |-> word, page |-> at.page, query |-> at.query]
    /\ replaces' = 0
    /\ UNCHANGED <<data, at, past, table, tabSort, due>>

\* onChange of GlobalFilter.  A box that is gone still holds the query of its
\* last render, and pushes it to the page the user went to.
Search(page) ==
    /\ typed.page = page
    /\ LET here == at.page = page
           query == [(IF here THEN at.query ELSE typed.query)
                     EXCEPT !.search = typed.word]
       IN /\ table' = IF here THEN [table EXCEPT !.filter =
                            IF typed.word = "" THEN None ELSE typed.word]
                      ELSE table
          /\ past' = Append(past, at)
          /\ at' = [at EXCEPT !.query = query]
    /\ typed' = [typed EXCEPT !.page = None]
    /\ due' = TRUE /\ replaces' = 0
    /\ UNCHANGED <<data, tabSort, box, moves>>

SearchVolumes == Search("volumes")
SearchNodes == Search("nodes")
SearchAlerts == Search("alerts")

\* New rows make react-table take the filter of the URL again.
Refresh(rows) ==
    /\ data' = Fetched(rows)
    /\ data' # data
    /\ table' = [table EXCEPT !.filter = Mounted(at.page, at.query).filter]
    /\ due' = (due \/ Len(data) # Len(rows)) /\ replaces' = 0
    /\ UNCHANGED <<at, past, tabSort, box, typed, moves>>

-----------------------------------------------------------------------------
(* Pages.                                                                  *)

\* The first volume of the list; the first node of the first list the page
\* got, whatever its rank is now, which drops the query.
SelectFirstVolume ==
    /\ at.page = "volumes" /\ at.row = NoRow /\ data # <<>>
    /\ at' = Location("volumes", data[1].name, "overview", at.query)
    /\ due' = TRUE
    /\ replaces < MaxReplaces /\ replaces' = replaces + 1
    /\ UNCHANGED <<data, past, table, tabSort, box, typed, moves>>

SelectDefaultNode ==
    /\ at.page = "nodes" /\ at.row = NoRow /\ data # <<>>
    /\ \E i \in DOMAIN data :
         at' = Location("nodes", data[i].name, "overview", NoQuery)
    /\ due' = TRUE
    /\ replaces < MaxReplaces /\ replaces' = replaces + 1
    /\ UNCHANGED <<data, past, table, tabSort, box, typed, moves>>

\* VolumeListTable.onClickRow: with a node filter the rest of the query goes.
ClickVolume(row) ==
    /\ Move /\ at.page = "volumes"
    /\ Push(IF at.query.node # NoRow
            THEN Location("volumes", row.name, "overview",
                          [NoQuery EXCEPT !.node = at.query.node])
            ELSE Location("volumes", row.name,
                   IF at.row # NoRow /\ at.tab \in {"alerts", "metrics", "details"}
                   THEN at.tab ELSE "overview", at.query))
    /\ UNCHANGED <<data, typed>>

\* NodeListTable.onClickRow.
ClickNode(row) ==
    /\ Move /\ at.page = "nodes"
    /\ Push(Location("nodes", row.name, IF at.row = NoRow THEN "overview"
                                        ELSE at.tab, at.query))
    /\ UNCHANGED <<data, typed>>

\* A name of NodePageVolumesTable, on a node's tab.
ClickVolumeOfNode(name) ==
    /\ Move /\ at.page = "nodes" /\ at.row # NoRow /\ at.tab = "volumes"
    /\ Push(Location("volumes", name, "overview", [NoQuery EXCEPT !.node = at.row]))
    /\ UNCHANGED <<data, typed>>

SwitchTab(tab) ==
    /\ Move /\ at.row # NoRow /\ tab # at.tab
    /\ tab = "volumes" => at.page = "nodes"
    /\ Push([at EXCEPT !.tab = tab])
    /\ UNCHANGED <<data, typed>>

\* The sidebar, and the navigation bar's link to the alerts.
Open(page) ==
    /\ Move /\ page # at.page
    /\ Push(Location(page, NoRow, None, NoQuery))
    /\ UNCHANGED <<data, typed>>

Back ==
    /\ Move /\ past # <<>>
    /\ LET to == Last(past) IN
       /\ at' = to /\ past' = Front(past)
       /\ ShowTab(to)
       /\ IF to.page = at.page THEN UNCHANGED <<table, box>>
          ELSE /\ table' = Mounted(to.page, to.query)
               /\ box' = IF to.query.search = None THEN "" ELSE to.query.search
    /\ due' = TRUE /\ replaces' = 0
    /\ UNCHANGED <<data, typed>>

Reload ==
    /\ Move
    /\ data' = <<>>
    /\ table' = Mounted(at.page, at.query)
    /\ tabSort' = [id |-> NodeVolumesTable.default, desc |-> FALSE]
    /\ box' = IF at.query.search = None THEN "" ELSE at.query.search
    /\ typed' = [typed EXCEPT !.page = None]
    /\ due' = TRUE /\ replaces' = 0
    /\ UNCHANGED <<at, past>>

-----------------------------------------------------------------------------

Init ==
    /\ data = <<>> /\ past = <<>>
    /\ at \in {Location(p, NoRow, None, NoQuery) : p \in {"volumes", "nodes", "alerts"}}
    /\ table = Mounted(at.page, at.query)
    /\ tabSort = [id |-> NodeVolumesTable.default, desc |-> FALSE]
    /\ box = "" /\ typed = [word |-> "", page |-> None, query |-> NoQuery]
    /\ due = TRUE /\ replaces = 0 /\ moves = 0

Next ==
    \/ UseTableSortURLSync
    \/ \E column \in Clicked : ClickHeader(column) \/ ClickTabHeader(column)
    \/ \E word \in Words \cup {""} : Type(word)
    \/ SearchVolumes \/ SearchNodes \/ SearchAlerts
    \/ \E rows \in Answers : Refresh(rows)
    \/ SelectFirstVolume \/ SelectDefaultNode
    \/ \E i \in DOMAIN data : ClickVolume(data[i]) \/ ClickNode(data[i])
    \/ \E name \in Ranks : ClickVolumeOfNode(name)
    \/ \E tab \in Shown : SwitchTab(tab)
    \/ \E page \in {"volumes", "nodes", "alerts"} : Open(page)
    \/ Back \/ Reload

Spec == Init /\ [][Next]_vars

-----------------------------------------------------------------------------
(* Properties.                                                             *)

TypeOK ==
    /\ data \in Seq(Rows)
    /\ at.page \in {"volumes", "nodes", "alerts"}
    /\ at.query.sort \in Columns \cup {None}
    /\ table.sortBy.id \in TableOf(at.page).columns \cup {None}
    /\ tabSort.id \in NodeVolumesColumns \cup {None}
    /\ replaces \in 0..MaxReplaces /\ moves \in 0..MaxMoves

\* Once the URL has followed the table, a reload of the page or a copied link
\* shows the rows in the order the user sees: an unsorted table too, for the
\* rows come sorted by health and no parameter means health.
ReloadKeepsOrder ==
    ~due /\ data # <<>> =>
        Sorted(data, table.sortBy)
            = Sorted(data, Mounted(at.page, at.query).sortBy)

\* The comment of useTableSortURLSync: no redirection loop.  A replacement of
\* the URL changes what the effect depends on, and the redirection to the
\* default row undoes what the effect did: together they replace the URL at
\* most three times before it stays.
NoRedirectLoop == replaces <= 3
=============================================================================
