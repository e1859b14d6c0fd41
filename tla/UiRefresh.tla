------------------------------ MODULE UiRefresh -------------------------------
(***************************************************************************)
(* The refresh loops of the UI (src/ui/src/ducks/app): a screen dispatches *)
(* REFRESH_x when it is mounted and STOP_REFRESH_x when it is unmounted    *)
(* (useRefreshEffect); the saga of x raises a flag, asks the server, waits *)
(* and, if the flag is still up, starts again.  The loops differ in what a *)
(* second REFRESH does to the first, in what an error does, in the loader  *)
(* shown for a second, and one of them reads the flag of another.          *)
(*                                                                         *)
(* A behaviour is about one loop, chosen by Init.  What the server holds   *)
(* is a version number; an answer carries the version of some moment       *)
(* between the request and the answer.  The root saga lives: its death is   *)
(* in UiForms.                                                             *)
(***************************************************************************)
EXTENDS Integers, FiniteSets

CONSTANTS
    MaxMounts,    \* bound: mounts in a behaviour
    MaxVersion,   \* bound: changes on the server
    MaxFetches,   \* bound: fetches and changes made outside of the loop
    MaxFailures   \* bound: requests that fail

RefreshAssumption ==
    {MaxMounts, MaxVersion, MaxFetches, MaxFailures} \subseteq Nat

Nothing == -1

-----------------------------------------------------------------------------
(* The loops.  restart: takeLatest cancels the loop that runs, takeEvery   *)
(* adds one; fetch: the same for a fetch outside of the loop.  onError: the *)
(* loop stops or goes on.  shows: after an error the page keeps what it    *)
(* had or shows nothing.  loader: one second more in the fetch.  ownFlag:  *)
(* the flag read after the wait is the one that was raised.  change: when  *)
(* the saga that changes the objects (DELETE_VOLUME, DEPLOY_NODE, both     *)
(* under takeLatest) fetches them in the end.                              *)

Loop(restart, fetch, onError, shows, loader, ownFlag) ==
    [restart |-> restart, fetch |-> fetch, onError |-> onError,
     shows |-> shows, loader |-> loader, ownFlag |-> ownFlag, change |-> "none"]

refreshVolumes ==
    [Loop("latest", "latest", "stops", "old", TRUE, TRUE) EXCEPT
        !.change = "always"]
refreshPersistentVolumes == Loop("latest", "latest", "stops", "old", FALSE, TRUE)
refreshNodes ==
    [Loop("every", "every", "stops", "old", TRUE, TRUE) EXCEPT
        !.change = "if done"]
refreshClusterStatus == Loop("every", "every", "stops", "nothing", TRUE, TRUE)
\* Reads isClusterRefreshing, which no screen that is routed raises.
refreshAlerts == Loop("every", "every", "stops", "nothing", TRUE, FALSE)
refreshAlertsAlertmanager == Loop("every", "latest", "stops", "old", FALSE, TRUE)
\* Only components that no route shows start the first of these two.
refreshVolumeStats == Loop("every", "latest", "goes on", "nothing", FALSE, TRUE)
refreshCurrentVolumeStats == Loop("every", "latest", "goes on", "nothing", FALSE, TRUE)

Loops == {refreshVolumes, refreshPersistentVolumes, refreshNodes,
          refreshClusterStatus, refreshAlerts, refreshAlertsAlertmanager,
          refreshVolumeStats, refreshCurrentVolumeStats}

\* The loops a screen starts when it is mounted and stops when it is unmounted.
VolumePage == {refreshNodes, refreshVolumes, refreshPersistentVolumes,
               refreshCurrentVolumeStats}
NodePage == {refreshNodes}
NodePageContent == {refreshNodes}
NodePageRSP == {refreshVolumes}
NodePageVolumesTab == {refreshVolumes, refreshCurrentVolumeStats,
                       refreshPersistentVolumes, refreshAlerts}
\* No route leads to these two.
VolumeInformation == {refreshVolumes, refreshPersistentVolumes}
ClusterMonitoring == {refreshClusterStatus, refreshAlertsAlertmanager}

Screens == [VolumePage |-> VolumePage, NodePage |-> NodePage,
            NodePageContent |-> NodePageContent, NodePageRSP |-> NodePageRSP,
            NodePageVolumesTab |-> NodePageVolumesTab,
            VolumeInformation |-> VolumeInformation,
            ClusterMonitoring |-> ClusterMonitoring]

\* The screens of a node are parts of each other; the others are alone.
ScreensOfNode == {"NodePage", "NodePageContent", "NodePageRSP",
                  "NodePageVolumesTab"}

\* Where the buttons are that change the objects of a loop.
ScreensThatChange(l) ==
    CASE l.change = "always" -> {"VolumePage"}
      [] l.change = "if done" -> ScreensOfNode
      [] OTHER -> {}

-----------------------------------------------------------------------------
VARIABLES
    loop,       \* the loop this behaviour is about
    views,      \* the mounted screens that use it
    isRefreshing,
    isLoading,
    tasks,      \* the running sagas, by slot
    list,       \* the version the store holds, or Nothing
    remote,     \* the version the server holds
    mounts, fetches, failures,
    left,       \* a screen that shared the loop was the last to mount or leave
    cancelled,  \* a change cancelled the fetch of another, and no fetch has ended
    failed      \* a loop ended on an error since the last REFRESH

vars == <<loop, views, isRefreshing, isLoading, tasks, list, remote, mounts,
          fetches, failures, left, cancelled, failed>>
counters == <<mounts, fetches, failures>>

Slots == 1..(MaxMounts + MaxFetches)
Free == [kind |-> "none", phase |-> "none", since |-> 0, ok |-> TRUE]
Task == [kind : {"none", "loop", "fetch", "change"},
         phase : {"none", "calling", "asking", "loader", "waiting"},
         since : Nat,        \* the version when the request was sent
         ok : BOOLEAN]       \* the request succeeded
Asking(kind, version) ==
    [kind |-> kind, phase |-> "asking", since |-> version, ok |-> TRUE]
Calling == [kind |-> "change", phase |-> "calling", since |-> 0, ok |-> TRUE]

Init ==
    /\ loop \in Loops
    /\ views = {}
    /\ isRefreshing = FALSE
    /\ isLoading = FALSE
    /\ tasks = [s \in Slots |-> Free]
    /\ list = Nothing
    /\ remote = 0
    /\ mounts = 0
    /\ fetches = 0
    /\ failures = 0
    /\ left = FALSE
    /\ cancelled = FALSE
    /\ failed = FALSE

Running(kind) == {s \in Slots : tasks[s].kind = kind}
FirstFree == CHOOSE s \in Slots :
    /\ tasks[s] = Free
    /\ \A r \in Slots : tasks[r] = Free => s <= r

\* takeLatest / takeEvery: the new saga, and the fate of the others.
Launch(new, watcher) ==
    tasks' = [s \in Slots |->
        IF s = FirstFree THEN new
        ELSE IF watcher = "latest" /\ tasks[s].kind = new.kind THEN Free
        ELSE tasks[s]]

\* The sagas of a kind that are in their fetch.
Fetching(kinds) ==
    {s \in Slots : tasks[s].kind \in kinds /\ tasks[s].phase \in {"asking", "loader"}}

\* A screen is mounted: REFRESH_x.
Mount(screen) ==
    /\ loop \in Screens[screen] /\ screen \notin views
    /\ views # {} => views \cup {screen} \subseteq ScreensOfNode
    /\ mounts < MaxMounts
    /\ views' = views \cup {screen}
    /\ mounts' = mounts + 1
    /\ isRefreshing' = TRUE
    /\ isLoading' = (isLoading \/ loop.loader)
    /\ UNCHANGED <<loop, list, remote, fetches, failures, cancelled>>
    /\ Launch(Asking("loop", remote), loop.restart)
    /\ left' = FALSE
    /\ failed' = FALSE

\* A screen is unmounted: STOP_REFRESH_x, which lowers the flag of the screens
\* that remain too.
Unmount(screen) ==
    /\ screen \in views
    /\ views' = views \ {screen}
    /\ isRefreshing' = FALSE
    /\ left' = (views' # {})
    /\ UNCHANGED <<loop, isLoading, tasks, list, remote, counters, cancelled,
                   failed>>

\* FETCH_x, and the fetch that ends the creation of a node: the server may have
\* changed just before.
Fetch(changed) ==
    /\ fetches < MaxFetches
    /\ fetches' = fetches + 1
    /\ isLoading' = (isLoading \/ loop.loader)
    /\ changed => remote < MaxVersion
    /\ remote' = IF changed THEN remote + 1 ELSE remote
    /\ Launch(Asking("fetch", remote'), loop.fetch)
    /\ UNCHANGED <<loop, views, isRefreshing, list, mounts, failures, left,
                   cancelled, failed>>

\* DELETE_VOLUME or DEPLOY_NODE, from a button of a screen: the saga calls the
\* API, and takeLatest cancels the one before it, wherever that is.
Change ==
    /\ views \cap ScreensThatChange(loop) # {}
    /\ fetches < MaxFetches
    /\ fetches' = fetches + 1
    /\ Launch(Calling, "latest")
    /\ cancelled' = (cancelled \/ Fetching({"change"}) # {})
    /\ UNCHANGED <<loop, views, isRefreshing, isLoading, list, remote, mounts,
                   failures, left, failed>>

\* The API has served the change, now or before, or has refused it.  A deletion
\* then fetches the Volumes whatever the answer; a deployment that is refused
\* leaves the Nodes as they are.
ChangeAnswered(s) ==
    /\ tasks[s].phase = "calling"
    /\ \E ok \in BOOLEAN :
       /\ IF ok
          THEN remote' \in {remote, remote + 1} /\ UNCHANGED failures
          ELSE failures' = failures + 1 /\ UNCHANGED remote
       /\ remote' <= MaxVersion /\ failures' <= MaxFailures
       /\ LET fetch == ok \/ loop.change = "always" IN
          /\ tasks' = [tasks EXCEPT ![s] = IF fetch THEN Asking("change", remote')
                                           ELSE Free]
          /\ isLoading' = (isLoading \/ (fetch /\ loop.loader))
    /\ UNCHANGED <<loop, views, isRefreshing, list, mounts, fetches, left,
                   cancelled, failed>>

\* What a saga does when its fetch returns.
Returns(s, ok) ==
    LET goesOn == tasks[s].kind = "loop" /\ (ok \/ loop.onError = "goes on") IN
    /\ tasks' = [tasks EXCEPT ![s] =
                   IF goesOn THEN [@ EXCEPT !.phase = "waiting", !.since = 0,
                                            !.ok = TRUE]
                   ELSE Free]
    /\ failed' = (failed \/ (tasks[s].kind = "loop" /\ ~goesOn))

Answered(s) ==
    /\ tasks[s].phase = "asking"
    /\ \E seen \in tasks[s].since..remote : list' = seen
    /\ IF loop.loader
       THEN tasks' = [tasks EXCEPT ![s].phase = "loader"] /\ UNCHANGED failed
       ELSE Returns(s, TRUE)
    /\ UNCHANGED <<loop, views, isRefreshing, isLoading, remote, counters, left,
                   cancelled>>

\* A fetch that writes what it got even after an error has started from nothing.
AfterError == IF loop.shows = "old" THEN list ELSE Nothing

Fails(s) ==
    /\ tasks[s].phase = "asking" /\ failures < MaxFailures
    /\ failures' = failures + 1
    /\ list' = AfterError
    /\ IF loop.loader
       THEN /\ tasks' = [tasks EXCEPT ![s].phase = "loader", ![s].ok = FALSE]
            /\ UNCHANGED failed
       ELSE Returns(s, FALSE)
    /\ UNCHANGED <<loop, views, isRefreshing, isLoading, remote, mounts,
                   fetches, left, cancelled>>

LoadedIfAnswered(s) ==
    /\ tasks[s].phase = "loader"
    /\ isLoading' = (isLoading /\ ~tasks[s].ok)
    /\ cancelled' = FALSE
    /\ Returns(s, tasks[s].ok)
    /\ UNCHANGED <<loop, views, isRefreshing, list, remote, counters, left>>

\* The second during which the loader is visible is over.
Loaded(s) ==
    /\ tasks[s].phase = "loader"
    /\ isLoading' = FALSE
    /\ cancelled' = FALSE
    /\ Returns(s, tasks[s].ok)
    /\ UNCHANGED <<loop, views, isRefreshing, list, remote, counters, left>>

WakesOnce(s) ==
    /\ tasks[s].phase = "waiting"
    /\ tasks' = [tasks EXCEPT ![s] = Free]
    /\ UNCHANGED <<loop, views, isRefreshing, isLoading, list, remote, counters,
                   left, cancelled, failed>>

\* The delay is over: the saga reads the flag and calls itself, or returns.
Wakes(s) ==
    /\ tasks[s].phase = "waiting"
    /\ LET again == isRefreshing /\ loop.ownFlag IN
       /\ tasks' = [tasks EXCEPT ![s] = IF again THEN Asking("loop", remote)
                                        ELSE Free]
       /\ isLoading' = (isLoading \/ (again /\ loop.loader))
    /\ UNCHANGED <<loop, views, isRefreshing, list, remote, counters, left,
                   cancelled, failed>>

ServerChanges ==
    /\ remote < MaxVersion
    /\ remote' = remote + 1
    /\ UNCHANGED <<loop, views, isRefreshing, isLoading, tasks, list, counters,
                   left, cancelled, failed>>

Proceeds(s) ==
    Answered(s) \/ Fails(s) \/ Loaded(s) \/ Wakes(s) \/ ChangeAnswered(s)

Next ==
    \/ \E screen \in DOMAIN Screens : Mount(screen) \/ Unmount(screen)
    \/ \E changed \in BOOLEAN : Fetch(changed)
    \/ Change
    \/ \E s \in Slots : Proceeds(s)
    \/ ServerChanges

\* Requests are answered or fail, and timers fire.
Fairness ==
    \A s \in Slots : WF_vars(Proceeds(s))

Spec == Init /\ [][Next]_vars /\ Fairness

-----------------------------------------------------------------------------
(* Properties.                                                             *)

\* The type of the state.
TypeOK ==
    /\ loop \in Loops
    /\ views \subseteq DOMAIN Screens
    /\ {isRefreshing, isLoading, left, cancelled, failed} \subseteq BOOLEAN
    /\ tasks \in [Slots -> Task]
    /\ list \in 0..MaxVersion \cup {Nothing}
    /\ remote \in 0..MaxVersion
    /\ mounts \in 0..MaxMounts
    /\ fetches \in 0..MaxFetches
    /\ failures \in 0..MaxFailures

\* A loop that reads its own flag runs while a screen of it is mounted, unless
\* an error has ended it or a screen that shared it has left: leaving a screen
\* and coming back, at any moment of the old loop, never leaves the new screen
\* without a loop.  After a screen that shared the loop has left, the loop of
\* the screens that stay is always told to stop, until one is mounted again.
MountedIsRefreshed ==
    /\ (loop.ownFlag /\ views # {} /\ ~failed /\ ~left)
          => (isRefreshing /\ Running("loop") # {})
    /\ left => views # {} /\ ~isRefreshing

\* With takeLatest and no other fetch, the page never goes back to an older
\* version, whatever the order of mounts, unmounts and answers.
NeverGoesBack ==
    [][(loop.restart = "latest" /\ fetches = 0) => list' >= list]_vars

\* The loader is up only while some fetch is running: no fetch that failed, and
\* none that was cancelled by a mount or by another fetch, leaves it up.  A
\* change does, when it cancels the fetch of the one before it: until its own
\* fetch starts, and, for a deployment, which may be refused and fetch nothing,
\* until some other fetch ends.
LoaderHasFetch ==
    isLoading =>
        \/ Fetching({"loop", "fetch", "change"}) # {}
        \/ /\ cancelled
           /\ \/ \E s \in Slots : tasks[s].phase = "calling"
              \/ loop.change = "if done"

\* Whatever the order of mounts, unmounts, changes, answers and errors, a
\* mounted screen has a loop, unless another took it away, and the loader is up
\* only during a fetch, unless a change has cancelled it.
RefreshSafe == TypeOK /\ MountedIsRefreshed /\ LoaderHasFetch

\* A screen that stays, with a flag that stays up and no error, shows in the
\* end what the server holds, and keeps showing it.
EndsUpToDate ==
    <>[](isRefreshing /\ loop.ownFlag /\ ~failed) => <>[](list = remote)
=============================================================================
