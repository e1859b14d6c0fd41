------------------------------ MODULE UiSaltJobs ------------------------------
(***************************************************************************)
(* The Salt jobs one browser page follows: src/ui/src/ducks/app/salt.js,   *)
(* the deployments ducks/app/nodes.js starts and announces, and the copy   *)
(* services/salt/utils.js keeps in localStorage.                           *)
(*                                                                         *)
(* Clicking "Deploy" posts an orchestration to the Salt API; its answer    *)
(* adds a job to the Redux store and to localStorage.  When the page is    *)
(* connected to the Salt API it adds back the jobs of localStorage, polls  *)
(* each one, and only then opens the event stream.  A job that ends is     *)
(* marked completed and announced; five minutes later it is forgotten.     *)
(* A reload loses the store, the sagas and the requests, and keeps         *)
(* localStorage.  A poll that fails throws in the saga and stops them all. *)
(*                                                                         *)
(* A completion time is the number of the JOB_COMPLETED dispatch for that  *)
(* job; forgettable[j] is the last of them that is five minutes old.       *)
(* Dispatches and the localStorage write they cause run in one turn of the *)
(* event loop, so one action does both.                                    *)
(***************************************************************************)
EXTENDS Integers, FiniteSets

CONSTANTS
    Jobs,         \* the deployments that can be asked for
    MaxConnects,  \* bound: connections to the Salt API in one load of the page
    MaxReloads,   \* bound: reloads of the page
    None          \* no deployment request is in flight

ASSUME JobsAssumption == None \notin Jobs
ASSUME BoundsAssumption == MaxConnects \in Nat /\ MaxReloads \in Nat

VARIABLES
    alive,        \* the root saga runs
    store,        \* state.app.salt.jobs: a set of entries, copy = rank in the list
    storage,      \* localStorage JOBS: Absent, Null or the completion time
    conns,        \* the runs of initialize and watchSaltEvents of this load
    pending,      \* the deployNode saga waiting for its answer (takeLatest)
    server,       \* the jobs of the Salt master
    completions,  \* how many times JOB_COMPLETED was dispatched for a job
    forgettable,  \* completion times up to this one are five minutes old
    told,         \* how many times the end of a job was announced
    reconnected,  \* some load of the page connected more than once
    reloads

vars == <<alive, store, storage, conns, pending, server, completions,
          forgettable, told, reconnected, reloads>>

Absent == -1
Null == 0
Conns == 1..MaxConnects

Entry == [jid : Jobs, copy : Nat, completedAt : Nat]
Conn == [phase : {"off", "polling", "open", "ended"},
         polled : SUBSET Jobs,   \* the jobs localStorage held
         nulls : SUBSET Jobs,    \* those whose completedAt was null then
         waiting : SUBSET Jobs,  \* those whose poll is unanswered
         ended : SUBSET Jobs,    \* jobs that had ended when the polls were sent
         events : SUBSET Jobs]   \* ends sent on the stream, not yet read

Off == [phase |-> "off", polled |-> {}, nulls |-> {}, waiting |-> {},
        ended |-> {}, events |-> {}]

Init ==
    /\ alive = TRUE
    /\ store = {}
    /\ storage = [j \in Jobs |-> Absent]
    /\ conns = [c \in Conns |-> Off]
    /\ pending = None
    /\ server = [j \in Jobs |-> "none"]
    /\ completions = [j \in Jobs |-> 0]
    /\ forgettable = [j \in Jobs |-> 0]
    /\ told = [j \in Jobs |-> 0]
    /\ reconnected = FALSE
    /\ reloads = 0

-----------------------------------------------------------------------------
(* The reducer and localStorage.                                           *)

Copies(j) == {e \in store : e.jid = j}
NewEntry(j, at) ==
    [jid |-> j, copy |-> Cardinality(Copies(j)), completedAt |-> at]

\* listJobsFromLocalStorage
Saved == {j \in Jobs : storage[j] # Absent}

\* ADD_JOB: one more entry, and localStorage keeps the job unless it has it.
AddJob(j) ==
    /\ store' = store \cup {NewEntry(j, Null)}
    /\ storage' = [storage EXCEPT ![j] = IF @ = Absent THEN Null ELSE @]

\* REMOVE_JOB, for a set of jobs.
RemoveJobs(js) ==
    /\ store' = {e \in store : e.jid \notin js}
    /\ storage' = [j \in Jobs |-> IF j \in js THEN Absent ELSE storage[j]]

CompleteJobInStoreOnly(j) ==
    LET at == completions[j] + 1 IN
    /\ completions' = [completions EXCEPT ![j] = at]
    /\ store' = {[e EXCEPT !.completedAt =
                    IF e.jid = j THEN at ELSE @] : e \in store}
    /\ told' = [told EXCEPT ![j] = IF Copies(j) = {} THEN @ ELSE @ + 1]
    /\ UNCHANGED storage

\* JOB_COMPLETED: every entry of the job, its copy in localStorage, and the
\* announcement made by notifyDeployJobCompleted when the store has the job.
CompleteJob(j) ==
    LET at == completions[j] + 1 IN
    /\ completions' = [completions EXCEPT ![j] = at]
    /\ store' = {[e EXCEPT !.completedAt =
                    IF e.jid = j THEN at ELSE @] : e \in store}
    /\ storage' = [storage EXCEPT ![j] = IF @ = Absent THEN Absent ELSE at]
    /\ told' = [told EXCEPT ![j] = IF Copies(j) = {} THEN @ ELSE @ + 1]

UpdateJobAlways(j, wasNull) == CompleteJob(j)

\* updateJobStatus for a job known to have ended: wasNull is the completedAt
\* of the job object the caller holds, whatever the store says now.
UpdateJobStatus(j, wasNull) ==
    IF wasNull THEN CompleteJob(j)
    ELSE UNCHANGED <<store, storage, completions, told>>

-----------------------------------------------------------------------------
(* Deployments.                                                            *)

\* DEPLOY_NODE: takeLatest cancels the saga of an earlier unanswered request.
DeployNode(j) ==
    /\ alive /\ server[j] = "none"
    /\ pending' = j
    /\ server' = [server EXCEPT ![j] = "asked"]
    /\ UNCHANGED <<alive, store, storage, conns, completions, forgettable,
                   told, reconnected, reloads>>

\* The answer carries the jid: addJobAction.
DeployAnswered ==
    /\ alive /\ pending # None
    /\ server[pending] \in {"running", "done"}
    /\ AddJob(pending)
    /\ pending' = None
    /\ UNCHANGED <<alive, conns, server, completions, forgettable, told,
                   reconnected, reloads>>

\* The request failed, or its answer was lost: a notification, no job.
DeployFailed ==
    /\ alive /\ pending # None
    /\ pending' = None
    /\ UNCHANGED <<alive, store, storage, conns, server, completions,
                   forgettable, told, reconnected, reloads>>

\* The Salt master starts an orchestration, then ends it and sends its return
\* event to the open streams.
ServerStarts(j) ==
    /\ server[j] = "asked"
    /\ server' = [server EXCEPT ![j] = "running"]
    /\ UNCHANGED <<alive, store, storage, conns, pending, completions,
                   forgettable, told, reconnected, reloads>>

ServerEnds(j) ==
    /\ server[j] = "running"
    /\ server' = [server EXCEPT ![j] = "done"]
    /\ conns' = [c \in Conns |->
                   IF conns[c].phase = "open"
                   THEN [conns[c] EXCEPT !.events = @ \cup {j}]
                   ELSE conns[c]]
    /\ UNCHANGED <<alive, store, storage, pending, completions, forgettable,
                   told, reconnected, reloads>>

-----------------------------------------------------------------------------
(* Connecting: initialize, refreshJobStatus, watchSaltEvents.              *)

\* CONNECT_SALT_API: the saved jobs are added (again), then polled.
Connect(c) ==
    /\ alive /\ conns[c].phase = "off"
    /\ \A d \in Conns : d < c => conns[d].phase # "off"
    /\ store' = store \cup {NewEntry(j, storage[j]) : j \in Saved}
    /\ conns' = [conns EXCEPT ![c] =
                   [phase |-> IF Saved = {} THEN "open" ELSE "polling",
                    polled |-> Saved,
                    nulls |-> {j \in Saved : storage[j] = Null},
                    waiting |-> Saved,
                    ended |-> {j \in Jobs : server[j] = "done"},
                    events |-> {}]]
    /\ reconnected' = (reconnected \/ c > 1)
    /\ UNCHANGED <<alive, storage, pending, server, completions, forgettable,
                   told, reloads>>

\* The answer to a poll.  It may have been computed before the job ended, but
\* not before it was asked; an answer that says "running" changes nothing.
PollAnswered(c, j) ==
    LET left == conns[c].waiting \ {j} IN
    /\ alive /\ conns[c].phase = "polling" /\ j \in conns[c].waiting
    /\ conns' = [conns EXCEPT ![c].waiting = left,
                              ![c].phase = IF left = {} THEN "open" ELSE @]
    /\ \/ server[j] = "done" /\ UpdateJobStatus(j, j \in conns[c].nulls)
       \/ j \notin conns[c].ended
          /\ UNCHANGED <<store, storage, completions, told>>
    /\ UNCHANGED <<alive, pending, server, forgettable, reconnected, reloads>>

\* The poll failed: result.return is undefined and the exception ends rootSaga.
PollFailed(c, j) ==
    /\ alive /\ conns[c].phase = "polling" /\ j \in conns[c].waiting
    /\ alive' = FALSE
    /\ UNCHANGED <<store, storage, conns, pending, server, completions,
                   forgettable, told, reconnected, reloads>>

\* An event is read: the first entry of the job, as the store holds it now.
EventRead(c, j) ==
    /\ alive /\ conns[c].phase = "open" /\ j \in conns[c].events
    /\ conns' = [conns EXCEPT ![c].events = @ \ {j}]
    /\ IF Copies(j) = {}
       THEN UNCHANGED <<store, storage, completions, told>>
       ELSE LET related == CHOOSE e \in Copies(j) :
                             \A f \in Copies(j) : e.copy <= f.copy
            IN UpdateJobStatus(j, related.completedAt = Null)
    /\ UNCHANGED <<alive, pending, server, forgettable, reconnected, reloads>>

\* EventSource.onerror ends the channel and with it the saga: never reopened.
StreamEnds(c) ==
    /\ alive /\ conns[c].phase = "open"
    /\ conns' = [conns EXCEPT ![c].phase = "ended", ![c].events = {}]
    /\ UNCHANGED <<alive, store, storage, pending, server, completions,
                   forgettable, told, reconnected, reloads>>

-----------------------------------------------------------------------------
(* Garbage collection, time and reload.                                    *)

Expired(e) == e.completedAt # Null /\ e.completedAt <= forgettable[e.jid]

GarbageCollect ==
    LET toRemove == {e.jid : e \in {f \in store : Expired(f)}} IN
    /\ alive /\ toRemove # {}
    /\ RemoveJobs(toRemove)
    /\ UNCHANGED <<alive, conns, pending, server, completions, forgettable,
                   told, reconnected, reloads>>

FiveMinutesPass(j) ==
    /\ forgettable[j] < completions[j]
    /\ forgettable' = [forgettable EXCEPT ![j] = completions[j]]
    /\ UNCHANGED <<alive, store, storage, conns, pending, server, completions,
                   told, reconnected, reloads>>

Reload ==
    /\ reloads < MaxReloads
    /\ reloads' = reloads + 1
    /\ alive' = TRUE
    /\ store' = {}
    /\ conns' = [c \in Conns |-> Off]
    /\ pending' = None
    /\ UNCHANGED <<storage, server, completions, forgettable, told,
                   reconnected>>

Next ==
    \/ \E j \in Jobs : DeployNode(j) \/ ServerStarts(j) \/ ServerEnds(j)
    \/ DeployAnswered
    \/ DeployFailed
    \/ \E c \in Conns : Connect(c) \/ StreamEnds(c)
    \/ \E c \in Conns, j \in Jobs :
         PollAnswered(c, j) \/ PollFailed(c, j) \/ EventRead(c, j)
    \/ GarbageCollect
    \/ \E j \in Jobs : FiveMinutesPass(j)
    \/ Reload

Spec == Init /\ [][Next]_vars

-----------------------------------------------------------------------------
(* Properties.                                                             *)

\* The type of the state.
TypeOK ==
    /\ alive \in BOOLEAN
    /\ store \subseteq Entry
    /\ storage \in [Jobs -> Nat \cup {Absent}]
    /\ conns \in [Conns -> Conn]
    /\ pending \in Jobs \cup {None}
    /\ server \in [Jobs -> {"none", "asked", "running", "done"}]
    /\ completions \in [Jobs -> Nat]
    /\ forgettable \in [Jobs -> Nat]
    /\ told \in [Jobs -> Nat]
    /\ reconnected \in BOOLEAN
    /\ reloads \in Nat

Connected == \E c \in Conns : conns[c].phase # "off"

\* The list on the page and the one a reload will find agree: every entry, and
\* each of its duplicates, has the completion time localStorage has, and once
\* the page is connected it lists every saved job.
PageMatchesStorage ==
    /\ \A e \in store : storage[e.jid] = e.completedAt
    /\ Connected => \A j \in Saved : Copies(j) # {}

\* A job that had ended before the page connected is known to be completed by
\* the time the event stream is open: opening the stream waits for the polls.
EndedBeforeIsSeen ==
    \A c \in Conns : conns[c].phase \in {"open", "ended"} =>
        \A e \in store : e.jid \in conns[c].polled \cap conns[c].ended
                           => e.completedAt # Null

\* The end of a job is announced once over all reloads, as long as no load of
\* the page connects twice; when one does, two polls of the same job may each
\* announce it, and the comment at salt.js:194 is not kept.
AnnouncedOncePerConnection ==
    ~reconnected => \A j \in Jobs : told[j] <= 1

\* The end of a job that came before the connection is seen, and announced
\* once, over all reloads, while no load connects twice.
JobsSafe == TypeOK /\ EndedBeforeIsSeen /\ AnnouncedOncePerConnection
=============================================================================
