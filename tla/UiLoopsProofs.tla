----------------------------- MODULE UiLoopsProofs -----------------------------
(***************************************************************************)
(* The graphs of a node page match its arguments or a fetch that will make *)
(* them match is on its way, for any nodes and any number of fetches.      *)
(* CurrentOrComing is not inductive: when the fetch it relies on ends, the *)
(* graphs match, but another fetch may end next.  InFlightInv says which   *)
(* fetches those are: without overtaking, fetches for the same arguments.  *)
(* LoopInv is why new arguments are fetched for at once.                   *)
(*                                                                         *)
(* A mounted screen has a refresh loop and the loader is up only during a  *)
(* fetch, for each loop of the UI and any number of mounts, of fetches, of *)
(* changes and of failures; both with the exceptions the code makes.       *)
(* Neither is inductive.  They rest on what a task may be (TaskInv: only a *)
(* loop waits, only a change calls the API) and on the slots: a saga       *)
(* always finds a free one, since each busy slot was taken by a mount, a   *)
(* fetch or a change (SlotsInv).  OrderInv, of the versions the sagas will *)
(* bring, is why what a page shows never goes back where takeLatest should *)
(* prevent it.                                                             *)
(***************************************************************************)
EXTENDS UiLoops, TLAPS, FiniteSetTheorems, SequenceTheorems,
        WellFoundedInduction

-----------------------------------------------------------------------------
(* The graphs of a node.                                                   *)

LoopInv ==
    /\ looping <=> page # NoNode
    /\ page # NoNode => args.node = page

\* Without overtaking every fetch in flight is for the arguments of the store.
InFlightInv ==
    (page # NoNode /\ args.ready /\ ~overtaking) =>
        \A s \in Slots : tasks[s] # Idle => Same(tasks[s], args)

StatsInv == TypeOK /\ LoopInv /\ InFlightInv /\ CurrentOrComing

-----------------------------------------------------------------------------
\* A free slot is found when there is one.
LEMMA AnySlotIsFree ==
    ASSUME NEW ts, FreeSlots(ts) # {}
    PROVE  AnySlot(ts) \in Slots /\ ts[AnySlot(ts)] = Idle
<1>1. AnySlot(ts) \in FreeSlots(ts)
  BY DEF AnySlot
<1> QED BY <1>1 DEF FreeSlots

\* A fork for complete arguments puts a fetch for them in flight, and sees
\* whether it overtakes a fetch for others.
LEMMA ForkedFetch ==
    ASSUME NEW a \in Args, NEW ts \in [Slots -> Task],
           FreeSlots(ts) # {}, ForkFetch(a, ts), a.ready
    PROVE  /\ tasks' \in [Slots -> Task] /\ last' \in 0..MaxTasks
           /\ overtaking' \in BOOLEAN
           /\ \E s \in Slots : tasks'[s] # Idle /\ Same(tasks'[s], a)
           /\ ~overtaking' =>
                \A s \in Slots : tasks'[s] # Idle => Same(tasks'[s], a)
<1> DEFINE s == AnySlot(ts)
           new == [phase |-> "plain", node |-> a.node, avg |-> a.avg]
<1>1. s \in Slots /\ ts[s] = Idle
  BY AnySlotIsFree
<1>2. /\ tasks' = [ts EXCEPT ![s] = new]
      /\ last' = s
      /\ overtaking' = \E r \in Slots : ts[r] # Idle /\ ~Same(ts[r], a)
  BY DEF ForkFetch
<1> HIDE DEF s
<1>3. new \in Task /\ new # Idle /\ Same(new, a)
  BY DEF Args, Task, Idle, Same
<1> HIDE DEF new
<1>4. /\ tasks' \in [Slots -> Task]
      /\ tasks'[s] = new
      /\ \A r \in Slots \ {s} : tasks'[r] = ts[r]
  BY <1>1, <1>2, <1>3
<1>5. last' \in 0..MaxTasks
  BY <1>1, <1>2, UiNodeStatsAssumption DEF Slots
<1>6. overtaking' \in BOOLEAN
  BY <1>2
<1>7. ~overtaking' => \A r \in Slots : tasks'[r] # Idle => Same(tasks'[r], a)
  BY <1>1, <1>2, <1>3, <1>4
<1> QED BY <1>1, <1>3, <1>4, <1>5, <1>6, <1>7

\* A fork for arguments that are not all there leaves the fetches alone.
LEMMA NothingForked ==
    ASSUME NEW a, NEW ts, ForkFetch(a, ts), ~a.ready
    PROVE  tasks' = ts /\ last' = 0 /\ overtaking' = overtaking
BY DEF ForkFetch

\* Whatever the arguments the store has now, the fork for them establishes
\* what the invariant says of the fetches and of the graphs.
LEMMA ForkStep ==
    ASSUME NEW ts \in [Slots -> Task], FreeSlots(ts) # {},
           args' \in Args, overtaking \in BOOLEAN, ForkFetch(args', ts),
           args'.node = page'
    PROVE  /\ tasks' \in [Slots -> Task] /\ last' \in 0..MaxTasks
           /\ overtaking' \in BOOLEAN
           /\ InFlightInv' /\ CurrentOrComing'
<1>1. CASE args'.ready
  <2>1. /\ tasks' \in [Slots -> Task] /\ last' \in 0..MaxTasks
        /\ overtaking' \in BOOLEAN
        /\ \E s \in Slots : tasks'[s] # Idle /\ Same(tasks'[s], args')
        /\ ~overtaking' =>
             \A s \in Slots : tasks'[s] # Idle => Same(tasks'[s], args')
    BY <1>1, ForkedFetch
  <2> QED BY <2>1 DEF InFlightInv, CurrentOrComing, Same
<1>2. CASE ~args'.ready
  <2>1. tasks' = ts /\ last' = 0 /\ overtaking' = overtaking
    BY <1>2, NothingForked
  <2> QED BY <1>2, <2>1, UiNodeStatsAssumption DEF InFlightInv, CurrentOrComing
<1> QED BY <1>1, <1>2

-----------------------------------------------------------------------------
(* The actions.                                                            *)

LEMMA InitStatsInv == Init => StatsInv
<1> SUFFICES ASSUME Init PROVE StatsInv
  OBVIOUS
<1> USE UiNodeStatsAssumption DEF Init
<1>1. Idle \in Task /\ args \in Args /\ metrics \in Shown
  BY DEF Idle, Task, Args, Shown
<1>2. TypeOK
  <2>1. tasks \in [Slots -> Task]
    BY <1>1
  <2>2. last \in 0..MaxTasks /\ updates \in 0..MaxUpdates
    OBVIOUS
  <2> QED BY <1>1, <2>1, <2>2 DEF TypeOK
<1>3. LoopInv /\ InFlightInv /\ CurrentOrComing
  BY DEF LoopInv, InFlightInv, CurrentOrComing
<1> QED BY <1>2, <1>3 DEF StatsInv

LEMMA PlainAnsweredStep ==
    ASSUME StatsInv, NEW s \in Slots, PlainAnswered(s)
    PROVE  StatsInv'
<1>1. /\ tasks' = [tasks EXCEPT ![s].phase = "avg"]
      /\ UNCHANGED <<page, known, showAvg, args, looping, last, metrics,
                     overtaking, updates>>
  BY DEF PlainAnswered
<1>2. tasks \in [Slots -> Task] /\ tasks[s].phase = "plain"
  BY DEF StatsInv, TypeOK, PlainAnswered
<1>3. /\ tasks' \in [Slots -> Task]
      /\ \A r \in Slots : /\ tasks'[r] # Idle <=> tasks[r] # Idle
                          /\ tasks'[r].node = tasks[r].node
                          /\ tasks'[r].avg = tasks[r].avg
  <2> DEFINE new == [tasks[s] EXCEPT !.phase = "avg"]
  <2>1. tasks[s] \in Task
    BY <1>2
  <2>2. /\ new \in Task
        /\ new.node = tasks[s].node /\ new.avg = tasks[s].avg
        /\ new.phase = "avg"
    BY <2>1 DEF Task
  <2>3. tasks[s] # Idle /\ new # Idle
    BY <1>2, <2>2 DEF Idle
  <2>4. /\ tasks' \in [Slots -> Task]
        /\ tasks'[s] = new
        /\ \A r \in Slots \ {s} : tasks'[r] = tasks[r]
    BY <1>1, <1>2, <2>2
  <2> QED BY <2>2, <2>3, <2>4
<1>4. TypeOK'
  BY <1>1, <1>3 DEF StatsInv, TypeOK
<1>5. LoopInv'
  BY <1>1 DEF StatsInv, LoopInv
<1>6. InFlightInv'
  BY <1>1, <1>3 DEF StatsInv, InFlightInv, Same
<1>7. CurrentOrComing'
  BY <1>1, <1>3 DEF StatsInv, CurrentOrComing, Same
<1> QED BY <1>4, <1>5, <1>6, <1>7 DEF StatsInv

\* The fetch that ends makes the graphs match, unless it was overtaken.
LEMMA WrittenStep ==
    ASSUME StatsInv, NEW s \in Slots, Written(s)
    PROVE  StatsInv'
<1>1. /\ metrics' = [node |-> tasks[s].node, avg |-> tasks[s].avg]
      /\ tasks' = [tasks EXCEPT ![s] = Idle]
      /\ last' = IF last = s THEN 0 ELSE last
      /\ UNCHANGED <<page, known, showAvg, args, looping, overtaking, updates>>
  BY DEF Written
<1>2. tasks \in [Slots -> Task] /\ tasks[s] # Idle
  BY DEF StatsInv, TypeOK, Written, Idle
<1>3. tasks' \in [Slots -> Task] /\ metrics' \in Shown /\ last' \in 0..MaxTasks
  BY <1>1, <1>2, UiNodeStatsAssumption
     DEF StatsInv, TypeOK, Task, Idle, Shown
<1>4. TypeOK'
  BY <1>1, <1>3 DEF StatsInv, TypeOK
<1>5. LoopInv'
  BY <1>1 DEF StatsInv, LoopInv
<1>6. InFlightInv'
  BY <1>1, <1>2 DEF StatsInv, InFlightInv, Same
<1>7. CurrentOrComing'
  <2>1. (page # NoNode /\ args.ready /\ ~overtaking) => Same(tasks[s], args)
    BY <1>2 DEF StatsInv, InFlightInv
  <2>2. Same(tasks[s], args) => Same(metrics', args)
    BY <1>1 DEF Same
  <2> QED BY <1>1, <2>1, <2>2 DEF StatsInv, CurrentOrComing, Same
<1> QED BY <1>4, <1>5, <1>6, <1>7 DEF StatsInv

LEMMA RequeueStep ==
    ASSUME StatsInv, Requeue
    PROVE  StatsInv'
<1>1. /\ looping /\ FreeSlots(tasks) # {} /\ ForkFetch(args, tasks)
      /\ UNCHANGED <<page, known, showAvg, args, looping, metrics, updates>>
  BY DEF Requeue
<1>2. tasks \in [Slots -> Task] /\ args \in Args /\ overtaking \in BOOLEAN
  BY DEF StatsInv, TypeOK
<1>3. args.node = page
  BY <1>1 DEF StatsInv, LoopInv
<1>4. /\ tasks' \in [Slots -> Task] /\ last' \in 0..MaxTasks
      /\ overtaking' \in BOOLEAN /\ InFlightInv' /\ CurrentOrComing'
  BY <1>1, <1>2, <1>3, ForkStep
<1>5. TypeOK'
  BY <1>1, <1>4 DEF StatsInv, TypeOK
<1>6. LoopInv'
  BY <1>1 DEF StatsInv, LoopInv
<1> QED BY <1>4, <1>5, <1>6 DEF StatsInv

\* The arguments change while the watcher runs its loop: a fetch is forked.
LEMMA UpdateArgsStep ==
    ASSUME StatsInv, NEW n \in Nodes, page' = n, looping, looping' = looping,
           FreeSlots(tasks) # {}, UpdateArgs(n, looping),
           known' \subseteq Nodes, showAvg' \in BOOLEAN,
           UNCHANGED metrics, updates' \in 0..MaxUpdates
    PROVE  StatsInv'
<1>1. args' = ArgsOf(n) /\ ForkFetch(args', tasks)
  BY DEF UpdateArgs
<1>2. args' \in Args /\ args'.node = page'
  BY <1>1 DEF ArgsOf, Args
<1>3. tasks \in [Slots -> Task] /\ overtaking \in BOOLEAN
  BY DEF StatsInv, TypeOK
<1>4. /\ tasks' \in [Slots -> Task] /\ last' \in 0..MaxTasks
      /\ overtaking' \in BOOLEAN /\ InFlightInv' /\ CurrentOrComing'
  BY <1>1, <1>2, <1>3, ForkStep
<1>5. TypeOK'
  BY <1>2, <1>4 DEF StatsInv, TypeOK
<1>6. LoopInv'
  BY <1>2, UiNodeStatsAssumption DEF StatsInv, LoopInv
<1> QED BY <1>4, <1>5, <1>6 DEF StatsInv

LEMMA CountsBound ==
    ASSUME Counts, updates \in 0..MaxUpdates
    PROVE  updates' \in 0..MaxUpdates
BY UiNodeStatsAssumption DEF Counts

LEMMA SwitchNodeStep ==
    ASSUME StatsInv, NEW n \in Nodes, SwitchNode(n)
    PROVE  StatsInv'
<1>1. /\ page # NoNode /\ FreeSlots(tasks) # {} /\ page' = n /\ Counts
      /\ UNCHANGED <<known, showAvg, looping, metrics>>
      /\ UpdateArgs(n, looping)
  BY DEF SwitchNode
<1>2. looping /\ known \subseteq Nodes /\ showAvg \in BOOLEAN
  BY <1>1 DEF StatsInv, LoopInv, TypeOK
<1>3. updates' \in 0..MaxUpdates
  BY <1>1, CountsBound DEF StatsInv, TypeOK
<1> QED BY <1>1, <1>2, <1>3, UpdateArgsStep

LEMMA ToggleAvgStep ==
    ASSUME StatsInv, ToggleAvg
    PROVE  StatsInv'
<1>1. /\ page # NoNode /\ FreeSlots(tasks) # {} /\ Counts
      /\ showAvg' = ~showAvg
      /\ UNCHANGED <<page, known, looping, metrics>>
      /\ UpdateArgs(page, looping)
  BY DEF ToggleAvg
<1>2. looping /\ page \in Nodes /\ known \subseteq Nodes
  BY <1>1 DEF StatsInv, LoopInv, TypeOK
<1>3. updates' \in 0..MaxUpdates
  BY <1>1, CountsBound DEF StatsInv, TypeOK
<1>4. showAvg' \in BOOLEAN
  BY <1>1
<1> QED BY <1>1, <1>2, <1>3, <1>4, UpdateArgsStep

\* When the new list does not concern the page, nothing it relies on moves.
LEMMA InfoArrivesStep ==
    ASSUME StatsInv, NEW answers, InfoArrives(answers)
    PROVE  StatsInv'
<1>1. /\ FreeSlots(tasks) # {} /\ known' \subseteq Nodes
      /\ UNCHANGED <<page, showAvg, looping, metrics, updates>>
  BY DEF InfoArrives
<1>2. showAvg \in BOOLEAN /\ updates \in 0..MaxUpdates
  BY DEF StatsInv, TypeOK
<1>3. CASE page # NoNode /\ UpdateArgs(page, looping)
  <2>1. looping /\ page \in Nodes
    BY <1>3 DEF StatsInv, LoopInv, TypeOK
  <2> QED BY <1>1, <1>2, <1>3, <2>1, UpdateArgsStep
<1>4. CASE UNCHANGED <<args, tasks, last, overtaking>>
  <2>1. TypeOK'
    BY <1>1, <1>4 DEF StatsInv, TypeOK
  <2>2. LoopInv' /\ InFlightInv' /\ CurrentOrComing'
    BY <1>1, <1>4
       DEF StatsInv, LoopInv, InFlightInv, CurrentOrComing, Same
  <2> QED BY <2>1, <2>2 DEF StatsInv
<1> QED BY <1>3, <1>4 DEF InfoArrives

\* The second of the two fetches of a mount is for the page that is mounted.
LEMMA OpenNodeStep ==
    ASSUME StatsInv, NEW n \in Nodes, OpenNode(n)
    PROVE  StatsInv'
<1> DEFINE late == [phase |-> "plain", node |-> args.node, avg |-> args.avg]
           forked == IF args.ready
                     THEN [tasks EXCEPT ![AnySlot(tasks)] = late]
                     ELSE tasks
<1>1. /\ page' = n /\ looping' = TRUE /\ args' = ArgsOf(n) /\ Counts
      /\ UNCHANGED <<known, showAvg, metrics>>
      /\ ForkFetch(args', forked)
  BY DEF OpenNode
<1>2. /\ tasks \in [Slots -> Task] /\ args \in Args /\ known \subseteq Nodes
      /\ showAvg \in BOOLEAN /\ overtaking \in BOOLEAN /\ metrics \in Shown
  BY DEF StatsInv, TypeOK
<1>3. forked \in [Slots -> Task]
  BY <1>2 DEF Args, Task
<1>4. FreeSlots(forked) # {}
  <2>1. PICK r \in FreeSlots(tasks) : r # AnySlot(tasks)
    BY DEF OpenNode
  <2>2. r \in Slots /\ forked[r] = tasks[r]
    BY <1>2, <2>1 DEF FreeSlots
  <2> QED BY <2>1, <2>2 DEF FreeSlots
<1>5. args' \in Args /\ args'.node = page'
  BY <1>1, <1>2 DEF ArgsOf, Args
<1> HIDE DEF forked
<1>6. /\ tasks' \in [Slots -> Task] /\ last' \in 0..MaxTasks
      /\ overtaking' \in BOOLEAN /\ InFlightInv' /\ CurrentOrComing'
  BY <1>1, <1>2, <1>3, <1>4, <1>5, ForkStep
<1>7. updates' \in 0..MaxUpdates
  BY <1>1, CountsBound DEF StatsInv, TypeOK
<1>8. TypeOK'
  BY <1>1, <1>2, <1>5, <1>6, <1>7 DEF TypeOK
<1>9. LoopInv'
  BY <1>1, <1>5, UiNodeStatsAssumption DEF LoopInv
<1> QED BY <1>6, <1>8, <1>9 DEF StatsInv

LEMMA LeaveNodeStep ==
    ASSUME StatsInv, LeaveNode
    PROVE  StatsInv'
<1>1. /\ page' = NoNode /\ looping' = FALSE /\ last' = 0
      /\ tasks' = IF last = 0 THEN tasks ELSE [tasks EXCEPT ![last] = Idle]
      /\ UNCHANGED <<known, showAvg, args, metrics, overtaking, updates>>
  BY DEF LeaveNode
<1>2. tasks' \in [Slots -> Task] /\ last' \in 0..MaxTasks
  <2>1. tasks \in [Slots -> Task]
    BY DEF StatsInv, TypeOK
  <2>2. Idle \in Task
    BY DEF Task, Idle
  <2>3. tasks' = tasks \/ tasks' = [tasks EXCEPT ![last] = Idle]
    BY <1>1
  <2>4. tasks' \in [Slots -> Task]
    BY <2>1, <2>2, <2>3
  <2>5. last' \in 0..MaxTasks
    BY <1>1, UiNodeStatsAssumption
  <2> QED BY <2>4, <2>5
<1>3. TypeOK'
  BY <1>1, <1>2 DEF StatsInv, TypeOK
<1> QED
  BY <1>1, <1>3 DEF StatsInv, LoopInv, InFlightInv, CurrentOrComing

LEMMA NextStatsInv == StatsInv /\ [Next]_vars => StatsInv'
<1> SUFFICES ASSUME StatsInv, [Next]_vars PROVE StatsInv'
  OBVIOUS
<1>1. CASE UNCHANGED vars
  BY <1>1 DEF vars, StatsInv, TypeOK, LoopInv, InFlightInv, CurrentOrComing,
              Same
<1> QED
  BY <1>1, OpenNodeStep, SwitchNodeStep, InfoArrivesStep, ToggleAvgStep,
     LeaveNodeStep, RequeueStep, PlainAnsweredStep, WrittenStep DEF Next

-----------------------------------------------------------------------------
\* Whatever the order of visits, of changes of the arguments, of periods and
\* of answers, the graphs of a mounted page match its arguments, or a fetch
\* for them is in flight, or the last fork is known to have overtaken one.
THEOREM GraphsCurrentOrComing == Spec => []CurrentOrComing
<1>1. Init => StatsInv
  BY InitStatsInv
<1>2. StatsInv /\ [Next]_vars => StatsInv'
  BY NextStatsInv
<1>3. StatsInv => CurrentOrComing
  BY DEF StatsInv
<1> QED BY <1>1, <1>2, <1>3, PTL DEF Spec

-----------------------------------------------------------------------------
(* The refresh loops.                                                      *)

Busy == {s \in R!Slots : rTasks[s] # R!Free}

SlotsInv == Cardinality(Busy) <= rMounts + rFetches

\* What a task may be: a free slot has no kind and no phase, only the loops
\* that show a loader are in its phase, only loops wait, and only changes call.
TaskInv == \A s \in R!Slots :
    /\ rTasks[s] # R!Free => rTasks[s].kind # "none" /\ rTasks[s].phase # "none"
    /\ rTasks[s].phase = "loader" => rLoop.loader
    /\ rTasks[s].phase = "waiting" => rTasks[s].kind = "loop"
    /\ rTasks[s].phase = "calling" =>
         rTasks[s].kind = "change" /\ rLoop.change \in {"always", "if done"}

LoaderInv == rIsLoading => rLoop.loader

RefreshInv ==
    /\ R!RefreshSafe
    /\ SlotsInv /\ TaskInv /\ LoaderInv

-----------------------------------------------------------------------------
(* The slots.                                                              *)

\* A set of numbers has a smallest one.
LEMMA HasLeast ==
    ASSUME NEW S, S \subseteq Nat, S # {}
    PROVE  \E n \in S : \A m \in S : n <= m
<1>1. PICK less : /\ less = {p \in Nat \X Nat : p[1] < p[2]}
               /\ IsWellFoundedOn(less, Nat)
  BY NatLessThanWellFounded DEF OpToRel
<1>2. PICK n \in S : \A m \in S : <<m, n>> \notin less
  BY <1>1, WFMin
<1>3. ASSUME NEW m \in S PROVE n <= m
  <2>1. m \in Nat /\ n \in Nat
    BY <1>2
  <2>2. ~(m < n)
    BY <1>1, <1>2, <2>1
  <2> QED BY <2>1, <2>2
<1> QED BY <1>2, <1>3

LEMMA SlotsFinite ==
    ASSUME R!RefreshAssumption
    PROVE  /\ MaxMounts + MaxFetches \in Nat
           /\ R!Slots \subseteq Nat /\ IsFiniteSet(R!Slots)
           /\ Cardinality(R!Slots) = MaxMounts + MaxFetches
           /\ IsFiniteSet(Busy) /\ Cardinality(Busy) \in Nat
<1>1. MaxMounts + MaxFetches \in Nat
  BY DEF R!RefreshAssumption
<1>2. R!Slots \subseteq Nat
  BY <1>1 DEF R!Slots
<1>3. IsFiniteSet(R!Slots) /\ Cardinality(R!Slots) = MaxMounts + MaxFetches
  BY <1>1, FS_Interval DEF R!Slots
<1>4. IsFiniteSet(Busy)
  BY <1>3, FS_Subset DEF Busy
<1>5. Cardinality(Busy) \in Nat
  BY <1>4, FS_CardinalityType
<1> QED BY <1>1, <1>2, <1>3, <1>4, <1>5

\* A saga that starts while the bounds allow it finds a free slot.
LEMMA FirstFreeIsFree ==
    ASSUME R!RefreshAssumption, R!TypeOK, SlotsInv,
           rMounts < MaxMounts \/ rFetches < MaxFetches
    PROVE  R!FirstFree \in R!Slots /\ rTasks[R!FirstFree] = R!Free
<1> DEFINE free == {s \in R!Slots : rTasks[s] = R!Free}
<1>1. rMounts + rFetches < MaxMounts + MaxFetches
  BY DEF R!RefreshAssumption, R!TypeOK
<1>2. Cardinality(Busy) < Cardinality(R!Slots)
  BY <1>1, SlotsFinite DEF SlotsInv, R!TypeOK, R!RefreshAssumption
<1>3. free # {}
  <2>1. Busy # R!Slots
    BY <1>2, SlotsFinite
  <2> QED BY <2>1 DEF Busy
<1>4. PICK s \in free : \A r \in free : s <= r
  <2>1. free \subseteq Nat
    BY SlotsFinite
  <2> HIDE DEF free
  <2> QED BY <1>3, <2>1, HasLeast
<1>5. \E t \in R!Slots : rTasks[t] = R!Free /\ \A r \in R!Slots : rTasks[r] = R!Free => t <= r
  BY <1>4
<1> QED BY <1>5 DEF R!FirstFree

\* The tasks after a saga has started.
LEMMA Launching ==
    ASSUME R!RefreshAssumption, RefreshInv,
           rMounts < MaxMounts \/ rFetches < MaxFetches,
           NEW new \in R!Task, new.kind # "none",
           NEW watcher, R!Launch(new, watcher)
    PROVE  /\ rTasks' \in [R!Slots -> R!Task]
           /\ Cardinality(Busy') <= Cardinality(Busy) + 1
           /\ \E s \in R!Slots : /\ rTasks[s] = R!Free
                                 /\ rTasks'[s] = new
                                 /\ \A r \in R!Slots : r # s =>
                                      \/ rTasks'[r] = rTasks[r]
                                      \/ /\ rTasks'[r] = R!Free
                                         /\ rTasks[r].kind = new.kind
                                         /\ watcher = "latest"
                                 /\ watcher = "latest" =>
                                      \A r \in R!Slots : r # s =>
                                          rTasks'[r].kind # new.kind
<1>1. /\ R!FirstFree \in R!Slots /\ rTasks[R!FirstFree] = R!Free
      /\ rTasks \in [R!Slots -> R!Task]
  BY FirstFreeIsFree DEF RefreshInv, R!RefreshSafe, R!TypeOK
<1>2. R!Free \in R!Task /\ R!Free.kind = "none"
  BY DEF R!Task, R!Free
<1>3. rTasks' = [s \in R!Slots |->
                  IF s = R!FirstFree THEN new
                  ELSE IF watcher = "latest" /\ rTasks[s].kind = new.kind THEN R!Free
                  ELSE rTasks[s]]
  BY DEF R!Launch
<1>4. rTasks' \in [R!Slots -> R!Task]
  BY <1>1, <1>2, <1>3
<1>5. Busy' \subseteq Busy \cup {R!FirstFree}
  BY <1>3 DEF Busy
<1>6. Cardinality(Busy') <= Cardinality(Busy) + 1
  <2> DEFINE more == Busy \cup {R!FirstFree}
  <2>5. IsFiniteSet(Busy) /\ Cardinality(Busy) \in Nat
    BY SlotsFinite
  <2>1. /\ IsFiniteSet(more)
        /\ Cardinality(more) = IF R!FirstFree \in Busy THEN Cardinality(Busy)
                              ELSE Cardinality(Busy) + 1
    BY <2>5, FS_AddElement
  <2>2. /\ Cardinality(Busy') <= Cardinality(more)
        /\ Cardinality(Busy') \in Nat
    BY <1>5, <2>1, FS_Subset, FS_CardinalityType
  <2> HIDE DEF more
  <2>3. Cardinality(more) <= Cardinality(Busy) + 1
    BY <2>5, <2>1
  <2>4. Cardinality(more) \in Nat
    BY <2>1, FS_CardinalityType
  <2> QED BY <2>5, <2>2, <2>3, <2>4
<1> QED BY <1>1, <1>2, <1>3, <1>4, <1>6

\* The tasks that are launched.
LEMMA NewTasks ==
    ASSUME NEW version \in Nat
    PROVE  /\ \A kind \in {"loop", "fetch", "change"} :
                /\ R!Asking(kind, version) \in R!Task
                /\ R!Asking(kind, version).kind = kind
                /\ R!Asking(kind, version).phase = "asking"
                /\ R!Asking(kind, version).since = version
           /\ R!Calling \in R!Task /\ R!Calling.kind = "change"
           /\ R!Calling.phase = "calling" /\ R!Calling.since = 0
           /\ R!Free \in R!Task /\ R!Free.kind = "none"
           /\ R!Free.phase = "none" /\ R!Free.since = 0
BY DEF R!Asking, R!Calling, R!Task, R!Free

\* A step that takes no slot keeps the number of busy ones within the counters.
LEMMA FewerBusy ==
    ASSUME R!RefreshAssumption, SlotsInv, R!TypeOK,
           \A s \in R!Slots : rTasks'[s] # R!Free => rTasks[s] # R!Free,
           UNCHANGED <<rMounts, rFetches>>
    PROVE  SlotsInv'
<1>1. Busy' \subseteq Busy
  BY DEF Busy
<1>2. Cardinality(Busy') <= Cardinality(Busy) /\ Cardinality(Busy') \in Nat
  BY <1>1, SlotsFinite, FS_Subset, FS_CardinalityType
<1> QED BY <1>2, SlotsFinite DEF SlotsInv, R!TypeOK

-----------------------------------------------------------------------------
(* The steps.                                                              *)

LEMMA InitRefreshInv ==
    ASSUME R!RefreshAssumption, R!Init
    PROVE  RefreshInv
<1>1. /\ 0 \in 0..MaxVersion /\ 0 \in 0..MaxMounts /\ 0 \in 0..MaxFetches
      /\ 0 \in 0..MaxFailures
  BY DEF R!RefreshAssumption
<1>2. R!Free \in R!Task
  BY DEF R!Free, R!Task
<1>3. R!TypeOK
  BY <1>1, <1>2 DEF R!Init, R!TypeOK
<1>4. Busy = {}
  BY DEF R!Init, Busy
<1>5. SlotsInv
  BY <1>4, FS_EmptySet DEF R!Init, SlotsInv
<1>6. TaskInv
  BY DEF R!Init, TaskInv, R!Free
<1>7. R!MountedIsRefreshed /\ R!LoaderHasFetch /\ LoaderInv
  BY DEF R!Init, R!MountedIsRefreshed, R!LoaderHasFetch, LoaderInv
<1> QED BY <1>3, <1>5, <1>6, <1>7 DEF RefreshInv, R!RefreshSafe

\* One more saga is counted.
LEMMA OneMoreBusy ==
    ASSUME R!RefreshAssumption, RefreshInv,
           Cardinality(Busy') <= Cardinality(Busy) + 1,
           \/ rMounts' = rMounts + 1 /\ rFetches' = rFetches
           \/ rFetches' = rFetches + 1 /\ rMounts' = rMounts,
           rTasks' \in [R!Slots -> R!Task]
    PROVE  SlotsInv'
<1>1. Cardinality(Busy) \in Nat /\ Cardinality(Busy') \in Nat
  <2>1. IsFiniteSet(Busy')
    BY SlotsFinite, FS_Subset DEF Busy
  <2> QED BY <2>1, SlotsFinite, FS_CardinalityType
<1>2. /\ Cardinality(Busy) <= rMounts + rFetches
      /\ rMounts \in Nat /\ rFetches \in Nat
  BY DEF RefreshInv, R!RefreshSafe, SlotsInv, R!TypeOK, R!RefreshAssumption
<1> QED BY <1>1, <1>2 DEF SlotsInv

\* A screen is mounted: its saga takes a free slot and is in its fetch.
LEMMA MountStep ==
    ASSUME R!RefreshAssumption, RefreshInv,
           NEW screen \in DOMAIN R!Screens, R!Mount(screen)
    PROVE  RefreshInv'
<1> DEFINE new == R!Asking("loop", rRemote)
<1>1. /\ rMounts < MaxMounts /\ rMounts' = rMounts + 1
      /\ rViews' = rViews \cup {screen}
      /\ rIsRefreshing' = TRUE /\ rFailed' = FALSE /\ rLeft' = FALSE
      /\ rIsLoading' = (rIsLoading \/ rLoop.loader)
      /\ UNCHANGED <<rLoop, rList, rRemote, rFetches, rFailures, rCancelled>>
      /\ R!Launch(new, rLoop.restart)
  BY DEF R!Mount
<1>2. R!TypeOK
  BY DEF RefreshInv, R!RefreshSafe
<1>3. new \in R!Task /\ new.kind = "loop" /\ new.phase = "asking"
  <2>1. rRemote \in Nat
    BY <1>2 DEF R!TypeOK, R!RefreshAssumption
  <2> QED BY <2>1, NewTasks
<1> HIDE DEF new
<1>4. /\ rTasks' \in [R!Slots -> R!Task]
      /\ Cardinality(Busy') <= Cardinality(Busy) + 1
  BY <1>1, <1>3, Launching
<1>5. PICK s \in R!Slots :
        /\ rTasks'[s] = new
        /\ \A r \in R!Slots : r # s => rTasks'[r] = rTasks[r] \/ rTasks'[r] = R!Free
  BY <1>1, <1>3, Launching
<1>6. R!TypeOK'
  <2>1. rMounts' \in 0..MaxMounts
    BY <1>1, <1>2 DEF R!TypeOK, R!RefreshAssumption
  <2> QED BY <1>1, <1>2, <1>4, <2>1 DEF R!TypeOK
<1>7. SlotsInv'
  BY <1>1, <1>4, OneMoreBusy
<1>8. TaskInv'
  <2>1. rLoop' = rLoop /\ TaskInv
    BY <1>1 DEF RefreshInv
  <2>2. R!Free.phase = "none" /\ R!Free.kind = "none"
    BY DEF R!Free
  <2> QED BY <1>3, <1>5, <2>1, <2>2 DEF TaskInv
<1>9. LoaderInv' /\ R!LoaderHasFetch'
  BY <1>1, <1>3, <1>5 DEF RefreshInv, LoaderInv, R!LoaderHasFetch, R!Fetching
<1>10. R!MountedIsRefreshed'
  BY <1>1, <1>3, <1>5 DEF R!MountedIsRefreshed, R!Running
<1> QED BY <1>6, <1>7, <1>8, <1>9, <1>10 DEF RefreshInv, R!RefreshSafe

\* The screen that leaves was the only one, or the others are left without a
\* loop.
LEMMA UnmountStep ==
    ASSUME R!RefreshAssumption, RefreshInv,
           NEW screen \in DOMAIN R!Screens, R!Unmount(screen)
    PROVE  RefreshInv'
<1>1. /\ screen \in rViews /\ rViews' = rViews \ {screen} /\ rIsRefreshing' = FALSE
      /\ rLeft' = (rViews' # {})
      /\ UNCHANGED <<rLoop, rIsLoading, rTasks, rList, rRemote, R!counters,
                     rCancelled, rFailed>>
  BY DEF R!Unmount
<1>2. R!TypeOK'
  BY <1>1 DEF RefreshInv, R!RefreshSafe, R!TypeOK, R!counters
<1>3. SlotsInv' /\ TaskInv' /\ LoaderInv' /\ R!LoaderHasFetch'
  BY <1>1 DEF RefreshInv, R!RefreshSafe, SlotsInv, Busy, TaskInv, LoaderInv,
              R!LoaderHasFetch, R!Fetching, R!counters
<1>4. R!MountedIsRefreshed'
  BY <1>1 DEF R!MountedIsRefreshed
<1> QED BY <1>2, <1>3, <1>4 DEF RefreshInv, R!RefreshSafe

\* A fetch outside of the loop takes a slot, and cancels other such fetches at
\* most: the loop of the screen goes on.
LEMMA FetchStep ==
    ASSUME R!RefreshAssumption, RefreshInv,
           NEW changed \in BOOLEAN, R!Fetch(changed)
    PROVE  RefreshInv'
<1> DEFINE new == R!Asking("fetch", rRemote')
<1>1. /\ rFetches < MaxFetches /\ rFetches' = rFetches + 1
      /\ rIsLoading' = (rIsLoading \/ rLoop.loader)
      /\ changed => rRemote < MaxVersion
      /\ rRemote' = IF changed THEN rRemote + 1 ELSE rRemote
      /\ UNCHANGED <<rLoop, rViews, rIsRefreshing, rList, rMounts, rFailures, rLeft,
                     rCancelled, rFailed>>
      /\ R!Launch(new, rLoop.fetch)
  BY DEF R!Fetch
<1>2. R!TypeOK
  BY DEF RefreshInv, R!RefreshSafe
<1>3. rRemote' \in 0..MaxVersion
  BY <1>1, <1>2 DEF R!TypeOK, R!RefreshAssumption
<1>4. new \in R!Task /\ new.kind = "fetch" /\ new.phase = "asking"
  <2>1. rRemote' \in Nat
    BY <1>3 DEF R!RefreshAssumption
  <2> QED BY <2>1, NewTasks
<1> HIDE DEF new
<1>5. /\ rTasks' \in [R!Slots -> R!Task]
      /\ Cardinality(Busy') <= Cardinality(Busy) + 1
  BY <1>1, <1>4, Launching
<1>6. PICK s \in R!Slots :
        /\ rTasks[s] = R!Free
        /\ rTasks'[s] = new
        /\ \A r \in R!Slots : r # s =>
             \/ rTasks'[r] = rTasks[r]
             \/ rTasks'[r] = R!Free /\ rTasks[r].kind = "fetch"
  BY <1>1, <1>4, Launching
<1>7. R!TypeOK'
  <2>1. rFetches' \in 0..MaxFetches
    BY <1>1, <1>2 DEF R!TypeOK, R!RefreshAssumption
  <2> QED BY <1>1, <1>2, <1>3, <1>5, <2>1 DEF R!TypeOK
<1>8. SlotsInv'
  BY <1>1, <1>5, OneMoreBusy
<1>9. TaskInv'
  BY <1>1, <1>4, <1>6 DEF RefreshInv, TaskInv, R!Free
<1>10. LoaderInv' /\ R!LoaderHasFetch'
  BY <1>1, <1>4, <1>6 DEF RefreshInv, LoaderInv, R!LoaderHasFetch, R!Fetching
<1>11. R!MountedIsRefreshed'
  <2>1. ASSUME NEW r \in R!Running("loop")
        PROVE  r \in R!Running("loop")'
    BY <1>6 DEF R!Running, R!Free
  <2> QED BY <1>1, <2>1 DEF RefreshInv, R!RefreshSafe, R!MountedIsRefreshed
<1> QED BY <1>7, <1>8, <1>9, <1>10, <1>11 DEF RefreshInv, R!RefreshSafe

\* A change takes a slot and cancels other changes at most: if one of them was
\* in its fetch, the loader is up without it, and that is known.
LEMMA ChangeStep ==
    ASSUME R!RefreshAssumption, RefreshInv, R!Change
    PROVE  RefreshInv'
<1> DEFINE new == R!Calling
<1>1. /\ rViews \cap R!ScreensThatChange(rLoop) # {}
      /\ rFetches < MaxFetches /\ rFetches' = rFetches + 1
      /\ rCancelled' = (rCancelled \/ R!Fetching({"change"}) # {})
      /\ UNCHANGED <<rLoop, rViews, rIsRefreshing, rIsLoading, rList, rRemote, rMounts,
                     rFailures, rLeft, rFailed>>
      /\ R!Launch(new, "latest")
  BY DEF R!Change
<1>2. R!TypeOK
  BY DEF RefreshInv, R!RefreshSafe
<1>3. new \in R!Task /\ new.kind = "change" /\ new.phase = "calling"
  BY NewTasks
<1> HIDE DEF new
<1>4. rLoop.change \in {"always", "if done"}
  BY <1>1 DEF R!ScreensThatChange
<1>5. /\ rTasks' \in [R!Slots -> R!Task]
      /\ Cardinality(Busy') <= Cardinality(Busy) + 1
  BY <1>1, <1>3, Launching
<1>6. PICK s \in R!Slots :
        /\ rTasks[s] = R!Free
        /\ rTasks'[s] = new
        /\ \A r \in R!Slots : r # s =>
             \/ rTasks'[r] = rTasks[r]
             \/ rTasks'[r] = R!Free /\ rTasks[r].kind = "change"
  BY <1>1, <1>3, Launching
<1>7. R!TypeOK'
  <2>1. rFetches' \in 0..MaxFetches
    BY <1>1, <1>2 DEF R!TypeOK, R!RefreshAssumption
  <2> QED BY <1>1, <1>2, <1>5, <2>1 DEF R!TypeOK
<1>8. SlotsInv'
  BY <1>1, <1>5, OneMoreBusy
<1>9. TaskInv' /\ LoaderInv'
  BY <1>1, <1>3, <1>4, <1>6 DEF RefreshInv, TaskInv, LoaderInv, R!Free
<1>10. R!LoaderHasFetch'
  <2> SUFFICES ASSUME rIsLoading,
                      R!Fetching({"loop", "fetch", "change"})' = {}
               PROVE  rCancelled'
    BY <1>1, <1>3, <1>6 DEF R!LoaderHasFetch
  <2>1. CASE rCancelled
    BY <1>1, <2>1
  <2>2. CASE ~rCancelled
    <3>1. PICK r \in R!Slots : /\ rTasks[r].kind \in {"loop", "fetch", "change"}
                               /\ rTasks[r].phase \in {"asking", "loader"}
      BY <2>2 DEF RefreshInv, R!RefreshSafe, R!LoaderHasFetch, R!Fetching
    <3>2. r # s
      BY <1>6, <3>1 DEF R!Free
    <3>3. rTasks'[r] # rTasks[r]
      BY <3>1 DEF R!Fetching
    <3>4. rTasks[r].kind = "change"
      BY <1>6, <3>2, <3>3
    <3> QED BY <1>1, <3>1, <3>4 DEF R!Fetching
  <2> QED BY <2>1, <2>2
<1>11. R!MountedIsRefreshed'
  <2>1. ASSUME NEW r \in R!Running("loop")
        PROVE  r \in R!Running("loop")'
    BY <1>6 DEF R!Running, R!Free
  <2> QED BY <1>1, <2>1 DEF RefreshInv, R!RefreshSafe, R!MountedIsRefreshed
<1> QED BY <1>7, <1>8, <1>9, <1>10, <1>11 DEF RefreshInv, R!RefreshSafe

\* The steps of one saga.  It keeps its kind or is over; it is over only when
\* it is not the loop of a mounted screen, or has failed; if it leaves the fetch
\* while a loader is shown, so does the loader; and a change that ends without
\* a fetch may leave up only a loader that is known to be left up.
LEMMA SagaStep ==
    ASSUME R!RefreshAssumption, RefreshInv, NEW s \in R!Slots, NEW new \in R!Task,
           rTasks[s] # R!Free, rTasks' = [rTasks EXCEPT ![s] = new],
           UNCHANGED <<rLoop, rViews, rIsRefreshing, rMounts, rFetches, rLeft>>,
           rIsLoading' \in BOOLEAN, rFailed' \in BOOLEAN, rCancelled' \in BOOLEAN,
           rList' \in 0..MaxVersion \cup {R!Nothing},
           rRemote' \in 0..MaxVersion,
           rFailures' \in 0..MaxFailures,
           new # R!Free => new.kind # "none" /\ new.phase # "none",
           new.phase = "loader" => rLoop.loader,
           new.phase = "waiting" => new.kind = "loop",
           new.phase # "calling",
           rFailed => rFailed',
           rTasks[s].kind = "loop" =>
             new.kind = "loop" \/ rFailed' \/ ~rIsRefreshing \/ ~rLoop.ownFlag,
           rIsLoading' => rLoop.loader,
           rIsLoading' =>
             \/ new.phase \in {"asking", "loader"}
             \/ /\ rIsLoading /\ rCancelled' = rCancelled
                /\ rTasks[s].phase \notin {"asking", "loader"}
                /\ rTasks[s].phase = "calling" => rLoop.change = "if done"
    PROVE  RefreshInv'
<1>1. R!TypeOK
  BY DEF RefreshInv, R!RefreshSafe
<1>2. R!TypeOK'
  BY <1>1 DEF R!TypeOK
<1>3. /\ rTasks'[s] = new
      /\ \A r \in R!Slots : r # s => rTasks'[r] = rTasks[r]
  BY <1>1 DEF R!TypeOK
<1>4. SlotsInv'
  BY <1>1, <1>3, FewerBusy DEF RefreshInv
<1>5. TaskInv'
  BY <1>3 DEF RefreshInv, TaskInv
<1>6. LoaderInv'
  BY DEF RefreshInv, LoaderInv
<1>7. R!LoaderHasFetch'
  <2> SUFFICES ASSUME rIsLoading'
               PROVE  R!LoaderHasFetch'
    BY DEF R!LoaderHasFetch
  <2>1. CASE new.phase \in {"asking", "loader"}
    <3>1. new.kind \in {"loop", "fetch", "change"}
      <4>0. R!Free.phase = "none"
        BY DEF R!Free
      <4>1. new # R!Free
        BY <2>1, <4>0
      <4>2. new.kind # "none" /\ new.kind \in {"none", "loop", "fetch", "change"}
        BY <4>1 DEF R!Task
      <4> QED BY <4>2
    <3> QED BY <1>3, <2>1, <3>1 DEF R!LoaderHasFetch, R!Fetching
  <2>2. CASE new.phase \notin {"asking", "loader"}
    BY <1>3, <2>2 DEF RefreshInv, R!RefreshSafe, R!LoaderHasFetch, R!Fetching
  <2> QED BY <2>1, <2>2
<1>8. R!MountedIsRefreshed'
  <2> SUFFICES ASSUME ~rLeft, rLoop.ownFlag, rViews # {}, ~rFailed'
               PROVE  rIsRefreshing /\ R!Running("loop")' # {}
    BY DEF RefreshInv, R!RefreshSafe, R!MountedIsRefreshed
  <2>1. rIsRefreshing /\ R!Running("loop") # {}
    BY DEF RefreshInv, R!RefreshSafe, R!MountedIsRefreshed
  <2>2. PICK r \in R!Slots : rTasks[r].kind = "loop"
    BY <2>1 DEF R!Running
  <2>3. rTasks'[r].kind = "loop"
    BY <1>3, <2>1, <2>2
  <2> QED BY <2>1, <2>3 DEF R!Running
<1> QED BY <1>2, <1>4, <1>5, <1>6, <1>7, <1>8 DEF RefreshInv, R!RefreshSafe

\* What is left of a saga whose fetch has returned.
LEMMA Returning ==
    ASSUME R!RefreshAssumption, RefreshInv, NEW s \in R!Slots, NEW ok \in BOOLEAN,
           R!Returns(s, ok), rTasks[s] # R!Free
    PROVE  \E new \in R!Task :
             /\ rTasks' = [rTasks EXCEPT ![s] = new]
             /\ new # R!Free => new.kind = "loop"
             /\ new.phase \in {"waiting", "none"}
             /\ new.phase = "waiting" => new # R!Free
             /\ new = R!Free \/ new.phase = "waiting"
             /\ rTasks[s].kind = "loop" => new.kind = "loop" \/ rFailed'
             /\ rFailed => rFailed'
             /\ rFailed' \in BOOLEAN
<1> DEFINE goesOn == rTasks[s].kind = "loop" /\ (ok \/ rLoop.onError = "goes on")
           new == IF goesOn THEN [rTasks[s] EXCEPT !.phase = "waiting",
                                                  !.since = 0, !.ok = TRUE]
                  ELSE R!Free
<1>1. rTasks[s] \in R!Task /\ rTasks \in [R!Slots -> R!Task] /\ rFailed \in BOOLEAN
  BY DEF RefreshInv, R!RefreshSafe, R!TypeOK
<1>2. /\ rTasks' = [rTasks EXCEPT ![s] = new]
      /\ rFailed' = (rFailed \/ (rTasks[s].kind = "loop" /\ ~goesOn))
  BY <1>1 DEF R!Returns
<1>3. CASE goesOn
  <2>1. /\ new \in R!Task /\ new.kind = "loop" /\ new.phase = "waiting"
        /\ new # R!Free
    BY <1>1, <1>3 DEF R!Task, R!Free
  <2> HIDE DEF new
  <2> QED BY <1>2, <2>1, <1>1
<1>4. CASE ~goesOn
  <2>1. new = R!Free /\ new \in R!Task /\ new.phase = "none"
    BY <1>4 DEF R!Task, R!Free
  <2> HIDE DEF new
  <2> QED BY <1>2, <1>4, <2>1, <1>1
<1> QED BY <1>3, <1>4

LEMMA AnsweredStep ==
    ASSUME R!RefreshAssumption, RefreshInv, NEW s \in R!Slots, R!Answered(s)
    PROVE  RefreshInv'
<1>1. /\ rTasks[s].phase = "asking"
      /\ UNCHANGED <<rLoop, rViews, rIsRefreshing, rIsLoading, rRemote, rMounts,
                     rFetches, rFailures, rLeft, rCancelled>>
  BY DEF R!Answered, R!counters
<1>2. R!TypeOK /\ rTasks[s] \in R!Task /\ rTasks[s] # R!Free
  BY <1>1 DEF RefreshInv, R!RefreshSafe, R!TypeOK, R!Free
<1>3. rList' \in 0..MaxVersion \cup {R!Nothing}
  <2>1. PICK seen \in rTasks[s].since..rRemote : rList' = seen
    BY DEF R!Answered
  <2>2. rTasks[s].since \in Nat /\ rRemote \in 0..MaxVersion
    BY <1>2 DEF R!TypeOK, R!Task
  <2>3. seen \in 0..MaxVersion
    BY <2>1, <2>2 DEF R!RefreshAssumption
  <2> QED BY <2>1, <2>3
<1>4. CASE rLoop.loader
  <2> DEFINE new == [rTasks[s] EXCEPT !.phase = "loader"]
  <2>1. rTasks' = [rTasks EXCEPT ![s] = new] /\ rFailed' = rFailed
    BY <1>4 DEF R!Answered
  <2>2. /\ new \in R!Task /\ new.phase = "loader" /\ new.kind = rTasks[s].kind
        /\ rTasks[s].kind # "none"
    BY <1>2 DEF R!Task, RefreshInv, TaskInv
  <2> HIDE DEF new
  <2> QED BY <1>1, <1>2, <1>3, <1>4, <2>1, <2>2, SagaStep DEF R!TypeOK
<1>5. CASE ~rLoop.loader
  <2>1. PICK new \in R!Task :
          /\ rTasks' = [rTasks EXCEPT ![s] = new]
          /\ new # R!Free => new.kind = "loop"
          /\ new = R!Free \/ new.phase = "waiting"
          /\ rTasks[s].kind = "loop" => new.kind = "loop" \/ rFailed'
          /\ rFailed => rFailed'
          /\ rFailed' \in BOOLEAN
    BY <1>2, <1>5, Returning DEF R!Answered
  <2>2. ~rIsLoading
    BY <1>5 DEF RefreshInv, LoaderInv
  <2>3. /\ new # R!Free => new.kind # "none" /\ new.phase # "none"
        /\ new.phase = "loader" => rLoop.loader
        /\ new.phase = "waiting" => new.kind = "loop"
        /\ new.phase # "calling"
    BY <2>1 DEF R!Free
  <2> QED BY <1>1, <1>2, <1>3, <2>1, <2>2, <2>3, SagaStep DEF R!TypeOK
<1> QED BY <1>4, <1>5

LEMMA FailsStep ==
    ASSUME R!RefreshAssumption, RefreshInv, NEW s \in R!Slots, R!Fails(s)
    PROVE  RefreshInv'
<1>1. /\ rTasks[s].phase = "asking"
      /\ rFailures < MaxFailures /\ rFailures' = rFailures + 1
      /\ rList' = R!AfterError
      /\ UNCHANGED <<rLoop, rViews, rIsRefreshing, rIsLoading, rRemote, rMounts,
                     rFetches, rLeft, rCancelled>>
  BY DEF R!Fails
<1>2. R!TypeOK /\ rTasks[s] \in R!Task /\ rTasks[s] # R!Free
  BY <1>1 DEF RefreshInv, R!RefreshSafe, R!TypeOK, R!Free
<1>3. /\ rList' \in 0..MaxVersion \cup {R!Nothing}
      /\ rFailures' \in 0..MaxFailures
  BY <1>1, <1>2 DEF R!TypeOK, R!AfterError, R!RefreshAssumption
<1>4. CASE rLoop.loader
  <2> DEFINE new == [rTasks[s] EXCEPT !.phase = "loader", !.ok = FALSE]
  <2>1. rTasks' = [rTasks EXCEPT ![s] = new] /\ rFailed' = rFailed
    BY <1>2, <1>4 DEF R!Fails, R!TypeOK
  <2>2. /\ new \in R!Task /\ new.phase = "loader" /\ new.kind = rTasks[s].kind
        /\ rTasks[s].kind # "none"
    BY <1>2 DEF R!Task, RefreshInv, TaskInv
  <2> HIDE DEF new
  <2> QED BY <1>1, <1>2, <1>3, <1>4, <2>1, <2>2, SagaStep DEF R!TypeOK
<1>5. CASE ~rLoop.loader
  <2>1. PICK new \in R!Task :
          /\ rTasks' = [rTasks EXCEPT ![s] = new]
          /\ new # R!Free => new.kind = "loop"
          /\ new = R!Free \/ new.phase = "waiting"
          /\ rTasks[s].kind = "loop" => new.kind = "loop" \/ rFailed'
          /\ rFailed => rFailed'
          /\ rFailed' \in BOOLEAN
    BY <1>2, <1>5, Returning DEF R!Fails
  <2>2. ~rIsLoading
    BY <1>5 DEF RefreshInv, LoaderInv
  <2>3. /\ new # R!Free => new.kind # "none" /\ new.phase # "none"
        /\ new.phase = "loader" => rLoop.loader
        /\ new.phase = "waiting" => new.kind = "loop"
        /\ new.phase # "calling"
    BY <2>1 DEF R!Free
  <2> QED BY <1>1, <1>2, <1>3, <2>1, <2>2, <2>3, SagaStep DEF R!TypeOK
<1> QED BY <1>4, <1>5

LEMMA LoadedStep ==
    ASSUME R!RefreshAssumption, RefreshInv, NEW s \in R!Slots, R!Loaded(s)
    PROVE  RefreshInv'
<1>1. /\ rTasks[s].phase = "loader" /\ rIsLoading' = FALSE /\ rCancelled' = FALSE
      /\ UNCHANGED <<rLoop, rViews, rIsRefreshing, rList, rRemote, rMounts, rFetches,
                     rFailures, rLeft>>
      /\ R!Returns(s, rTasks[s].ok)
  BY DEF R!Loaded, R!counters
<1>2. R!TypeOK /\ rTasks[s] \in R!Task /\ rTasks[s] # R!Free /\ rTasks[s].ok \in BOOLEAN
  BY <1>1 DEF RefreshInv, R!RefreshSafe, R!TypeOK, R!Free, R!Task
<1>3. PICK new \in R!Task :
        /\ rTasks' = [rTasks EXCEPT ![s] = new]
        /\ new # R!Free => new.kind = "loop"
        /\ new = R!Free \/ new.phase = "waiting"
        /\ rTasks[s].kind = "loop" => new.kind = "loop" \/ rFailed'
        /\ rFailed => rFailed'
        /\ rFailed' \in BOOLEAN
  BY <1>1, <1>2, Returning
<1>4. /\ new # R!Free => new.kind # "none" /\ new.phase # "none"
      /\ new.phase = "loader" => rLoop.loader
      /\ new.phase = "waiting" => new.kind = "loop"
      /\ new.phase # "calling"
  BY <1>3 DEF R!Free
<1> QED BY <1>1, <1>2, <1>3, <1>4, SagaStep DEF R!TypeOK

LEMMA WakesStep ==
    ASSUME R!RefreshAssumption, RefreshInv, NEW s \in R!Slots, R!Wakes(s)
    PROVE  RefreshInv'
<1> DEFINE again == rIsRefreshing /\ rLoop.ownFlag
           new == IF again THEN R!Asking("loop", rRemote) ELSE R!Free
<1>1. /\ rTasks[s].phase = "waiting"
      /\ rTasks' = [rTasks EXCEPT ![s] = new]
      /\ rIsLoading' = (rIsLoading \/ (again /\ rLoop.loader))
      /\ UNCHANGED <<rLoop, rViews, rIsRefreshing, rList, rRemote, rMounts, rFetches,
                     rFailures, rLeft, rCancelled, rFailed>>
  BY DEF R!Wakes, R!counters
<1>2. R!TypeOK /\ rTasks[s] \in R!Task /\ rTasks[s] # R!Free
  BY <1>1 DEF RefreshInv, R!RefreshSafe, R!TypeOK, R!Free
<1>3. LoaderInv
  BY DEF RefreshInv
<1>4. CASE again
  <2>1. /\ new \in R!Task /\ new.kind = "loop" /\ new.phase = "asking"
        /\ new # R!Free
    BY <1>2, <1>4 DEF R!Asking, R!Task, R!Free, R!TypeOK, R!RefreshAssumption
  <2>2. rIsLoading' \in BOOLEAN /\ (rIsLoading' => rLoop.loader)
    BY <1>1, <1>3 DEF LoaderInv
  <2> HIDE DEF new
  <2> QED BY <1>1, <1>2, <2>1, <2>2, SagaStep DEF R!TypeOK
<1>5. CASE ~again
  <2>1. new = R!Free /\ new \in R!Task /\ new.phase = "none"
    BY <1>5 DEF R!Free, R!Task
  <2>2. rIsLoading' \in BOOLEAN /\ (rIsLoading' => rLoop.loader /\ rIsLoading)
    BY <1>1, <1>3, <1>5 DEF LoaderInv
  <2> HIDE DEF new
  <2> QED BY <1>1, <1>2, <1>5, <2>1, <2>2, SagaStep DEF R!TypeOK
<1> QED BY <1>4, <1>5

\* The answer to a change: a refused deployment is over, and leaves up a loader
\* that its start had left up; the other changes fetch.
LEMMA ChangeAnsweredStep ==
    ASSUME R!RefreshAssumption, RefreshInv, NEW s \in R!Slots, R!ChangeAnswered(s)
    PROVE  RefreshInv'
<1>1. PICK ok \in BOOLEAN :
        /\ IF ok THEN rRemote' \in {rRemote, rRemote + 1} /\ UNCHANGED rFailures
           ELSE rFailures' = rFailures + 1 /\ UNCHANGED rRemote
        /\ rRemote' <= MaxVersion /\ rFailures' <= MaxFailures
        /\ rTasks' = [rTasks EXCEPT ![s] =
                        IF ok \/ rLoop.change = "always"
                        THEN R!Asking("change", rRemote') ELSE R!Free]
        /\ rIsLoading' = (rIsLoading
                            \/ ((ok \/ rLoop.change = "always") /\ rLoop.loader))
  BY DEF R!ChangeAnswered
<1>2. /\ rTasks[s].phase = "calling"
      /\ UNCHANGED <<rLoop, rViews, rIsRefreshing, rList, rMounts, rFetches, rLeft,
                     rCancelled, rFailed>>
  BY DEF R!ChangeAnswered
<1>3. R!TypeOK /\ rTasks[s] # R!Free /\ LoaderInv
  BY <1>2 DEF RefreshInv, R!RefreshSafe, R!Free
<1>4. rTasks[s].kind = "change" /\ rLoop.change \in {"always", "if done"}
  BY <1>2 DEF RefreshInv, TaskInv
<1>5. rRemote' \in 0..MaxVersion /\ rFailures' \in 0..MaxFailures
  BY <1>1, <1>3 DEF R!TypeOK, R!RefreshAssumption
<1>6. rIsLoading' \in BOOLEAN /\ (rIsLoading' => rLoop.loader)
  BY <1>1, <1>3 DEF LoaderInv, R!TypeOK
<1>7. CASE ok \/ rLoop.change = "always"
  <2> DEFINE new == R!Asking("change", rRemote')
  <2>1. rTasks' = [rTasks EXCEPT ![s] = new]
    BY <1>1, <1>7
  <2>2. new \in R!Task /\ new.kind = "change" /\ new.phase = "asking"
    <3>1. rRemote' \in Nat
      BY <1>5 DEF R!RefreshAssumption
    <3> QED BY <3>1, NewTasks
  <2> HIDE DEF new
  <2> QED BY <1>2, <1>3, <1>4, <1>5, <1>6, <2>1, <2>2, SagaStep DEF R!TypeOK
<1>8. CASE ~ok /\ rLoop.change # "always"
  <2>1. rTasks' = [rTasks EXCEPT ![s] = R!Free] /\ rIsLoading' = rIsLoading
    BY <1>1, <1>3, <1>8 DEF R!TypeOK
  <2>2. R!Free \in R!Task /\ R!Free.phase = "none" /\ R!Free.kind = "none"
    BY NewTasks
  <2> QED BY <1>2, <1>3, <1>4, <1>5, <1>6, <1>8, <2>1, <2>2, SagaStep DEF R!TypeOK
<1> QED BY <1>7, <1>8

LEMMA NextRefreshInv ==
    ASSUME R!RefreshAssumption, RefreshInv, [R!Next]_R!vars
    PROVE  RefreshInv'
<1>1. CASE R!ServerChanges
  <2>1. R!TypeOK'
    BY <1>1
       DEF R!ServerChanges, RefreshInv, R!RefreshSafe, R!TypeOK, R!counters,
           R!RefreshAssumption
  <2> QED
    BY <1>1, <2>1
       DEF R!ServerChanges, R!counters, RefreshInv, R!RefreshSafe, SlotsInv,
           Busy, TaskInv, LoaderInv, R!MountedIsRefreshed,
           R!Running, R!LoaderHasFetch, R!Fetching
<1>2. CASE UNCHANGED R!vars
  BY <1>2
     DEF R!vars, RefreshInv, R!RefreshSafe, R!TypeOK, SlotsInv, Busy, TaskInv,
         LoaderInv, R!MountedIsRefreshed, R!Running, R!LoaderHasFetch,
         R!Fetching
<1>3. ASSUME NEW s \in R!Slots, R!Proceeds(s) PROVE RefreshInv'
  BY <1>3, AnsweredStep, FailsStep, LoadedStep, WakesStep, ChangeAnsweredStep
     DEF R!Proceeds
<1> QED
  BY <1>1, <1>2, <1>3, MountStep, UnmountStep, FetchStep, ChangeStep DEF R!Next

\* For each loop of the UI, any number of mounts and unmounts, of fetches, of
\* changes and of failures: a screen that is mounted has a loop, unless an error
\* ended it or a screen that shared it has left, after which it is always told
\* to stop; and the loader is up only while some fetch runs, unless a deletion
\* or a deployment has cancelled the fetch of the one before it.
THEOREM RefreshIsSafe ==
    ASSUME R!RefreshAssumption
    PROVE  R!Spec => []RefreshSafe
<1>1. R!Init => RefreshInv
  BY InitRefreshInv
<1>2. RefreshInv /\ [R!Next]_R!vars => RefreshInv'
  BY NextRefreshInv
<1>3. RefreshInv => R!RefreshSafe
  BY DEF RefreshInv
<1> QED BY <1>1, <1>2, <1>3, PTL DEF R!Spec, RefreshSafe

-----------------------------------------------------------------------------
(* The order of the versions.                                              *)

Ordered == rLoop.restart = "latest" /\ rFetches = 0

\* With takeLatest and no other fetch there is one saga at most, and what it
\* will bring is not older than what the store holds when it asks.
OrderInv ==
    /\ rList <= rRemote
    /\ \A s \in R!Slots : rTasks[s].since <= rRemote
    /\ rFetches = 0 => \A s \in R!Slots : rTasks[s].kind \notin {"fetch", "change"}
    /\ Ordered =>
         /\ \A s, r \in R!Slots : rTasks[s] # R!Free /\ rTasks[r] # R!Free => s = r
         /\ \A s \in R!Slots : rTasks[s].phase = "asking" => rList <= rTasks[s].since

LEMMA InitOrderInv ==
    ASSUME R!RefreshAssumption, R!Init
    PROVE  OrderInv
BY DEF R!Init, OrderInv, R!Nothing, R!Free

LEMMA MountOrder ==
    ASSUME R!RefreshAssumption, RefreshInv, OrderInv,
           NEW screen \in DOMAIN R!Screens, R!Mount(screen)
    PROVE  OrderInv'
<1> DEFINE new == R!Asking("loop", rRemote)
<1>1. /\ rMounts < MaxMounts /\ R!Launch(new, rLoop.restart)
      /\ UNCHANGED <<rLoop, rList, rRemote, rFetches>>
  BY DEF R!Mount
<1>2. rRemote \in Nat /\ rList \in Int
  BY DEF RefreshInv, R!RefreshSafe, R!TypeOK, R!RefreshAssumption, R!Nothing
<1>8. /\ new \in R!Task /\ new.kind = "loop" /\ new.phase = "asking"
      /\ new.since = rRemote
  BY <1>2, NewTasks
<1> HIDE DEF new
<1>3. PICK s \in R!Slots :
        /\ rTasks'[s] = new
        /\ \A r \in R!Slots : r # s =>
             \/ rTasks'[r] = rTasks[r]
             \/ rTasks'[r] = R!Free /\ rLoop.restart = "latest"
        /\ rLoop.restart = "latest" =>
             \A r \in R!Slots : r # s => rTasks'[r].kind # "loop"
  BY <1>1, <1>8, Launching
<1>4. \A r \in R!Slots : rTasks'[r].since <= rRemote
  BY <1>1, <1>2, <1>3, <1>8 DEF OrderInv, R!Free
<1>5. rFetches = 0 => \A r \in R!Slots : rTasks'[r].kind \notin {"fetch", "change"}
  BY <1>1, <1>3, <1>8 DEF OrderInv, R!Free
<1>6. Ordered => \A r \in R!Slots : r # s => rTasks'[r] = R!Free
  <2> SUFFICES ASSUME Ordered, NEW r \in R!Slots, r # s, rTasks'[r] # R!Free
               PROVE  FALSE
    OBVIOUS
  <2>1. rTasks'[r].kind \notin {"loop", "fetch", "change"}
    BY <1>3, <1>5 DEF Ordered
  <2>2. rTasks'[r] = rTasks[r] /\ rTasks[r] \in R!Task
    BY <1>3 DEF RefreshInv, R!RefreshSafe, R!TypeOK
  <2>3. rTasks[r].kind = "none"
    BY <2>1, <2>2 DEF R!Task
  <2> QED BY <2>2, <2>3 DEF RefreshInv, TaskInv
<1>7. ASSUME Ordered
      PROVE  /\ \A q, r \in R!Slots : rTasks'[q] # R!Free /\ rTasks'[r] # R!Free => q = r
             /\ \A r \in R!Slots : rTasks'[r].phase = "asking" => rList <= rTasks'[r].since
  BY <1>1, <1>2, <1>3, <1>6, <1>7, <1>8 DEF OrderInv, R!Free
<1> QED BY <1>1, <1>4, <1>5, <1>7 DEF OrderInv, Ordered

\* A saga launched outside of the loop ends the comparison; what it will bring
\* is a version of the server all the same.
LEMMA LaunchOrder ==
    ASSUME R!RefreshAssumption, RefreshInv, OrderInv,
           NEW new \in R!Task, new.kind # "none", new.since <= rRemote',
           NEW watcher, R!Launch(new, watcher),
           rFetches < MaxFetches, rFetches' = rFetches + 1,
           rRemote' \in Nat, rRemote <= rRemote', UNCHANGED rList
    PROVE  OrderInv'
<1>1. /\ rRemote \in Nat /\ rList \in Int /\ rFetches' # 0
      /\ rTasks \in [R!Slots -> R!Task]
  BY DEF RefreshInv, R!RefreshSafe, R!TypeOK, R!RefreshAssumption, R!Nothing
<1>2. PICK s \in R!Slots :
        /\ rTasks'[s] = new
        /\ \A r \in R!Slots : r # s => rTasks'[r] = rTasks[r] \/ rTasks'[r] = R!Free
  BY Launching
<1>3. \A r \in R!Slots : rTasks[r].since \in Nat /\ rTasks[r].since <= rRemote
  BY <1>1 DEF OrderInv, R!Task
<1>4. R!Free.since = 0
  BY DEF R!Free
<1>5. \A r \in R!Slots : rTasks'[r].since <= rRemote'
  BY <1>1, <1>2, <1>3, <1>4
<1> QED BY <1>1, <1>5 DEF OrderInv, Ordered

LEMMA FetchOrder ==
    ASSUME R!RefreshAssumption, RefreshInv, OrderInv,
           NEW changed \in BOOLEAN, R!Fetch(changed)
    PROVE  OrderInv'
<1> DEFINE new == R!Asking("fetch", rRemote')
<1>1. /\ rFetches < MaxFetches /\ R!Launch(new, rLoop.fetch)
      /\ rFetches' = rFetches + 1
      /\ rRemote' = IF changed THEN rRemote + 1 ELSE rRemote
      /\ UNCHANGED rList
  BY DEF R!Fetch
<1>2. rRemote' \in Nat /\ rRemote <= rRemote'
  BY <1>1 DEF RefreshInv, R!RefreshSafe, R!TypeOK, R!RefreshAssumption
<1>3. new \in R!Task /\ new.kind # "none" /\ new.since <= rRemote'
  BY <1>2, NewTasks
<1> HIDE DEF new
<1> QED BY <1>1, <1>2, <1>3, LaunchOrder

LEMMA ChangeOrder ==
    ASSUME R!RefreshAssumption, RefreshInv, OrderInv, R!Change
    PROVE  OrderInv'
<1> DEFINE new == R!Calling
<1>1. /\ rFetches < MaxFetches /\ R!Launch(new, "latest")
      /\ rFetches' = rFetches + 1 /\ UNCHANGED <<rList, rRemote>>
  BY DEF R!Change
<1>2. rRemote' \in Nat /\ rRemote <= rRemote'
  BY <1>1 DEF RefreshInv, R!RefreshSafe, R!TypeOK, R!RefreshAssumption
<1>3. new \in R!Task /\ new.kind # "none" /\ new.since <= rRemote'
  BY <1>2, NewTasks
<1> HIDE DEF new
<1> QED BY <1>1, <1>2, <1>3, LaunchOrder

\* When a change is answered there has been one.
LEMMA ChangeAnsweredOrder ==
    ASSUME R!RefreshAssumption, RefreshInv, OrderInv, NEW s \in R!Slots,
           R!ChangeAnswered(s)
    PROVE  OrderInv' /\ ~Ordered /\ rList' = rList
<1> DEFINE asking == R!Asking("change", rRemote')
<1>1. /\ rTasks[s].phase = "calling" /\ UNCHANGED <<rLoop, rList, rFetches>>
      /\ rRemote' \in {rRemote, rRemote + 1}
      /\ \/ rTasks' = [rTasks EXCEPT ![s] = asking]
         \/ rTasks' = [rTasks EXCEPT ![s] = R!Free]
  BY DEF R!ChangeAnswered
<1>2. rFetches # 0
  BY <1>1 DEF RefreshInv, TaskInv, OrderInv
<1>3. /\ rRemote \in Nat /\ rRemote' \in Nat /\ rList \in Int
      /\ rTasks \in [R!Slots -> R!Task]
  BY <1>1 DEF RefreshInv, R!RefreshSafe, R!TypeOK, R!RefreshAssumption, R!Nothing
<1>4. asking.since = rRemote' /\ R!Free.since = 0
  BY <1>3, NewTasks
<1> HIDE DEF asking
<1>5. \A r \in R!Slots : rTasks[r].since \in Nat /\ rTasks[r].since <= rRemote
  BY <1>3 DEF OrderInv, R!Task
<1>6. \A r \in R!Slots : rTasks'[r].since <= rRemote'
  BY <1>1, <1>3, <1>4, <1>5
<1> QED BY <1>1, <1>2, <1>3, <1>6 DEF OrderInv, Ordered

\* The steps of one saga, which asks again only after it has waited.
LEMMA SagaOrder ==
    ASSUME R!RefreshAssumption, RefreshInv, OrderInv,
           NEW s \in R!Slots, NEW new \in R!Task,
           rTasks[s] # R!Free, rTasks' = [rTasks EXCEPT ![s] = new],
           UNCHANGED <<rLoop, rRemote, rFetches>>,
           rList' <= rRemote, rList' \in Int,
           new.kind \in {rTasks[s].kind, "loop", "none"},
           new.since <= rRemote,
           new.phase = "asking" => rList' <= new.since
    PROVE  OrderInv'
<1>1. /\ rTasks'[s] = new
      /\ \A r \in R!Slots : r # s => rTasks'[r] = rTasks[r]
  BY DEF RefreshInv, R!RefreshSafe, R!TypeOK
<1>2. \A r \in R!Slots : rTasks'[r].since <= rRemote
  BY <1>1 DEF OrderInv
<1>3. rFetches = 0 => \A r \in R!Slots : rTasks'[r].kind \notin {"fetch", "change"}
  BY <1>1 DEF OrderInv
<1>4. ASSUME Ordered
      PROVE  /\ \A q, r \in R!Slots : rTasks'[q] # R!Free /\ rTasks'[r] # R!Free => q = r
             /\ \A r \in R!Slots : rTasks'[r].phase = "asking" => rList' <= rTasks'[r].since
  <2>1. \A r \in R!Slots : r # s => rTasks'[r] = R!Free
    BY <1>1, <1>4 DEF OrderInv
  <2> QED BY <1>1, <2>1 DEF R!Free
<1> QED BY <1>2, <1>3, <1>4 DEF OrderInv, Ordered

\* A saga whose fetch has returned no longer asks.
LEMMA ReturnedOrder ==
    ASSUME R!RefreshAssumption, RefreshInv, NEW s \in R!Slots, NEW ok \in BOOLEAN,
           R!Returns(s, ok), rTasks[s] # R!Free
    PROVE  \E new \in R!Task :
             /\ rTasks' = [rTasks EXCEPT ![s] = new]
             /\ new.kind \in {rTasks[s].kind, "loop", "none"}
             /\ new.since <= rRemote
             /\ new.phase # "asking"
<1> DEFINE goesOn == rTasks[s].kind = "loop" /\ (ok \/ rLoop.onError = "goes on")
           new == IF goesOn THEN [rTasks[s] EXCEPT !.phase = "waiting",
                                                  !.since = 0, !.ok = TRUE]
                  ELSE R!Free
<1>1. /\ rTasks[s] \in R!Task /\ rTasks \in [R!Slots -> R!Task]
      /\ rRemote \in Nat
  BY DEF RefreshInv, R!RefreshSafe, R!TypeOK, R!RefreshAssumption
<1>2. rTasks' = [rTasks EXCEPT ![s] = new]
  BY <1>1 DEF R!Returns
<1>3. CASE goesOn
  <2>1. /\ new \in R!Task /\ new.kind = rTasks[s].kind
        /\ new.since = 0 /\ new.phase = "waiting"
    BY <1>1, <1>3 DEF R!Task
  <2> HIDE DEF new
  <2>2. new.since <= rRemote
    BY <1>1, <2>1
  <2> QED BY <1>2, <2>1, <2>2
<1>4. CASE ~goesOn
  <2>1. /\ new \in R!Task /\ new.kind = "none"
        /\ new.since = 0 /\ new.phase = "none"
    BY <1>4 DEF R!Task, R!Free
  <2> HIDE DEF new
  <2>2. new.since <= rRemote
    BY <1>1, <2>1
  <2> QED BY <1>2, <2>1, <2>2
<1> QED BY <1>3, <1>4

\* An answer is not older than what the store holds when the saga is alone.
LEMMA AnsweredOrder ==
    ASSUME R!RefreshAssumption, RefreshInv, OrderInv, NEW s \in R!Slots, R!Answered(s)
    PROVE  OrderInv' /\ (Ordered => rList' >= rList)
<1>1. /\ rTasks[s].phase = "asking" /\ UNCHANGED <<rLoop, rRemote, rFetches>>
      /\ \E seen \in rTasks[s].since..rRemote : rList' = seen
  BY DEF R!Answered, R!counters
<1>2. /\ rTasks[s] \in R!Task /\ rTasks[s] # R!Free /\ rRemote \in Nat
      /\ rList \in Int /\ rTasks \in [R!Slots -> R!Task]
  BY <1>1
     DEF RefreshInv, R!RefreshSafe, R!TypeOK, R!Free, R!Nothing,
         R!RefreshAssumption
<1>3. /\ rList' \in Int /\ rList' <= rRemote /\ rTasks[s].since <= rList'
      /\ rTasks[s].since <= rRemote
  BY <1>1, <1>2 DEF R!Task
<1>4. Ordered => rList' >= rList
  BY <1>1, <1>2, <1>3 DEF OrderInv, R!Task
<1>5. PICK new \in R!Task :
        /\ rTasks' = [rTasks EXCEPT ![s] = new]
        /\ new.kind \in {rTasks[s].kind, "loop", "none"}
        /\ new.since <= rRemote
        /\ new.phase # "asking"
  <2>1. CASE rLoop.loader
    <3> DEFINE new == [rTasks[s] EXCEPT !.phase = "loader"]
    <3>1. rTasks' = [rTasks EXCEPT ![s] = new]
      BY <1>2, <2>1 DEF R!Answered
    <3>2. /\ new \in R!Task /\ new.phase # "asking" /\ new.kind = rTasks[s].kind
          /\ new.since = rTasks[s].since
      BY <1>2 DEF R!Task
    <3> HIDE DEF new
    <3> QED BY <1>3, <3>1, <3>2
  <2>2. CASE ~rLoop.loader
    BY <1>2, <2>2, ReturnedOrder DEF R!Answered
  <2> QED BY <2>1, <2>2
<1>6. OrderInv'
  BY <1>1, <1>2, <1>3, <1>5, SagaOrder
<1> QED BY <1>4, <1>6

\* The loops with takeLatest keep on the page what they had.
LEMMA LatestShowsOld ==
    ASSUME NEW l \in R!Loops, l.restart = "latest"
    PROVE  l.shows = "old"
<1>1. CASE l \in {R!refreshVolumes, R!refreshPersistentVolumes}
  BY <1>1 DEF R!refreshVolumes, R!refreshPersistentVolumes, R!Loop
<1>6. CASE l = R!refreshNodes
  <2>1. R!refreshNodes.restart = "every"
    BY DEF R!refreshNodes, R!Loop
  <2> QED BY <1>6, <2>1
<1>2. CASE l \in {R!refreshClusterStatus, R!refreshAlerts}
  BY <1>2 DEF R!refreshClusterStatus, R!refreshAlerts, R!Loop
<1>3. CASE l = R!refreshAlertsAlertmanager
  BY <1>3 DEF R!refreshAlertsAlertmanager, R!Loop
<1>4. CASE l = R!refreshVolumeStats
  BY <1>4 DEF R!refreshVolumeStats, R!Loop
<1>5. CASE l = R!refreshCurrentVolumeStats
  BY <1>5 DEF R!refreshCurrentVolumeStats, R!Loop
<1> QED BY <1>1, <1>2, <1>3, <1>4, <1>5, <1>6 DEF R!Loops

\* An error leaves the page what it had: the loops with takeLatest do.
LEMMA FailsOrder ==
    ASSUME R!RefreshAssumption, RefreshInv, OrderInv, NEW s \in R!Slots, R!Fails(s)
    PROVE  OrderInv' /\ (Ordered => rList' >= rList)
<1>1. /\ rTasks[s].phase = "asking" /\ rList' = R!AfterError
      /\ UNCHANGED <<rLoop, rRemote, rFetches>>
  BY DEF R!Fails
<1>2. /\ rTasks[s] \in R!Task /\ rTasks[s] # R!Free /\ rRemote \in Nat
      /\ rList \in Int /\ rTasks \in [R!Slots -> R!Task] /\ rLoop \in R!Loops
  BY <1>1
     DEF RefreshInv, R!RefreshSafe, R!TypeOK, R!Free, R!Nothing,
         R!RefreshAssumption
<1>3. rLoop.restart = "latest" => rLoop.shows = "old"
  BY <1>2, LatestShowsOld
<1>4. Ordered => rList' = rList
  BY <1>1, <1>3 DEF Ordered, R!AfterError
<1>5. rList' \in Int /\ rList' <= rRemote
  BY <1>1, <1>2 DEF R!AfterError, R!Nothing, OrderInv
<1>6. PICK new \in R!Task :
        /\ rTasks' = [rTasks EXCEPT ![s] = new]
        /\ new.kind \in {rTasks[s].kind, "loop", "none"}
        /\ new.since <= rRemote
        /\ new.phase # "asking"
  <2>1. CASE rLoop.loader
    <3> DEFINE new == [rTasks[s] EXCEPT !.phase = "loader", !.ok = FALSE]
    <3>1. rTasks' = [rTasks EXCEPT ![s] = new]
      BY <1>2, <2>1 DEF R!Fails
    <3>2. /\ new \in R!Task /\ new.phase # "asking" /\ new.kind = rTasks[s].kind
          /\ new.since = rTasks[s].since
      BY <1>2 DEF R!Task
    <3> HIDE DEF new
    <3> QED BY <3>1, <3>2 DEF OrderInv
  <2>2. CASE ~rLoop.loader
    BY <1>2, <2>2, ReturnedOrder DEF R!Fails
  <2> QED BY <2>1, <2>2
<1>7. OrderInv'
  BY <1>1, <1>2, <1>5, <1>6, SagaOrder
<1> QED BY <1>2, <1>4, <1>7

LEMMA LoadedOrder ==
    ASSUME R!RefreshAssumption, RefreshInv, OrderInv, NEW s \in R!Slots, R!Loaded(s)
    PROVE  OrderInv' /\ rList' = rList
<1>1. /\ rTasks[s].phase = "loader" /\ UNCHANGED <<rLoop, rList, rRemote, rFetches>>
      /\ R!Returns(s, rTasks[s].ok)
  BY DEF R!Loaded, R!counters
<1>2. /\ rTasks[s] \in R!Task /\ rTasks[s] # R!Free /\ rRemote \in Nat /\ rList \in Int
      /\ rTasks[s].ok \in BOOLEAN
  BY <1>1
     DEF RefreshInv, R!RefreshSafe, R!TypeOK, R!Free, R!Nothing,
         R!RefreshAssumption, R!Task
<1>3. PICK new \in R!Task :
        /\ rTasks' = [rTasks EXCEPT ![s] = new]
        /\ new.kind \in {rTasks[s].kind, "loop", "none"}
        /\ new.since <= rRemote
        /\ new.phase # "asking"
  BY <1>1, <1>2, ReturnedOrder
<1> QED BY <1>1, <1>2, <1>3, SagaOrder DEF OrderInv

LEMMA WakesOrder ==
    ASSUME R!RefreshAssumption, RefreshInv, OrderInv, NEW s \in R!Slots, R!Wakes(s)
    PROVE  OrderInv' /\ rList' = rList
<1> DEFINE new == IF rIsRefreshing /\ rLoop.ownFlag THEN R!Asking("loop", rRemote) ELSE R!Free
<1>1. /\ rTasks[s].phase = "waiting" /\ UNCHANGED <<rLoop, rList, rRemote, rFetches>>
      /\ rTasks' = [rTasks EXCEPT ![s] = new]
  BY DEF R!Wakes, R!counters
<1>2. /\ rTasks[s] # R!Free /\ rRemote \in Nat /\ rList \in Int
  BY <1>1
     DEF RefreshInv, R!RefreshSafe, R!TypeOK, R!Free, R!Nothing,
         R!RefreshAssumption
<1>3. /\ new \in R!Task /\ new.kind \in {"loop", "none"} /\ new.since <= rRemote
      /\ new.phase = "asking" => new.since = rRemote
  BY <1>2 DEF R!Asking, R!Free, R!Task
<1> HIDE DEF new
<1> QED BY <1>1, <1>2, <1>3, SagaOrder DEF OrderInv

LEMMA NextOrderInv ==
    ASSUME R!RefreshAssumption, RefreshInv, OrderInv, [R!Next]_R!vars
    PROVE  OrderInv' /\ (Ordered => rList' >= rList)
<1>1. rList \in Int /\ rRemote \in Nat
  BY DEF RefreshInv, R!RefreshSafe, R!TypeOK, R!Nothing, R!RefreshAssumption
<1>2. CASE R!ServerChanges
  <2>1. /\ UNCHANGED <<rLoop, rTasks, rList, rFetches>> /\ rRemote' = rRemote + 1
        /\ rTasks \in [R!Slots -> R!Task]
    BY <1>2
       DEF R!ServerChanges, R!counters, RefreshInv, R!RefreshSafe, R!TypeOK
  <2>2. \A s \in R!Slots : rTasks[s].since \in Nat
    BY <2>1 DEF R!Task
  <2> QED BY <1>1, <2>1, <2>2 DEF OrderInv, Ordered
<1>3. CASE UNCHANGED R!vars
  BY <1>1, <1>3 DEF R!vars, OrderInv, Ordered
<1>4. ASSUME NEW s \in R!Slots, R!Proceeds(s)
      PROVE  OrderInv' /\ (Ordered => rList' >= rList)
  BY <1>1, <1>4, AnsweredOrder, FailsOrder, LoadedOrder, WakesOrder,
     ChangeAnsweredOrder DEF R!Proceeds
<1>5. ASSUME NEW screen \in DOMAIN R!Screens, R!Mount(screen) \/ R!Unmount(screen)
      PROVE  OrderInv' /\ (Ordered => rList' >= rList)
  <2>1. rList' = rList
    BY <1>5 DEF R!Mount, R!Unmount
  <2>2. CASE R!Unmount(screen)
    BY <1>1, <2>2 DEF R!Unmount, OrderInv, Ordered, R!counters
  <2> QED BY <1>1, <1>5, <2>1, <2>2, MountOrder
<1>6. ASSUME NEW changed \in BOOLEAN, R!Fetch(changed)
      PROVE  OrderInv' /\ (Ordered => rList' >= rList)
  BY <1>1, <1>6, FetchOrder DEF R!Fetch
<1>7. CASE R!Change
  BY <1>1, <1>7, ChangeOrder DEF R!Change
<1> QED BY <1>2, <1>3, <1>4, <1>5, <1>6, <1>7 DEF R!Next

\* With takeLatest and no other fetch or change the page never goes back to an
\* older version, whatever the order of mounts, unmounts, answers and errors.
THEOREM RefreshNeverGoesBack ==
    ASSUME R!RefreshAssumption
    PROVE  R!Spec => R!NeverGoesBack
<1>1. R!Init => RefreshInv /\ OrderInv
  BY InitRefreshInv, InitOrderInv
<1>2. RefreshInv /\ OrderInv /\ [R!Next]_R!vars => RefreshInv' /\ OrderInv'
  BY NextRefreshInv, NextOrderInv
<1>3. RefreshInv /\ OrderInv /\ [R!Next]_R!vars
        => [(rLoop.restart = "latest" /\ rFetches = 0) => rList' >= rList]_R!vars
  BY NextOrderInv DEF Ordered
<1> QED BY <1>1, <1>2, <1>3, PTL DEF R!Spec, R!NeverGoesBack

-----------------------------------------------------------------------------
(* The volume page.                                                        *)

\* The parts of the state, and what the page keeps between the clicks: the node
\* of the URL is that of its volume, and the one read under way, if any, is of
\* that volume too.
ClusterOK ==
    /\ vConditions \in [Volumes -> V!Conditions]
    /\ vPvs \in [Volumes -> V!Phases]
    /\ vAlerting \subseteq Volumes

ReduxOK ==
    /\ vList \in [Volumes -> V!Conditions] /\ vPVList \in [Volumes -> V!Phases]
    /\ vAlerts \subseteq Volumes /\ vPVCList \subseteq Volumes
    /\ vLoaded \subseteq V!Lists

UrlOK ==
    /\ vAt \in [volume : Volumes \cup {NoNode}, node : Nodes \cup {NoNode}]
    /\ vAt.volume # NoNode => vAt.node \in {NoNode, NodeOf[vAt.volume]}

ReadsOK ==
    /\ vObject \in Volumes \cup {NoNode}
    /\ vReads \in Seq(Volumes) /\ Len(vReads) <= MaxReads /\ Len(vReads) <= 1
    /\ vAt.volume # NoNode =>
         IF vReads = <<>> THEN vObject \in {vAt.volume, NoNode}
         ELSE vReads[1] = vAt.volume

ListInv == ClusterOK /\ ReduxOK /\ UrlOK /\ ReadsOK /\ vModal \in BOOLEAN

-----------------------------------------------------------------------------
LEMMA ListIsSafe ==
    ASSUME ListInv
    PROVE  V!TypeOK /\ V!DetailsOfSelected /\ V!RowIsThere
<1>1. V!TypeOK
  BY DEF ListInv, ClusterOK, ReduxOK, UrlOK, ReadsOK, V!TypeOK
<1>2. V!DetailsOfSelected
  BY DEF ListInv, ReadsOK, V!DetailsOfSelected
<1>3. V!RowIsThere
  <2> SUFFICES ASSUME V!Overview
               PROVE  vAt.volume \in V!Names(V!GetVolumeListData)
    BY DEF V!RowIsThere
  <2>1. vAt.volume \in Volumes /\ vAt.volume \in V!Listed
    BY DEF V!Overview, V!Listed, ListInv, UrlOK
  <2>2. /\ V!Row(vAt.volume).name = vAt.volume
        /\ V!Row(vAt.volume) \in V!GetVolumeListData
    BY <2>1 DEF V!Row, V!GetVolumeListData
  <2> QED BY <2>2 DEF V!Names
<1> QED BY <1>1, <1>2, <1>3

LEMMA InitList ==
    ASSUME V!VolumesAssumption, V!Init
    PROVE  ListInv
<1>1. MaxReads \in Nat
  BY DEF V!VolumesAssumption
<1>2. ClusterOK
  BY DEF V!Init, ClusterOK, V!Conditions, V!Phases
<1>3. ReduxOK
  BY DEF V!Init, ReduxOK, V!Nothing, V!Conditions, V!Phases
<1>4. /\ vAt = [volume |-> NoNode, node |-> NoNode]
      /\ vReads = <<>> /\ vObject = NoNode
  BY DEF V!Init
<1>5. UrlOK
  BY <1>4 DEF UrlOK
<1>6. ReadsOK
  BY <1>1, <1>4 DEF ReadsOK
<1>7. vModal \in BOOLEAN
  BY DEF V!Init
<1> QED BY <1>2, <1>3, <1>5, <1>6, <1>7 DEF ListInv

-----------------------------------------------------------------------------
(* What the page does.                                                     *)

\* A read takes the place of the one under way.
LEMMA Reading ==
    ASSUME ReadsOK, NEW v \in Volumes \cup {NoNode}, V!VolumesAssumption,
           V!FetchCurrentVolumeObject(v), UNCHANGED vObject,
           Len(vReads') <= MaxReads, vAt'.volume = v
    PROVE  ReadsOK'
<1>1. CASE v = NoNode
  <2>1. vReads' = vReads
    BY <1>1 DEF V!FetchCurrentVolumeObject
  <2> QED BY <1>1, <2>1 DEF ReadsOK
<1>2. CASE v # NoNode
  <2>1. vReads' = <<v>> /\ v \in Volumes
    BY <1>2 DEF V!FetchCurrentVolumeObject
  <2>2. /\ vReads' \in Seq(Volumes) /\ Len(vReads') = 1
        /\ vReads' # <<>> /\ vReads'[1] = v
    BY <2>1
  <2> QED BY <2>2 DEF ReadsOK
<1> QED BY <1>1, <1>2

LEMMA Going ==
    ASSUME UrlOK, ReadsOK, V!VolumesAssumption,
           NEW v \in Volumes \cup {NoNode}, NEW node \in Nodes \cup {NoNode},
           v # NoNode => node \in {NoNode, NodeOf[v]}, V!GoTo(v, node)
    PROVE  UrlOK' /\ ReadsOK'
<1>1. /\ vAt' = [volume |-> v, node |-> node] /\ UNCHANGED vObject
      /\ Len(vReads') <= MaxReads
  BY DEF V!GoTo
<1>2. vAt'.volume = v /\ vAt'.node = node
  BY <1>1
<1>3. UrlOK'
  BY <1>1, <1>2 DEF UrlOK
<1>4. ReadsOK'
  <2>1. CASE v = vAt.volume
    <3>1. vReads' = vReads
      BY <2>1 DEF V!GoTo
    <3> QED BY <1>1, <1>2, <2>1, <3>1 DEF ReadsOK
  <2>2. CASE v # vAt.volume
    <3>1. V!FetchCurrentVolumeObject(v)
      BY <2>2 DEF V!GoTo
    <3> QED BY <1>1, <1>2, <3>1, Reading
  <2> QED BY <2>1, <2>2
<1> QED BY <1>3, <1>4

LEMMA GoingSteps ==
    ASSUME V!VolumesAssumption, ListInv,
           \/ V!SelectFirst
           \/ \E v \in Volumes : V!ClickRow(v) \/ V!Back(v)
           \/ V!OnClickDeleteButton
    PROVE  ListInv'
<1>1. PICK v \in Volumes \cup {NoNode}, node \in Nodes \cup {NoNode} :
        /\ v # NoNode => node \in {NoNode, NodeOf[v]}
        /\ V!GoTo(v, node)
  <2>1. /\ vAt.node \in Nodes \cup {NoNode}
        /\ vAt.volume \in Volumes \cup {NoNode}
    BY DEF ListInv, UrlOK
  <2>2. \A v \in V!Listed : v \in Volumes /\ vAt.node \in {NoNode, NodeOf[v]}
    BY DEF V!Listed
  <2>3. CASE V!SelectFirst
    BY <2>1, <2>2, <2>3 DEF V!SelectFirst
  <2>4. ASSUME NEW v \in Volumes, V!ClickRow(v) \/ V!Back(v)
        PROVE  vAt.node \in {NoNode, NodeOf[v]} /\ V!GoTo(v, vAt.node)
    BY <2>2, <2>4 DEF V!ClickRow, V!Back
  <2>5. CASE V!OnClickDeleteButton
    <3> DEFINE filter ==
                 IF vAt.node = NoNode THEN NoNode ELSE NodeOf[vAt.volume]
    <3>1. vAt.volume \in Volumes /\ vAt.node \in {NoNode, NodeOf[vAt.volume]}
      BY <2>5 DEF V!OnClickDeleteButton, V!Overview, ListInv, UrlOK
    <3>2. filter \in Nodes \cup {NoNode} /\ filter = vAt.node
      BY <3>1 DEF V!VolumesAssumption
    <3>3. \/ V!GoTo(NoNode, filter)
          \/ \E v \in V!Listed : V!GoTo(v, filter)
      BY <2>5 DEF V!OnClickDeleteButton
    <3> HIDE DEF filter
    <3> QED BY <2>2, <3>2, <3>3
  <2> QED BY <2>1, <2>3, <2>4, <2>5
<1>2. UrlOK' /\ ReadsOK'
  BY <1>1, Going DEF ListInv
<1>3. /\ UNCHANGED <<V!redux, vPvs, vAlerting>>
      /\ vModal' \in BOOLEAN
  BY DEF V!SelectFirst, V!ClickRow, V!Back, V!OnClickDeleteButton, V!cluster,
         ListInv
<1>4. vConditions' \in [Volumes -> V!Conditions]
  BY DEF V!SelectFirst, V!ClickRow, V!Back, V!OnClickDeleteButton,
         V!DeleteVolume, V!cluster, ListInv, ClusterOK, V!Conditions
<1> QED BY <1>2, <1>3, <1>4 DEF ListInv, ClusterOK, ReduxOK, V!redux

LEMMA EnterStep ==
    ASSUME V!VolumesAssumption, ListInv, NEW v \in Volumes \cup {NoNode},
           NEW node \in Nodes \cup {NoNode}, V!Enter(v, node)
    PROVE  ListInv'
<1>1. /\ vAt' = [volume |-> v, node |-> node] /\ V!FetchCurrentVolumeObject(v)
      /\ Len(vReads') <= MaxReads /\ vLoaded' = vLoaded \ {"pvcs"}
      /\ UNCHANGED <<V!cluster, vList, vPVList, vPVCList, vAlerts, vModal,
                     vObject>>
      /\ v # NoNode => node = NodeOf[v]
  BY DEF V!Enter, V!VolumesAssumption
<1>2. vAt'.volume = v /\ vAt'.node = node
  BY <1>1
<1>3. UrlOK'
  BY <1>1, <1>2 DEF UrlOK
<1>4. ReadsOK'
  BY <1>1, <1>2, Reading DEF ListInv
<1>5. ClusterOK' /\ ReduxOK' /\ vModal' \in BOOLEAN
  BY <1>1 DEF ListInv, ClusterOK, ReduxOK, V!cluster
<1> QED BY <1>3, <1>4, <1>5 DEF ListInv

\* The one read that was under way is answered.
LEMMA ReadAnswered ==
    ASSUME V!VolumesAssumption, ListInv,
           NEW i \in 1..MaxReads, NEW found \in BOOLEAN,
           V!CurrentVolumeObjectAnswered(i, found)
    PROVE  ListInv'
<1>1. /\ i \in DOMAIN vReads /\ vObject' = IF found THEN vReads[i] ELSE NoNode
      /\ vReads' = V!RemoveAt(vReads, i)
      /\ UNCHANGED <<V!cluster, V!redux, vAt, vModal>>
  BY DEF V!CurrentVolumeObjectAnswered
<1>2. i = 1 /\ Len(vReads) = 1 /\ vReads[1] \in Volumes
  <2>1. vReads \in Seq(Volumes) /\ Len(vReads) \in Nat /\ Len(vReads) <= 1
    BY DEF ListInv, ReadsOK
  <2>2. DOMAIN vReads = 1..Len(vReads)
    BY <2>1, LenProperties
  <2>3. i \in 1..Len(vReads)
    BY <1>1, <2>2
  <2>4. i = 1 /\ Len(vReads) = 1
    <3> DEFINE n == Len(vReads)
    <3>1. n \in Nat /\ n <= 1 /\ i \in 1..n
      BY <2>1, <2>3
    <3> HIDE DEF n
    <3>2. i = 1 /\ n = 1
      BY <3>1
    <3> QED BY <3>2 DEF n
  <2> QED BY <2>1, <2>3, <2>4, ElementOfSeq
<1>3. vReads' = <<>>
  <2> DEFINE before == SubSeq(vReads, 1, 0)
             after == SubSeq(vReads, 2, 1)
  <2>1. before = <<>> /\ after = <<>>
    BY SubSeqProperties
  <2>2. V!RemoveAt(vReads, 1) = before \o after
    BY <1>2 DEF V!RemoveAt
  <2> HIDE DEF before, after
  <2> QED BY <1>1, <1>2, <2>1, <2>2
<1>4. MaxReads \in Nat
  BY DEF V!VolumesAssumption
<1>5. vReads' \in Seq(Volumes) /\ Len(vReads') = 0 /\ Len(vReads') <= MaxReads
  BY <1>3, <1>4
<1>6. vAt.volume # NoNode => vReads[1] = vAt.volume
  <2>1. vReads # <<>>
    BY <1>2
  <2> QED BY <2>1 DEF ListInv, ReadsOK
<1>7. ReadsOK'
  BY <1>1, <1>2, <1>3, <1>5, <1>6 DEF ReadsOK
<1> QED BY <1>1, <1>7
           DEF ListInv, ClusterOK, ReduxOK, UrlOK, V!cluster, V!redux

-----------------------------------------------------------------------------
(* What changes around it.                                                 *)

LEMMA ClusterSteps ==
    ASSUME ListInv,
           \/ \E v \in Volumes, c \in V!Conditions : V!ConditionChanges(v, c)
           \/ \E v \in Volumes, p \in V!Phases : V!PhaseChanges(v, p)
           \/ \E v \in Volumes : V!AlertFires(v)
    PROVE  ListInv'
<1>1. UNCHANGED <<V!redux, V!page>>
  BY DEF V!ConditionChanges, V!PhaseChanges, V!AlertFires
<1>2. ClusterOK'
  <2>1. ASSUME NEW v \in Volumes, NEW c \in V!Conditions,
               V!ConditionChanges(v, c)
        PROVE  ClusterOK'
    <3>1. /\ vConditions' = [vConditions EXCEPT ![v] = c]
          /\ vAlerting' = vAlerting
      BY <2>1 DEF V!ConditionChanges
    <3>2. \/ vPvs' = vPvs
          \/ vPvs' = [vPvs EXCEPT ![v] = "Available"]
          \/ vPvs' = [vPvs EXCEPT ![v] = "absent"]
      BY <2>1 DEF V!ConditionChanges
    <3> QED BY <3>1, <3>2 DEF ListInv, ClusterOK, V!Phases
  <2>2. ASSUME NEW v \in Volumes, NEW p \in V!Phases, V!PhaseChanges(v, p)
        PROVE  ClusterOK'
    BY <2>2 DEF V!PhaseChanges, ListInv, ClusterOK
  <2>3. ASSUME NEW v \in Volumes, V!AlertFires(v)
        PROVE  ClusterOK'
    BY <2>3 DEF V!AlertFires, ListInv, ClusterOK
  <2> QED BY <2>1, <2>2, <2>3
<1> QED BY <1>1, <1>2 DEF ListInv, ReduxOK, UrlOK, ReadsOK, V!redux, V!page

LEMMA AnswerSteps ==
    ASSUME ListInv,
           \/ V!FetchVolumes \/ V!FetchPersistentVolumes
           \/ V!FetchPersistentVolumeClaims \/ V!FetchAlerts
    PROVE  ListInv'
<1>1. UNCHANGED <<V!cluster, V!page>>
  BY DEF V!FetchVolumes, V!FetchPersistentVolumes,
         V!FetchPersistentVolumeClaims, V!FetchAlerts
<1>2. ReduxOK'
  <2>1. vLoaded' \subseteq V!Lists
    BY DEF ListInv, ReduxOK, V!FetchVolumes, V!FetchPersistentVolumes,
           V!FetchPersistentVolumeClaims, V!FetchAlerts, V!Answered, V!Lists
  <2>2. /\ vList' \in [Volumes -> V!Conditions]
        /\ vPVList' \in [Volumes -> V!Phases]
    BY DEF ListInv, ClusterOK, ReduxOK, V!FetchVolumes,
           V!FetchPersistentVolumes, V!FetchPersistentVolumeClaims,
           V!FetchAlerts
  <2>3. vAlerts' \subseteq Volumes /\ vPVCList' \subseteq Volumes
    BY DEF ListInv, ClusterOK, ReduxOK, V!FetchVolumes,
           V!FetchPersistentVolumes, V!FetchPersistentVolumeClaims,
           V!FetchAlerts
  <2> QED BY <2>1, <2>2, <2>3 DEF ReduxOK
<1> QED BY <1>1, <1>2 DEF ListInv, ClusterOK, UrlOK, ReadsOK, V!cluster, V!page

LEMMA ModalSteps ==
    ASSUME ListInv, V!ClickDelete \/ V!Cancel \/ V!Unmount
    PROVE  ListInv'
<1>1. /\ UNCHANGED <<V!cluster, V!redux, vAt, vReads, vObject>>
      /\ vModal' \in BOOLEAN
  BY DEF V!ClickDelete, V!Cancel, V!Unmount
<1> QED BY <1>1
           DEF ListInv, ClusterOK, ReduxOK, UrlOK, ReadsOK, V!cluster, V!redux

LEMMA NextList ==
    ASSUME V!VolumesAssumption, ListInv, [V!Next]_V!vars
    PROVE  ListInv'
<1>1. CASE UNCHANGED V!vars
  BY <1>1
     DEF V!vars, V!cluster, V!redux, V!page, ListInv, ClusterOK, ReduxOK,
         UrlOK, ReadsOK
<1>2. CASE \/ \E v \in Volumes, c \in V!Conditions : V!ConditionChanges(v, c)
           \/ \E v \in Volumes, p \in V!Phases : V!PhaseChanges(v, p)
           \/ \E v \in Volumes : V!AlertFires(v)
  BY <1>2, ClusterSteps
<1>3. CASE \/ V!FetchVolumes \/ V!FetchPersistentVolumes
           \/ V!FetchPersistentVolumeClaims \/ V!FetchAlerts
  BY <1>3, AnswerSteps
<1>4. CASE \E i \in 1..MaxReads, found \in BOOLEAN :
             V!CurrentVolumeObjectAnswered(i, found)
  BY <1>4, ReadAnswered
<1>5. CASE \/ V!SelectFirst
           \/ \E v \in Volumes : V!ClickRow(v) \/ V!Back(v)
           \/ V!OnClickDeleteButton
  BY <1>5, GoingSteps
<1>6. CASE \E v \in Volumes \cup {NoNode}, n \in Nodes \cup {NoNode} :
             V!Enter(v, n)
  BY <1>6, EnterStep
<1>7. CASE V!ClickDelete \/ V!Cancel \/ V!Unmount
  BY <1>7, ModalSteps
<1> QED BY <1>1, <1>2, <1>3, <1>4, <1>5, <1>6, <1>7 DEF V!Next

\* The details of the volume page are those of the volume of the URL, or none,
\* as soon as no read is under way, and the row the page reads without asking
\* is there, whatever the cluster does and however late the lists come.
THEOREM VolumesAreSafe ==
    ASSUME V!VolumesAssumption
    PROVE  V!Spec => []VolumesSafe
<1>1. V!Init => ListInv
  BY InitList
<1>2. ListInv /\ [V!Next]_V!vars => ListInv'
  BY NextList
<1>3. ListInv => VolumesSafe
  BY ListIsSafe DEF VolumesSafe
<1> QED BY <1>1, <1>2, <1>3, PTL DEF V!Spec
================================================================================
