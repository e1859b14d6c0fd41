--------------------------- MODULE UiNodePagesProofs ---------------------------
(***************************************************************************)
(* What the pages of a node promise, for any number of deployments, fetches*)
(* and visits, any pods, partitions and alerts.                            *)
(*                                                                         *)
(* "Deploy" is not offered too early only because of what the fetches in   *)
(* flight carry: whoever read that the node is not deploying read it of    *)
(* jobs that had all ended, and a job does not start again (FetchesInv,    *)
(* EntryInv).  A later deployment is none of those it saw: its number is   *)
(* that of no job yet (Answered).  A pod is as recent as the request of the*)
(* page because takeLatest leaves one request, the last (PodTypeInv); a    *)
(* size is missing only after a change because the answers that have come  *)
(* since the last change are what is mounted (QueryOK).                    *)
(***************************************************************************)
EXTENDS UiNodePages, TLAPS, SequenceTheorems

-----------------------------------------------------------------------------
(* A node and its deployment.                                              *)

\* A fetch and the entry it makes; what they saw are deployments asked for.
Fetch == [phase : {"idle", "asked"}, deploying : BOOLEAN, seen : SUBSET Nat]
NodeEntry == [status : {"none", "ready", "not_ready", "unknown"},
              others : BOOLEAN, conditions : BOOLEAN, deploying : BOOLEAN,
              seen : SUBSET Nat]

NodeTypeInv ==
    /\ nNode \in D!NodeStates
    /\ nJobs \in Seq(D!Job)
    /\ nAsked \in 0..MaxJobs /\ nPending \in 0..nAsked
    /\ nFetches \in [D!Slots -> Fetch]
    /\ nEntry \in NodeEntry
    /\ nChanges \in 0..MaxNodeChanges /\ nReloads \in 0..MaxNodeReloads

\* Who says that the node is not deploying saw only deployments that ended.
SawEnded(seen, js) ==
    \A i \in DOMAIN js : js[i].id \in seen => js[i].completed

\* The deployments that were answered are among those.
Answered == (1..nAsked) \ {nPending}

JobsInv ==
    \A i \in DOMAIN nJobs : /\ nJobs[i].id \in Answered
                            /\ nJobs[i].status # "none" => nJobs[i].completed

FetchesInv ==
    \A s \in D!Slots : /\ nFetches[s].seen \subseteq Answered
                       /\ ~nFetches[s].deploying => SawEnded(nFetches[s].seen, nJobs)

EntryInv == /\ nEntry.seen \subseteq Answered
            /\ ~nEntry.deploying => SawEnded(nEntry.seen, nJobs)

DeployedInv == NodeTypeInv /\ JobsInv /\ FetchesInv /\ EntryInv

-----------------------------------------------------------------------------
LEMMA DeployedIsSafe ==
    ASSUME DeployedInv
    PROVE  /\ D!TypeOK /\ D!OfferedWhenEnded
           /\ D!ColoursFollowRules /\ D!PanelTellsOutcome
<1>1. NodeTypeInv
  BY DEF DeployedInv
<1>2. D!TypeOK
  <2>1. \A i \in DOMAIN nJobs : nJobs[i] \in D!Job
    BY <1>1 DEF NodeTypeInv
  <2> QED BY <1>1, <2>1 DEF NodeTypeInv, D!TypeOK, Fetch, NodeEntry
<1>3. D!OfferedWhenEnded
  BY DEF DeployedInv, EntryInv, D!OfferedWhenEnded, D!DeployOffered, SawEnded
<1>4. D!ColoursFollowRules
  BY <1>1
     DEF NodeTypeInv, NodeEntry, D!ColoursFollowRules, D!NodeListData, D!Row
<1>5. D!PanelTellsOutcome
  <2> SUFFICES ASSUME NEW job \in D!ActiveJobs, D!Panel(job) = "steps"
               PROVE  /\ D!ActiveStep(job) = Len(D!Steps(job)) <=> job.status = "success"
                      /\ D!Last(D!Steps(job)) = "completed" <=> job.status # "none"
    BY DEF D!PanelTellsOutcome
  <2>1. PICK i \in DOMAIN nJobs : job = nJobs[i]
    BY DEF D!ActiveJobs
  <2>2. job.status # "none" => job.completed
    BY <2>1 DEF DeployedInv, JobsInv
  <2>3. ~(job.completed /\ job.status = "none")
    BY DEF D!Panel
  <2>4. PICK a \in Seq({"registered", "started"}),
             last \in {"completed", "deploying"} :
          /\ D!Steps(job) = a \o <<last>>
          /\ last = IF job.completed THEN "completed" ELSE "deploying"
    <3>1. CASE job.started
      <4>1. <<"registered">> \o <<"started">> \in Seq({"registered", "started"})
        OBVIOUS
      <4> QED BY <3>1, <4>1 DEF D!Steps
    <3>2. CASE ~job.started
      <4>1. <<"registered">> \o <<>> \in Seq({"registered", "started"})
        OBVIOUS
      <4> QED BY <3>2, <4>1 DEF D!Steps
    <3> QED BY <3>1, <3>2
  <2>5. Len(D!Steps(job)) \in Nat /\ D!Last(D!Steps(job)) = last
    BY <2>4 DEF D!Last
  <2> QED BY <2>2, <2>3, <2>4, <2>5 DEF D!ActiveStep
<1> QED BY <1>2, <1>3, <1>4, <1>5

LEMMA InitDeployed ==
    ASSUME D!NodesAssumption, D!Init
    PROVE  DeployedInv
<1>1. /\ nFetches \in [D!Slots -> Fetch] /\ nEntry \in NodeEntry
      /\ nNode \in D!NodeStates
  BY DEF D!Init, Fetch, D!Idle, NodeEntry, D!NoEntry, D!NodeStates
<1>2. NodeTypeInv
  BY <1>1 DEF D!Init, NodeTypeInv, D!NodesAssumption
<1>3. \A s \in D!Slots : nFetches[s].seen = {}
  BY DEF D!Init, D!Idle
<1>4. nEntry.seen = {} /\ DOMAIN nJobs = {}
  BY DEF D!Init, D!NoEntry
<1> QED BY <1>2, <1>3, <1>4
        DEF DeployedInv, JobsInv, FetchesInv, EntryInv, SawEnded

-----------------------------------------------------------------------------
\* The jobs stay those of before, or end, or are forgotten, and none is asked
\* for: who saw only deployments that ended still did.
LEMMA JobsStep ==
    ASSUME DeployedInv, NodeTypeInv', UNCHANGED nAsked, nPending' \in {0, nPending},
           \A s \in D!Slots : nFetches'[s] = nFetches[s] \/ nFetches'[s].seen = {},
           nEntry' = nEntry \/ nEntry'.seen = {},
           \A i \in DOMAIN nJobs' : \E k \in DOMAIN nJobs :
               /\ nJobs'[i].id = nJobs[k].id
               /\ nJobs[k].completed => nJobs'[i].completed
               /\ nJobs'[i].status # "none" => nJobs'[i].completed
    PROVE  DeployedInv'
<1>1. Answered \subseteq Answered'
  BY DEF Answered
<1>2. JobsInv'
  BY <1>1 DEF DeployedInv, JobsInv
<1>3. ASSUME NEW seen, SawEnded(seen, nJobs) PROVE SawEnded(seen, nJobs')
  BY <1>3 DEF SawEnded
<1>4. SawEnded({}, nJobs')
  BY DEF SawEnded
<1>5. FetchesInv'
  BY <1>1, <1>3, <1>4 DEF DeployedInv, FetchesInv
<1>6. EntryInv'
  BY <1>1, <1>3, <1>4 DEF DeployedInv, EntryInv
<1> QED BY <1>2, <1>5, <1>6 DEF DeployedInv

\* What a fetch is started with.
LEMMA Started ==
    ASSUME NEW s \in D!Slots, NEW js \in Seq(D!Job), D!StartFetch(s, js),
           nFetches \in [D!Slots -> Fetch]
    PROVE  /\ nFetches' \in [D!Slots -> Fetch]
           /\ nFetches'[s].seen = D!IdsOf(js)
           /\ ~nFetches'[s].deploying => \A i \in DOMAIN js : js[i].completed
           /\ \A r \in D!Slots : r # s => nFetches'[r] = nFetches[r]
<1> DEFINE new == [phase |-> "asked", deploying |-> D!Deploying(js),
                   seen |-> D!IdsOf(js)]
<1>1. D!IdsOf(js) \in SUBSET Nat
  <2>1. \A i \in DOMAIN js : js[i] \in D!Job
    OBVIOUS
  <2> QED BY <2>1 DEF D!IdsOf, D!Job, D!Ids
<1>2. D!Deploying(js) \in BOOLEAN
  BY DEF D!Deploying
<1>3. new \in Fetch
  BY <1>1, <1>2 DEF Fetch
<1>4. nFetches' = [nFetches EXCEPT ![s] = new]
  BY DEF D!StartFetch
<1>5. /\ new.seen = D!IdsOf(js)
      /\ ~new.deploying => \A i \in DOMAIN js : js[i].completed
  BY DEF D!Deploying
<1> HIDE DEF new
<1> QED BY <1>3, <1>4, <1>5

LEMMA FetchNodesStep ==
    ASSUME DeployedInv, NEW s \in D!Slots, D!FetchNodes(s)
    PROVE  DeployedInv'
<1>1. /\ D!StartFetch(s, nJobs)
      /\ UNCHANGED <<nNode, nJobs, nAsked, nPending, nEntry, nChanges,
                     nReloads>>
  BY DEF D!FetchNodes
<1>2. NodeTypeInv /\ nJobs \in Seq(D!Job) /\ nFetches \in [D!Slots -> Fetch]
  BY DEF DeployedInv, NodeTypeInv
<1>3. /\ nFetches' \in [D!Slots -> Fetch]
      /\ nFetches'[s].seen = D!IdsOf(nJobs)
      /\ ~nFetches'[s].deploying => \A i \in DOMAIN nJobs : nJobs[i].completed
      /\ \A r \in D!Slots : r # s => nFetches'[r] = nFetches[r]
  BY <1>1, <1>2, Started
<1>4. NodeTypeInv'
  BY <1>1, <1>2, <1>3 DEF NodeTypeInv
<1>5. D!IdsOf(nJobs) \subseteq Answered
  BY DEF DeployedInv, JobsInv, D!IdsOf
<1>6. Answered' = Answered
  BY <1>1 DEF Answered
<1>7. FetchesInv'
  BY <1>1, <1>3, <1>5, <1>6 DEF DeployedInv, FetchesInv, SawEnded
<1>8. JobsInv' /\ EntryInv'
  BY <1>1, <1>6 DEF DeployedInv, JobsInv, EntryInv
<1> QED BY <1>4, <1>7, <1>8 DEF DeployedInv

LEMMA AnswerStep ==
    ASSUME DeployedInv, NEW s \in D!Slots, D!NodesAnswered(s) \/ D!NodesFailed(s)
    PROVE  DeployedInv'
<1>1. /\ nFetches' = [nFetches EXCEPT ![s] = D!Idle]
      /\ UNCHANGED <<nNode, nJobs, nAsked, nPending, nChanges, nReloads>>
  BY DEF D!NodesAnswered, D!NodesFailed
<1>2. NodeTypeInv /\ nFetches \in [D!Slots -> Fetch] /\ nEntry \in NodeEntry
  BY DEF DeployedInv, NodeTypeInv
<1>3. D!Idle \in Fetch /\ D!Idle.seen = {}
  BY DEF D!Idle, Fetch
<1>4. /\ nFetches' \in [D!Slots -> Fetch] /\ nFetches'[s] = D!Idle
      /\ \A r \in D!Slots : r # s => nFetches'[r] = nFetches[r]
  BY <1>1, <1>2, <1>3
<1>5. Answered' = Answered
  BY <1>1 DEF Answered
<1>6. FetchesInv'
  BY <1>1, <1>3, <1>4, <1>5 DEF DeployedInv, FetchesInv, SawEnded
<1>7. nEntry' \in NodeEntry /\ EntryInv'
  <2>1. CASE nEntry' = nEntry
    BY <1>1, <1>2, <1>5, <2>1 DEF DeployedInv, EntryInv
  <2>2. CASE nEntry' # nEntry
    <3>1. nEntry' = [status |-> D!StatusOf(nNode.ready), others |-> nNode.others,
                    conditions |-> nNode.ready # "absent",
                    deploying |-> nFetches[s].deploying, seen |-> nFetches[s].seen]
      BY <2>2 DEF D!NodesAnswered, D!NodesFailed
    <3>2. /\ D!StatusOf(nNode.ready) \in {"none", "ready", "not_ready", "unknown"}
          /\ nNode.others \in BOOLEAN
      BY <1>2 DEF NodeTypeInv, D!NodeStates, D!StatusOf
    <3>3. nFetches[s].deploying \in BOOLEAN /\ nFetches[s].seen \in SUBSET Nat
      BY <1>2 DEF Fetch
    <3>4. nEntry' \in NodeEntry
      BY <3>1, <3>2, <3>3 DEF NodeEntry
    <3>5. nEntry'.seen = nFetches[s].seen /\ nEntry'.deploying = nFetches[s].deploying
      BY <3>1
    <3> QED BY <1>1, <1>5, <3>4, <3>5 DEF DeployedInv, FetchesInv, EntryInv
  <2> QED BY <2>1, <2>2
<1>8. NodeTypeInv'
  BY <1>1, <1>2, <1>4, <1>7 DEF NodeTypeInv
<1>9. JobsInv'
  BY <1>1, <1>5 DEF DeployedInv, JobsInv
<1> QED BY <1>6, <1>7, <1>8, <1>9 DEF DeployedInv

LEMMA NodeChangesStep ==
    ASSUME D!NodesAssumption, DeployedInv, NEW n \in D!NodeStates, D!NodeChanges(n)
    PROVE  DeployedInv'
<1>1. /\ nChanges < MaxNodeChanges /\ nChanges' = nChanges + 1 /\ nNode' = n
      /\ UNCHANGED <<nJobs, nAsked, nPending, nFetches, nEntry, nReloads>>
  BY DEF D!NodeChanges
<1>2. NodeTypeInv'
  BY <1>1 DEF DeployedInv, NodeTypeInv, D!NodesAssumption
<1> QED BY <1>1, <1>2
        DEF DeployedInv, JobsInv, FetchesInv, EntryInv, Answered

LEMMA ClickDeployStep ==
    ASSUME D!NodesAssumption, DeployedInv, D!ClickDeploy
    PROVE  DeployedInv'
<1>1. /\ nAsked < MaxJobs /\ nAsked' = nAsked + 1 /\ nPending' = nAsked + 1
      /\ UNCHANGED <<nNode, nJobs, nFetches, nEntry, nChanges, nReloads>>
  BY DEF D!ClickDeploy
<1>2. nAsked \in Nat /\ MaxJobs \in Nat
  BY DEF DeployedInv, NodeTypeInv, D!NodesAssumption
<1>3. NodeTypeInv'
  BY <1>1, <1>2 DEF DeployedInv, NodeTypeInv
<1>4. Answered \subseteq Answered'
  BY <1>1, <1>2 DEF Answered
<1> QED BY <1>1, <1>3, <1>4 DEF DeployedInv, JobsInv, FetchesInv, EntryInv

\* A job at the end of the list, and a job that leaves it.
LEMMA AppendedJob ==
    ASSUME NEW js \in Seq(D!Job), NEW j \in D!Job
    PROVE  /\ Append(js, j) \in Seq(D!Job)
           /\ \A i \in DOMAIN Append(js, j) :
                \/ Append(js, j)[i] = j
                \/ i \in DOMAIN js /\ Append(js, j)[i] = js[i]
<1>1. /\ Len(js) \in Nat /\ DOMAIN js = 1..Len(js)
      /\ Append(js, j) \in Seq(D!Job)
      /\ DOMAIN Append(js, j) = 1..(Len(js) + 1)
  BY AppendProperties, LenProperties
<1>2. /\ Append(js, j)[Len(js) + 1] = j
      /\ \A i \in 1..Len(js) : Append(js, j)[i] = js[i]
  BY AppendProperties
<1>3. \A i \in 1..(Len(js) + 1) : i = Len(js) + 1 \/ i \in 1..Len(js)
  BY <1>1
<1> QED BY <1>1, <1>2, <1>3

LEMMA JobRemoved ==
    ASSUME NEW js \in Seq(D!Job), NEW i \in DOMAIN js
    PROVE  /\ D!RemoveAt(js, i) \in Seq(D!Job)
           /\ \A k \in DOMAIN D!RemoveAt(js, i) :
                \E l \in DOMAIN js : D!RemoveAt(js, i)[k] = js[l]
<1> DEFINE a == SubSeq(js, 1, i - 1)
           b == SubSeq(js, i + 1, Len(js))
           n == Len(js)
<1>1. /\ n \in Nat /\ DOMAIN js = 1..n /\ i \in 1..n
      /\ \A k \in 1..n : js[k] \in D!Job
  BY LenProperties, ElementOfSeq
<1>2. /\ a \in Seq(D!Job) /\ Len(a) = i - 1
      /\ \A k \in 1..(i - 1) : a[k] = js[k]
  <2>1. \A k \in 1..(i - 1) : js[k] \in D!Job /\ 1 + k - 1 = k
    BY <1>1
  <2>2. 1 \in Int /\ i - 1 \in Int
    BY <1>1
  <2>3. /\ a \in Seq(D!Job) /\ Len(a) = IF 1 <= i - 1 THEN i - 1 - 1 + 1 ELSE 0
        /\ \A k \in 1..(i - 1 - 1 + 1) : a[k] = js[1 + k - 1]
    BY <2>1, <2>2, SubSeqProperties
  <2> HIDE DEF a
  <2> QED BY <1>1, <2>1, <2>3
<1>3. /\ b \in Seq(D!Job) /\ Len(b) = n - i
      /\ \A k \in 1..(n - i) : b[k] = js[i + k]
  <2>1. \A k \in (i + 1)..n : js[k] \in D!Job
    BY <1>1
  <2>2. n \in Int /\ i + 1 \in Int
    BY <1>1
  <2>3. /\ b \in Seq(D!Job) /\ Len(b) = IF i + 1 <= n THEN n - (i + 1) + 1 ELSE 0
        /\ \A k \in 1..(n - (i + 1) + 1) : b[k] = js[i + 1 + k - 1]
    BY <2>1, <2>2, SubSeqProperties
  <2>4. /\ n - (i + 1) + 1 = n - i
        /\ \A k \in 1..(n - i) : i + 1 + k - 1 = i + k
    BY <1>1
  <2> HIDE DEF b, n
  <2> QED BY <1>1, <2>3, <2>4
<1>4. D!RemoveAt(js, i) = a \o b
  BY DEF D!RemoveAt
<1> HIDE DEF a, b
<1>5. /\ a \o b \in Seq(D!Job) /\ DOMAIN (a \o b) = 1..(Len(a) + Len(b))
      /\ \A k \in 1..(Len(a) + Len(b)) :
           (a \o b)[k] = IF k <= Len(a) THEN a[k] ELSE b[k - Len(a)]
  BY <1>2, <1>3, ConcatProperties, LenProperties
<1> HIDE DEF n
<1>6. ASSUME NEW k \in DOMAIN (a \o b)
      PROVE  \E l \in DOMAIN js : (a \o b)[k] = js[l]
  <2>1. k \in 1..(n - 1)
    BY <1>1, <1>2, <1>3, <1>5
  <2>2. CASE k <= i - 1
    <3>1. (a \o b)[k] = a[k] /\ k \in 1..(i - 1)
      BY <1>1, <1>2, <1>3, <1>5, <2>1, <2>2
    <3> QED BY <1>1, <1>2, <2>1, <3>1
  <2>3. CASE ~(k <= i - 1)
    <3>1. (a \o b)[k] = b[k - (i - 1)] /\ k - (i - 1) \in 1..(n - i)
      <4>1. i \in Nat /\ n \in Nat /\ k \in 1..(n - 1) /\ k - (i - 1) \in 1..(n - i)
        BY <1>1, <2>1, <2>3
      <4>2. Len(a) = i - 1 /\ Len(b) = n - i
        BY <1>2, <1>3
      <4>3. k \in 1..(Len(a) + Len(b)) /\ ~(k <= Len(a))
        BY <2>3, <4>1, <4>2
      <4>4. (a \o b)[k] = b[k - Len(a)]
        BY <1>5, <4>3
      <4> QED BY <4>1, <4>2, <4>4
    <3>2. b[k - (i - 1)] = js[i + (k - (i - 1))] /\ i + (k - (i - 1)) \in 1..n
      BY <1>1, <1>3, <2>1, <3>1
    <3> QED BY <1>1, <3>1, <3>2
  <2> QED BY <2>2, <2>3
<1> QED BY <1>4, <1>5, <1>6

\* The deployment that is answered is one that nobody saw.
LEMMA DeployAnsweredStep ==
    ASSUME D!NodesAssumption, DeployedInv, NEW s \in D!Slots, D!DeployAnswered(s)
    PROVE  DeployedInv'
<1> DEFINE new == [id |-> nPending, completed |-> FALSE, status |-> "none",
                   started |-> FALSE]
<1>1. /\ nPending # 0 /\ nJobs' = Append(nJobs, new) /\ D!StartFetch(s, nJobs')
      /\ nPending' = 0
      /\ UNCHANGED <<nNode, nAsked, nEntry, nChanges, nReloads>>
  BY DEF D!DeployAnswered
<1>2. NodeTypeInv /\ nJobs \in Seq(D!Job) /\ nFetches \in [D!Slots -> Fetch]
      /\ nAsked \in Nat /\ nAsked <= MaxJobs /\ nPending \in 1..nAsked
      /\ MaxJobs \in Nat
  BY <1>1 DEF DeployedInv, NodeTypeInv, D!NodesAssumption
<1>3. new \in D!Job
  BY <1>2 DEF D!Job, D!Ids
<1>4. new.id = nPending /\ new.status = "none" /\ ~new.completed
  OBVIOUS
<1> HIDE DEF new
<1>5. /\ nJobs' \in Seq(D!Job)
      /\ \A i \in DOMAIN nJobs' :
           nJobs'[i] = new \/ (i \in DOMAIN nJobs /\ nJobs'[i] = nJobs[i])
  <2> DEFINE after == Append(nJobs, new)
  <2>1. /\ after \in Seq(D!Job)
        /\ \A i \in DOMAIN after :
             after[i] = new \/ (i \in DOMAIN nJobs /\ after[i] = nJobs[i])
    BY <1>2, <1>3, AppendedJob
  <2>2. nJobs' = after
    BY <1>1
  <2> HIDE DEF after
  <2> QED BY <2>1, <2>2
<1>6. /\ nFetches' \in [D!Slots -> Fetch]
      /\ nFetches'[s].seen = D!IdsOf(nJobs')
      /\ ~nFetches'[s].deploying => \A i \in DOMAIN nJobs' : nJobs'[i].completed
      /\ \A r \in D!Slots : r # s => nFetches'[r] = nFetches[r]
  BY <1>1, <1>2, <1>5, Started
<1>7. NodeTypeInv'
  BY <1>1, <1>2, <1>5, <1>6 DEF NodeTypeInv
<1>8. Answered' = Answered \cup {nPending} /\ nPending \notin Answered
  BY <1>1, <1>2 DEF Answered
<1>9. JobsInv'
  BY <1>4, <1>5, <1>8 DEF DeployedInv, JobsInv
<1>10. ASSUME NEW seen \in SUBSET Answered, SawEnded(seen, nJobs)
       PROVE  SawEnded(seen, nJobs')
  BY <1>4, <1>5, <1>8, <1>10 DEF SawEnded
<1>11. EntryInv'
  BY <1>1, <1>8, <1>10 DEF DeployedInv, EntryInv
<1>12. FetchesInv'
  <2>1. ASSUME NEW r \in D!Slots, r # s
        PROVE  /\ nFetches'[r].seen \subseteq Answered'
               /\ ~nFetches'[r].deploying => SawEnded(nFetches'[r].seen, nJobs')
    BY <1>6, <1>8, <1>10, <2>1 DEF DeployedInv, FetchesInv
  <2>2. /\ nFetches'[s].seen \subseteq Answered'
        /\ ~nFetches'[s].deploying => SawEnded(nFetches'[s].seen, nJobs')
    BY <1>6, <1>9 DEF JobsInv, D!IdsOf, SawEnded
  <2> QED BY <2>1, <2>2 DEF FetchesInv
<1> QED BY <1>7, <1>9, <1>11, <1>12 DEF DeployedInv

LEMMA DeployFailedStep ==
    ASSUME DeployedInv, D!DeployFailed
    PROVE  DeployedInv'
<1>1. /\ nPending' = 0
      /\ UNCHANGED <<nNode, nJobs, nAsked, nFetches, nEntry, nChanges,
                     nReloads>>
  BY DEF D!DeployFailed
<1>2. NodeTypeInv'
  BY <1>1 DEF DeployedInv, NodeTypeInv
<1> QED BY <1>1, <1>2, JobsStep DEF DeployedInv, JobsInv

\* A job starts, ends or is found to have ended.
LEMMA JobChangesStep ==
    ASSUME DeployedInv, NEW i \in DOMAIN nJobs,
           \/ D!JobStarts(i)
           \/ \E o \in {"success", "failed"} :
                D!JobCompleted(i, o) \/ D!StatusPolled(i, o)
    PROVE  DeployedInv'
<1>1. UNCHANGED <<nNode, nAsked, nPending, nFetches, nEntry, nChanges,
                  nReloads>>
  BY DEF D!JobStarts, D!JobCompleted, D!StatusPolled
<1>2. nJobs \in Seq(D!Job) /\ nJobs[i] \in D!Job /\ NodeTypeInv
  BY DEF DeployedInv, NodeTypeInv
<1>3. PICK new \in D!Job :
        /\ nJobs' = [nJobs EXCEPT ![i] = new]
        /\ new.id = nJobs[i].id
        /\ nJobs[i].completed => new.completed
        /\ new.status # "none" => new.completed
  <2>1. CASE D!JobStarts(i)
    <3> DEFINE new == [nJobs[i] EXCEPT !.started = TRUE]
    <3>1. /\ new \in D!Job /\ new.id = nJobs[i].id
          /\ new.status = nJobs[i].status
          /\ new.completed = nJobs[i].completed
      BY <1>2 DEF D!Job
    <3>2. nJobs' = [nJobs EXCEPT ![i] = new]
      BY <2>1 DEF D!JobStarts
    <3> HIDE DEF new
    <3> QED BY <3>1, <3>2 DEF DeployedInv, JobsInv
  <2>2. ASSUME NEW o \in {"success", "failed"}, D!JobCompleted(i, o)
        PROVE  \E new \in D!Job :
                 /\ nJobs' = [nJobs EXCEPT ![i] = new]
                 /\ new.id = nJobs[i].id
                 /\ nJobs[i].completed => new.completed
                 /\ new.status # "none" => new.completed
    <3> DEFINE new == [nJobs[i] EXCEPT !.completed = TRUE, !.status = o]
    <3>1. new \in D!Job /\ new.id = nJobs[i].id /\ new.completed
      BY <1>2 DEF D!Job
    <3>2. nJobs' = [nJobs EXCEPT ![i] = new]
      BY <2>2 DEF D!JobCompleted
    <3> HIDE DEF new
    <3> QED BY <3>1, <3>2
  <2>3. ASSUME NEW o \in {"success", "failed"}, D!StatusPolled(i, o)
        PROVE  \E new \in D!Job :
                 /\ nJobs' = [nJobs EXCEPT ![i] = new]
                 /\ new.id = nJobs[i].id
                 /\ nJobs[i].completed => new.completed
                 /\ new.status # "none" => new.completed
    <3> DEFINE new == [nJobs[i] EXCEPT !.status = o]
    <3>1. new \in D!Job /\ new.id = nJobs[i].id /\ new.completed = nJobs[i].completed
      BY <1>2 DEF D!Job
    <3>2. nJobs' = [nJobs EXCEPT ![i] = new] /\ nJobs[i].completed
      BY <2>3 DEF D!StatusPolled
    <3> HIDE DEF new
    <3> QED BY <3>1, <3>2
  <2> QED BY <2>1, <2>2, <2>3
<1>4. /\ nJobs' \in Seq(D!Job) /\ DOMAIN nJobs' = DOMAIN nJobs
      /\ nJobs'[i] = new
      /\ \A k \in DOMAIN nJobs : k # i => nJobs'[k] = nJobs[k]
  BY <1>2, <1>3
<1>5. NodeTypeInv'
  BY <1>1, <1>2, <1>4 DEF NodeTypeInv
<1>6. \A k \in DOMAIN nJobs' :
        /\ nJobs'[k].id = nJobs[k].id
        /\ nJobs[k].completed => nJobs'[k].completed
        /\ nJobs'[k].status # "none" => nJobs'[k].completed
  BY <1>3, <1>4 DEF DeployedInv, JobsInv
<1> QED BY <1>1, <1>4, <1>5, <1>6, JobsStep

LEMMA JobForgottenStep ==
    ASSUME DeployedInv, NEW i \in DOMAIN nJobs, D!JobForgotten(i)
    PROVE  DeployedInv'
<1>1. /\ nJobs' = D!RemoveAt(nJobs, i)
      /\ UNCHANGED <<nNode, nAsked, nPending, nFetches, nEntry, nChanges,
                     nReloads>>
  BY DEF D!JobForgotten
<1>2. nJobs \in Seq(D!Job) /\ NodeTypeInv
  BY DEF DeployedInv, NodeTypeInv
<1>3. /\ nJobs' \in Seq(D!Job)
      /\ \A k \in DOMAIN nJobs' : \E l \in DOMAIN nJobs : nJobs'[k] = nJobs[l]
  BY <1>1, <1>2, JobRemoved
<1>4. NodeTypeInv'
  BY <1>1, <1>2, <1>3 DEF NodeTypeInv
<1>5. \A k \in DOMAIN nJobs' : \E l \in DOMAIN nJobs :
        /\ nJobs'[k].id = nJobs[l].id
        /\ nJobs[l].completed => nJobs'[k].completed
        /\ nJobs'[k].status # "none" => nJobs'[k].completed
  BY <1>3 DEF DeployedInv, JobsInv
<1> QED BY <1>1, <1>4, <1>5, JobsStep

LEMMA ReloadStep ==
    ASSUME D!NodesAssumption, DeployedInv, D!Reload
    PROVE  DeployedInv'
<1>1. /\ nReloads < MaxNodeReloads /\ nReloads' = nReloads + 1
      /\ nJobs' = [i \in DOMAIN nJobs |->
                    [nJobs[i] EXCEPT !.status = "none", !.started = FALSE]]
      /\ nPending' = 0 /\ nFetches' = [s \in D!Slots |-> D!Idle]
      /\ nEntry' = D!NoEntry
      /\ UNCHANGED <<nNode, nAsked, nChanges>>
  BY DEF D!Reload
<1>2. nJobs \in Seq(D!Job) /\ NodeTypeInv
  BY DEF DeployedInv, NodeTypeInv
<1>3. \A i \in DOMAIN nJobs :
        LET new == [nJobs[i] EXCEPT !.status = "none", !.started = FALSE]
        IN /\ new \in D!Job /\ new.id = nJobs[i].id /\ new.status = "none"
           /\ new.completed = nJobs[i].completed
  <2>1. \A i \in DOMAIN nJobs : nJobs[i] \in D!Job
    BY <1>2
  <2> QED BY <2>1 DEF D!Job
<1>4. /\ nJobs' \in Seq(D!Job) /\ DOMAIN nJobs' = DOMAIN nJobs
      /\ \A i \in DOMAIN nJobs' : /\ nJobs'[i].id = nJobs[i].id
                                  /\ nJobs'[i].status = "none"
                                  /\ nJobs'[i].completed = nJobs[i].completed
  <2>1. DOMAIN nJobs' = DOMAIN nJobs
    BY <1>1
  <2>2. \A i \in DOMAIN nJobs : nJobs'[i] \in D!Job
    BY <1>1, <1>3
  <2>3. nJobs' \in Seq(D!Job)
    <3>1. Len(nJobs) \in Nat /\ DOMAIN nJobs = 1..Len(nJobs)
      BY <1>2, LenProperties
    <3>2. nJobs' \in [1..Len(nJobs) -> D!Job]
      BY <1>1, <2>2, <3>1
    <3> QED BY <3>1, <3>2
  <2> QED BY <1>1, <1>3, <2>1, <2>3
<1>5. nFetches' \in [D!Slots -> Fetch] /\ nEntry' \in NodeEntry
  <2>1. D!Idle \in Fetch /\ D!NoEntry \in NodeEntry
    BY DEF D!Idle, Fetch, D!NoEntry, NodeEntry
  <2> QED BY <1>1, <2>1
<1>6. NodeTypeInv'
  <2>1. nAsked' \in 0..MaxJobs /\ nPending' \in 0..nAsked'
    <3>1. MaxJobs \in Nat /\ nAsked \in 0..MaxJobs
      BY <1>2 DEF NodeTypeInv, D!NodesAssumption
    <3>2. nAsked' = nAsked /\ nPending' = 0
      BY <1>1
    <3> QED BY <3>1, <3>2
  <2>2. nChanges' \in 0..MaxNodeChanges /\ nReloads' \in 0..MaxNodeReloads
    <3>1. /\ MaxNodeReloads \in Nat /\ nReloads \in 0..MaxNodeReloads
          /\ nChanges \in 0..MaxNodeChanges
      BY <1>2 DEF NodeTypeInv, D!NodesAssumption
    <3>2. /\ nReloads < MaxNodeReloads /\ nReloads' = nReloads + 1
          /\ nChanges' = nChanges
      BY <1>1
    <3> QED BY <3>1, <3>2
  <2>3. nNode' \in D!NodeStates /\ nJobs' \in Seq(D!Job)
    BY <1>1, <1>2, <1>4 DEF NodeTypeInv
  <2> QED BY <1>5, <2>1, <2>2, <2>3 DEF NodeTypeInv
<1>7. /\ \A s \in D!Slots : nFetches'[s].seen = {}
      /\ nEntry'.seen = {}
  <2>1. D!Idle.seen = {} /\ D!NoEntry.seen = {}
    BY DEF D!Idle, D!NoEntry
  <2> QED BY <1>1, <2>1
<1>8. \A i \in DOMAIN nJobs' : \E k \in DOMAIN nJobs :
        /\ nJobs'[i].id = nJobs[k].id
        /\ nJobs[k].completed => nJobs'[i].completed
        /\ nJobs'[i].status # "none" => nJobs'[i].completed
  BY <1>4
<1>9. UNCHANGED nAsked /\ nPending' \in {0, nPending}
  BY <1>1
<1> QED BY <1>6, <1>7, <1>8, <1>9, JobsStep

LEMMA NextDeployed ==
    ASSUME D!NodesAssumption, DeployedInv, [D!Next]_D!vars
    PROVE  DeployedInv'
<1>1. CASE UNCHANGED D!vars
  BY <1>1 DEF D!vars, DeployedInv, NodeTypeInv, JobsInv, FetchesInv, EntryInv,
              Answered
<1>2. CASE \E s \in D!Slots :
             D!FetchNodes(s) \/ D!NodesAnswered(s) \/ D!NodesFailed(s)
               \/ D!DeployAnswered(s)
  BY <1>2, FetchNodesStep, AnswerStep, DeployAnsweredStep
<1>3. CASE \E i \in DOMAIN nJobs :
             \/ D!JobStarts(i) \/ D!JobForgotten(i)
             \/ \E o \in {"success", "failed"} :
                  D!JobCompleted(i, o) \/ D!StatusPolled(i, o)
  BY <1>3, JobChangesStep, JobForgottenStep
<1> QED BY <1>1, <1>2, <1>3, NodeChangesStep, ClickDeployStep,
           DeployFailedStep, ReloadStep
           DEF D!Next

-----------------------------------------------------------------------------
(* The pods of a node.                                                     *)

PodTypeInv ==
    /\ pPods \in Seq(PodStates) /\ Len(pPods) >= 1
    /\ pList \in 0..Len(pPods)
    /\ pSince \in 0..Len(pPods)
    /\ pAsking \subseteq {pSince}

\* The list is that of the last request, once it is answered.
PodsInv == PodTypeInv /\ P!PodsOfVisit

-----------------------------------------------------------------------------
\* A pod that is shown green is the one of the list.
LEMMA PodsAreSafe ==
    ASSUME PodsInv
    PROVE  P!PodsOfVisit /\ P!GreenWasRunning
<1>1. P!PodsOfVisit
  BY DEF PodsInv
<1>2. P!GreenWasRunning
  <2> SUFFICES ASSUME NEW row \in P!PodsListData(pAt),
                      P!StatusText(row) = "green"
               PROVE  \E i \in 1..Len(pPods) :
                        /\ (pAsking = {} /\ ~pFailed) => i >= pSince
                        /\ pPods[i].node = pAt /\ pPods[i].phase = "Running"
                        /\ pPods[i].told => pPods[i].running = pPods[i].containers
    BY DEF P!GreenWasRunning
  <2>1. PICK i \in {pList} \ {0} :
          /\ pPods[i].node = pAt /\ row.phase = pPods[i].phase
          /\ row.numContainer = IF pPods[i].told THEN pPods[i].containers ELSE 0
          /\ row.numContainerRunning = IF pPods[i].told THEN pPods[i].running ELSE 0
    BY DEF P!PodsListData
  <2>2. row.phase = "Running" /\ row.numContainer = row.numContainerRunning
    BY DEF P!StatusText
  <2>3. i \in 1..Len(pPods) /\ i = pList
    BY <2>1 DEF PodsInv, PodTypeInv
  <2> QED BY <2>1, <2>2, <2>3 DEF PodsInv, P!PodsOfVisit
<1> QED BY <1>1, <1>2

LEMMA InitPods ==
    ASSUME P!Init
    PROVE  PodsInv
<1>1. PICK p \in PodStates : pPods = <<p>>
  BY DEF P!Init
<1>2. pPods \in Seq(PodStates) /\ Len(pPods) = 1
  BY <1>1
<1>3. pList = 0 /\ pSince = 0 /\ pAsking = {} /\ pFailed = FALSE
  BY DEF P!Init
<1>4. PodTypeInv
  BY <1>2, <1>3 DEF PodTypeInv
<1>5. P!PodsOfVisit
  BY <1>3 DEF P!PodsOfVisit
<1> QED BY <1>4, <1>5 DEF PodsInv

\* A request is made at the present moment, and takes the place of the one that
\* ran.
LEMMA FetchPodsStep ==
    ASSUME PodsInv, P!FetchPods
    PROVE  PodsInv'
<1>1. /\ pAsking' = {Len(pPods)} /\ pSince' = Len(pPods) /\ pFailed' = FALSE
      /\ UNCHANGED <<pPods, pList>>
  BY DEF P!FetchPods, P!TakeLatest
<1>2. /\ pPods \in Seq(PodStates) /\ Len(pPods) >= 1 /\ Len(pPods) \in Nat
      /\ pList \in 0..Len(pPods)
  BY DEF PodsInv, PodTypeInv
<1>3. PodTypeInv'
  <2>1. pPods' = pPods /\ pList' = pList /\ pSince' = Len(pPods') /\ pFailed' = FALSE
    BY <1>1
  <2>2. pAsking' \subseteq {pSince'}
    BY <1>1
  <2> QED BY <1>2, <2>1, <2>2 DEF PodTypeInv
<1>4. P!PodsOfVisit'
  BY <1>1 DEF P!PodsOfVisit
<1> QED BY <1>3, <1>4 DEF PodsInv

LEMMA PodsAnsweredStep ==
    ASSUME PodsInv, NEW start \in pAsking, P!PodsAnswered(start)
    PROVE  PodsInv'
<1>1. /\ pList' \in start..Len(pPods) /\ pAsking' = pAsking \ {start}
      /\ UNCHANGED <<pPods, pSince, pFailed>>
  BY DEF P!PodsAnswered
<1>2. start = pSince /\ Len(pPods) \in Nat /\ pSince \in 0..Len(pPods)
  BY DEF PodsInv, PodTypeInv
<1>3. pList' \in 0..Len(pPods) /\ pList' >= pSince
  BY <1>1, <1>2
<1> QED BY <1>1, <1>2, <1>3 DEF PodsInv, PodTypeInv, P!PodsOfVisit

LEMMA PodsFailedStep ==
    ASSUME PodsInv, NEW start \in pAsking, P!PodsFailed(start)
    PROVE  PodsInv'
BY DEF P!PodsFailed, PodsInv, PodTypeInv, P!PodsOfVisit

LEMMA PodChangesStep ==
    ASSUME PodsInv, NEW p \in PodStates, P!PodChanges(p)
    PROVE  PodsInv'
<1>1. /\ pPods' = Append(pPods, p)
      /\ UNCHANGED <<pList, pAsking, pSince, pFailed>>
  BY DEF P!PodChanges
<1>2. pPods \in Seq(PodStates)
  BY DEF PodsInv, PodTypeInv
<1>3. /\ pPods' \in Seq(PodStates) /\ Len(pPods') = Len(pPods) + 1
      /\ Len(pPods) \in Nat
  BY <1>1, <1>2
<1> QED BY <1>1, <1>3 DEF PodsInv, PodTypeInv, P!PodsOfVisit

LEMMA NextPods ==
    ASSUME PodsInv, [P!Next]_P!vars
    PROVE  PodsInv'
<1>1. CASE UNCHANGED P!vars
  BY <1>1 DEF P!vars, PodsInv, PodTypeInv, P!PodsOfVisit
<1>2. CASE \E start \in pAsking : P!PodsAnswered(start) \/ P!PodsFailed(start)
  BY <1>2, PodsAnsweredStep, PodsFailedStep
<1>3. CASE \E p \in PodStates : P!PodChanges(p)
  BY <1>3, PodChangesStep
<1>4. CASE P!ChangeArguments \/ \E page \in Nodes \cup {"volumes"} : P!Visit(page)
  BY <1>4, FetchPodsStep DEF P!ChangeArguments, P!Visit
<1> QED BY <1>1, <1>2, <1>3, <1>4 DEF P!Next

-----------------------------------------------------------------------------
(* The partitions of a node.                                               *)

\* A query; what was answered may still be missing.
Query == [status : {"idle", "loading", "success", "error"}, answered : BOOLEAN,
          usages : SUBSET (Mounts \cup Q!NotYet),
          sizes : SUBSET (Mounts \cup Q!NotYet),
          fetching : BOOLEAN, partUsages : SUBSET (Mounts \cup Q!NotYet),
          partSizes : SUBSET (Mounts \cup Q!NotYet), steady : BOOLEAN,
          wasSteady : BOOLEAN]

\* A query of a node whose partitions are ms.  What has come of a request since
\* which they did not change is what they are, and what was joined when they had
\* not changed is the same on both sides.
QueryOK(q, ms) ==
    /\ q.fetching \/ q.answered => q.status # "idle"
    /\ q.steady => /\ q.partUsages = Q!NotYet \/ q.partUsages = ms
                   /\ q.partSizes = Q!NotYet \/ q.partSizes = ms
    /\ q.wasSteady => q.usages = q.sizes

\* An open tab has asked.
PartsInv ==
    /\ dQuery \in [Nodes -> Query] /\ dMounted \in [Nodes -> SUBSET Mounts]
    /\ \A n \in Nodes : QueryOK(dQuery[n], dMounted[n])
    /\ dName # "none" => dName \in Nodes /\ dQuery[dName].status # "idle"

-----------------------------------------------------------------------------
(* The table, whatever the state.                                          *)

LEMMA FilteredTwice ==
    ASSUME NEW n, NEW m, NEW alerts, NEW l
    PROVE  l \in Q!FilterAlerts(Q!AlertNF(n, alerts), [mountpoint |-> {m}]) <=>
             /\ l \in alerts
             /\ {"alertname", "instance"} \subseteq DOMAIN l
             /\ l.alertname \in Q!FileSystemAlerts /\ l.instance = n
             /\ "mountpoint" \in DOMAIN l /\ l.mountpoint = m
<1> DEFINE first == [alertname |-> Q!FileSystemAlerts, instance |-> {n}]
           second == [mountpoint |-> {m}]
<1>1. /\ DOMAIN first = {"alertname", "instance"}
      /\ first["alertname"] = Q!FileSystemAlerts /\ first["instance"] = {n}
  OBVIOUS
<1>2. DOMAIN second = {"mountpoint"} /\ second["mountpoint"] = {m}
  OBVIOUS
<1>3. Q!AlertNF(n, alerts) = Q!FilterAlerts(alerts, first)
  BY DEF Q!AlertNF
<1> HIDE DEF first, second
<1>4. Q!IsAlertSelected(l, first) <=>
        /\ {"alertname", "instance"} \subseteq DOMAIN l
        /\ l["alertname"] \in Q!FileSystemAlerts /\ l["instance"] = n
  BY <1>1 DEF Q!IsAlertSelected
<1>5. Q!IsAlertSelected(l, second) <=>
        "mountpoint" \in DOMAIN l /\ l["mountpoint"] = m
  BY <1>2 DEF Q!IsAlertSelected
<1>6. l \in Q!FilterAlerts(Q!AlertNF(n, alerts), second) <=>
        l \in alerts /\ Q!IsAlertSelected(l, first) /\ Q!IsAlertSelected(l, second)
  BY <1>3 DEF Q!FilterAlerts
<1> QED BY <1>4, <1>5, <1>6 DEF second

\* The health of a row is that of the alerts that are left.
LEMMA TableHealth == Q!HealthOfPartition
<1> SUFFICES ASSUME NEW n \in Nodes, NEW alerts \in SUBSET AlertLabels,
                    NEW row \in Q!Partitions(n, alerts)
             PROVE  row.health = "critical" <=>
                      \E l \in alerts :
                        /\ {"alertname", "instance"} \subseteq DOMAIN l
                        /\ l.alertname \in Q!FileSystemAlerts
                        /\ l.severity = "critical" /\ l.instance = n
                        /\ "mountpoint" \in DOMAIN l
                        /\ l.mountpoint = row.partitionPath
  BY DEF Q!HealthOfPartition
<1> DEFINE left(m) == Q!FilterAlerts(Q!AlertNF(n, alerts), [mountpoint |-> {m}])
<1>1. PICK m \in dQuery[n].usages :
        row = [partitionPath |-> m, health |-> Q!GetHealthStatus(left(m)),
               sized |-> m \in dQuery[n].sizes]
  BY DEF Q!Partitions, Q!NodePartitionsTableData
<1>2. Q!GetHealthStatus(left(m)) = "critical" <=>
        \E l \in left(m) : l.severity = "critical"
  <2> HIDE DEF left
  <2> QED BY DEF Q!GetHealthStatus
<1>3. \A l : l \in left(m) <=>
               /\ l \in alerts
               /\ {"alertname", "instance"} \subseteq DOMAIN l
               /\ l.alertname \in Q!FileSystemAlerts /\ l.instance = n
               /\ "mountpoint" \in DOMAIN l /\ l.mountpoint = m
  BY FilteredTwice
<1> HIDE DEF left
<1>4. row.partitionPath = m /\ row.health = Q!GetHealthStatus(left(m))
  BY <1>1
<1> QED BY <1>2, <1>3, <1>4

LEMMA TableSizes ==
    ASSUME PartsInv
    PROVE  Q!SizeMissingOnlyAfterChange
<1> SUFFICES ASSUME NEW n \in Nodes, dQuery[n].wasSteady,
                    NEW row \in Q!Partitions(n, {})
             PROVE  row.sized
  BY DEF Q!SizeMissingOnlyAfterChange
<1>1. dQuery[n].usages = dQuery[n].sizes
  BY DEF PartsInv, QueryOK
<1> DEFINE health(m) ==
             Q!GetHealthStatus(Q!FilterAlerts(Q!AlertNF(n, {}), [mountpoint |-> {m}]))
<1>2. PICK m \in dQuery[n].usages :
        row = [partitionPath |-> m, health |-> health(m),
               sized |-> m \in dQuery[n].sizes]
  BY DEF Q!Partitions, Q!NodePartitionsTableData
<1> HIDE DEF health
<1>3. row.sized <=> m \in dQuery[n].sizes
  BY <1>2
<1> QED BY <1>1, <1>2, <1>3

LEMMA TableSays ==
    ASSUME PartsInv
    PROVE  Q!TableTells
<1> SUFFICES ASSUME dName # "none"
             PROVE  Q!Partitions(dName, {}) = {} <=> Q!Message(dName) # "none"
  BY DEF Q!TableTells
<1>1. dQuery[dName].status \in {"loading", "success", "error"}
  BY DEF PartsInv, Query
<1>2. Q!NodePartitionsTableData(dName, {}) = {} <=> dQuery[dName].usages = {}
  BY DEF Q!NodePartitionsTableData
<1> QED BY <1>1, <1>2 DEF Q!Partitions, Q!Message

-----------------------------------------------------------------------------
(* The query.                                                              *)

\* The query of one node becomes q, and the partitions stay.
LEMMA QueryStep ==
    ASSUME PartsInv, NEW n \in Nodes, NEW q \in Query, UNCHANGED dMounted,
           dQuery' = [dQuery EXCEPT ![n] = q], QueryOK(q, dMounted[n]),
           dName' = dName \/ dName' = n,
           dName' = n => q.status # "idle"
    PROVE  PartsInv'
<1>1. /\ dQuery' \in [Nodes -> Query] /\ dQuery'[n] = q
      /\ \A r \in Nodes : r # n => dQuery'[r] = dQuery[r]
  BY DEF PartsInv
<1>2. dMounted' \in [Nodes -> SUBSET Mounts]
  BY DEF PartsInv
<1>3. \A r \in Nodes : QueryOK(dQuery'[r], dMounted'[r])
  <2> SUFFICES ASSUME NEW r \in Nodes PROVE QueryOK(dQuery'[r], dMounted[r])
    OBVIOUS
  <2>1. CASE r = n
    BY <1>1, <2>1
  <2>2. CASE r # n
    BY <1>1, <2>2 DEF PartsInv
  <2> QED BY <2>1, <2>2
<1>4. dName' # "none" => dName' \in Nodes /\ dQuery'[dName'].status # "idle"
  <2>1. CASE dName' = n
    BY <1>1, <2>1
  <2>2. CASE dName' # n /\ dName' = dName
    BY <1>1, <2>2 DEF PartsInv
  <2> QED BY <2>1, <2>2
<1> QED BY <1>1, <1>2, <1>3, <1>4 DEF PartsInv

\* Both answers together are those of one state of the node, if it was steady.
LEMMA JoinedOK ==
    ASSUME NEW q \in Query, NEW ms, QueryOK(q, ms)
    PROVE  /\ Q!Joined(q) \in Query /\ QueryOK(Q!Joined(q), ms)
           /\ q.status # "idle" => Q!Joined(q).status # "idle"
<1>1. CASE Q!NotYet \in {q.partUsages, q.partSizes}
  BY <1>1 DEF Q!Joined
<1>2. CASE Q!NotYet \notin {q.partUsages, q.partSizes}
  <2> DEFINE j == [q EXCEPT !.status = "success", !.answered = TRUE,
                   !.usages = q.partUsages, !.sizes = q.partSizes,
                   !.fetching = FALSE, !.wasSteady = q.steady,
                   !.partUsages = Q!NotYet, !.partSizes = Q!NotYet]
  <2>1. Q!Joined(q) = j
    BY <1>2 DEF Q!Joined
  <2>2. /\ j.status = "success" /\ ~j.fetching /\ j.usages = q.partUsages
        /\ j.sizes = q.partSizes /\ (j.wasSteady <=> q.steady)
        /\ j.partUsages = Q!NotYet /\ j.partSizes = Q!NotYet
    BY DEF Query
  <2>3. j \in Query
    BY DEF Query, Q!NotYet
  <2>4. QueryOK(j, ms)
    <3> HIDE DEF j
    <3> QED BY <1>2, <2>2 DEF QueryOK
  <2> QED BY <2>1, <2>2, <2>3, <2>4
<1> QED BY <1>1, <1>2

LEMMA AnsweredStep ==
    ASSUME PartsInv, NEW n \in Nodes, Q!UsageAnswered(n) \/ Q!SizeAnswered(n)
    PROVE  PartsInv'
<1>1. /\ dQuery[n] \in Query /\ QueryOK(dQuery[n], dMounted[n])
      /\ dMounted[n] \in SUBSET Mounts
  BY DEF PartsInv
<1>2. /\ dQuery[n].fetching /\ dQuery[n].status # "idle"
      /\ UNCHANGED <<dName, dMounted>>
  BY <1>1 DEF Q!UsageAnswered, Q!SizeAnswered, QueryOK
<1>3. PICK q \in Query : /\ QueryOK(q, dMounted[n]) /\ q.status # "idle"
                         /\ dQuery' = [dQuery EXCEPT ![n] = Q!Joined(q)]
  <2>1. CASE Q!UsageAnswered(n)
    <3> DEFINE q == [dQuery[n] EXCEPT !.partUsages = dMounted[n]]
    <3>1. q \in Query /\ QueryOK(q, dMounted[n]) /\ q.status # "idle"
      BY <1>1, <1>2 DEF Query, QueryOK
    <3>2. dQuery' = [dQuery EXCEPT ![n] = Q!Joined(q)]
      BY <2>1 DEF Q!UsageAnswered
    <3> HIDE DEF q
    <3> QED BY <3>1, <3>2
  <2>2. CASE Q!SizeAnswered(n)
    <3> DEFINE q == [dQuery[n] EXCEPT !.partSizes = dMounted[n]]
    <3>1. q \in Query /\ QueryOK(q, dMounted[n]) /\ q.status # "idle"
      BY <1>1, <1>2 DEF Query, QueryOK
    <3>2. dQuery' = [dQuery EXCEPT ![n] = Q!Joined(q)]
      BY <2>2 DEF Q!SizeAnswered
    <3> HIDE DEF q
    <3> QED BY <3>1, <3>2
  <2> QED BY <2>1, <2>2
<1>4. /\ Q!Joined(q) \in Query /\ QueryOK(Q!Joined(q), dMounted[n])
      /\ Q!Joined(q).status # "idle"
  BY <1>3, JoinedOK
<1> HIDE DEF Q!Joined
<1> QED BY <1>2, <1>3, <1>4, QueryStep

LEMMA RetryStep ==
    ASSUME PartsInv, NEW n \in Nodes, Q!QueryRetried(n) \/ Q!QueryFailed(n)
    PROVE  PartsInv'
<1>1. /\ dQuery[n] \in Query /\ QueryOK(dQuery[n], dMounted[n])
      /\ dQuery \in [Nodes -> Query]
  BY DEF PartsInv
<1>2. /\ dQuery[n].fetching /\ dQuery[n].status # "idle"
      /\ UNCHANGED <<dName, dMounted>>
  BY <1>1 DEF Q!QueryRetried, Q!QueryFailed, QueryOK
<1>3. CASE Q!QueryRetried(n)
  <2> DEFINE q == [dQuery[n] EXCEPT !.partUsages = Q!NotYet, !.partSizes = Q!NotYet]
  <2>1. q \in Query /\ QueryOK(q, dMounted[n]) /\ q.status # "idle"
    BY <1>1, <1>2 DEF Query, QueryOK, Q!NotYet
  <2>2. dQuery' = [dQuery EXCEPT ![n] = q]
    BY <1>1, <1>3 DEF Q!QueryRetried, Query
  <2> HIDE DEF q
  <2> QED BY <1>2, <2>1, <2>2, QueryStep
<1>4. CASE Q!QueryFailed(n)
  <2> DEFINE q == [dQuery[n] EXCEPT !.fetching = FALSE, !.status = "error",
                                   !.partUsages = Q!NotYet, !.partSizes = Q!NotYet]
  <2>1. q \in Query /\ QueryOK(q, dMounted[n]) /\ q.status # "idle"
    BY <1>1 DEF Query, QueryOK, Q!NotYet
  <2>2. dQuery' = [dQuery EXCEPT ![n] = q]
    BY <1>1, <1>4 DEF Q!QueryFailed, Query
  <2> HIDE DEF q
  <2> QED BY <1>2, <2>1, <2>2, QueryStep
<1> QED BY <1>3, <1>4

LEMMA CollectedStep ==
    ASSUME PartsInv, NEW n \in Nodes, Q!QueryCollected(n)
    PROVE  PartsInv'
<1>1. Q!NoQuery \in Query /\ QueryOK(Q!NoQuery, dMounted[n])
  BY DEF Q!NoQuery, Query, QueryOK, Q!NotYet
<1>2. /\ dName # n /\ dQuery' = [dQuery EXCEPT ![n] = Q!NoQuery]
      /\ UNCHANGED <<dName, dMounted>>
  BY DEF Q!QueryCollected
<1> QED BY <1>1, <1>2, QueryStep

LEMMA OpenStep ==
    ASSUME PartsInv, NEW n \in Nodes, Q!Open(n)
    PROVE  PartsInv'
<1>1. dQuery[n] \in Query /\ QueryOK(dQuery[n], dMounted[n])
  BY DEF PartsInv
<1>2. /\ dName' = n /\ UNCHANGED dMounted
      /\ dQuery' = [dQuery EXCEPT ![n] = Q!Started(dQuery[n])]
  BY DEF Q!Open, Q!StartFetch
<1>3. /\ Q!Started(dQuery[n]) \in Query
      /\ QueryOK(Q!Started(dQuery[n]), dMounted[n])
      /\ Q!Started(dQuery[n]).status # "idle"
  BY <1>1 DEF Q!Started, Query, QueryOK, Q!NotYet
<1> HIDE DEF Q!Started
<1> QED BY <1>2, <1>3, QueryStep

\* A change makes the answers that have come unsteady.
LEMMA ChangeStep ==
    ASSUME PartsInv, NEW n \in Nodes, NEW ms \in SUBSET Mounts,
           Q!PartitionsChange(n, ms)
    PROVE  PartsInv'
<1>1. /\ dQuery[n] \in Query /\ QueryOK(dQuery[n], dMounted[n])
      /\ dQuery \in [Nodes -> Query]
      /\ dMounted \in [Nodes -> SUBSET Mounts]
  BY DEF PartsInv
<1> DEFINE q == [dQuery[n] EXCEPT !.steady = FALSE]
<1>2. q \in Query /\ QueryOK(q, ms) /\ q.status = dQuery[n].status
  BY <1>1 DEF Query, QueryOK
<1>3. /\ dQuery' = [dQuery EXCEPT ![n] = q]
      /\ dMounted' = [dMounted EXCEPT ![n] = ms]
      /\ dName' = dName
  BY <1>1 DEF Q!PartitionsChange, Query
<1> HIDE DEF q
<1>4. /\ dQuery' \in [Nodes -> Query] /\ dQuery'[n] = q
      /\ dMounted' \in [Nodes -> SUBSET Mounts] /\ dMounted'[n] = ms
      /\ \A r \in Nodes : r # n => dQuery'[r] = dQuery[r] /\ dMounted'[r] = dMounted[r]
  BY <1>1, <1>2, <1>3
<1>5. \A r \in Nodes : QueryOK(dQuery'[r], dMounted'[r])
  <2> SUFFICES ASSUME NEW r \in Nodes PROVE QueryOK(dQuery'[r], dMounted'[r])
    OBVIOUS
  <2>1. CASE r = n
    BY <1>2, <1>4, <2>1
  <2>2. CASE r # n
    BY <1>4, <2>2 DEF PartsInv
  <2> QED BY <2>1, <2>2
<1>6. \A r \in Nodes : dQuery'[r].status = dQuery[r].status
  BY <1>2, <1>4
<1> QED BY <1>3, <1>4, <1>5, <1>6 DEF PartsInv

LEMMA InitParts ==
    ASSUME Q!Init
    PROVE  PartsInv
<1>1. Q!NoQuery \in Query /\ \A ms : QueryOK(Q!NoQuery, ms)
  BY DEF Q!NoQuery, Query, QueryOK, Q!NotYet
<1> QED BY <1>1 DEF Q!Init, PartsInv

LEMMA NextParts ==
    ASSUME PartsInv, [Q!Next]_Q!vars
    PROVE  PartsInv'
<1>1. CASE UNCHANGED Q!vars \/ Q!Close
  BY <1>1 DEF Q!vars, Q!Close, PartsInv
<1>2. CASE \E n \in Nodes :
             \/ Q!UsageAnswered(n) \/ Q!SizeAnswered(n)
             \/ Q!QueryRetried(n) \/ Q!QueryFailed(n) \/ Q!QueryCollected(n)
             \/ \E ms \in SUBSET Mounts : Q!PartitionsChange(n, ms)
             \/ Q!Open(n)
  BY <1>2, AnsweredStep, RetryStep, CollectedStep, ChangeStep, OpenStep
<1> QED BY <1>1, <1>2 DEF Q!Next

-----------------------------------------------------------------------------
(* The three together.                                                     *)

\* Whatever the order of deployments, answers, failures, visits and changes: a
\* deployment is offered when the ones known have ended, its outcome and the
\* state of the node are told as they are, the pods are those the page asked
\* for, and its partitions have their own sizes and alerts.
THEOREM NodesAreSafe ==
    ASSUME D!NodesAssumption
    PROVE  D!Spec /\ P!Spec /\ Q!Spec => []NodesSafe
<1> DEFINE Inv == DeployedInv /\ PodsInv /\ PartsInv
<1>1. D!Init /\ P!Init /\ Q!Init => Inv
  BY InitDeployed, InitPods, InitParts
<1>2. DeployedInv /\ [D!Next]_D!vars => DeployedInv'
  BY NextDeployed
<1>3. PodsInv /\ [P!Next]_P!vars => PodsInv'
  BY NextPods
<1>4. PartsInv /\ [Q!Next]_Q!vars => PartsInv'
  BY NextParts
<1>5. Inv => NodesSafe
  BY DeployedIsSafe, PodsAreSafe, TableSizes, TableSays, TableHealth
     DEF NodesSafe
<1> QED BY <1>1, <1>2, <1>3, <1>4, <1>5, PTL DEF D!Spec, P!Spec, Q!Spec
================================================================================
