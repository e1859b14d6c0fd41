------------------------- MODULE VolumeStorageProofs --------------------------
(***************************************************************************)
(* The storage of a Volume is gone when the Volume is and there when it is *)
(* used. The first part: NoStorageLeak and ErasedOnRequest hold whatever   *)
(* caches lag; they follow from ReclaimInv, which each action of           *)
(* VolumeController keeps. The second: when no PersistentVolume is read    *)
(* outdated, ServedStorageKept, PvDeviceMatchesOwner, VolumeOutlivesPv and *)
(* PhasesFollowed follow from ServingInv, which each action keeps too.     *)
(***************************************************************************)
EXTENDS VolumeControllerProofs, VolumeStorageInv

-----------------------------------------------------------------------------
(***************************************************************************)
(* The queue of the minion.                                                *)
(***************************************************************************)
\* The jobs at the node and what is known of them.
LEMMA NodeTypes ==
    ASSUME TypeOK
    PROVE  /\ DOMAIN sent = 1 .. Len(sent) /\ Len(sent) \in Nat
           /\ \A i \in DOMAIN sent :
                 sent[i].jid \in Jids /\ sent[i].job \in JobNames
           /\ running.jid \in 0 .. MaxJobs
           /\ running.jid # 0 => running.jid \in Jids
           /\ running.uid \in 0 .. MaxUid
           /\ DOMAIN jobs = Jids
           /\ DOMAIN storage = Uids
  <1>1. /\ sent \in Seq([jid: Jids, job: JobNames])
        /\ running \in [jid: 0 .. MaxJobs, job: StateJobs \cup {""},
                        uid: 0 .. MaxUid]
        /\ jobs \in [Jids -> [state: JobState, path: 0 .. MaxUid]]
        /\ storage \in [Uids -> {"absent", "created", "prepared"}]
    BY DEF TypeOK
  <1>2. running.jid \in 0 .. MaxJobs /\ running.uid \in 0 .. MaxUid
    BY <1>1
  <1>3. running.jid # 0 => running.jid \in Jids
    BY <1>2, BoundsAssumption DEF Jids
  <1>4. /\ DOMAIN sent = 1 .. Len(sent) /\ Len(sent) \in Nat
        /\ \A i \in 1 .. Len(sent) : sent[i] \in [jid: Jids, job: JobNames]
    <2>1. PICK entries : /\ entries = [jid: Jids, job: JobNames]
                         /\ sent \in Seq(entries)
      BY <1>1
    <2>2. /\ DOMAIN sent = 1 .. Len(sent) /\ Len(sent) \in Nat
          /\ \A i \in 1 .. Len(sent) : sent[i] \in entries
      BY <2>1, ElementOfSeq, LenProperties
    <2> QED
      BY <2>1, <2>2
  <1>5. DOMAIN jobs = Jids /\ DOMAIN storage = Uids
    BY <1>1
  <1> QED
    BY <1>2, <1>3, <1>4, <1>5

\* An incarnation of the Volume is one of Uids.
LEMMA Incarnations ==
    ASSUME TypeOK
    PROVE  /\ \A u \in 0 .. MaxUid : u # 0 => u \in Uids
           /\ 0 \notin Uids
           /\ \A v \in VolumeObject : v.uid # 0 => v.uid \in Uids
           /\ vol.uid # 0 => vol.uid \in Uids
  <1>1. \A u \in 0 .. MaxUid : u # 0 => u \in Uids
    BY BoundsAssumption DEF Uids
  <1>2. \A v \in VolumeObject : v.uid \in 0 .. MaxUid
    BY DEF VolumeObject
  <1>3. 0 \notin Uids
    BY DEF Uids
  <1> QED
    BY <1>1, <1>2, <1>3, StateTypes

\* The first job leaves the queue: the others keep their order.
LEMMA Popped ==
    ASSUME TypeOK, sent # <<>>, sent' = Tail(sent)
    PROVE  /\ 1 \in DOMAIN sent /\ Head(sent) = sent[1]
           /\ \E was : \A i \in DOMAIN sent' :
                 /\ was[i] \in DOMAIN sent /\ sent'[i] = sent[was[i]]
                 /\ was[i] # 1 /\ Before(1, was[i])
                 /\ \A k \in DOMAIN sent' : Before(i, k) => Before(was[i], was[k])
                 /\ \A k \in DOMAIN sent' : was[i] = was[k] => i = k
  <1>1. sent \in Seq([jid: Jids, job: JobNames])
    BY DEF TypeOK
  <1>2. /\ Len(sent) \in Nat /\ Len(sent) # 0
        /\ DOMAIN sent = 1 .. Len(sent)
        /\ Head(sent) = sent[1]
        /\ DOMAIN sent' = 1 .. (Len(sent) - 1)
        /\ \A i \in 1 .. (Len(sent) - 1) : sent'[i] = sent[i + 1]
    BY <1>1
  <1>3. PICK was : was = [i \in 1 .. (Len(sent) - 1) |-> i + 1]
    OBVIOUS
  <1>4. \A i \in 1 .. (Len(sent) - 1) :
            /\ was[i] \in 1 .. Len(sent) /\ was[i] = i + 1
            /\ was[i] # 1 /\ 1 < was[i]
            /\ \A k \in 1 .. (Len(sent) - 1) : i < k => was[i] < was[k]
            /\ \A k \in 1 .. (Len(sent) - 1) : was[i] = was[k] => i = k
    BY <1>2, <1>3
  <1>5. \A i \in DOMAIN sent' :
                 /\ was[i] \in DOMAIN sent /\ sent'[i] = sent[was[i]]
                 /\ was[i] # 1 /\ Before(1, was[i])
                 /\ \A k \in DOMAIN sent' : Before(i, k) => Before(was[i], was[k])
                 /\ \A k \in DOMAIN sent' : was[i] = was[k] => i = k
    BY <1>2, <1>4 DEF Before
  <1> QED
    BY <1>2, <1>5

\* What is sent, and in which order, of a queue whose first job has left.
LEMMA PoppedJobs ==
    ASSUME TypeOK, sent # <<>>, sent' = Tail(sent)
    PROVE  /\ 1 \in DOMAIN sent /\ Head(sent) = sent[1]
           /\ \A job : Sent(job)' => Sent(job) /\ SentAfter(1, job)
           /\ \E was : \A i \in DOMAIN sent' :
                 /\ was[i] \in DOMAIN sent /\ sent'[i] = sent[was[i]]
                 /\ was[i] # 1
                 /\ \A job : SentAfter(i, job)' => SentAfter(was[i], job)
                 /\ \A k \in DOMAIN sent' : was[i] = was[k] => i = k
  <1>1. PICK was : \A i \in DOMAIN sent' :
                 /\ was[i] \in DOMAIN sent /\ sent'[i] = sent[was[i]]
                 /\ was[i] # 1 /\ Before(1, was[i])
                 /\ \A k \in DOMAIN sent' : Before(i, k) => Before(was[i], was[k])
                 /\ \A k \in DOMAIN sent' : was[i] = was[k] => i = k
    BY Popped
  <1>2. ASSUME NEW job, Sent(job)'
        PROVE  Sent(job) /\ SentAfter(1, job)
    BY <1>1, <1>2 DEF Sent, SentAfter
  <1>3. ASSUME NEW i \in DOMAIN sent', NEW job, SentAfter(i, job)'
        PROVE  SentAfter(was[i], job)
    BY <1>1, <1>3 DEF SentAfter
  <1>4. \A i \in DOMAIN sent' :
            /\ was[i] \in DOMAIN sent /\ sent'[i] = sent[was[i]]
            /\ was[i] # 1
            /\ \A job : SentAfter(i, job)' => SentAfter(was[i], job)
            /\ \A k \in DOMAIN sent' : was[i] = was[k] => i = k
    BY <1>1, <1>3
  <1> QED
    BY <1>2, <1>4, Popped

\* A job is put at the end of the queue.
LEMMA Appended ==
    ASSUME TypeOK, NEW e, sent' = Append(sent, e)
    PROVE  \E n : /\ n \notin DOMAIN sent
                  /\ DOMAIN sent' = DOMAIN sent \cup {n}
                  /\ sent'[n] = e
                  /\ ~Before(n, n)
                  /\ \A i \in DOMAIN sent :
                        sent'[i] = sent[i] /\ Before(i, n) /\ ~Before(n, i)
  <1>1. sent \in Seq([jid: Jids, job: JobNames])
    BY DEF TypeOK
  <1>2. /\ Len(sent) \in Nat
        /\ DOMAIN sent = 1 .. Len(sent)
        /\ DOMAIN sent' = 1 .. (Len(sent) + 1)
        /\ \A i \in 1 .. Len(sent) : sent'[i] = sent[i]
        /\ sent'[Len(sent) + 1] = e
    BY <1>1
  <1> QED
    BY <1>2 DEF Before

\* What is known of the jobs of a queue remains true when its first job has
\* left.
LEMMA PoppedQueue ==
    ASSUME TypeOK, QueueInv, sent # <<>>, sent' = Tail(sent)
    PROVE  /\ DistinctIds'
           /\ sent[1].jid \in Jids /\ jobs[sent[1].jid].state = "sent"
           /\ \A i \in DOMAIN sent' :
                 /\ sent'[i].jid \in Jids /\ sent'[i].jid # sent[1].jid
                 /\ jobs[sent'[i].jid].state = "sent"
           /\ \A jid : SentRemoval(jid) => SentRemoval(jid)'
           /\ \A jid, job :
                 (\A i \in DOMAIN sent : sent[i].jid = jid => sent[i].job = job)
                 => \A i \in DOMAIN sent' :
                        sent'[i].jid = jid => sent'[i].job = job
           /\ InOrder => InOrder'
           /\ InOrder /\ sent[1].job = "PrepareVolume"
                 => ~Sent("UnprepareVolume")'
  <1>1. PICK was : \A i \in DOMAIN sent' :
                 /\ was[i] \in DOMAIN sent /\ sent'[i] = sent[was[i]]
                 /\ was[i] # 1
                 /\ \A job : SentAfter(i, job)' => SentAfter(was[i], job)
                 /\ \A k \in DOMAIN sent' : was[i] = was[k] => i = k
    BY PoppedJobs
  <1>2. 1 \in DOMAIN sent
    BY PoppedJobs
  <1>3. DistinctIds /\ SentKnown
    BY DEF QueueInv
  <1>4. sent[1].jid \in Jids /\ jobs[sent[1].jid].state = "sent"
    BY <1>2, <1>3, NodeTypes DEF SentKnown
  <1>5. DistinctIds'
    BY <1>1, <1>3 DEF DistinctIds
  <1>6. ASSUME NEW i \in DOMAIN sent'
        PROVE  /\ sent'[i].jid \in Jids /\ sent'[i].jid # sent[1].jid
               /\ jobs[sent'[i].jid].state = "sent"
    BY <1>1, <1>2, <1>3, NodeTypes DEF DistinctIds, SentKnown
  <1>7. ASSUME NEW jid, SentRemoval(jid) PROVE SentRemoval(jid)'
    BY <1>1, <1>7 DEF SentRemoval
  <1>8. ASSUME NEW jid, NEW job,
               \A i \in DOMAIN sent : sent[i].jid = jid => sent[i].job = job,
               NEW i \in DOMAIN sent', sent'[i].jid = jid
        PROVE  sent'[i].job = job
    BY <1>1, <1>8
  <1>9. ASSUME InOrder PROVE InOrder'
    BY <1>1, <1>9 DEF InOrder
  <1>10. ASSUME InOrder, sent[1].job = "PrepareVolume"
         PROVE  ~Sent("UnprepareVolume")'
    <2>1. ~SentAfter(1, "UnprepareVolume")
      BY <1>2, <1>10 DEF InOrder
    <2> QED
      BY <2>1, PoppedJobs
  <1> QED
    BY <1>4, <1>5, <1>6, <1>7, <1>8, <1>9, <1>10

-----------------------------------------------------------------------------
(***************************************************************************)
(* What happens at the node.  The Volume and its cached copy do not change.*)
(***************************************************************************)
\* The first job starts: it works on the incarnation there is.
LEMMA StartReclaim ==
    ASSUME TypeOK, QueueInv, NodeStorageInv, StartStateJob
    PROVE  /\ QueueInv' /\ NodeStorageInv'
           /\ \A v \in {vol, volCache, rec.v} :
                 RemovalInv(v) => RemovalInv(v)'
  <1>1. /\ sent # <<>> /\ sent' = Tail(sent)
        /\ sent[1].job \in StateJobs
        /\ running.jid = 0
        /\ running'.jid = sent[1].jid /\ running'.job = sent[1].job
        /\ running'.uid = vol.uid
        /\ jobs' = [jobs EXCEPT ![sent[1].jid] =
                        [state |-> "running", path |-> 0]]
        /\ UNCHANGED <<vol, volCache, storage>>
    BY PoppedJobs DEF StartStateJob, Return, volVars, caches, nodeVars
  <1>2. /\ 1 \in DOMAIN sent
        /\ sent[1].jid \in Jids /\ sent[1].jid # 0
        /\ DOMAIN jobs = Jids
    BY <1>1, PoppedJobs, NodeTypes, Bounds
  <1>3. QueueInv'
    <2>1. SentKnown'
      BY <1>1, <1>2, PoppedQueue DEF SentKnown
    <2>2. RunningKnown'
      BY <1>1, <1>2 DEF RunningKnown
    <2> QED
      BY <1>1, <2>1, <2>2, PoppedQueue DEF QueueInv
  <1>4. ASSUME NEW job, AtNode(job)'
        PROVE  AtNode(job)
    <2>1. CASE Sent(job)'
      BY <1>1, <2>1, PoppedJobs DEF AtNode
    <2>2. CASE running'.job = job
      BY <1>1, <1>2, <2>2 DEF AtNode, Sent
    <2> QED
      BY <1>4, <2>1, <2>2 DEF AtNode
  <1>5. Clean => Clean'
    BY <1>1, <1>4 DEF Clean
  <1>6. CacheRetired' <=> CacheRetired
    BY <1>1 DEF CacheRetired, Same
  <1>7. NodeStorageInv'
    <2>1. NoneErasesAfter => NoneErasesAfter'
      BY <1>1, PoppedQueue DEF NoneErasesAfter
    <2>2. NothingErased'
      BY <1>1, <1>4, <1>6, <2>1 DEF NodeStorageInv, NothingErased
    <2>3. OwnPreparations'
      BY <1>1, <1>4 DEF NodeStorageInv, OwnPreparations
    <2> QED
      BY <1>1, <2>2, <2>3 DEF NodeStorageInv, OwnStorage
  <1>8. ASSUME NEW v \in {vol, volCache, rec.v}, RemovalInv(v)
        PROVE  RemovalInv(v)'
    <2>1. ASSUME NEW jid \in Jids, SentRemoval(jid)
          PROVE  SentRemoval(jid)' /\ RunningRemoval(jid)'
      <3>1. SentRemoval(jid)'
        BY <1>1, <2>1, PoppedQueue
      <3>2. sent[1].jid = jid =>
                sent[1].job = "UnprepareVolume" /\ ~SentAfter(1, "PrepareVolume")
        BY <1>2, <2>1 DEF SentRemoval
      <3>3. ~SentAfter(1, "PrepareVolume") => ~Sent("PrepareVolume")'
        BY <1>1, PoppedJobs
      <3>4. RunningRemoval(jid)'
        BY <1>1, <3>2, <3>3 DEF RunningRemoval
      <3> QED
        BY <3>1, <3>4
    <2>2. ASSUME NEW jid \in Jids, EndedRemoval(jid) PROVE EndedRemoval(jid)'
      BY <1>1, <1>2, <1>5, <2>2 DEF EndedRemoval
    <2> QED
      BY <1>1, <1>5, <1>8, <2>1, <2>2 DEF RemovalInv, Same
  <1> QED
    BY <1>3, <1>7, <1>8

\* The first job is answered without being run.
LEMMA DropReclaim ==
    ASSUME TypeOK, QueueInv, NodeStorageInv,
           sent # <<>>, sent' = Tail(sent), NEW answer,
           jobs' = [jobs EXCEPT ![sent[1].jid] = answer],
           answer.state \notin {"sent", "running"},
           answer.state = "ok" => sent[1].job # "UnprepareVolume",
           UNCHANGED <<vol, volCache, storage, running>>
    PROVE  /\ QueueInv' /\ NodeStorageInv'
           /\ \A v \in {vol, volCache, rec.v} :
                 RemovalInv(v) => RemovalInv(v)'
  <1>1. /\ 1 \in DOMAIN sent
        /\ sent[1].jid \in Jids /\ jobs[sent[1].jid].state = "sent"
        /\ DOMAIN jobs = Jids
    BY PoppedJobs, PoppedQueue, NodeTypes
  <1>2. \A jid \in Jids : jid # sent[1].jid => jobs'[jid] = jobs[jid]
    BY <1>1
  <1>3. QueueInv'
    <2>1. SentKnown'
      BY <1>1, <1>2, PoppedQueue DEF SentKnown
    <2>2. running.jid # 0 =>
              running.jid \in Jids /\ jobs[running.jid].state = "running"
      BY NodeTypes DEF QueueInv, RunningKnown
    <2>3. running.jid # 0 => running.jid # sent[1].jid
      BY <1>1, <2>2
    <2>4. RunningKnown'
      BY <1>2, <2>2, <2>3 DEF QueueInv, RunningKnown
    <2> QED
      BY <2>1, <2>4, PoppedQueue DEF QueueInv
  <1>4. ASSUME NEW job, AtNode(job)'
        PROVE  AtNode(job)
    BY <1>4, PoppedJobs DEF AtNode
  <1>5. Clean => Clean'
    BY <1>4 DEF Clean
  <1>6. CacheRetired' <=> CacheRetired
    BY DEF CacheRetired, Same
  <1>7. NodeStorageInv'
    <2>1. NoneErasesAfter => NoneErasesAfter'
      BY PoppedJobs, PoppedQueue DEF NoneErasesAfter
    <2>2. NothingErased'
      BY <1>4, <1>6, <2>1 DEF NodeStorageInv, NothingErased
    <2>3. OwnPreparations'
      BY <1>4 DEF NodeStorageInv, OwnPreparations
    <2> QED
      BY <2>2, <2>3 DEF NodeStorageInv, OwnStorage
  <1>8. ASSUME NEW v \in {vol, volCache, rec.v}, RemovalInv(v)
        PROVE  RemovalInv(v)'
    <2>1. ASSUME NEW jid \in Jids, SentRemoval(jid)
          PROVE  SentRemoval(jid)'
      BY <2>1, PoppedQueue
    <2>2. ASSUME NEW jid \in Jids, RunningRemoval(jid)
          PROVE  RunningRemoval(jid)'
      BY <2>2, PoppedJobs DEF RunningRemoval
    <2>3. ASSUME NEW jid \in Jids, SentRemoval(jid), EndedRemoval(jid)
          PROVE  EndedRemoval(jid)'
      <3>1. CASE jid = sent[1].jid
        BY <1>1, <2>3, <3>1 DEF EndedRemoval, SentRemoval
      <3>2. CASE jid # sent[1].jid
        BY <1>2, <1>5, <2>3, <3>2 DEF EndedRemoval
      <3> QED
        BY <3>1, <3>2
    <2> QED
      BY <1>5, <1>8, <2>1, <2>2, <2>3 DEF RemovalInv, Same
  <1> QED
    BY <1>3, <1>7, <1>8

\* The running job ends, or the minion gives it up; what it changed is its
\* own storage.
LEMMA EndReclaim ==
    ASSUME TypeOK, QueueInv, NodeStorageInv,
           running.jid # 0, running' = NoJob, NEW answer,
           jobs' = [jobs EXCEPT ![running.jid] = answer],
           answer.state \in {"ok", "failed"},
           UNCHANGED <<vol, volCache, sent>>,
           NEW st \in {"absent", "created", "prepared"},
           storage' = IF running.uid = 0 THEN storage
                      ELSE [storage EXCEPT ![running.uid] = st],
           running.job = "UnprepareVolume" =>
               IF answer.state = "ok" THEN st = "absent"
               ELSE running.uid = 0 \/ st = storage[running.uid]
    PROVE  /\ QueueInv' /\ NodeStorageInv'
           /\ \A v \in {vol, volCache, rec.v} :
                 RemovalInv(v) => RemovalInv(v)'
  <1>1. /\ running.jid \in Jids /\ jobs[running.jid].state = "running"
        /\ running.job \in StateJobs
        /\ DOMAIN jobs = Jids
    BY NodeTypes DEF QueueInv, RunningKnown
  <1>2. \A jid \in Jids : jid # running.jid => jobs'[jid] = jobs[jid]
    BY <1>1
  <1>3. running'.jid = 0 /\ running'.job = "" /\ running'.uid = 0
    BY DEF NoJob
  <1>4. /\ running.uid \in 0 .. MaxUid
        /\ DOMAIN storage = Uids
        /\ \A u \in 0 .. MaxUid : u # 0 => u \in Uids
    BY NodeTypes, BoundsAssumption DEF Uids
  <1>5. /\ \A u \in Uids : u # running.uid => storage'[u] = storage[u]
        /\ running.uid # 0 => storage'[running.uid] = st
    BY <1>4
  <1>6. QueueInv'
    <2>1. SentKnown'
      BY <1>1, <1>2, NodeTypes DEF QueueInv, SentKnown
    <2>2. RunningKnown'
      BY DEF RunningKnown, NoJob
    <2>3. DistinctIds'
      BY DEF QueueInv, DistinctIds
    <2> QED
      BY <2>1, <2>2, <2>3 DEF QueueInv
  <1>7. ASSUME NEW job, Sent(job)' PROVE Sent(job)
    BY <1>7 DEF Sent
  <1>8. ASSUME NEW i, NEW job, SentAfter(i, job)' PROVE SentAfter(i, job)
    BY <1>8 DEF SentAfter
  <1>9. ASSUME NEW job, job # "", AtNode(job)' PROVE Sent(job)
    BY <1>3, <1>7, <1>9 DEF AtNode
  <1>10. CacheRetired' <=> CacheRetired
    BY DEF CacheRetired, Same
  <1>11. running.uid # 0 /\ storage[running.uid] # "absent"
             => running.uid = vol.uid /\ vol.fin
    BY <1>4 DEF NodeStorageInv, OwnStorage
  <1>12. running.job = "PrepareVolume" => running.uid = vol.uid /\ vol.fin
    BY DEF NodeStorageInv, OwnPreparations, AtNode
  <1>13. running.job = "PrepareVolume" \/ running.job = "UnprepareVolume"
    BY <1>1 DEF StateJobs
  <1>14. OwnStorage'
    BY <1>4, <1>5, <1>11, <1>12, <1>13 DEF NodeStorageInv, OwnStorage
  <1>15. OwnPreparations'
    BY <1>3, <1>9 DEF NodeStorageInv, OwnPreparations, AtNode
  <1>16. NothingErased'
    <2> SUFFICES ASSUME vol.uid # 0, ~CacheRetired
                 PROVE  /\ NoneErasesAfter'
                        /\ storage'[vol.uid] # "absent"
                               => ~AtNode("UnprepareVolume")'
      BY <1>10 DEF NothingErased
    <2>1. NoneErasesAfter
      BY DEF NodeStorageInv, NothingErased
    <2>2. InOrder'
      BY <1>8, <2>1 DEF NoneErasesAfter, InOrder
    <2>3. NoneErasesAfter'
      BY <1>3, <2>2 DEF NoneErasesAfter
    <2>4. CASE running.job = "PrepareVolume"
      BY <1>9, <2>1, <2>3, <2>4 DEF NoneErasesAfter
    <2>5. CASE running.job = "UnprepareVolume"
      <3>1. AtNode("UnprepareVolume")
        BY <2>5 DEF AtNode
      <3>2. storage[vol.uid] = "absent"
        BY <3>1 DEF NodeStorageInv, NothingErased
      <3>3. vol.uid \in Uids
        BY StateTypes, <1>4 DEF VolumeObject
      <3>4. storage'[vol.uid] = "absent"
        BY <1>5, <2>5, <3>2, <3>3
      <3> QED
        BY <2>3, <3>4
    <2> QED
      BY <1>13, <2>4, <2>5
  <1>17. NodeStorageInv'
    BY <1>14, <1>15, <1>16 DEF NodeStorageInv
  <1>18. ASSUME Clean, vol.uid \in Uids PROVE Clean'
    <2>1. running.job = "UnprepareVolume"
      BY <1>13, <1>18 DEF Clean, AtNode
    <2>2. storage'[vol.uid] = "absent"
      BY <1>5, <1>18, <2>1 DEF Clean
    <2> QED
      BY <1>9, <1>18, <2>2 DEF Clean, AtNode
  <1>19. ASSUME NEW v \in {vol, volCache, rec.v}, RemovalInv(v)
         PROVE  RemovalInv(v)'
    <2> SUFFICES ASSUME Same(v), v.job = "UnprepareVolume"
                 PROVE  /\ v.jid = DoneMarker => Clean'
                        /\ v.jid \in Jids =>
                              /\ SentRemoval(v.jid)' /\ RunningRemoval(v.jid)'
                              /\ EndedRemoval(v.jid)'
      BY DEF RemovalInv, Same
    <2>1. vol.uid \in Uids
      BY StateTypes, <1>4 DEF VolumeObject, Same
    <2>2. v.jid = DoneMarker => Clean'
      BY <1>18, <1>19, <2>1 DEF RemovalInv
    <2>3. ASSUME NEW jid \in Jids, SentRemoval(jid) PROVE SentRemoval(jid)'
      BY <1>8, <2>3 DEF SentRemoval
    <2>4. ASSUME NEW jid \in Jids PROVE RunningRemoval(jid)'
      BY <1>3, Bounds DEF RunningRemoval
    <2>5. ASSUME NEW jid \in Jids, RunningRemoval(jid), EndedRemoval(jid)
          PROVE  EndedRemoval(jid)'
      <3>1. CASE jid # running.jid
        BY <1>2, <1>18, <2>1, <2>5, <3>1 DEF EndedRemoval
      <3>2. CASE jid = running.jid
        <4>1. /\ running.job = "UnprepareVolume" /\ running.uid = vol.uid
              /\ ~Sent("PrepareVolume")
          BY <2>5, <3>2 DEF RunningRemoval
        <4>2. ~AtNode("PrepareVolume")'
          BY <1>9, <4>1
        <4>3. answer.state = "ok" => storage'[vol.uid] = "absent"
          <5>1. running.uid # 0
            BY <2>1, <4>1, BoundsAssumption DEF Uids
          <5> QED
            BY <1>5, <4>1, <5>1
        <4>4. jobs'[jid] = answer
          BY <1>1, <3>2
        <4> QED
          BY <4>2, <4>3, <4>4 DEF EndedRemoval, Clean
      <3> QED
        BY <3>1, <3>2
    <2> QED
      BY <1>19, <2>2, <2>3, <2>4, <2>5 DEF RemovalInv
  <1> QED
    BY <1>6, <1>17, <1>19

\* The minion restarts: nothing is at the node any more.
LEMMA MinionRestartReclaim ==
    ASSUME TypeOK, QueueInv, NodeStorageInv, MinionRestart
    PROVE  /\ QueueInv' /\ NodeStorageInv'
           /\ \A v \in {vol, volCache, rec.v} :
                 RemovalInv(v) => RemovalInv(v)'
  <1>1. /\ running' = NoJob /\ sent' = <<>>
        /\ jobs' = [j \in Jids |->
                      IF jobs[j].state \in {"sent", "running"}
                      THEN [state |-> "lost", path |-> 0] ELSE jobs[j]]
        /\ UNCHANGED <<vol, volCache>>
        /\ \/ storage' = storage
           \/ /\ running.uid # 0
              /\ \E st \in Remains(running.job, storage[running.uid]) :
                    storage' = [storage EXCEPT ![running.uid] = st]
    BY DEF MinionRestart, volVars, caches
  <1>2. DOMAIN sent' = {} /\ running'.jid = 0 /\ running'.job = ""
    <2>1. DOMAIN sent' = {}
      BY <1>1
    <2>2. running'.jid = 0 /\ running'.job = ""
      BY <1>1 DEF NoJob
    <2> QED
      BY <2>1, <2>2
  <1>3. \A job : ~Sent(job)'
    BY <1>2 DEF Sent
  <1>4. ~AtNode("PrepareVolume")' /\ ~AtNode("UnprepareVolume")'
    BY <1>2, <1>3 DEF AtNode
  <1>5. QueueInv'
    <2>1. RunningKnown'
      BY <1>1 DEF RunningKnown, NoJob
    <2> QED
      BY <1>2, <2>1 DEF QueueInv, DistinctIds, SentKnown
  <1>6. CacheRetired' <=> CacheRetired
    BY <1>1 DEF CacheRetired, Same
  <1>7. /\ running.uid \in 0 .. MaxUid
        /\ DOMAIN storage = Uids
        /\ \A u \in 0 .. MaxUid : u # 0 => u \in Uids
        /\ vol.uid # 0 => vol.uid \in Uids
    BY NodeTypes, Incarnations
  <1>8. running.uid # 0 /\ storage[running.uid] # "absent"
             => running.uid = vol.uid /\ vol.fin
    BY <1>7 DEF NodeStorageInv, OwnStorage
  <1>9. running.job = "PrepareVolume" => running.uid = vol.uid /\ vol.fin
    BY DEF NodeStorageInv, OwnPreparations, AtNode
  <1>10. running.uid # 0 => running.job \in {"PrepareVolume", "UnprepareVolume"}
    <2>1. running.jid = 0 => running.uid = 0
      <3>1. running.jid = 0 => running = NoJob
        BY DEF QueueInv, RunningKnown
      <3>2. NoJob.uid = 0
        BY DEF NoJob
      <3> QED
        BY <3>1, <3>2
    <2>2. running.jid # 0 => running.job \in StateJobs
      BY DEF QueueInv, RunningKnown
    <2> QED
      BY <2>1, <2>2 DEF StateJobs
  <1>11. ASSUME NEW u \in Uids, storage'[u] # storage[u]
         PROVE  /\ u = running.uid /\ u # 0
                /\ running.job = "UnprepareVolume" => storage[u] # "absent"
    BY <1>1, <1>7, <1>11 DEF Remains
  <1>12. OwnStorage'
    <2> SUFFICES ASSUME NEW u \in Uids, storage'[u] # "absent"
                 PROVE  u = vol.uid /\ vol.fin
      BY <1>1 DEF OwnStorage
    <2>1. CASE storage'[u] = storage[u]
      BY <2>1 DEF NodeStorageInv, OwnStorage
    <2>2. CASE storage'[u] # storage[u]
      BY <1>8, <1>9, <1>10, <1>11, <2>2
    <2> QED
      BY <2>1, <2>2
  <1>13. NodeStorageInv'
    <2>1. OwnPreparations'
      BY <1>2, <1>4 DEF OwnPreparations
    <2>2. NoneErasesAfter'
      BY <1>2 DEF NoneErasesAfter, InOrder
    <2> QED
      BY <1>4, <1>12, <2>1, <2>2 DEF NodeStorageInv, NothingErased
  <1>14. ASSUME Clean, vol.uid \in Uids PROVE Clean'
    <2>1. running.job # "PrepareVolume" /\ storage[vol.uid] = "absent"
      BY <1>14 DEF Clean, AtNode
    <2>2. storage'[vol.uid] = "absent"
      BY <1>10, <1>11, <1>14, <2>1
    <2> QED
      BY <1>1, <1>4, <2>2 DEF Clean
  <1>15. ASSUME NEW v \in {vol, volCache, rec.v}, RemovalInv(v)
         PROVE  RemovalInv(v)'
    <2> SUFFICES ASSUME Same(v), v.job = "UnprepareVolume"
                 PROVE  /\ v.jid = DoneMarker => Clean'
                        /\ v.jid \in Jids =>
                              /\ SentRemoval(v.jid)' /\ RunningRemoval(v.jid)'
                              /\ EndedRemoval(v.jid)'
      BY <1>1 DEF RemovalInv, Same, MinionRestart
    <2>1. vol.uid \in Uids
      BY <1>7 DEF Same
    <2>2. v.jid = DoneMarker => Clean'
      BY <1>14, <1>15, <2>1 DEF RemovalInv
    <2>3. ASSUME NEW jid \in Jids
          PROVE  SentRemoval(jid)' /\ RunningRemoval(jid)'
      BY <1>2, Bounds DEF SentRemoval, RunningRemoval
    <2>4. ASSUME NEW jid \in Jids, EndedRemoval(jid) PROVE EndedRemoval(jid)'
      <3>1. jobs'[jid].state = "ok" => jobs[jid].state = "ok"
        BY <1>1
      <3> QED
        BY <1>14, <2>1, <2>4, <3>1 DEF EndedRemoval
    <2> QED
      BY <1>15, <2>2, <2>3, <2>4 DEF RemovalInv
  <1> QED
    BY <1>5, <1>13, <1>15

\* The master forgets a job that was lost.
LEMMA ForgetReclaim ==
    ASSUME TypeOK, QueueInv, NodeStorageInv, NEW j \in Jids, ForgetJob(j)
    PROVE  /\ QueueInv' /\ NodeStorageInv'
           /\ \A v \in {vol, volCache, rec.v} :
                 RemovalInv(v) => RemovalInv(v)'
  <1>1. /\ jobs[j].state = "lost"
        /\ jobs' = [jobs EXCEPT ![j] = [state |-> "unknown", path |-> 0]]
        /\ UNCHANGED <<vol, volCache, sent, running, storage>>
    BY DEF ForgetJob, Return, volVars, caches, nodeVars
  <1>2. /\ \A k \in Jids : k # j => jobs'[k] = jobs[k]
        /\ jobs'[j].state = "unknown"
    BY <1>1, NodeTypes
  <1>3. QueueInv'
    <2>1. DistinctIds'
      BY <1>1 DEF QueueInv, DistinctIds
    <2>2. SentKnown'
      BY <1>1, <1>2, NodeTypes DEF QueueInv, SentKnown
    <2>3. RunningKnown'
      BY <1>1, <1>2, NodeTypes DEF QueueInv, RunningKnown
    <2> QED
      BY <2>1, <2>2, <2>3 DEF QueueInv
  <1>4. \A job, i : /\ Sent(job)' = Sent(job) /\ AtNode(job)' = AtNode(job)
                    /\ SentAfter(i, job)' = SentAfter(i, job)
    BY <1>1 DEF Sent, AtNode, SentAfter
  <1>5. Clean' = Clean /\ CacheRetired' = CacheRetired
    BY <1>1, <1>4 DEF Clean, CacheRetired, Same
  <1>6. NodeStorageInv'
    <2>1. NoneErasesAfter' = NoneErasesAfter
      BY <1>1, <1>4 DEF NoneErasesAfter, InOrder
    <2>2. NothingErased'
      BY <1>1, <1>4, <1>5, <2>1 DEF NodeStorageInv, NothingErased
    <2> QED
      BY <1>1, <1>4, <2>2 DEF NodeStorageInv, OwnStorage, OwnPreparations
  <1>7. ASSUME NEW v \in {vol, volCache, rec.v}, RemovalInv(v)
        PROVE  RemovalInv(v)'
    <2>1. ASSUME NEW jid \in Jids
          PROVE  /\ SentRemoval(jid) => SentRemoval(jid)'
                 /\ RunningRemoval(jid) => RunningRemoval(jid)'
                 /\ EndedRemoval(jid) => EndedRemoval(jid)'
      <3>1. SentRemoval(jid) => SentRemoval(jid)'
        BY <1>1, <1>4 DEF SentRemoval
      <3>2. RunningRemoval(jid) => RunningRemoval(jid)'
        BY <1>1, <1>4 DEF RunningRemoval
      <3>3. EndedRemoval(jid) => EndedRemoval(jid)'
        BY <1>2, <1>5 DEF EndedRemoval
      <3> QED
        BY <3>1, <3>2, <3>3
    <2> QED
      BY <1>1, <1>5, <1>7, <2>1 DEF RemovalInv, Same
  <1> QED
    BY <1>3, <1>6, <1>7

\* The first job is answered without being run.
LEMMA AnswerReclaim ==
    ASSUME TypeOK, QueueInv, NodeStorageInv, RejectStateJob \/ DeviceInfo
    PROVE  /\ QueueInv' /\ NodeStorageInv'
           /\ \A v \in {vol, volCache, rec.v} :
                 RemovalInv(v) => RemovalInv(v)'
  <1>1. /\ sent # <<>> /\ sent' = Tail(sent)
        /\ UNCHANGED <<vol, volCache, storage, running>>
    BY DEF RejectStateJob, DeviceInfo, volVars, caches, nodeVars
  <1>2. Head(sent) = sent[1]
    BY <1>1, PoppedJobs
  <1>3. PICK answer : /\ jobs' = [jobs EXCEPT ![sent[1].jid] = answer]
                      /\ answer.state \in {"rejected", "ok", "failed"}
                      /\ answer.state = "ok" => sent[1].job = "GetDeviceInfo"
    BY <1>2 DEF RejectStateJob, DeviceInfo, Return
  <1> QED
    BY <1>1, <1>3, DropReclaim

\* How a preparation ends: well, with the storage prepared; or badly, with a
\* storage that was not prepared left without a file system.
LEMMA PreparationEnds ==
    ASSUME FinishPrepare
    PROVE  \E st \in {"created", "prepared"}, state \in {"ok", "failed"} :
              /\ jobs' = [jobs EXCEPT ![running.jid] =
                             [state |-> state, path |-> 0]]
              /\ storage' = IF running.uid = 0 THEN storage
                            ELSE [storage EXCEPT ![running.uid] = st]
              /\ storage[running.uid] = "prepared" => st = "prepared"
              /\ state = "ok" => running.uid # 0 /\ st = "prepared"
  <1>1. CASE running.uid = 0
    BY <1>1 DEF FinishPrepare, Return
  <1>2. CASE running.uid # 0 /\ Preparable(running.uid)
    BY <1>2 DEF FinishPrepare, Return
  <1>3. CASE running.uid # 0 /\ ~Preparable(running.uid)
    BY <1>3 DEF FinishPrepare, Return, Preparable
  <1> QED
    BY <1>1, <1>2, <1>3

\* The running job ends, well or not.
LEMMA RunReclaim ==
    ASSUME TypeOK, QueueInv, NodeStorageInv,
           FinishPrepare \/ FinishUnprepare \/ FailStateJob
    PROVE  /\ QueueInv' /\ NodeStorageInv'
           /\ \A v \in {vol, volCache, rec.v} :
                 RemovalInv(v) => RemovalInv(v)'
  <1>1. running.jid # 0
    <2>1. running.jid = 0 => running = NoJob
      BY DEF QueueInv, RunningKnown
    <2>2. NoJob.job = ""
      BY DEF NoJob
    <2> QED
      BY <2>1, <2>2 DEF FinishPrepare, FinishUnprepare, FailStateJob
  <1>2. running' = NoJob /\ UNCHANGED <<vol, volCache, sent>>
    BY DEF FinishPrepare, FinishUnprepare, FailStateJob, volVars, caches
  <1>3. /\ storage \in [Uids -> {"absent", "created", "prepared"}]
        /\ running.uid # 0 => running.uid \in Uids
    BY NodeTypes, Incarnations DEF TypeOK
  <1>4. CASE FinishPrepare
    <2>1. PICK st \in {"created", "prepared"}, state \in {"ok", "failed"} :
              /\ jobs' = [jobs EXCEPT ![running.jid] =
                             [state |-> state, path |-> 0]]
              /\ storage' = IF running.uid = 0 THEN storage
                            ELSE [storage EXCEPT ![running.uid] = st]
      BY <1>4, PreparationEnds
    <2>2. PICK answer : answer = [state |-> state, path |-> 0]
      OBVIOUS
    <2>3. running.job # "UnprepareVolume"
      BY <1>4 DEF FinishPrepare
    <2> QED
      BY <1>1, <1>2, <2>1, <2>2, <2>3, EndReclaim
  <1>5. CASE FinishUnprepare
    <2>0. PICK answer : answer = [state |-> "ok", path |-> 0]
      OBVIOUS
    <2>1. /\ jobs' = [jobs EXCEPT ![running.jid] = answer]
          /\ answer.state = "ok"
      BY <1>5, <2>0 DEF FinishUnprepare, Return
    <2>2. storage' = IF running.uid = 0 THEN storage
                     ELSE [storage EXCEPT ![running.uid] = "absent"]
      BY <1>5 DEF FinishUnprepare
    <2> QED
      BY <1>1, <1>2, <2>1, <2>2, EndReclaim
  <1>6. CASE FailStateJob
    <2>0. PICK answer : answer = [state |-> "failed", path |-> 0]
      OBVIOUS
    <2>1. /\ jobs' = [jobs EXCEPT ![running.jid] = answer]
          /\ answer.state = "failed"
      BY <1>6, <2>0 DEF FailStateJob, Return, FailureReturn
    <2>2. PICK st \in {"absent", "created", "prepared"} :
              /\ storage' = IF running.uid = 0 THEN storage
                            ELSE [storage EXCEPT ![running.uid] = st]
              /\ running.job = "UnprepareVolume" =>
                    running.uid = 0 \/ st = storage[running.uid]
      <3>1. CASE storage' = storage
        <4>1. CASE running.uid = 0
          BY <3>1, <4>1
        <4>2. CASE running.uid # 0
          <5>1. /\ storage[running.uid] \in {"absent", "created", "prepared"}
                /\ storage = [storage EXCEPT ![running.uid] =
                                  storage[running.uid]]
            BY <1>3, <4>2
          <5> QED
            BY <3>1, <4>2, <5>1
        <4> QED
          BY <4>1, <4>2
      <3>2. CASE /\ running.job = "PrepareVolume" /\ running.uid # 0
                 /\ \E st \in Remains("PrepareVolume", storage[running.uid]) :
                       storage' = [storage EXCEPT ![running.uid] = st]
        <4>1. PICK st \in Remains("PrepareVolume", storage[running.uid]) :
                  storage' = [storage EXCEPT ![running.uid] = st]
          BY <3>2
        <4>2. st \in {"absent", "created", "prepared"}
          BY <1>3, <3>2, <4>1 DEF Remains
        <4> QED
          BY <3>2, <4>1, <4>2
      <3> QED
        BY <1>6, <3>1, <3>2 DEF FailStateJob
    <2> QED
      BY <1>1, <1>2, <2>1, <2>2, EndReclaim
  <1> QED
    BY <1>4, <1>5, <1>6

\* What happens at the node keeps the invariant.
LEMMA NodeReclaim ==
    ASSUME TypeOK, ReclaimInv,
           \/ MinionStep \/ RejectStateJob \/ FailStateJob \/ MinionRestart
           \/ \E j \in Jids : ForgetJob(j)
    PROVE  ReclaimInv'
  <1>1. UNCHANGED <<vol, volSynced, volCache, rec>>
    BY DEF MinionStep, StartStateJob, DeviceInfo, FinishPrepare,
           FinishUnprepare, RejectStateJob, FailStateJob, MinionRestart,
           ForgetJob, volVars, caches
  <1>2. QueueInv /\ NodeStorageInv /\ RemovalsInv
    BY DEF ReclaimInv
  <1>3. /\ QueueInv' /\ NodeStorageInv'
        /\ \A v \in {vol, volCache, rec.v} : RemovalInv(v) => RemovalInv(v)'
    <2>1. CASE StartStateJob
      BY <1>2, <2>1, StartReclaim
    <2>2. CASE RejectStateJob \/ DeviceInfo
      BY <1>2, <2>2, AnswerReclaim
    <2>3. CASE FinishPrepare \/ FinishUnprepare \/ FailStateJob
      BY <1>2, <2>3, RunReclaim
    <2>4. CASE MinionRestart
      BY <1>2, <2>4, MinionRestartReclaim
    <2>5. CASE \E j \in Jids : ForgetJob(j)
      BY <1>2, <2>5, ForgetReclaim
    <2> QED
      BY <2>1, <2>2, <2>3, <2>4, <2>5 DEF MinionStep
  <1>4. RemovalsInv'
    <2>1. RemovalInv(vol) /\ RemovalInv(volCache) /\ RemovalInv(rec.v)
      BY <1>2 DEF RemovalsInv
    <2>2. RemovalInv(vol)' /\ RemovalInv(volCache)' /\ RemovalInv(rec.v)'
      BY <1>1, <1>3, <2>1 DEF RemovalInv, Same
    <2> QED
      BY <2>2 DEF RemovalsInv
  <1>5. CopiesInv'
    BY <1>1 DEF ReclaimInv, CopiesInv, Same
  <1>6. FreshInv'
    BY <1>1 DEF ReclaimInv, FreshInv
  <1>7. ReasonInv'
    BY <1>1 DEF ReclaimInv, ReasonInv, Same, CacheRetired
  <1> QED
    BY <1>3, <1>4, <1>5, <1>6, <1>7 DEF ReclaimInv

-----------------------------------------------------------------------------
(***************************************************************************)
(* What a pass decides.  Nothing changes at the node or to the Volume.     *)
(***************************************************************************)
\* A Volume whose status records a removal is to be finalized.
LEMMA RemovalRetired ==
    ASSUME NEW v, StatusConsistent(v), v.job = "UnprepareVolume"
    PROVE  Retired(v)
  BY DEF StatusConsistent, Retired

\* What is left to prove of a step that neither touches the Volume nor the
\* node.
LEMMA PassReclaim ==
    ASSUME TypeOK, ReclaimInv,
           UNCHANGED <<vol, volSynced, volCache, sent, running, jobs, storage>>,
           rec'.v.uid \in {0, rec.v.uid, volCache.uid},
           FreshInv', ReasonInv', RemovalInv(rec.v)'
    PROVE  ReclaimInv'
  <1>1. CopiesInv'
    BY DEF ReclaimInv, CopiesInv, Same
  <1>2. QueueInv'
    BY DEF ReclaimInv, QueueInv, DistinctIds, SentKnown, RunningKnown
  <1>3. \A job, i : /\ Sent(job)' = Sent(job) /\ AtNode(job)' = AtNode(job)
                    /\ SentAfter(i, job)' = SentAfter(i, job)
    BY DEF Sent, AtNode, SentAfter
  <1>4. Clean' = Clean /\ CacheRetired' = CacheRetired
    BY <1>3 DEF Clean, CacheRetired, Same
  <1>5. NodeStorageInv'
    <2>1. NoneErasesAfter' = NoneErasesAfter
      BY <1>3 DEF NoneErasesAfter, InOrder
    <2>2. NothingErased'
      BY <1>3, <1>4, <2>1 DEF ReclaimInv, NodeStorageInv, NothingErased
    <2> QED
      BY <1>3, <2>2
         DEF ReclaimInv, NodeStorageInv, OwnStorage, OwnPreparations
  <1>6. RemovalInv(vol)' /\ RemovalInv(volCache)'
    <2>1. RemovalInv(vol) /\ RemovalInv(volCache)
      BY DEF ReclaimInv, RemovalsInv
    <2>2. \A jid : /\ SentRemoval(jid)' = SentRemoval(jid)
                   /\ RunningRemoval(jid)' = RunningRemoval(jid)
                   /\ EndedRemoval(jid)' = EndedRemoval(jid)
      BY <1>3, <1>4 DEF SentRemoval, RunningRemoval, EndedRemoval
    <2> QED
      BY <1>4, <2>1, <2>2 DEF RemovalInv, Same
  <1>7. RemovalsInv'
    BY <1>6 DEF RemovalsInv
  <1> QED
    BY <1>1, <1>2, <1>5, <1>7 DEF ReclaimInv

\* A pass that ends.
LEMMA IdleReclaim ==
    ASSUME TypeOK, ReclaimInv, rec' = Idle,
           UNCHANGED <<vol, volSynced, volCache, sent, running, jobs, storage>>
    PROVE  ReclaimInv'
  <1>1. rec'.pc = "idle" /\ rec'.v.uid = 0 /\ ~rec'.vFresh
    BY NullSound
  <1>2. FreshInv' /\ ReasonInv' /\ RemovalInv(rec.v)'
    BY <1>1 DEF FreshInv, ReasonInv, RemovalInv, Same
  <1> QED
    BY <1>1, <1>2, PassReclaim

\* A pass that is left as it is, its copy of the PersistentVolume apart.
LEMMA SamePassReclaim ==
    ASSUME TypeOK, ReclaimInv,
           UNCHANGED <<vol, volSynced, volCache, sent, running, jobs, storage>>,
           rec'.pc = rec.pc, rec'.v = rec.v, rec'.vFresh = rec.vFresh,
           rec'.job = rec.job
    PROVE  ReclaimInv'
  <1>1. FreshInv'
    BY DEF ReclaimInv, FreshInv
  <1>2. ReasonInv'
    BY DEF ReclaimInv, ReasonInv, Same, CacheRetired
  <1>3. RemovalInv(rec.v)'
    <2>1. RemovalInv(rec.v)
      BY DEF ReclaimInv, RemovalsInv
    <2>2. \A job, i : /\ Sent(job)' = Sent(job) /\ AtNode(job)' = AtNode(job)
                      /\ SentAfter(i, job)' = SentAfter(i, job)
      BY DEF Sent, AtNode, SentAfter
    <2>3. \A jid : /\ SentRemoval(jid)' = SentRemoval(jid)
                   /\ RunningRemoval(jid)' = RunningRemoval(jid)
                   /\ EndedRemoval(jid)' = EndedRemoval(jid)
                   /\ Clean' = Clean
      BY <2>2 DEF SentRemoval, RunningRemoval, EndedRemoval, Clean
    <2> QED
      BY <2>1, <2>3 DEF RemovalInv, Same
  <1> QED
    BY <1>1, <1>2, <1>3, PassReclaim

\* A pass starts with what the cache says.
LEMMA StartedReclaim ==
    ASSUME TypeOK, VolumeInv, ReclaimInv, NEW pc, NEW p, NEW job, NEW next,
           rec' = At(pc, volCache, p, job, next),
           UNCHANGED <<vol, volSynced, volCache, sent, running, jobs, storage>>,
           pc \notin {"idle", "status"}, volCache.uid # 0,
           pc = "submit" => (Retired(volCache) <=> job = "UnprepareVolume"),
           pc = "submit" => job # "PrepareVolume",
           pc = "poll" => (Retired(volCache) <=> volCache.job = "UnprepareVolume"),
           pc \in {"create", "finalizer"} => ~Retired(volCache),
           pc \in {"pvFinalizer", "volFinalizer"} =>
               volCache.job = "UnprepareVolume" /\ volCache.jid = DoneMarker
    PROVE  ReclaimInv'
  <1>1. /\ rec'.pc = pc /\ rec'.v = volCache /\ rec'.vFresh = volSynced
        /\ rec'.job = job
    BY AtFields
  <1>2. volSynced => volCache = vol
    BY DEF VolumeInv, ObjectsInv
  <1>3. FreshInv'
    BY <1>1, <1>2 DEF FreshInv, SameStatus
  <1>4. volCache.job = "UnprepareVolume" => Retired(volCache)
    BY CacheSound, RemovalRetired
  <1>5. Same(volCache)' = Same(volCache)
        /\ Retired(volCache)' = Retired(volCache)
    BY DEF Same, Retired
  <1>6. ReasonInv'
    BY <1>1, <1>4, <1>5 DEF ReasonInv, CacheRetired
  <1>7. RemovalInv(rec.v)'
    <2>1. RemovalInv(volCache)
      BY DEF ReclaimInv, RemovalsInv
    <2>2. \A x, i : /\ Sent(x)' = Sent(x) /\ AtNode(x)' = AtNode(x)
                    /\ SentAfter(i, x)' = SentAfter(i, x)
      BY DEF Sent, AtNode, SentAfter
    <2>3. \A jid : /\ SentRemoval(jid)' = SentRemoval(jid)
                   /\ RunningRemoval(jid)' = RunningRemoval(jid)
                   /\ EndedRemoval(jid)' = EndedRemoval(jid)
                   /\ Clean' = Clean
      BY <2>2 DEF SentRemoval, RunningRemoval, EndedRemoval, Clean
    <2> QED
      BY <1>1, <2>1, <2>3 DEF RemovalInv, Same
  <1> QED
    BY <1>1, <1>3, <1>6, <1>7, PassReclaim

\* A pass starts by writing a status that does not finalize the Volume.
LEMMA StatusReclaim ==
    ASSUME TypeOK, VolumeInv, ReclaimInv,
           NEW w, NEW pc, NEW p, NEW job, NEW next,
           rec' = At(pc, w, p, job, next), pc = "status",
           UNCHANGED <<vol, volSynced, volCache, sent, running, jobs, storage>>,
           w.uid = volCache.uid, volCache.uid # 0,
           w.phase # "Pending", w.job # "UnprepareVolume",
           volCache.job # "UnprepareVolume"
    PROVE  ReclaimInv'
  <1>1. rec'.pc = "status" /\ rec'.v = w /\ rec'.vFresh = volSynced
    BY AtFields
  <1>2. volSynced => volCache = vol
    BY DEF VolumeInv, ObjectsInv
  <1>3. FreshInv'
    BY <1>1, <1>2 DEF FreshInv
  <1>4. ReasonInv'
    BY <1>1 DEF ReasonInv
  <1>5. RemovalInv(rec.v)'
    BY <1>1 DEF RemovalInv
  <1> QED
    BY <1>1, <1>3, <1>4, <1>5, PassReclaim

\* What a pass has checked when it starts to finalize a Volume, or not.
LEMMA ReconcileReclaim ==
    ASSUME TypeOK, VolumeInv, ReclaimInv, Reconcile
    PROVE  ReclaimInv'
  <1>1. UNCHANGED <<vol, volSynced, volCache, sent, running, jobs, storage>>
    BY DEF Reconcile, ReconcileNothing, ReconcileInvalid,
           ReconcileNameConflict, PrepareStorage, GetStorageSize,
           CheckHealth, FinalizeDeletePv, FinalizeWait, ReclaimStorage, Read,
           volVars, caches, saltVars, nodeVars
  <1>2. Finalizing(volCache) <=> Retired(volCache)
    BY DEF Finalizing, Retired
  <1>3. volCache.job = "UnprepareVolume" => Retired(volCache)
    BY CacheSound, RemovalRetired
  <1>4. CASE ReconcileNothing
    BY <1>1, <1>4, SamePassReclaim DEF ReconcileNothing
  <1>5. CASE ReconcileNameConflict \/ FinalizeWait
    BY <1>1, <1>5, IdleReclaim
       DEF ReconcileNameConflict, FinalizeWait, Requeue
  <1>6. CASE ReconcileInvalid
    <2>1. /\ rec' = At("status", SetFailed(volCache, "InternalError"), NoPv, "",
                       "idle")
          /\ volCache.uid # 0 /\ ~volCache.valid
      BY <1>6 DEF ReconcileInvalid, Read, NothingToDo
    <2>2. volCache.job = ""
      BY <2>1, CacheSound
    <2>3. PICK w, pc, job, next :
              /\ w = SetFailed(volCache, "InternalError") /\ pc = "status"
              /\ rec' = At(pc, w, NoPv, job, next)
      BY <2>1
    <2>4. w.uid = volCache.uid /\ w.phase = "Failed" /\ w.job = volCache.job
      BY <2>3, StateTypes DEF SetFailed, VolumeObject
    <2> QED
      BY <1>1, <2>1, <2>2, <2>3, <2>4, StatusReclaim
  <1>7. CASE PrepareStorage \/ GetStorageSize
    <2>1. ~Retired(volCache) /\ volCache.uid # 0
      BY <1>2, <1>7
         DEF PrepareStorage, GetStorageSize, Deploying, Read, NothingToDo
    <2>2. PICK pc \in {"finalizer", "submit", "create", "poll"},
               job \in {"PrepareVolume", "GetDeviceInfo", ""} :
              /\ rec' = At(pc, volCache, NoPv, job, "idle")
              /\ pc = "submit" => job = "GetDeviceInfo"
      BY <1>7 DEF PrepareStorage, GetStorageSize
    <2> QED
      BY <1>1, <1>3, <2>1, <2>2, StartedReclaim
  <1>8. CASE CheckHealth
    <2>1. ~Retired(volCache) /\ volCache.uid # 0
      BY <1>2, <1>8 DEF CheckHealth, Read, NothingToDo
    <2>2. PICK w, pc, job, next :
              /\ \/ w = SetFailed(volCache, "UnavailableError")
                 \/ w = SetAvailable(volCache)
              /\ pc = "status" /\ rec' = At(pc, w, NoPv, job, next)
      <3>1. \/ rec' = At("status", SetFailed(volCache, "UnavailableError"),
                       NoPv, "", "idle")
            \/ rec' = At("status", SetAvailable(volCache), NoPv, "", "refresh")
        BY <1>8 DEF CheckHealth
      <3> QED
        BY <3>1
    <2>3. /\ w.uid = volCache.uid /\ w.phase # "Pending"
          /\ w.job \in {"", volCache.job}
      BY <2>2, StateTypes DEF SetFailed, SetAvailable, VolumeObject
    <2> QED
      BY <1>1, <1>3, <2>1, <2>2, <2>3, StatusReclaim
  <1>9. CASE FinalizeDeletePv
    <2>1. PICK pc, job, next : /\ rec' = At(pc, volCache, NoPv, job, next)
                               /\ pc = "deletePv"
      BY <1>9 DEF FinalizeDeletePv
    <2>2. volCache.uid # 0
      BY <1>9 DEF FinalizeDeletePv, Read, NothingToDo
    <2> QED
      BY <1>1, <2>1, <2>2, StartedReclaim
  <1>10. CASE ReclaimStorage
    <2>1. Retired(volCache) /\ volCache.uid # 0
      BY <1>2, <1>10 DEF ReclaimStorage, Read, NothingToDo
    <2>2. volCache.phase # "Failed" /\ volCache.jid # NoId
              => volCache.job = "UnprepareVolume"
      BY <2>1, CacheSound, StateTypes
         DEF StatusConsistent, Retired, VolumeObject, Phases
    <2>3. CASE rec' = At("submit", volCache, NoPv, "UnprepareVolume", "idle")
      BY <1>1, <2>1, <2>3, StartedReclaim
    <2>4. CASE /\ volCache.phase # "Failed" /\ volCache.jid = DoneMarker
               /\ rec' = At(FirstFinalizer(pvCache), volCache, pvCache, "",
                            "idle")
      <3>1. FirstFinalizer(pvCache) \in {"pvFinalizer", "volFinalizer"}
        BY DEF FirstFinalizer
      <3> QED
        BY <1>1, <2>1, <2>2, <2>4, <3>1, Handles, StartedReclaim
    <2>5. CASE /\ volCache.phase # "Failed" /\ volCache.jid \in Jids
               /\ rec' = At("poll", volCache, pvCache, "", "idle")
      <3>1. PICK pc, job, next :
                /\ rec' = At(pc, volCache, pvCache, job, next) /\ pc = "poll"
        BY <2>5
      <3>2. volCache.job = "UnprepareVolume"
        BY <2>2, <2>5, Handles
      <3> QED
        BY <1>1, <2>1, <3>1, <3>2, StartedReclaim
    <2> QED
      BY <1>10, <2>3, <2>4, <2>5 DEF ReclaimStorage
  <1> QED
    BY <1>4, <1>5, <1>6, <1>7, <1>8, <1>9, <1>10 DEF Reconcile

\* A pass is about to record where it has got to.  It does not bring a Volume
\* back from its finalization.
LEMMA RecordReason ==
    ASSUME TypeOK, VolumeInv, FreshInv, ReasonInv,
           rec.pc \in {"refresh", "create", "poll", "submit"},
           UNCHANGED <<vol, volSynced, volCache>>,
           rec'.pc = "status", rec'.vFresh = rec.vFresh,
           rec'.v.uid = rec.v.uid,
           rec'.v.phase = "Pending" => ~Retired(rec.v),
           rec.v.job = "UnprepareVolume" => rec'.v.job = "UnprepareVolume",
           rec'.v.job = "UnprepareVolume" =>
               \/ rec.v.job = "UnprepareVolume"
               \/ rec.pc = "submit" /\ rec.job = "UnprepareVolume"
    PROVE  FreshInv' /\ ReasonInv'
  <1>1. rec.vFresh => SameStatus(rec.v, vol) /\ rec.v.deleted = vol.deleted
    BY DEF FreshInv, VolumeInv, CopyInv, SameMetadata
  <1>2. rec.vFresh => (Retired(rec.v) <=> Retired(vol))
    BY <1>1 DEF SameStatus, Retired
  <1>3. FreshInv'
    <2>1. Retired(vol)' <=> Retired(vol)
      BY DEF Retired
    <2> QED
      BY <1>1, <1>2, <2>1 DEF FreshInv, SameStatus
  <1>4. CacheRetired' <=> CacheRetired
    BY DEF CacheRetired, Same
  <1>5. Same(rec.v)' <=> Same(rec.v)
    BY DEF Same
  <1>6. ReasonInv'
    BY <1>4, <1>5 DEF ReasonInv
  <1> QED
    BY <1>3, <1>6

\* What is recorded refers to no removal, or to the one the pass knew of.
LEMMA RecordReclaim ==
    ASSUME TypeOK, VolumeInv, ReclaimInv,
           rec.pc \in {"refresh", "create", "poll"},
           UNCHANGED <<vol, volSynced, volCache, sent, running, jobs, storage>>,
           rec'.pc = "status", rec'.vFresh = rec.vFresh,
           rec'.v.uid = rec.v.uid,
           rec'.v.phase = "Pending" => ~Retired(rec.v),
           rec.v.job = "UnprepareVolume" <=> rec'.v.job = "UnprepareVolume",
           \/ rec'.v.jid \in {rec.v.jid, NoId}
           \/ /\ rec'.v.jid = DoneMarker
              /\ rec.v.jid \in Jids /\ jobs[rec.v.jid].state = "ok"
    PROVE  ReclaimInv'
  <1>1. FreshInv' /\ ReasonInv'
    BY RecordReason DEF ReclaimInv
  <1>2. \A x, i : /\ Sent(x)' = Sent(x) /\ AtNode(x)' = AtNode(x)
                  /\ SentAfter(i, x)' = SentAfter(i, x)
    BY DEF Sent, AtNode, SentAfter
  <1>3. \A jid : /\ SentRemoval(jid)' = SentRemoval(jid)
                 /\ RunningRemoval(jid)' = RunningRemoval(jid)
                 /\ EndedRemoval(jid)' = EndedRemoval(jid)
                 /\ Clean' = Clean
    BY <1>2 DEF SentRemoval, RunningRemoval, EndedRemoval, Clean
  <1>4. RemovalInv(rec.v)'
    <2> SUFFICES ASSUME Same(rec.v), rec.v.job = "UnprepareVolume"
                 PROVE  /\ rec'.v.jid = DoneMarker => Clean
                        /\ rec'.v.jid \in Jids =>
                              /\ SentRemoval(rec'.v.jid)
                              /\ RunningRemoval(rec'.v.jid)
                              /\ EndedRemoval(rec'.v.jid)
      BY <1>3 DEF RemovalInv, Same
    <2>1. RemovalInv(rec.v)
      BY DEF ReclaimInv, RemovalsInv
    <2>2. /\ rec.v.jid = DoneMarker => Clean
          /\ rec.v.jid \in Jids =>
                /\ SentRemoval(rec.v.jid) /\ RunningRemoval(rec.v.jid)
                /\ EndedRemoval(rec.v.jid)
      BY <2>1 DEF RemovalInv
    <2>3. CASE rec'.v.jid = rec.v.jid
      BY <2>2, <2>3
    <2>4. CASE rec'.v.jid = NoId
      BY <2>4, Handles
    <2>5. CASE /\ rec'.v.jid = DoneMarker
               /\ rec.v.jid \in Jids /\ jobs[rec.v.jid].state = "ok"
      <3>1. Clean
        BY <2>2, <2>5 DEF EndedRemoval
      <3> QED
        BY <2>5, <3>1, Handles
    <2> QED
      BY <2>3, <2>4, <2>5
  <1> QED
    BY <1>1, <1>4, PassReclaim

\* Nobody prepares a Volume that is to be finalized.
LEMMA DeployedNotRetired ==
    ASSUME TypeOK, VolumeInv, ReasonInv, rec.pc \in {"create", "poll"},
           rec.v.job # "UnprepareVolume"
    PROVE  ~Retired(rec.v)
  BY DEF ReasonInv

\* What SetPendingStatus, SetTerminatingStatus and SetFailedStatus record.
LEMMA InProgressFields ==
    ASSUME NEW v \in VolumeObject, NEW job, NEW jid, NEW w,
           w = SetInProgress(v, job, jid)
    PROVE  /\ w.uid = v.uid /\ w.job = job /\ w.jid = jid
           /\ w.phase = "Pending" => job # "UnprepareVolume"
  BY DEF SetInProgress, SetPending, SetTerminating, VolumeObject

LEMMA FailedFields ==
    ASSUME NEW v \in VolumeObject, NEW reason, NEW w,
           w = SetFailed(v, reason)
    PROVE  /\ w.uid = v.uid /\ w.job = v.job /\ w.jid = v.jid
           /\ w.phase = "Failed" /\ w.reason = reason
  BY DEF SetFailed, VolumeObject

\* The answer to a poll is about to be recorded.
LEMMA PollReclaim ==
    ASSUME TypeOK, VolumeInv, ReclaimInv,
           PollSucceeded \/ PollFailed \/ PollRetry
    PROVE  ReclaimInv'
  <1>1. /\ rec.pc = "poll"
        /\ UNCHANGED <<vol, volSynced, volCache, sent, running, jobs, storage>>
    BY DEF PollSucceeded, PollFailed, PollRetry, volVars, caches, saltVars,
           nodeVars
  <1>2. /\ rec.v.jid \in Jids /\ rec.v \in VolumeObject
        /\ rec.v.job # "UnprepareVolume" => ~Retired(rec.v)
    BY <1>1, PollFacts, StateTypes, DeployedNotRetired DEF ReclaimInv
  <1>3. /\ rec'.pc = "status" /\ rec'.vFresh = rec.vFresh
        /\ \/ /\ rec'.v = SetInProgress(rec.v, rec.v.job, DoneMarker)
              /\ jobs[rec.v.jid].state = "ok"
           \/ rec'.v = SetInProgress(rec.v, rec.v.job, NoId)
           \/ rec'.v = SetFailed(rec.v, FailureReason(rec.v.job))
    <2>1. CASE PollSucceeded
      <3>1. PollAnswer(jobs[rec.v.jid].state) = "success"
        BY <2>1 DEF PollSucceeded, Answer
      <3>2. jobs[rec.v.jid].state = "ok"
        BY <3>1 DEF PollAnswer
      <3> QED
        BY <2>1, <3>2, PassFacts DEF PollSucceeded, Reconciliation
    <2>2. CASE PollFailed
      BY <2>2, PassFacts DEF PollFailed, Reconciliation
    <2>3. CASE PollRetry
      BY <2>3, PassFacts DEF PollRetry, Reconciliation
    <2> QED
      BY <2>1, <2>2, <2>3
  <1>4. /\ rec'.v.uid = rec.v.uid /\ rec'.v.job = rec.v.job
        /\ rec'.v.phase = "Pending" => rec.v.job # "UnprepareVolume"
        /\ \/ rec'.v.jid \in {rec.v.jid, NoId}
           \/ rec'.v.jid = DoneMarker /\ jobs[rec.v.jid].state = "ok"
    <2>1. CASE /\ rec'.v = SetInProgress(rec.v, rec.v.job, DoneMarker)
               /\ jobs[rec.v.jid].state = "ok"
      BY <1>2, <2>1, InProgressFields
    <2>2. CASE rec'.v = SetInProgress(rec.v, rec.v.job, NoId)
      BY <1>2, <2>2, InProgressFields
    <2>3. CASE rec'.v = SetFailed(rec.v, FailureReason(rec.v.job))
      BY <1>2, <2>3, FailedFields
    <2> QED
      BY <1>3, <2>1, <2>2, <2>3
  <1> QED
    BY <1>1, <1>2, <1>3, <1>4, RecordReclaim

\* createPersistentVolume and refreshDeviceName.
LEMMA DeployReclaim ==
    ASSUME TypeOK, VolumeInv, ReclaimInv,
           CreatePersistentVolume \/ RefreshDeviceName
    PROVE  ReclaimInv'
  <1>1. UNCHANGED <<vol, volSynced, volCache, sent, running, jobs, storage>>
    BY DEF CreatePersistentVolume, RefreshDeviceName, volVars, caches,
           saltVars, nodeVars
  <1>2. CASE rec' = Idle
    BY <1>1, <1>2, IdleReclaim
  <1>3. CASE /\ RefreshDeviceName
             /\ rec' = [rec EXCEPT !.pc = "status", !.v.named = TRUE]
    <2>1. /\ rec.pc = "refresh" /\ rec'.pc = "status"
          /\ rec'.vFresh = rec.vFresh
          /\ rec'.v = [rec.v EXCEPT !.named = TRUE]
      BY <1>3, PassFacts DEF RefreshDeviceName, Reconciliation
    <2>2. /\ rec'.v.uid = rec.v.uid /\ rec'.v.phase = rec.v.phase
          /\ rec'.v.job = rec.v.job /\ rec'.v.jid = rec.v.jid
      BY <2>1, PassFacts DEF VolumeObject
    <2>3. rec'.v.phase = "Pending" => ~Retired(rec.v)
      BY <2>2 DEF Retired
    <2> QED
      BY <1>1, <2>1, <2>2, <2>3, RecordReclaim
  <1>4. CASE /\ CreatePersistentVolume
             /\ \E w : /\ \/ w = SetPending(rec.v, "GetDeviceInfo", NoId)
                          \/ w = SetAvailable(rec.v)
                       /\ rec' = [rec EXCEPT !.pc = "status", !.v = w]
    <2>1. PICK w : /\ \/ w = SetPending(rec.v, "GetDeviceInfo", NoId)
                      \/ w = SetAvailable(rec.v)
                   /\ rec' = [rec EXCEPT !.pc = "status", !.v = w]
      BY <1>4
    <2>2. /\ rec.pc = "create" /\ rec'.pc = "status"
          /\ rec'.vFresh = rec.vFresh /\ rec'.v = w
      BY <1>4, <2>1, PassFacts DEF CreatePersistentVolume, Reconciliation
    <2>3. /\ w.uid = rec.v.uid /\ w.jid = NoId
          /\ w.job # "UnprepareVolume"
      BY <2>1, PassFacts DEF SetPending, SetAvailable, VolumeObject
    <2>4. ~Retired(rec.v)
      BY <2>2 DEF ReclaimInv, ReasonInv
    <2>5. rec.v.job # "UnprepareVolume"
      BY <2>4, PassFacts, RemovalRetired
    <2> QED
      BY <1>1, <2>2, <2>3, <2>4, <2>5, RecordReclaim
  <1>5. CASE RefreshDeviceName
    BY <1>2, <1>3, <1>5 DEF RefreshDeviceName, EndReconciliation
  <1>6. CASE CreatePersistentVolume
    BY <1>2, <1>4, <1>6 DEF CreatePersistentVolume, Requeue
  <1> QED
    BY <1>5, <1>6

\* The finalizer of the PersistentVolume goes, then that of the Volume.
LEMMA UnprotectReclaim ==
    ASSUME TypeOK, VolumeInv, ReclaimInv, RemovePvFinalizer
    PROVE  ReclaimInv'
  <1>1. /\ UNCHANGED <<vol, volSynced, volCache, sent, running, jobs, storage>>
        /\ rec.pc = "pvFinalizer"
    BY DEF RemovePvFinalizer, volVars, caches, saltVars, nodeVars
  <1>2. /\ rec'.pc = "volFinalizer" /\ rec'.v = rec.v
        /\ rec'.vFresh = rec.vFresh
    BY PassFacts DEF RemovePvFinalizer, Reconciliation
  <1>3. FreshInv'
    BY <1>1, <1>2 DEF ReclaimInv, FreshInv
  <1>4. ReasonInv'
    BY <1>1, <1>2 DEF ReclaimInv, ReasonInv, Same, CacheRetired
  <1>5. RemovalInv(rec.v)'
    <2>1. RemovalInv(rec.v)
      BY DEF ReclaimInv, RemovalsInv
    <2>2. \A x, i : /\ Sent(x)' = Sent(x) /\ AtNode(x)' = AtNode(x)
                    /\ SentAfter(i, x)' = SentAfter(i, x)
      BY <1>1 DEF Sent, AtNode, SentAfter
    <2>3. \A jid : /\ SentRemoval(jid)' = SentRemoval(jid)
                   /\ RunningRemoval(jid)' = RunningRemoval(jid)
                   /\ EndedRemoval(jid)' = EndedRemoval(jid)
                   /\ Clean' = Clean
      BY <1>1, <2>2 DEF SentRemoval, RunningRemoval, EndedRemoval, Clean
    <2> QED
      BY <1>1, <1>2, <2>1, <2>3 DEF RemovalInv, Same
  <1> QED
    BY <1>1, <1>2, <1>3, <1>4, <1>5, PassReclaim

\* Steps that end a pass without a word to the Volume or to the node.
LEMMA StoppedReclaim ==
    ASSUME TypeOK, VolumeInv, ReclaimInv,
           \/ Conflict \/ UpdatePvStatus \/ DeletePv \/ SubmitRefused
           \/ PollStillRunning \/ CallFails
    PROVE  ReclaimInv'
  <1>1. /\ UNCHANGED <<vol, volSynced, volCache, sent, running, jobs, storage>>
        /\ rec' = Idle
    BY DEF Conflict, UpdatePvStatus, DeletePv, SubmitRefused,
           PollStillRunning, CallFails, Requeue, volVars, caches, saltVars,
           nodeVars
  <1> QED
    BY <1>1, IdleReclaim

\* Whoever writes the PersistentVolume only touches it, and its copy.
LEMMA PvReclaim ==
    ASSUME TypeOK, VolumeInv, ReclaimInv,
           Cluster \/ UserDeletesPv \/ BindPv \/ FailPv \/ SyncPv
    PROVE  ReclaimInv'
  <1>1. UNCHANGED <<vol, volSynced, volCache, sent, running, jobs, storage>>
    BY DEF Cluster, PublishPv, ReleasePv, UnprotectPv, CollectPv,
           UserDeletesPv, BindPv, FailPv, SyncPv, OthersWritePv, volVars,
           caches, saltVars, nodeVars
  <1>2. rec' = rec \/ \E b : rec' = [rec EXCEPT !.pFresh = b]
    BY DEF Cluster, PublishPv, ReleasePv, UnprotectPv, CollectPv,
           UserDeletesPv, BindPv, FailPv, SyncPv, OthersWritePv
  <1>3. /\ rec'.pc = rec.pc /\ rec'.v = rec.v /\ rec'.vFresh = rec.vFresh
        /\ rec'.job = rec.job
    BY <1>2, PassFacts DEF Reconciliation
  <1> QED
    BY <1>1, <1>3, SamePassReclaim

-----------------------------------------------------------------------------
(***************************************************************************)
(* A job is published.                                                     *)
(***************************************************************************)
\* A removal is only submitted for the Volume that the operator knows to be
\* retired, or when nothing of the Volume there is can be erased.
LEMMA SubmittedRemoval ==
    ASSUME TypeOK, ReclaimInv, rec.pc = "submit",
           rec.job = "UnprepareVolume", ~CacheRetired
    PROVE  ~vol.fin
  <1>1. rec.v.uid # 0 /\ ~Same(rec.v)
    BY DEF ReclaimInv, ReasonInv
  <1>2. rec.v.uid # 0 /\ rec.v.uid # vol.uid
    BY <1>1 DEF Same
  <1> QED
    BY <1>2 DEF ReclaimInv, CopiesInv

\* A preparation is only submitted for the Volume there is, protected.
LEMMA SubmittedPreparation ==
    ASSUME TypeOK, VolumeInv, ReclaimInv, rec.pc = "submit",
           rec.job = "PrepareVolume"
    PROVE  /\ vol.fin
           /\ \A v \in {vol, volCache, rec.v} : v.job # "UnprepareVolume"
  <1>1. /\ Same(rec.v)
        /\ \A v \in {vol, volCache, rec.v} : v.job # "UnprepareVolume"
    BY DEF ReclaimInv, ReasonInv
  <1>2. rec.v.fin
    BY PassFacts
  <1> QED
    BY <1>1, <1>2 DEF Same, VolumeInv, CopyInv

\* The job that is published comes last: it neither erases what a job that
\* waits prepares, nor prepares what one erases.
LEMMA PublishReclaim ==
    ASSUME TypeOK, VolumeInv, ReclaimInv, rec.pc = "submit",
           NEW j \in FreeJids, Publish(j, rec.job),
           UNCHANGED <<vol, volCache, storage>>
    PROVE  /\ QueueInv' /\ NodeStorageInv'
           /\ \A v \in {vol, volCache, rec.v} :
                 RemovalInv(v) => RemovalInv(v)'
           /\ rec.job = "UnprepareVolume" =>
                 SentRemoval(j)' /\ RunningRemoval(j)' /\ EndedRemoval(j)'
  <1>1. /\ j \in Jids /\ jobs[j].state # "sent" /\ jobs[j].state # "running"
        /\ j # vol.jid /\ j # volCache.jid /\ j # rec.v.jid
        /\ j # 0
    BY Bounds DEF FreeJids
  <1>2. /\ running' = running
        /\ jobs' = [jobs EXCEPT ![j] = [state |-> "sent", path |-> 0]]
    BY DEF Publish
  <1>3. /\ jobs'[j].state = "sent"
        /\ \A k \in Jids : k # j => jobs'[k] = jobs[k]
    BY <1>1, <1>2, NodeTypes
  <1>4. PICK n : /\ n \notin DOMAIN sent
                 /\ DOMAIN sent' = DOMAIN sent \cup {n}
                 /\ sent'[n].jid = j /\ sent'[n].job = rec.job
                 /\ ~Before(n, n)
                 /\ \A i \in DOMAIN sent :
                       sent'[i] = sent[i] /\ Before(i, n) /\ ~Before(n, i)
    <2>1. PICK e : e = [jid |-> j, job |-> rec.job]
      OBVIOUS
    <2>2. sent' = Append(sent, e) /\ e.jid = j /\ e.job = rec.job
      BY <2>1 DEF Publish
    <2> QED
      BY <2>2, Appended
  <1>5. DistinctIds /\ SentKnown /\ RunningKnown
    BY DEF ReclaimInv, QueueInv
  <1>6. \A i \in DOMAIN sent : sent[i].jid # j /\ sent[i].jid \in Jids
    BY <1>1, <1>5, NodeTypes DEF SentKnown
  <1>7. running.jid # j
    BY <1>1, <1>5 DEF RunningKnown
  <1>8. QueueInv'
    <2>1. DistinctIds'
      BY <1>4, <1>5, <1>6 DEF DistinctIds
    <2>2. SentKnown'
      BY <1>3, <1>4, <1>5, <1>6 DEF SentKnown
    <2>3. running.jid # 0 => jobs'[running.jid] = jobs[running.jid]
      BY <1>3, <1>7, NodeTypes
    <2>4. RunningKnown'
      BY <1>2, <1>5, <2>3 DEF RunningKnown
    <2> QED
      BY <2>1, <2>2, <2>4 DEF QueueInv
  <1>9. ASSUME NEW job, Sent(job)' PROVE Sent(job) \/ rec.job = job
    BY <1>4, <1>9 DEF Sent
  <1>10. ASSUME NEW job, AtNode(job)' PROVE AtNode(job) \/ rec.job = job
    BY <1>2, <1>9, <1>10 DEF AtNode
  <1>11. ASSUME NEW i \in DOMAIN sent, NEW job, SentAfter(i, job)'
         PROVE  SentAfter(i, job) \/ rec.job = job
    BY <1>4, <1>11 DEF SentAfter
  <1>12. ASSUME NEW job, SentAfter(n, job)' PROVE FALSE
    BY <1>4, <1>12 DEF SentAfter
  <1>13. CacheRetired' <=> CacheRetired
    BY DEF CacheRetired, Same
  <1>14. OwnStorage /\ OwnPreparations /\ NothingErased
    BY DEF ReclaimInv, NodeStorageInv
  <1>15. OwnPreparations'
    <2>1. AtNode("PrepareVolume")' => vol.fin
      BY <1>10, <1>14, SubmittedPreparation DEF OwnPreparations
    <2> QED
      BY <1>2, <1>14, <2>1 DEF OwnPreparations
  <1>16. NothingErased'
    <2> SUFFICES ASSUME vol.uid # 0, ~CacheRetired
                 PROVE  /\ NoneErasesAfter'
                        /\ storage[vol.uid] # "absent"
                               => ~AtNode("UnprepareVolume")'
      BY <1>13 DEF NothingErased
    <2>0. NoneErasesAfter
      BY <1>14 DEF NothingErased
    <2>1. CASE rec.job = "UnprepareVolume"
      <3>1. ~vol.fin
        BY <2>1, SubmittedRemoval
      <3>2. ~AtNode("PrepareVolume")
        BY <1>14, <3>1 DEF OwnPreparations
      <3>3. storage[vol.uid] = "absent"
        BY <1>14, <3>1, Incarnations DEF OwnStorage
      <3>4. \A i \in DOMAIN sent : sent[i].job # "PrepareVolume"
        BY <3>2 DEF AtNode, Sent
      <3>5. InOrder'
        BY <1>4, <2>1, <3>4 DEF InOrder
      <3>6. NoneErasesAfter'
        BY <1>2, <3>2, <3>5 DEF NoneErasesAfter, AtNode
      <3> QED
        BY <3>3, <3>6
    <2>2. CASE rec.job # "UnprepareVolume"
      <3>1. InOrder'
        BY <1>4, <1>11, <1>12, <2>0, <2>2 DEF InOrder, NoneErasesAfter
      <3>2. NoneErasesAfter'
        BY <1>2, <1>9, <2>0, <2>2, <3>1 DEF NoneErasesAfter
      <3> QED
        BY <1>10, <1>14, <2>2, <3>2 DEF NothingErased
    <2> QED
      BY <2>1, <2>2
  <1>17. NodeStorageInv'
    BY <1>14, <1>15, <1>16 DEF NodeStorageInv, OwnStorage
  <1>18. ASSUME NEW v \in {vol, volCache, rec.v}, RemovalInv(v)
         PROVE  RemovalInv(v)'
    <2> SUFFICES ASSUME Same(v), v.job = "UnprepareVolume"
                 PROVE  /\ v.jid = DoneMarker => Clean'
                        /\ v.jid \in Jids =>
                              /\ SentRemoval(v.jid)' /\ RunningRemoval(v.jid)'
                              /\ EndedRemoval(v.jid)'
      BY DEF RemovalInv, Same
    <2>1. rec.job # "PrepareVolume"
      BY SubmittedPreparation
    <2>2. Clean => Clean'
      BY <1>10, <2>1 DEF Clean
    <2>3. v.jid # j
      BY <1>1
    <2>4. ASSUME NEW jid \in Jids, SentRemoval(jid), jid # j
          PROVE  SentRemoval(jid)'
      BY <1>4, <1>11, <2>1, <2>4 DEF SentRemoval
    <2>5. ASSUME NEW jid \in Jids, RunningRemoval(jid)
          PROVE  RunningRemoval(jid)'
      BY <1>2, <1>9, <2>1, <2>5 DEF RunningRemoval
    <2>6. ASSUME NEW jid \in Jids, EndedRemoval(jid), jid # j
          PROVE  EndedRemoval(jid)'
      BY <1>3, <2>2, <2>6 DEF EndedRemoval
    <2> QED
      BY <1>18, <2>2, <2>3, <2>4, <2>5, <2>6 DEF RemovalInv
  <1>19. ASSUME rec.job = "UnprepareVolume"
         PROVE  SentRemoval(j)' /\ RunningRemoval(j)' /\ EndedRemoval(j)'
    <2>1. SentRemoval(j)'
      BY <1>4, <1>6, <1>12, <1>19 DEF SentRemoval
    <2>2. RunningRemoval(j)'
      BY <1>2, <1>7 DEF RunningRemoval
    <2>3. EndedRemoval(j)'
      BY <1>3 DEF EndedRemoval
    <2> QED
      BY <2>1, <2>2, <2>3
  <1> QED
    BY <1>8, <1>17, <1>18, <1>19

\* A job is submitted, whether its ID reaches the operator or not.
LEMMA SubmitReclaim ==
    ASSUME TypeOK, VolumeInv, ReclaimInv, SubmitJob \/ SubmitAnswerLost
    PROVE  ReclaimInv'
  <1>1. /\ rec.pc = "submit"
        /\ UNCHANGED <<vol, volSynced, volCache, storage>>
    BY DEF SubmitJob, SubmitAnswerLost, volVars, caches, nodeVars
  <1>2. PICK j \in FreeJids :
              /\ Publish(j, rec.job)
              /\ \/ rec' = [rec EXCEPT !.pc = "status", !.job = "",
                                       !.v = SetInProgress(rec.v, rec.job, j)]
                 \/ rec' = Idle
    BY DEF SubmitJob, SubmitAnswerLost, Requeue
  <1>3. /\ QueueInv' /\ NodeStorageInv'
        /\ \A v \in {vol, volCache, rec.v} : RemovalInv(v) => RemovalInv(v)'
        /\ rec.job = "UnprepareVolume" =>
              SentRemoval(j)' /\ RunningRemoval(j)' /\ EndedRemoval(j)'
    BY <1>1, <1>2, PublishReclaim
  <1>4. RemovalInv(vol)' /\ RemovalInv(volCache)'
    <2>1. RemovalInv(vol) /\ RemovalInv(volCache)
      BY DEF ReclaimInv, RemovalsInv
    <2> QED
      BY <1>1, <1>3, <2>1 DEF RemovalInv, Same
  <1>5. CASE rec' = Idle
    <2>1. rec'.pc = "idle" /\ rec'.v.uid = 0 /\ ~rec'.vFresh
      BY <1>5, NullSound
    <2>2. FreshInv' /\ ReasonInv' /\ RemovalInv(rec.v)'
      BY <2>1 DEF FreshInv, ReasonInv, RemovalInv, Same
    <2>3. CopiesInv'
      BY <1>1, <2>1 DEF ReclaimInv, CopiesInv, Same
    <2> QED
      BY <1>3, <1>4, <2>2, <2>3 DEF ReclaimInv, RemovalsInv
  <1>6. CASE rec' = [rec EXCEPT !.pc = "status", !.job = "",
                                !.v = SetInProgress(rec.v, rec.job, j)]
    <2>1. PICK w : w = SetInProgress(rec.v, rec.job, j)
      OBVIOUS
    <2>2. /\ rec'.pc = "status" /\ rec'.vFresh = rec.vFresh
          /\ rec'.v = w
      BY <1>6, <2>1, PassFacts DEF Reconciliation
    <2>3. /\ w.uid = rec.v.uid /\ w.job = rec.job /\ w.jid = j
          /\ w.phase = "Pending" => rec.job # "UnprepareVolume"
      BY <2>1, PassFacts, InProgressFields
    <2>4. Retired(rec.v) <=> rec.job = "UnprepareVolume"
      BY <1>1 DEF ReclaimInv, ReasonInv
    <2>5. rec.v.job = "UnprepareVolume" => Retired(rec.v)
      BY PassFacts, RemovalRetired
    <2>6. FreshInv /\ ReasonInv
      BY DEF ReclaimInv
    <2>7. FreshInv' /\ ReasonInv'
      BY <1>1, <2>2, <2>3, <2>4, <2>5, <2>6, RecordReason
    <2>8. CopiesInv'
      BY <1>1, <2>2, <2>3 DEF ReclaimInv, CopiesInv, Same
    <2>9. RemovalInv(rec.v)'
      <3>1. j # DoneMarker
        BY Handles DEF FreeJids
      <3> QED
        BY <1>3, <2>2, <2>3, <3>1 DEF RemovalInv
    <2> QED
      BY <1>3, <1>4, <2>7, <2>8, <2>9 DEF ReclaimInv, RemovalsInv
  <1> QED
    BY <1>2, <1>5, <1>6

-----------------------------------------------------------------------------
(***************************************************************************)
(* The Volume is written.                                                  *)
(***************************************************************************)
\* The node does not change with it: what was said of the incarnation there
\* is remains true.
LEMMA WrittenReclaim ==
    ASSUME TypeOK, ReclaimInv, vol'.uid = vol.uid, vol.fin => vol'.fin,
           UNCHANGED <<volCache, sent, running, jobs, storage>>
    PROVE  /\ QueueInv' /\ NodeStorageInv'
           /\ CacheRetired' = CacheRetired
           /\ \A v : Same(v)' = Same(v) /\ Retired(v)' = Retired(v)
           /\ \A v : RemovalInv(v) => RemovalInv(v)'
  <1>1. QueueInv'
    BY DEF ReclaimInv, QueueInv, DistinctIds, SentKnown, RunningKnown
  <1>2. \A job, i : /\ Sent(job)' = Sent(job) /\ AtNode(job)' = AtNode(job)
                    /\ SentAfter(i, job)' = SentAfter(i, job)
    BY DEF Sent, AtNode, SentAfter
  <1>3. Clean' = Clean /\ CacheRetired' = CacheRetired
    BY <1>2 DEF Clean, CacheRetired, Same
  <1>4. \A v : Same(v)' = Same(v) /\ Retired(v)' = Retired(v)
    BY DEF Same, Retired
  <1>5. NodeStorageInv'
    <2>1. NoneErasesAfter' = NoneErasesAfter
      BY <1>2 DEF NoneErasesAfter, InOrder
    <2>2. NothingErased'
      BY <1>2, <1>3, <2>1 DEF ReclaimInv, NodeStorageInv, NothingErased
    <2>3. OwnStorage' /\ OwnPreparations'
      BY <1>2 DEF ReclaimInv, NodeStorageInv, OwnStorage, OwnPreparations
    <2> QED
      BY <2>2, <2>3 DEF NodeStorageInv
  <1>6. ASSUME NEW v, RemovalInv(v) PROVE RemovalInv(v)'
    <2>1. \A jid : /\ SentRemoval(jid)' = SentRemoval(jid)
                   /\ RunningRemoval(jid)' = RunningRemoval(jid)
                   /\ EndedRemoval(jid)' = EndedRemoval(jid)
      BY <1>2, <1>3 DEF SentRemoval, RunningRemoval, EndedRemoval
    <2> QED
      BY <1>3, <1>4, <1>6, <2>1 DEF RemovalInv
  <1> QED
    BY <1>1, <1>3, <1>4, <1>5, <1>6

\* addVolumeFinalizer: the cache is current.
LEMMA ProtectReclaim ==
    ASSUME TypeOK, VolumeInv, ReclaimInv, AddVolumeFinalizer
    PROVE  ReclaimInv'
  <1>1. /\ rec.pc = "finalizer" /\ rec.vFresh
        /\ UNCHANGED <<volCache, sent, running, jobs, storage>>
        /\ vol' = [vol EXCEPT !.fin = TRUE]
        /\ rec' = [rec EXCEPT !.pc = "submit", !.v.fin = TRUE]
    BY DEF AddVolumeFinalizer, IsCurrent, WriteVolume, caches, saltVars,
           nodeVars
  <1>2. /\ vol'.uid = vol.uid /\ vol'.valid = vol.valid /\ vol'.fin
        /\ vol'.deleted = vol.deleted /\ SameStatus(vol', vol)
    BY <1>1, StateTypes DEF VolumeObject, SameStatus
  <1>3. /\ rec'.pc = "submit" /\ rec'.vFresh = rec.vFresh
        /\ rec'.job = rec.job /\ rec'.v = [rec.v EXCEPT !.fin = TRUE]
    BY <1>1, StateTypes DEF Reconciliation
  <1>4. /\ rec'.v.uid = rec.v.uid /\ rec'.v.deleted = rec.v.deleted
        /\ SameStatus(rec'.v, rec.v)
    BY <1>3, StateTypes DEF VolumeObject, SameStatus
  <1>5. /\ volCache = vol
        /\ SameStatus(rec.v, vol) /\ rec.v.uid = vol.uid
        /\ rec.v.deleted = vol.deleted
    BY <1>1 DEF ReclaimInv, FreshInv, VolumeInv, ObjectsInv, CopyInv,
                SameMetadata
  <1>6. /\ rec.v.uid # 0 /\ ~Retired(rec.v)
        /\ rec.v.job # "UnprepareVolume" /\ rec.job = "PrepareVolume"
    BY <1>1 DEF ReclaimInv, ReasonInv, VolumeInv, PassInv, StepSound
  <1>7. /\ vol'.job # "UnprepareVolume" /\ volCache'.job # "UnprepareVolume"
        /\ rec'.v.job # "UnprepareVolume" /\ ~Retired(rec'.v)
    BY <1>1, <1>2, <1>4, <1>5, <1>6 DEF SameStatus, Retired
  <1>8. CopiesInv'
    <2>1. Retired(volCache)' => Retired(vol)'
      BY <1>1, <1>2, <1>5 DEF SameStatus, Retired
    <2> QED
      BY <1>1, <1>2, <1>4, <1>5, <1>6, <1>7, <2>1 DEF CopiesInv, Same
  <1>9. FreshInv'
    BY <1>2, <1>3, <1>4, <1>5 DEF FreshInv, SameStatus
  <1>10. ReasonInv'
    <2>1. Same(rec.v)'
      BY <1>2, <1>4, <1>5, <1>6 DEF Same
    <2> QED
      BY <1>3, <1>4, <1>6, <1>7, <2>1 DEF ReasonInv
  <1>11. RemovalsInv'
    BY <1>7 DEF RemovalsInv, RemovalInv
  <1> QED
    BY <1>1, <1>2, <1>8, <1>9, <1>10, <1>11, WrittenReclaim DEF ReclaimInv

\* updateVolumeStatus.
LEMMA StatusWrittenReclaim ==
    ASSUME TypeOK, VolumeInv, ReclaimInv, UpdateVolumeStatus
    PROVE  ReclaimInv'
  <1>1. /\ rec.pc = "status" /\ rec.vFresh
        /\ UNCHANGED <<volCache, sent, running, jobs, storage>>
        /\ vol' = [vol EXCEPT
              !.phase = rec.v.phase, !.reason = rec.v.reason,
              !.job = rec.v.job, !.jid = rec.v.jid, !.named = rec.v.named]
    BY DEF UpdateVolumeStatus, IsCurrent, WriteVolume, caches, saltVars,
           nodeVars
  <1>2. /\ vol'.uid = vol.uid /\ vol'.valid = vol.valid
        /\ vol'.deleted = vol.deleted /\ vol'.fin = vol.fin
        /\ vol'.phase = rec.v.phase /\ vol'.reason = rec.v.reason
        /\ vol'.job = rec.v.job /\ vol'.jid = rec.v.jid
    BY <1>1, StateTypes DEF VolumeObject
  <1>3. /\ rec.v.uid = vol.uid
        /\ rec.v.phase = "Pending" => ~Retired(vol)
        /\ vol.job = "UnprepareVolume" => rec.v.job = "UnprepareVolume"
    BY <1>1 DEF ReclaimInv, FreshInv, VolumeInv, CopyInv, SameMetadata
  <1>4. /\ QueueInv' /\ NodeStorageInv'
        /\ CacheRetired' = CacheRetired
        /\ \A v : Same(v)' = Same(v) /\ Retired(v)' = Retired(v)
        /\ \A v : RemovalInv(v) => RemovalInv(v)'
    BY <1>1, <1>2, WrittenReclaim
  <1>5. \/ rec' = Idle
        \/ /\ rec'.pc \in {"pvStatus", "refresh"}
           /\ rec'.v = rec.v /\ rec'.vFresh = rec.vFresh
    <2>1. CASE rec.next = "idle"
      BY <2>1 DEF UpdateVolumeStatus, Requeue
    <2>2. CASE rec.next # "idle"
      <3>1. rec' = [rec EXCEPT !.pc = rec.next, !.next = "idle"]
        BY <2>2 DEF UpdateVolumeStatus
      <3> QED
        BY <2>2, <3>1, StateTypes DEF Reconciliation
    <2> QED
      BY <2>1, <2>2
  <1>6. rec'.v.uid \in {0, rec.v.uid} /\ (rec'.pc # "idle" => rec'.v = rec.v)
        /\ rec'.pc \in {"idle", "pvStatus", "refresh"}
        /\ (rec'.vFresh => rec'.v = rec.v)
    BY <1>5, NullSound
  <1>7. CopiesInv'
    <2>1. Retired(vol) => Retired(vol')
      BY <1>2, <1>3 DEF Retired
    <2> QED
      BY <1>1, <1>2, <1>3, <1>4, <1>6, <2>1
         DEF ReclaimInv, CopiesInv
  <1>8. FreshInv'
    BY <1>2, <1>6 DEF FreshInv, SameStatus
  <1>9. RemovalInv(vol) /\ RemovalInv(volCache) /\ RemovalInv(rec.v)
    BY DEF ReclaimInv, RemovalsInv
  <1>10. ReasonInv'
    <2>1. CASE rec' = Idle
      BY <2>1, NullSound DEF ReasonInv, Same
    <2>2. CASE rec'.pc \in {"pvStatus", "refresh"} /\ rec'.v = rec.v
      <3>1. rec.v.uid # 0
        BY <1>1 DEF ReclaimInv, ReasonInv
      <3>2. Same(rec.v)' => Same(rec.v)
        BY <1>2, <2>2 DEF Same
      <3>3. Same(rec.v) /\ rec.v.job = "UnprepareVolume" => CacheRetired
        BY DEF ReclaimInv, ReasonInv
      <3> QED
        BY <1>4, <2>2, <3>1, <3>2, <3>3 DEF ReasonInv
    <2> QED
      BY <1>5, <2>1, <2>2
  <1>11. RemovalsInv'
    <2>1. RemovalInv(volCache)'
      BY <1>1, <1>4, <1>9 DEF RemovalInv, Same
    <2>2. PICK v : v = rec.v
      OBVIOUS
    <2>3. RemovalInv(v)'
      BY <1>4, <1>9, <2>2
    <2>4. RemovalInv(vol)'
      BY <1>2, <1>3, <2>2, <2>3 DEF RemovalInv, Same
    <2>5. RemovalInv(rec.v)'
      <3>1. CASE rec' = Idle
        BY <3>1, NullSound DEF RemovalInv, Same
      <3>2. CASE rec'.v = rec.v
        BY <2>2, <2>3, <3>2 DEF RemovalInv, Same
      <3> QED
        BY <1>5, <3>1, <3>2
    <2> QED
      BY <2>1, <2>4, <2>5 DEF RemovalsInv
  <1> QED
    BY <1>4, <1>7, <1>8, <1>10, <1>11 DEF ReclaimInv

\* The Volume is gone, and with it its storage.
LEMMA GoneReclaim ==
    ASSUME TypeOK, VolumeInv, ReclaimInv, vol' = NoVolume,
           vol.uid # 0 => Clean,
           volCache.fin /\ volCache.uid = vol.uid =>
               volCache.job = "UnprepareVolume",
           rec'.vFresh = FALSE,
           \/ rec' = Idle
           \/ /\ ~(rec.pc = "submit" /\ rec.job = "PrepareVolume")
              /\ rec'.pc = rec.pc /\ rec'.v = rec.v /\ rec'.job = rec.job,
           UNCHANGED <<volCache, sent, running, jobs, storage>>
    PROVE  ReclaimInv'
  <1>1. vol'.uid = 0 /\ ~vol'.fin
    BY NullSound
  <1>2. \A v : ~Same(v)'
    BY <1>1 DEF Same
  <1>3. CopiesInv'
    BY <1>1, <1>2 DEF ReclaimInv, CopiesInv
  <1>4. FreshInv'
    BY DEF FreshInv
  <1>5. ReasonInv'
    <2>0. ~Same(rec.v)'
      BY <1>1 DEF Same
    <2>1. CASE rec' = Idle
      BY <2>0, <2>1, NullSound DEF ReasonInv
    <2>2. CASE /\ ~(rec.pc = "submit" /\ rec.job = "PrepareVolume")
               /\ rec'.pc = rec.pc /\ rec'.v = rec.v /\ rec'.job = rec.job
      <3>1. Retired(rec.v)' <=> Retired(rec.v)
        BY <2>2 DEF Retired
      <3> QED
        BY <2>0, <2>2, <3>1 DEF ReclaimInv, ReasonInv
    <2> QED
      BY <2>1, <2>2
  <1>6. QueueInv'
    BY DEF ReclaimInv, QueueInv, DistinctIds, SentKnown, RunningKnown
  <1>7. \A u \in Uids : storage[u] = "absent"
    BY Incarnations
       DEF ReclaimInv, NodeStorageInv, OwnStorage, Clean
  <1>8. ~AtNode("PrepareVolume")
    <2>1. CASE vol.uid # 0
      BY <2>1 DEF Clean
    <2>2. CASE vol.uid = 0
      BY <2>2 DEF ReclaimInv, CopiesInv, NodeStorageInv, OwnPreparations
    <2> QED
      BY <2>1, <2>2
  <1>9. ~AtNode("PrepareVolume")'
    BY <1>8 DEF AtNode, Sent
  <1>10. NodeStorageInv'
    <2>1. OwnPreparations'
      BY <1>9 DEF OwnPreparations, AtNode
    <2>2. NothingErased'
      BY <1>1 DEF NothingErased
    <2> QED
      BY <1>7, <2>1, <2>2 DEF NodeStorageInv, OwnStorage
  <1>11. RemovalsInv'
    <2>1. ~Same(vol)' /\ ~Same(volCache)' /\ ~Same(rec.v)'
      BY <1>1 DEF Same
    <2> QED
      BY <2>1 DEF RemovalsInv, RemovalInv
  <1> QED
    BY <1>3, <1>4, <1>5, <1>6, <1>10, <1>11 DEF ReclaimInv

\* removeVolumeFinalizer: the removal that the status records is over.
LEMMA ReleaseReclaim ==
    ASSUME TypeOK, VolumeInv, ReclaimInv, RemoveVolumeFinalizer
    PROVE  ReclaimInv'
  <1>1. /\ rec.pc = "volFinalizer" /\ rec.vFresh /\ rec' = Idle
        /\ vol' = IF vol.deleted THEN NoVolume ELSE [vol EXCEPT !.fin = FALSE]
        /\ UNCHANGED <<volCache, sent, running, jobs, storage>>
    BY DEF RemoveVolumeFinalizer, IsCurrent, WriteVolume, EndReconciliation,
           caches, saltVars, nodeVars
  <1>2. /\ rec.v.uid = vol.uid /\ rec.v.deleted = vol.deleted
        /\ rec.v.deleted
    BY <1>1, PassFacts DEF VolumeInv, CopyInv, SameMetadata
  <1>3. /\ rec.v.job = "UnprepareVolume" /\ rec.v.jid = DoneMarker
        /\ Same(rec.v) => volCache.job = "UnprepareVolume"
        /\ rec.v.uid # 0
    BY <1>1 DEF ReclaimInv, ReasonInv
  <1>4. Same(rec.v)
    BY <1>2, <1>3 DEF Same
  <1>5. Clean
    <2>1. RemovalInv(rec.v)
      BY DEF ReclaimInv, RemovalsInv
    <2> QED
      BY <1>3, <1>4, <2>1 DEF RemovalInv
  <1>6. rec'.vFresh = FALSE
    BY <1>1 DEF Idle
  <1> QED
    BY <1>1, <1>2, <1>3, <1>4, <1>5, <1>6, GoneReclaim

\* A user creates the Volume: nothing is left of those of the same name.
LEMMA CreatedReclaim ==
    ASSUME TypeOK, VolumeInv, ReclaimInv, CreateVolume
    PROVE  ReclaimInv'
  <1>1. /\ vol.uid = 0
        /\ UNCHANGED <<volCache, sent, running, jobs, storage>>
        /\ \E valid \in BOOLEAN :
              /\ vol' = [NoVolume EXCEPT !.uid = lastUid + 1, !.valid = valid]
              /\ rec' = [rec EXCEPT !.vFresh = @ /\ vol' = vol]
    BY DEF CreateVolume, OthersWriteVolume, WriteVolume, caches, saltVars,
           nodeVars
  <1>2. /\ lastUid \in Nat
        /\ volCache.uid <= lastUid /\ rec.v.uid <= lastUid
        /\ volCache.uid \in Nat /\ rec.v.uid \in Nat
    <2>1. lastUid \in Nat
      <3>1. lastUid \in 0 .. MaxUid
        BY DEF TypeOK
      <3> QED
        BY <3>1, BoundsAssumption
    <2>2. volCache.uid \in 0 .. MaxUid /\ rec.v.uid \in 0 .. MaxUid
      BY StateTypes DEF VolumeObject
    <2> QED
      BY <2>1, <2>2, BoundsAssumption DEF VolumeInv, ObjectsInv, CopyInv
  <1>3. vol'.uid = lastUid + 1 /\ ~vol'.fin /\ vol'.job = ""
    BY <1>1 DEF NoVolume
  <1>4. /\ volCache.uid # vol'.uid /\ rec.v.uid # vol'.uid
        /\ vol'.uid # vol.uid /\ vol'.uid # 0
    <2>1. vol.uid = 0 /\ lastUid + 1 # 0
      BY <1>1, <1>2
    <2>2. \A a, b \in Nat : a <= b => a # b + 1
      OBVIOUS
    <2>3. volCache.uid # lastUid + 1 /\ rec.v.uid # lastUid + 1
      BY <1>2, <2>2
    <2> QED
      BY <1>3, <2>1, <2>3
  <1>5. /\ rec'.pc = rec.pc /\ rec'.v = rec.v /\ rec'.job = rec.job
        /\ rec'.vFresh = FALSE
    BY <1>1, <1>4, StateTypes DEF Reconciliation
  <1>6. ~Same(volCache)' /\ ~Same(rec.v)'
    BY <1>1, <1>4, <1>5 DEF Same
  <1>7. ~vol.fin
    BY <1>1 DEF ReclaimInv, CopiesInv
  <1>8. CopiesInv'
    BY <1>1, <1>3, <1>4, <1>6 DEF ReclaimInv, CopiesInv
  <1>9. FreshInv'
    BY <1>5 DEF FreshInv
  <1>10. ReasonInv'
    <2>1. ~(rec.pc = "submit" /\ rec.job = "PrepareVolume")
      BY <1>7, SubmittedPreparation
    <2>2. Retired(rec.v)' <=> Retired(rec.v)
      BY <1>5 DEF Retired
    <2> QED
      BY <1>5, <1>6, <2>1, <2>2 DEF ReclaimInv, ReasonInv
  <1>11. QueueInv'
    BY <1>1 DEF ReclaimInv, QueueInv, DistinctIds, SentKnown, RunningKnown
  <1>12. /\ \A u \in Uids : storage[u] = "absent"
         /\ ~AtNode("PrepareVolume")
    BY <1>7 DEF ReclaimInv, NodeStorageInv, OwnStorage, OwnPreparations
  <1>13. ~AtNode("PrepareVolume")'
    BY <1>1, <1>12 DEF AtNode, Sent
  <1>14. NodeStorageInv'
    <2>1. OwnPreparations'
      BY <1>13 DEF OwnPreparations, AtNode
    <2>2. NoneErasesAfter'
      BY <1>13 DEF NoneErasesAfter, InOrder, AtNode, Sent
    <2>3. vol'.uid \in Uids
      <3>1. lastUid < MaxUid
        BY DEF CreateVolume
      <3>2. lastUid + 1 \in Uids
        BY <1>2, <3>1, BoundsAssumption DEF Uids
      <3> QED
        BY <1>3, <3>2
    <2>4. NothingErased'
      BY <1>1, <1>12, <2>2, <2>3 DEF NothingErased
    <2> QED
      BY <1>1, <1>12, <2>1, <2>4 DEF NodeStorageInv, OwnStorage
  <1>15. RemovalsInv'
    BY <1>3, <1>6 DEF RemovalsInv, RemovalInv
  <1> QED
    BY <1>8, <1>9, <1>10, <1>11, <1>14, <1>15 DEF ReclaimInv

\* A user deletes it: it is only gone at once when it has nothing.
LEMMA DeletedReclaim ==
    ASSUME TypeOK, VolumeInv, ReclaimInv, DeleteVolume
    PROVE  ReclaimInv'
  <1>1. /\ vol.uid # 0 /\ ~vol.deleted
        /\ vol' = IF vol.fin THEN [vol EXCEPT !.deleted = TRUE] ELSE NoVolume
        /\ rec' = [rec EXCEPT !.vFresh = @ /\ vol' = vol]
        /\ UNCHANGED <<volCache, sent, running, jobs, storage>>
    BY DEF DeleteVolume, OthersWriteVolume, WriteVolume, caches, saltVars,
           nodeVars
  <1>2. vol' # vol
    <2>1. CASE vol.fin
      <3>1. vol'.deleted
        BY <1>1, <2>1, StateTypes DEF VolumeObject
      <3> QED
        BY <1>1, <3>1
    <2>2. CASE ~vol.fin
      BY <1>1, <2>2, NullSound
    <2> QED
      BY <2>1, <2>2
  <1>3. /\ rec'.pc = rec.pc /\ rec'.v = rec.v /\ rec'.job = rec.job
        /\ rec'.vFresh = FALSE
    BY <1>1, <1>2, StateTypes DEF Reconciliation
  <1>4. CASE ~vol.fin
    <2>1. ~(rec.pc = "submit" /\ rec.job = "PrepareVolume")
      BY <1>4, SubmittedPreparation
    <2>2. Clean
      BY <1>1, <1>4, Incarnations
         DEF ReclaimInv, NodeStorageInv, OwnStorage, OwnPreparations, Clean
    <2>3. ~(volCache.fin /\ volCache.uid = vol.uid)
      BY <1>1, <1>4 DEF VolumeInv, ObjectsInv
    <2> QED
      BY <1>1, <1>3, <1>4, <2>1, <2>2, <2>3, GoneReclaim
  <1>5. CASE vol.fin
    <2>1. /\ vol'.uid = vol.uid /\ vol'.valid = vol.valid /\ vol'.fin
          /\ vol'.deleted /\ vol'.phase = vol.phase
          /\ vol'.job = vol.job /\ vol'.jid = vol.jid
      BY <1>1, <1>5, StateTypes DEF VolumeObject
    <2>2. /\ QueueInv' /\ NodeStorageInv'
          /\ CacheRetired' = CacheRetired
          /\ \A v : Same(v)' = Same(v) /\ Retired(v)' = Retired(v)
          /\ \A v : RemovalInv(v) => RemovalInv(v)'
      BY <1>1, <2>1, WrittenReclaim
    <2>3. /\ Retired(vol) => Retired(vol)'
          /\ Retired(volCache)' = Retired(volCache)
          /\ Same(volCache)' = Same(volCache)
      BY <1>1, <2>1 DEF Retired, Same
    <2>4. CopiesInv'
      <3>1. rec'.v.uid = rec.v.uid
        BY <1>3
      <3>2. UNCHANGED volCache
        BY <1>1
      <3> QED
        BY <1>1, <1>5, <2>1, <2>3, <3>1, <3>2 DEF ReclaimInv, CopiesInv
    <2>5. FreshInv'
      BY <1>3 DEF FreshInv
    <2>6. ReasonInv'
      <3>1. /\ Same(rec.v)' = Same(rec.v) /\ Retired(rec.v)' = Retired(rec.v)
        BY <1>3, <2>1 DEF Same, Retired
      <3> QED
        BY <1>1, <1>3, <2>1, <2>2, <3>1 DEF ReclaimInv, ReasonInv
    <2>7. RemovalsInv'
      <3>1. RemovalInv(vol) /\ RemovalInv(volCache) /\ RemovalInv(rec.v)
        BY DEF ReclaimInv, RemovalsInv
      <3>2. PICK v : v = vol
        OBVIOUS
      <3>3. PICK c : c = volCache
        OBVIOUS
      <3>4. PICK r : r = rec.v
        OBVIOUS
      <3>5. RemovalInv(v)' /\ RemovalInv(c)' /\ RemovalInv(r)'
        BY <2>2, <3>1, <3>2, <3>3, <3>4
      <3>6. RemovalInv(vol)'
        BY <2>1, <3>2, <3>5 DEF RemovalInv, Same
      <3>7. RemovalInv(volCache)' /\ RemovalInv(rec.v)'
        BY <1>1, <1>3, <3>3, <3>4, <3>5 DEF RemovalInv, Same
      <3> QED
        BY <3>6, <3>7 DEF RemovalsInv
    <2> QED
      BY <2>2, <2>4, <2>5, <2>6, <2>7 DEF ReclaimInv
  <1> QED
    BY <1>4, <1>5

\* The operator learns what the Volume is, or starts afresh.
LEMMA SyncReclaim ==
    ASSUME TypeOK, VolumeInv, ReclaimInv, SyncVolume \/ OperatorRestart
    PROVE  ReclaimInv'
  <1>1. /\ volCache' = vol /\ volSynced' = TRUE
        /\ UNCHANGED <<vol, sent, running, jobs, storage>>
        /\ rec' = rec \/ rec' = Idle
    BY DEF SyncVolume, OperatorRestart, saltVars, nodeVars
  <1>2. CopiesInv'
    BY <1>1, NullSound DEF ReclaimInv, CopiesInv, Same
  <1>3. FreshInv'
    BY <1>1, NullSound DEF ReclaimInv, FreshInv
  <1>4. CacheRetired => CacheRetired'
    BY <1>1 DEF CacheRetired, ReclaimInv, CopiesInv, Same
  <1>5. ReasonInv'
    <2>1. CASE rec' = Idle
      BY <2>1, NullSound DEF ReasonInv, Same
    <2>2. CASE rec' = rec
      <3>1. Same(rec.v)' = Same(rec.v) /\ Retired(rec.v)' = Retired(rec.v)
        BY <1>1, <2>2 DEF Same, Retired
      <3>2. Same(rec.v) /\ rec.v.job = "UnprepareVolume"
                /\ volCache.job = "UnprepareVolume" =>
                    vol.job = "UnprepareVolume"
        BY DEF ReclaimInv, ReasonInv, CopiesInv, CacheRetired
      <3> QED
        BY <1>1, <1>4, <2>2, <3>1, <3>2 DEF ReclaimInv, ReasonInv
    <2> QED
      BY <1>1, <2>1, <2>2
  <1>6. QueueInv'
    BY <1>1 DEF ReclaimInv, QueueInv, DistinctIds, SentKnown, RunningKnown
  <1>7. \A job, i : /\ Sent(job)' = Sent(job) /\ AtNode(job)' = AtNode(job)
                    /\ SentAfter(i, job)' = SentAfter(i, job)
    BY <1>1 DEF Sent, AtNode, SentAfter
  <1>8. NodeStorageInv'
    <2>1. NoneErasesAfter' = NoneErasesAfter
      BY <1>1, <1>7 DEF NoneErasesAfter, InOrder
    <2>2. NothingErased'
      BY <1>1, <1>4, <1>7, <2>1 DEF ReclaimInv, NodeStorageInv, NothingErased
    <2>3. OwnStorage' /\ OwnPreparations'
      BY <1>1, <1>7 DEF ReclaimInv, NodeStorageInv, OwnStorage, OwnPreparations
    <2> QED
      BY <2>2, <2>3 DEF NodeStorageInv
  <1>9. RemovalsInv'
    <2>1. RemovalInv(vol) /\ RemovalInv(rec.v)
      BY DEF ReclaimInv, RemovalsInv
    <2>2. \A jid : /\ SentRemoval(jid)' = SentRemoval(jid)
                   /\ RunningRemoval(jid)' = RunningRemoval(jid)
                   /\ EndedRemoval(jid)' = EndedRemoval(jid)
                   /\ Clean' = Clean
      BY <1>1, <1>7 DEF SentRemoval, RunningRemoval, EndedRemoval, Clean
    <2>3. RemovalInv(vol)' /\ RemovalInv(volCache)'
      BY <1>1, <2>1, <2>2 DEF RemovalInv, Same
    <2>4. RemovalInv(rec.v)'
      BY <1>1, <2>1, <2>2, NullSound DEF RemovalInv, Same
    <2> QED
      BY <2>3, <2>4 DEF RemovalsInv
  <1> QED
    BY <1>2, <1>3, <1>5, <1>6, <1>8, <1>9 DEF ReclaimInv

-----------------------------------------------------------------------------
(***************************************************************************)
(* All together.                                                           *)
(***************************************************************************)
\* Initially there is neither Volume nor job nor storage.
LEMMA InitReclaim == Init => ReclaimInv
  <1> SUFFICES ASSUME Init PROVE ReclaimInv
    OBVIOUS
  <1>1. /\ vol = NoVolume /\ volCache = NoVolume /\ rec = Idle
        /\ sent = <<>> /\ running = NoJob
        /\ storage = [u \in Uids |-> "absent"]
    BY DEF Init
  <1>2. /\ vol.uid = 0 /\ volCache.uid = 0 /\ rec.v.uid = 0
        /\ ~vol.fin /\ ~volCache.fin
        /\ rec.pc = "idle" /\ ~rec.vFresh
    BY <1>1, NullSound
  <1>3. DOMAIN sent = {}
    BY <1>1
  <1>4. running.jid = 0 /\ running.job = ""
    BY <1>1 DEF NoJob
  <1>5. CopiesInv /\ FreshInv /\ ReasonInv /\ RemovalsInv
    <2>1. ~Same(vol) /\ ~Same(volCache) /\ ~Same(rec.v)
      BY <1>2 DEF Same
    <2> QED
      BY <1>2, <2>1
         DEF CopiesInv, FreshInv, ReasonInv, RemovalsInv, RemovalInv
  <1>6. QueueInv
    BY <1>1, <1>3, <1>4 DEF QueueInv, DistinctIds, SentKnown, RunningKnown
  <1>7. NodeStorageInv
    <2>1. OwnStorage
      BY <1>1 DEF OwnStorage
    <2>2. OwnPreparations
      BY <1>3, <1>4 DEF OwnPreparations, AtNode, Sent
    <2>3. NothingErased
      BY <1>2 DEF NothingErased
    <2> QED
      BY <2>1, <2>2, <2>3 DEF NodeStorageInv
  <1> QED
    BY <1>5, <1>6, <1>7 DEF ReclaimInv

\* A step that changes nothing.
LEMMA StutterReclaim ==
    ASSUME TypeOK, ReclaimInv, UNCHANGED vars
    PROVE  ReclaimInv'
  BY SamePassReclaim DEF vars, volVars, caches, saltVars, nodeVars

\* The StorageClass changes: nothing the invariant is about does.
LEMMA ClassReclaim ==
    ASSUME TypeOK, ReclaimInv, ClassChanges
    PROVE  ReclaimInv'
  BY ClassFrame, SamePassReclaim DEF volVars, caches, saltVars

\* Every step keeps the invariant.
LEMMA NextReclaim ==
    TypeOK /\ VolumeInv /\ ReclaimInv /\ [Next]_vars => ReclaimInv'
  <1> SUFFICES ASSUME TypeOK, VolumeInv, ReclaimInv, [Next]_vars
               PROVE  ReclaimInv'
    OBVIOUS
  <1>1. CASE Reconcile
    BY <1>1, ReconcileReclaim
  <1>2. CASE OperatorStep \/ SubmitAnswerLost \/ CallFails
    BY <1>2, StoppedReclaim, ProtectReclaim, StatusWrittenReclaim,
       DeployReclaim, UnprotectReclaim, ReleaseReclaim, SubmitReclaim,
       PollReclaim
       DEF OperatorStep
  <1>3. CASE OperatorRestart \/ SyncVolume
    BY <1>3, SyncReclaim
  <1>4. CASE \/ MinionStep \/ RejectStateJob \/ FailStateJob \/ MinionRestart
             \/ \E j \in Jids : ForgetJob(j)
    BY <1>4, NodeReclaim
  <1>5. CASE CreateVolume
    BY <1>5, CreatedReclaim
  <1>6. CASE DeleteVolume
    BY <1>6, DeletedReclaim
  <1>7. CASE Cluster \/ UserDeletesPv \/ BindPv \/ FailPv \/ SyncPv
    BY <1>7, PvReclaim
  <1>8. CASE UNCHANGED vars
    BY <1>8, StutterReclaim
  <1>9. CASE ClassChanges
    BY <1>9, ClassReclaim
  <1> QED
    BY <1>1, <1>2, <1>3, <1>4, <1>5, <1>6, <1>7, <1>8, <1>9 DEF Next

\* What the storage of a Volume depends on holds in every reachable state,
\* however outdated what the operator reads may be.
THEOREM ReclaimInvariant == Spec => [](TypeOK /\ VolumeInv /\ ReclaimInv)
  <1>1. Init => TypeOK /\ VolumeInv /\ ReclaimInv
    BY InitTypeOK, InitInv, InitReclaim
  <1>2. TypeOK /\ VolumeInv /\ ReclaimInv /\ [Next]_vars
            => (TypeOK /\ VolumeInv /\ ReclaimInv)'
    BY NextType, NextInv, NextReclaim
  <1> QED
    BY <1>1, <1>2, PTL DEF Spec

\* Nothing stays on the node of a Volume that is gone: reclaimStorage only lets
\* go of the finalizer once a removal that comes after every preparation has
\* ended well.
THEOREM StorageReclaimed == Spec => []NoStorageLeak
  <1>1. ReclaimInv => NoStorageLeak
    BY DEF ReclaimInv, NodeStorageInv, OwnStorage, NoStorageLeak
  <1> QED
    BY <1>1, ReclaimInvariant, PTL

\* Only a removal erases storage.
LEMMA ErasedByRemoval ==
    ASSUME TypeOK, [Next]_vars, NEW u \in Uids,
           storage[u] # "absent", storage'[u] = "absent"
    PROVE  running.job = "UnprepareVolume"
  <1>1. storage \in [Uids -> {"absent", "created", "prepared"}]
    BY DEF TypeOK
  <1>2. CASE FinishPrepare
    BY <1>1, <1>2 DEF FinishPrepare, nodeVars
  <1>3. CASE FinishUnprepare
    BY <1>3 DEF FinishUnprepare
  <1>4. CASE FailStateJob
    BY <1>1, <1>4 DEF FailStateJob, Remains
  <1>5. CASE MinionRestart
    BY <1>1, <1>5 DEF MinionRestart, Remains
  <1>6. CASE UNCHANGED storage
    BY <1>6
  <1>7. CASE Reconcile
    BY <1>6, <1>7
       DEF Reconcile, ReconcileNothing, ReconcileInvalid,
           ReconcileNameConflict, PrepareStorage, GetStorageSize,
           CheckHealth, FinalizeDeletePv, FinalizeWait, ReclaimStorage, Read,
           nodeVars
  <1>8. CASE OperatorStep
    BY <1>6, <1>8
       DEF OperatorStep, Conflict, AddVolumeFinalizer, UpdateVolumeStatus,
           UpdatePvStatus, RefreshDeviceName, CreatePersistentVolume,
           DeletePv, RemovePvFinalizer, RemoveVolumeFinalizer, SubmitJob,
           SubmitRefused, PollStillRunning, PollSucceeded, PollFailed,
           PollRetry, nodeVars
  <1>9. CASE SubmitAnswerLost \/ CallFails \/ OperatorRestart
    BY <1>6, <1>9 DEF SubmitAnswerLost, CallFails, OperatorRestart, nodeVars
  <1>10. CASE \/ StartStateJob \/ DeviceInfo \/ RejectStateJob
              \/ \E j \in Jids : ForgetJob(j)
    BY <1>6, <1>10
       DEF StartStateJob, DeviceInfo, RejectStateJob, ForgetJob, nodeVars
  <1>11. CASE \/ CreateVolume \/ DeleteVolume \/ Cluster \/ UserDeletesPv
              \/ BindPv \/ FailPv \/ SyncVolume \/ SyncPv
    BY <1>6, <1>11
       DEF CreateVolume, DeleteVolume, OthersWriteVolume, Cluster, PublishPv,
           ReleasePv, UnprotectPv, CollectPv, UserDeletesPv, BindPv, FailPv,
           OthersWritePv, SyncVolume, SyncPv, nodeVars
  <1>12. CASE UNCHANGED vars
    BY <1>6, <1>12 DEF vars, nodeVars
  <1>13. CASE ClassChanges
    BY <1>6, <1>13, ClassFrame
  <1> QED
    BY <1>2, <1>3, <1>4, <1>5, <1>7, <1>8, <1>9, <1>10, <1>11, <1>12, <1>13
       DEF Next, MinionStep

\* Storage is only erased for the Volume that owns it, once it is marked for
\* deletion: a removal that is spawned twice, or that was forgotten, never
\* starts after a preparation of the next Volume of the same name.
THEOREM NothingErasedUnasked == Spec => ErasedOnRequest
  <1>1. TypeOK /\ VolumeInv /\ ReclaimInv /\ [Next]_vars =>
            [\A u \in Uids :
                storage[u] # "absent" /\ storage'[u] = "absent"
                    => vol.uid = u /\ vol.deleted]_vars
    <2> SUFFICES ASSUME TypeOK, ReclaimInv, [Next]_vars, NEW u \in Uids,
                        storage[u] # "absent", storage'[u] = "absent"
                 PROVE  vol.uid = u /\ vol.deleted
      OBVIOUS
    <2>1. AtNode("UnprepareVolume")
      BY ErasedByRemoval DEF AtNode
    <2>2. vol.uid = u /\ vol.uid # 0
      BY Incarnations DEF ReclaimInv, NodeStorageInv, OwnStorage
    <2>3. CacheRetired
      BY <2>1, <2>2 DEF ReclaimInv, NodeStorageInv, NothingErased
    <2>4. Retired(vol)
      BY <2>3 DEF CacheRetired, ReclaimInv, CopiesInv
    <2> QED
      BY <2>2, <2>4 DEF Retired
  <1> QED
    BY <1>1, ReclaimInvariant, PTL DEF Spec, ErasedOnRequest

-----------------------------------------------------------------------------
(***************************************************************************)
(* The node works.                                                         *)
(***************************************************************************)
\* A job that is dropped from the queue, with whatever answer.
LEMMA DropMoves ==
    ASSUME TypeOK, QueueInv, sent # <<>>, sent' = Tail(sent)
    PROVE  /\ 1 \in DOMAIN sent /\ Head(sent) = sent[1] /\ sent[1].jid \in Jids
           /\ \A job : Sent(job)' => Sent(job)
           /\ \A jid, job :
                 (\A i \in DOMAIN sent : sent[i].jid = jid => sent[i].job = job)
                 => \A i \in DOMAIN sent' :
                        sent'[i].jid = jid => sent'[i].job = job
  <1>1. /\ 1 \in DOMAIN sent /\ Head(sent) = sent[1]
        /\ \A job : Sent(job)' => Sent(job)
    BY PoppedJobs
  <1> QED
    BY <1>1, PoppedQueue

\* What the minion does to a job it was sent: no new job appears, only a
\* removal takes storage that is ready away, and a job that ends well has done
\* what it was asked for.
LEMMA NodeMoves ==
    ASSUME TypeOK, QueueInv,
           \/ MinionStep \/ RejectStateJob \/ FailStateJob \/ MinionRestart
           \/ \E j \in Jids : ForgetJob(j)
    PROVE  /\ \A job \in JobNames : AtNode(job)' => AtNode(job)
           /\ \A u \in Uids :
                 storage[u] = "prepared" /\ storage'[u] # "prepared" =>
                     AtNode("UnprepareVolume")
           /\ \A jid \in Jids : \A job : SentAs(jid, job) => SentAs(jid, job)'
           /\ \A jid \in Jids : jobs'[jid].state = "ok" =>
                 \/ jobs'[jid] = jobs[jid]
                 \/ /\ jobs'[jid].path = pillar /\ pillar \in Uids
                    /\ storage[pillar] = "prepared"
                    /\ \E i \in DOMAIN sent :
                          sent[i].jid = jid /\ sent[i].job = "GetDeviceInfo"
                 \/ /\ running.jid = jid /\ running.job = "PrepareVolume"
                    /\ running.uid \in Uids
                    /\ storage'[running.uid] = "prepared"
                 \/ running.jid = jid /\ running.job = "UnprepareVolume"
  <1>1. /\ DOMAIN jobs = Jids /\ DOMAIN storage = Uids
        /\ running.jid # 0 => running.jid \in Jids
        /\ running.uid \in 0 .. MaxUid
        /\ \A u \in 0 .. MaxUid : u # 0 => u \in Uids
        /\ 0 \notin Jids /\ "" \notin JobNames
    BY NodeTypes, Incarnations, Bounds DEF JobNames, StateJobs
  <1>2. NoJob.jid = 0 /\ NoJob.job = ""
    BY DEF NoJob
  <1>3. pillar \in 0 .. MaxUid
    BY DEF TypeOK
  <1>4. CASE StartStateJob
    <2>1. /\ sent # <<>> /\ sent' = Tail(sent) /\ storage' = storage
          /\ running' = [jid |-> Head(sent).jid, job |-> Head(sent).job,
                         uid |-> vol.uid]
          /\ jobs' = [jobs EXCEPT ![Head(sent).jid] =
                                      [state |-> "running", path |-> 0]]
      BY <1>4 DEF StartStateJob, Return, nodeVars
    <2>2. /\ 1 \in DOMAIN sent /\ Head(sent) = sent[1] /\ sent[1].jid \in Jids
          /\ \A job : Sent(job)' => Sent(job)
          /\ \A jid, job :
                (\A i \in DOMAIN sent : sent[i].jid = jid => sent[i].job = job)
                => \A i \in DOMAIN sent' :
                       sent'[i].jid = jid => sent'[i].job = job
      BY <2>1, DropMoves
    <2>3. running'.jid = sent[1].jid /\ running'.job = sent[1].job
      BY <2>1, <2>2
    <2>4. \A jid \in Jids : jobs'[jid].state = "ok" => jobs'[jid] = jobs[jid]
      BY <1>1, <2>1, <2>2
    <2>5. \A job \in JobNames : AtNode(job)' => AtNode(job)
      BY <2>2, <2>3 DEF AtNode, Sent
    <2>6. \A jid \in Jids : \A job : SentAs(jid, job) => SentAs(jid, job)'
      BY <2>2, <2>3 DEF SentAs
    <2> QED
      BY <2>1, <2>4, <2>5, <2>6
  <1>5. CASE RejectStateJob \/ DeviceInfo
    <2>1. /\ sent # <<>> /\ sent' = Tail(sent) /\ storage' = storage
          /\ running' = running
      BY <1>5 DEF RejectStateJob, DeviceInfo, nodeVars
    <2>2. /\ 1 \in DOMAIN sent /\ Head(sent) = sent[1] /\ sent[1].jid \in Jids
          /\ \A job : Sent(job)' => Sent(job)
          /\ \A jid, job :
                (\A i \in DOMAIN sent : sent[i].jid = jid => sent[i].job = job)
                => \A i \in DOMAIN sent' :
                       sent'[i].jid = jid => sent'[i].job = job
      BY <2>1, DropMoves
    <2>3. PICK answer :
              /\ jobs' = [jobs EXCEPT ![sent[1].jid] = answer]
              /\ answer.state = "ok" =>
                    /\ answer.path = pillar /\ pillar \in Uids
                    /\ storage[pillar] = "prepared"
                    /\ sent[1].job = "GetDeviceInfo"
      <3>1. CASE RejectStateJob
        <4>1. PICK answer : answer = [state |-> "rejected", path |-> 0]
          OBVIOUS
        <4>2. jobs' = [jobs EXCEPT ![sent[1].jid] = answer]
          BY <2>2, <3>1, <4>1 DEF RejectStateJob, Return
        <4>3. answer.state # "ok"
          BY <4>1
        <4> QED
          BY <4>2, <4>3
      <3>2. CASE DeviceInfo
        <4>1. PICK answer :
                  /\ jobs' = [jobs EXCEPT ![Head(sent).jid] = answer]
                  /\ \/ /\ answer.state = "ok" /\ answer.path = pillar
                        /\ pillar # 0 /\ storage[pillar] = "prepared"
                     \/ answer.state = "failed"
          BY <3>2 DEF DeviceInfo, Return
        <4>2. Head(sent).job = "GetDeviceInfo"
          BY <3>2 DEF DeviceInfo
        <4> QED
          BY <1>1, <1>3, <2>2, <4>1, <4>2
      <3> QED
        BY <1>5, <3>1, <3>2
    <2>4. \A jid \in Jids : jobs'[jid].state = "ok" =>
                 \/ jobs'[jid] = jobs[jid]
                 \/ /\ jobs'[jid].path = pillar /\ pillar \in Uids
                    /\ storage[pillar] = "prepared"
                    /\ \E i \in DOMAIN sent :
                          sent[i].jid = jid /\ sent[i].job = "GetDeviceInfo"
      <3>1. \A jid \in Jids : jid # sent[1].jid => jobs'[jid] = jobs[jid]
        BY <1>1, <2>3
      <3>2. jobs'[sent[1].jid] = answer
        BY <1>1, <2>2, <2>3
      <3> QED
        BY <2>2, <2>3, <3>1, <3>2
    <2>5. \A job \in JobNames : AtNode(job)' => AtNode(job)
      BY <2>1, <2>2 DEF AtNode
    <2>6. \A jid \in Jids : \A job : SentAs(jid, job) => SentAs(jid, job)'
      <3>1. running' = running
        BY <2>1
      <3> QED
        BY <2>2, <3>1 DEF SentAs
    <2> QED
      BY <2>1, <2>4, <2>5, <2>6
  <1>6. CASE FinishPrepare \/ FinishUnprepare \/ FailStateJob
    <2>1. running' = NoJob /\ sent' = sent /\ running.jid # 0
      <3>1. running.jid = 0 => running.job = ""
        BY <1>2 DEF QueueInv, RunningKnown
      <3> QED
        BY <1>6, <3>1 DEF FinishPrepare, FinishUnprepare, FailStateJob
    <2>2. \A job \in JobNames : AtNode(job)' => AtNode(job)
      BY <1>1, <1>2, <2>1 DEF AtNode, Sent
    <2>3. \A jid \in Jids : \A job : SentAs(jid, job) => SentAs(jid, job)'
      BY <1>1, <1>2, <2>1 DEF SentAs
    <2>4. /\ \A u \in Uids :
                storage[u] = "prepared" /\ storage'[u] # "prepared" =>
                    running.job = "UnprepareVolume"
          /\ \A jid \in Jids : jobs'[jid].state = "ok" =>
                 \/ jobs'[jid] = jobs[jid]
                 \/ /\ running.jid = jid /\ running.job = "PrepareVolume"
                    /\ running.uid \in Uids
                    /\ storage'[running.uid] = "prepared"
                 \/ running.jid = jid /\ running.job = "UnprepareVolume"
      <3>1. CASE FinishPrepare
        <4>1. /\ running.job = "PrepareVolume"
              /\ \/ /\ running.uid # 0
                    /\ storage' = [storage EXCEPT ![running.uid] = "prepared"]
                 \/ /\ jobs' = [jobs EXCEPT ![running.jid] =
                                   [state |-> "failed", path |-> 0]]
                    /\ \/ storage' = storage
                       \/ /\ storage' = [storage EXCEPT
                                             ![running.uid] = "created"]
                          /\ storage[running.uid] # "prepared"
          BY <3>1 DEF FinishPrepare, Return, Preparable
        <4>2. \A u \in Uids : storage[u] = "prepared" =>
                                 storage'[u] = "prepared"
          BY <1>1, <4>1
        <4>3. \A jid \in Jids : running.jid # jid => jobs'[jid] = jobs[jid]
          BY <1>1, <3>1 DEF FinishPrepare, Return
        <4>4. jobs'[running.jid].state = "ok" =>
                  /\ running.uid \in Uids
                  /\ storage'[running.uid] = "prepared"
          <5>1. running.jid \in Jids
            BY <1>1, <2>1
          <5>2. CASE /\ running.uid # 0
                     /\ storage' = [storage EXCEPT ![running.uid] = "prepared"]
            <6>1. running.uid \in Uids
              BY <1>1, <5>2
            <6> QED
              BY <1>1, <5>2, <6>1
          <5>3. CASE jobs' = [jobs EXCEPT ![running.jid] =
                                 [state |-> "failed", path |-> 0]]
            <6>1. jobs'[running.jid].state = "failed"
              BY <1>1, <5>1, <5>3
            <6> QED
              BY <6>1
          <5> QED
            BY <4>1, <5>2, <5>3
        <4> QED
          BY <4>1, <4>2, <4>3, <4>4
      <3>2. CASE FinishUnprepare
        BY <1>1, <2>1, <3>2 DEF FinishUnprepare, Return
      <3>3. CASE FailStateJob
        BY <1>1, <2>1, <3>3 DEF FailStateJob, Return, FailureReturn, Remains
      <3> QED
        BY <1>6, <3>1, <3>2, <3>3
    <2>5. \A u \in Uids :
              storage[u] = "prepared" /\ storage'[u] # "prepared" =>
                  AtNode("UnprepareVolume")
      BY <2>4 DEF AtNode
    <2> QED
      BY <2>2, <2>3, <2>4, <2>5
  <1>7. CASE MinionRestart
    <2>1. running' = NoJob /\ sent' = <<>>
      BY <1>7 DEF MinionRestart
    <2>2. DOMAIN sent' = {}
      BY <2>1
    <2>3. \A job \in JobNames : AtNode(job)' => AtNode(job)
      BY <1>1, <1>2, <2>1, <2>2 DEF AtNode, Sent
    <2>4. \A jid \in Jids : \A job : SentAs(jid, job)'
      BY <1>1, <1>2, <2>1, <2>2 DEF SentAs
    <2>5. \A jid \in Jids : jobs'[jid].state = "ok" => jobs'[jid] = jobs[jid]
      BY <1>7 DEF MinionRestart
    <2>6. \A u \in Uids :
              storage[u] = "prepared" /\ storage'[u] # "prepared" =>
                  AtNode("UnprepareVolume")
      <3>1. \A u \in Uids :
                storage[u] = "prepared" /\ storage'[u] # "prepared" =>
                    running.job = "UnprepareVolume"
        BY <1>1, <1>7 DEF MinionRestart, Remains
      <3> QED
        BY <3>1 DEF AtNode
    <2> QED
      BY <2>3, <2>4, <2>5, <2>6
  <1>8. CASE \E j \in Jids : ForgetJob(j)
    <2>1. sent' = sent /\ running' = running /\ storage' = storage
      BY <1>8 DEF ForgetJob, nodeVars
    <2>2. \A jid \in Jids : jobs'[jid].state = "ok" => jobs'[jid] = jobs[jid]
      <3>1. PICK j \in Jids : jobs' = [jobs EXCEPT ![j] =
                                          [state |-> "unknown", path |-> 0]]
        BY <1>8 DEF ForgetJob, Return
      <3> QED
        BY <1>1, <3>1
    <2>3. \A job \in JobNames : AtNode(job)' => AtNode(job)
      BY <2>1 DEF AtNode, Sent
    <2>4. \A jid \in Jids : \A job : SentAs(jid, job) => SentAs(jid, job)'
      BY <2>1 DEF SentAs
    <2> QED
      BY <2>1, <2>2, <2>3, <2>4
  <1> QED
    BY <1>4, <1>5, <1>6, <1>7, <1>8 DEF MinionStep

\* The progress that is recorded remains made.
LEMMA NodeProgress ==
    ASSUME TypeOK, ReclaimInv,
           \/ MinionStep \/ RejectStateJob \/ FailStateJob \/ MinionRestart
           \/ \E j \in Jids : ForgetJob(j),
           UNCHANGED <<vol, volCache, pv, devices>>,
           NEW v, ProgressInv(v)
    PROVE  ProgressInv(v)'
  <1> SUFFICES ASSUME Same(v)
               PROVE  /\ Healthy(v) => pv.uid = v.uid
                      /\ v.job = "GetDeviceInfo" /\ v.jid = DoneMarker =>
                            devices \in {0, v.uid}
                      /\ v.jid \in Jids => SentAs(v.jid, v.job)'
                      /\ v.job = "GetDeviceInfo" /\ v.jid \in Jids =>
                            DeviceInfoRight(v.jid, v.uid)'
                      /\ Prepared(v)' /\ ~CacheRetired =>
                            storage'[v.uid] = "prepared"
    <2>1. CacheRetired' = CacheRetired /\ Same(v)' = Same(v)
      BY DEF CacheRetired, Same
    <2>2. Healthy(v)' = Healthy(v)
      BY DEF Healthy
    <2> QED
      BY <2>1, <2>2 DEF ProgressInv
  <1>1. /\ Healthy(v) => pv.uid = v.uid
        /\ v.job = "GetDeviceInfo" /\ v.jid = DoneMarker =>
              devices \in {0, v.uid}
        /\ v.jid \in Jids => SentAs(v.jid, v.job)
        /\ v.job = "GetDeviceInfo" /\ v.jid \in Jids =>
              DeviceInfoRight(v.jid, v.uid)
        /\ Prepared(v) /\ ~CacheRetired => storage[v.uid] = "prepared"
    BY DEF ProgressInv
  <1>2. /\ v.uid = vol.uid /\ vol.uid # 0 /\ vol.uid \in Uids
    BY Incarnations DEF Same
  <1>3. QueueInv /\ OwnStorage /\ OwnPreparations /\ NothingErased
    BY DEF ReclaimInv, NodeStorageInv
  <1>4. /\ \A u \in Uids :
              storage[u] = "prepared" /\ storage'[u] # "prepared" =>
                  AtNode("UnprepareVolume")
        /\ \A jid \in Jids : \A job : SentAs(jid, job) => SentAs(jid, job)'
        /\ \A jid \in Jids : jobs'[jid].state = "ok" =>
              \/ jobs'[jid] = jobs[jid]
              \/ /\ jobs'[jid].path = pillar /\ pillar \in Uids
                 /\ storage[pillar] = "prepared"
                 /\ \E i \in DOMAIN sent :
                       sent[i].jid = jid /\ sent[i].job = "GetDeviceInfo"
              \/ /\ running.jid = jid /\ running.job = "PrepareVolume"
                 /\ running.uid \in Uids
                 /\ storage'[running.uid] = "prepared"
              \/ running.jid = jid /\ running.job = "UnprepareVolume"
    BY <1>3, NodeMoves
  <1>5. v.jid \in Jids => SentAs(v.jid, v.job)'
    BY <1>1, <1>4
  <1>6. ASSUME v.job = "GetDeviceInfo", v.jid \in Jids,
               jobs'[v.jid].state = "ok"
        PROVE  jobs'[v.jid].path = v.uid
    <2>1. running.jid = v.jid => running.job = "GetDeviceInfo"
      BY <1>1, <1>6 DEF SentAs
    <2>2. CASE jobs'[v.jid] = jobs[v.jid]
      BY <1>1, <1>6, <2>2 DEF DeviceInfoRight
    <2>3. CASE /\ jobs'[v.jid].path = pillar /\ pillar \in Uids
               /\ storage[pillar] = "prepared"
      BY <1>2, <1>3, <2>3 DEF OwnStorage
    <2> QED
      BY <1>4, <1>6, <2>1, <2>2, <2>3
  <1>7. ASSUME ~CacheRetired, storage[v.uid] = "prepared"
        PROVE  storage'[v.uid] = "prepared"
    BY <1>2, <1>3, <1>4, <1>7 DEF NothingErased
  <1>8. ASSUME ~CacheRetired, ~Prepared(v), Prepared(v)'
        PROVE  storage'[v.uid] = "prepared"
    <2>1. /\ v.job = "PrepareVolume" /\ v.jid \in Jids
          /\ jobs'[v.jid].state = "ok" /\ jobs[v.jid].state # "ok"
      BY <1>8 DEF Prepared
    <2>2. SentAs(v.jid, "PrepareVolume")
      BY <1>1, <2>1
    <2>3. /\ running.jid = v.jid /\ running.job = "PrepareVolume"
          /\ storage'[running.uid] = "prepared"
      <3>1. jobs'[v.jid] # jobs[v.jid]
        BY <2>1
      <3>2. \A i \in DOMAIN sent :
                sent[i].jid = v.jid => sent[i].job # "GetDeviceInfo"
        BY <2>2 DEF SentAs
      <3>3. running.jid = v.jid => running.job # "UnprepareVolume"
        BY <2>2 DEF SentAs
      <3> QED
        BY <1>4, <2>1, <3>1, <3>2, <3>3
    <2> QED
      BY <1>2, <1>3, <2>3 DEF OwnPreparations
  <1> QED
    BY <1>1, <1>5, <1>6, <1>7, <1>8 DEF DeviceInfoRight

\* Neither objects nor copies change.
LEMMA NodeServing ==
    ASSUME TypeOK, ReclaimInv, ServingInv,
           \/ MinionStep \/ RejectStateJob \/ FailStateJob \/ MinionRestart
           \/ \E j \in Jids : ForgetJob(j)
    PROVE  ServingInv'
  <1>1. UNCHANGED <<vol, volSynced, volCache, pv, pvSynced, pvCache, rec,
                    devices>>
    BY DEF MinionStep, StartStateJob, DeviceInfo, FinishPrepare,
           FinishUnprepare, RejectStateJob, FailStateJob, MinionRestart,
           ForgetJob, volVars, pvVars, caches
  <1>2. PvInv'
    <2>1. QueueInv
      BY DEF ReclaimInv
    <2>2. /\ AtNode("UnprepareVolume")' => AtNode("UnprepareVolume")
          /\ \A u \in Uids :
                storage[u] = "prepared" /\ storage'[u] # "prepared" =>
                    AtNode("UnprepareVolume")
      <3>1. "UnprepareVolume" \in JobNames
        BY Names
      <3> QED
        BY <2>1, <3>1, NodeMoves
    <2>3. PvOwned /\ PvBacked
      BY DEF ServingInv, PvInv
    <2>4. ~Withdrawn => pv.uid \in Uids
      BY <2>3, Incarnations DEF PvOwned, Withdrawn
    <2>5. Withdrawn' = Withdrawn
      BY <1>1 DEF Withdrawn
    <2>6. PvBacked'
      BY <1>1, <2>2, <2>3, <2>4, <2>5 DEF PvBacked
    <2>7. PvOwned'
      BY <1>1, <2>3 DEF PvOwned
    <2> QED
      BY <1>1, <2>6, <2>7 DEF PvInv, ServingInv
  <1>3. ProgressesInv'
    <2>1. \A v \in {vol, volCache, rec.v} : FailureRecorded(v) /\ ProgressInv(v)
      BY DEF ServingInv, ProgressesInv
    <2>2. PICK v : v = vol
      OBVIOUS
    <2>3. PICK c : c = volCache
      OBVIOUS
    <2>4. PICK r : r = rec.v
      OBVIOUS
    <2>5. /\ FailureRecorded(v) /\ FailureRecorded(c) /\ FailureRecorded(r)
          /\ ProgressInv(v) /\ ProgressInv(c) /\ ProgressInv(r)
      BY <2>1, <2>2, <2>3, <2>4
    <2>6. ProgressInv(v)' /\ ProgressInv(c)' /\ ProgressInv(r)'
      BY <1>1, <2>5, NodeProgress
    <2>7. v = vol' /\ c = volCache' /\ r = rec'.v
      BY <1>1, <2>2, <2>3, <2>4
    <2> QED
      BY <2>5, <2>6, <2>7 DEF ProgressesInv
  <1>4. CreatingInv'
    BY <1>1 DEF ServingInv, CreatingInv, Creating, Same
  <1>5. UnusedInv' /\ RefreshReason'
    BY <1>1 DEF ServingInv, UnusedInv, RefreshReason, Withdrawn
  <1>6. PhaseInv'
    BY <1>1 DEF ServingInv, PhaseInv, NextPhases
  <1> QED
    BY <1>2, <1>3, <1>4, <1>5, <1>6 DEF ServingInv

-----------------------------------------------------------------------------
(***************************************************************************)
(* The PersistentVolume moves.                                             *)
(***************************************************************************)
\* Our finalizer keeps a PersistentVolume there is, and what is known of its
\* withdrawal stays true.
LEMMA PvMoves ==
    ASSUME TypeOK, PvInv, VolumeInv,
           \/ Cluster \/ UserDeletesPv \/ BindPv \/ FailPv
           \/ UpdatePvStatus \/ DeletePv
    PROVE  /\ pv'.uid = pv.uid /\ pv'.path = pv.path
           /\ pv'.fin = pv.fin
           /\ Withdrawn => Withdrawn'
           /\ pv.uid # 0 /\ pv.deleted => pv'.deleted
           /\ pv.uid # 0 /\ ~pv.inUse => ~pv'.inUse
           /\ pvSynced' => pvSynced /\ pv' = pv
  <1>1. pv \in PvObject
    BY DEF TypeOK
  <1>2. pv.uid # 0 => pv.fin /\ vol.uid = pv.uid
    BY DEF PvInv, PvOwned
  <1>3. CASE PublishPv
    BY <1>1, <1>3 DEF PublishPv, OthersWritePv, WritePv, PvObject, Withdrawn
  <1>4. CASE ReleasePv
    BY <1>1, <1>4 DEF ReleasePv, OthersWritePv, WritePv, PvObject, Withdrawn
  <1>5. CASE UnprotectPv
    <2>1. PICK p \in PvObject : p = [pv EXCEPT !.inUse = FALSE]
      BY <1>1 DEF PvObject
    <2>2. /\ p.uid = pv.uid /\ p.path = pv.path /\ p.fin = pv.fin /\ ~p.inUse
          /\ p.deleted = pv.deleted /\ p.phase = pv.phase
      BY <1>1, <2>1 DEF PvObject
    <2>3. /\ pv.uid # 0 /\ pv' = Collected(p)
          /\ pvSynced' = (pvSynced /\ pv' = pv)
      BY <1>5, <2>1 DEF UnprotectPv, OthersWritePv, WritePv
    <2>4. pv' = p
      BY <1>2, <2>2, <2>3 DEF Collected
    <2> QED
      BY <2>2, <2>3, <2>4 DEF Withdrawn
  <1>6. CASE CollectPv
    BY <1>2, <1>6 DEF CollectPv
  <1>7. CASE UserDeletesPv
    BY <1>1, <1>7 DEF UserDeletesPv, OthersWritePv, WritePv, PvObject,
                      Withdrawn
  <1>8. CASE BindPv
    BY <1>1, <1>8 DEF BindPv, OthersWritePv, WritePv, PvObject, Withdrawn
  <1>9. CASE FailPv
    BY <1>1, <1>9 DEF FailPv, WritePv, PvObject, Withdrawn
  <1>10. CASE UpdatePvStatus
    BY <1>1, <1>10 DEF UpdatePvStatus, WritePv, PvObject, Withdrawn
  <1>11. CASE DeletePv
    <2>1. CASE pv.uid = 0
      <3>1. pv' = pv /\ pvSynced' = (pvSynced /\ pv' = pv)
        BY <1>11, <2>1 DEF DeletePv, WritePv
      <3> QED
        BY <3>1 DEF Withdrawn
    <2>2. CASE pv.uid # 0
      <3>1. PICK p \in PvObject : p = [pv EXCEPT !.deleted = TRUE]
        BY <1>1 DEF PvObject
      <3>2. /\ p.uid = pv.uid /\ p.path = pv.path /\ p.fin = pv.fin
            /\ p.inUse = pv.inUse
            /\ p.deleted /\ p.phase = pv.phase
        BY <1>1, <3>1 DEF PvObject
      <3>3. pv' = Collected(p) /\ pvSynced' = (pvSynced /\ pv' = pv)
        BY <1>11, <2>2, <3>1 DEF DeletePv, WritePv
      <3>4. pv' = p
        BY <1>2, <2>2, <3>2, <3>3 DEF Collected
      <3> QED
        BY <3>2, <3>3, <3>4 DEF Withdrawn
    <2> QED
      BY <2>1, <2>2
  <1> QED
    BY <1>3, <1>4, <1>5, <1>6, <1>7, <1>8, <1>9, <1>10, <1>11 DEF Cluster

\* The progress that is recorded remains made when nothing but objects and
\* copies change, the incarnation there is stays, and so does what it is for
\* a healthy Volume.
LEMMA ProgressKept ==
    ASSUME NEW v, ProgressInv(v), Same(v)' => Same(v),
           Same(v) => (CacheRetired => CacheRetired'),
           Same(v) /\ Healthy(v) => pv'.uid \in {pv.uid, v.uid},
           Same(v) /\ v.job = "GetDeviceInfo" => devices' \in {0, devices, v.uid},
           UNCHANGED <<sent, running, jobs, storage>>
    PROVE  ProgressInv(v)'
  <1>1. Healthy(v)' = Healthy(v) /\ Prepared(v)' = Prepared(v)
    BY DEF Healthy, Prepared
  <1>2. \A jid, job : SentAs(jid, job)' = SentAs(jid, job)
    BY DEF SentAs
  <1>3. \A jid, uid : DeviceInfoRight(jid, uid)' = DeviceInfoRight(jid, uid)
    BY DEF DeviceInfoRight
  <1> QED
    BY <1>1, <1>2, <1>3 DEF ProgressInv

\* The copies that are not of the pass under way.
LEMMA ObjectsProgress ==
    ASSUME ProgressesInv, UNCHANGED <<vol, volCache>>,
           \A v \in {vol, volCache} :
               Same(v) /\ Healthy(v) => pv'.uid \in {pv.uid, v.uid},
           \A v \in {vol, volCache} :
               Same(v) /\ v.job = "GetDeviceInfo"
                   => devices' \in {0, devices, v.uid},
           UNCHANGED <<sent, running, jobs, storage>>
    PROVE  /\ FailureRecorded(vol)' /\ ProgressInv(vol)'
           /\ FailureRecorded(volCache)' /\ ProgressInv(volCache)'
  <1>1. \A v \in {vol, volCache} : FailureRecorded(v) /\ ProgressInv(v)
    BY DEF ProgressesInv
  <1>2. CacheRetired' = CacheRetired
    BY DEF CacheRetired, Same
  <1>3. PICK v : v = vol
    OBVIOUS
  <1>4. PICK c : c = volCache
    OBVIOUS
  <1>5. Same(v)' = Same(v) /\ Same(c)' = Same(c)
    BY DEF Same
  <1>6. ProgressInv(v)' /\ ProgressInv(c)'
    BY <1>1, <1>2, <1>3, <1>4, <1>5, ProgressKept
  <1>7. FailureRecorded(v) /\ FailureRecorded(c)
    BY <1>1, <1>3, <1>4
  <1>8. v = vol' /\ c = volCache'
    BY <1>3, <1>4
  <1> QED
    BY <1>6, <1>7, <1>8

\* The pass under way, if its copy of the Volume is kept.
LEMMA PassProgress ==
    ASSUME ProgressesInv, rec'.v = rec.v, UNCHANGED <<vol, volCache>>,
           Same(rec.v) /\ Healthy(rec.v) => pv'.uid \in {pv.uid, rec.v.uid},
           Same(rec.v) /\ rec.v.job = "GetDeviceInfo"
               => devices' \in {0, devices, rec.v.uid},
           UNCHANGED <<sent, running, jobs, storage>>
    PROVE  FailureRecorded(rec.v)' /\ ProgressInv(rec.v)'
  <1>1. CacheRetired' = CacheRetired
    BY DEF CacheRetired, Same
  <1>2. PICK r : r = rec.v
    OBVIOUS
  <1>3. FailureRecorded(r) /\ ProgressInv(r)
    BY <1>2 DEF ProgressesInv
  <1>4. Same(r)' = Same(r)
    BY DEF Same
  <1>5. ProgressInv(r)'
    BY <1>1, <1>2, <1>3, <1>4, ProgressKept
  <1>6. r = rec'.v
    BY <1>2
  <1> QED
    BY <1>3, <1>5, <1>6

\* There is no progress to speak of when no pass is under way.
LEMMA IdleProgress ==
    ASSUME rec' = Idle
    PROVE  FailureRecorded(rec.v)' /\ ProgressInv(rec.v)'
  <1>1. rec'.v = NoVolume /\ rec'.v.uid = 0
    BY NullSound
  <1>2. rec'.v.phase # "Failed"
    <2>1. NoVolume.phase = ""
      BY DEF NoVolume
    <2> QED
      BY <1>1, <2>1
  <1>3. ~Same(rec.v)'
    BY <1>1 DEF Same
  <1>4. ProgressInv(rec.v)'
    BY <1>3 DEF ProgressInv
  <1>5. FailureRecorded(rec.v)'
    BY <1>2 DEF FailureRecorded
  <1> QED
    BY <1>4, <1>5

\* Nor is there anything to say of it.
LEMMA IdlePassServing ==
    ASSUME rec' = Idle
    PROVE  /\ rec'.pc = "idle" /\ ~rec'.vFresh
           /\ UnusedInv' /\ RefreshReason' /\ PhaseInv'
  <1>1. rec'.pc = "idle" /\ ~rec'.vFresh /\ rec'.next # "refresh"
    BY NullSound
  <1> QED
    BY <1>1 DEF UnusedInv, RefreshReason, PhaseInv

\* The PersistentVolume keeps serving, or stays withdrawn.
LEMMA PvKept ==
    ASSUME ServingInv, UNCHANGED <<vol, sent, running, storage>>,
           pv'.uid = pv.uid, pv'.path = pv.path, pv'.fin = pv.fin,
           Withdrawn => Withdrawn', pvSynced' => pvCache' = pv'
    PROVE  PvInv'
  <1>1. AtNode("UnprepareVolume")' = AtNode("UnprepareVolume")
    BY DEF AtNode, Sent
  <1>2. PvOwned /\ PvBacked
    BY DEF ServingInv, PvInv
  <1>3. PvOwned'
    BY <1>2 DEF PvOwned
  <1>4. PvBacked'
    BY <1>1, <1>2 DEF PvBacked
  <1> QED
    BY <1>3, <1>4 DEF PvInv

\* Only the PersistentVolume moves, and the pass goes on or ends.
LEMMA MovedServing ==
    ASSUME ServingInv,
           UNCHANGED <<vol, volSynced, volCache, devices, sent, running, jobs,
                       storage>>,
           pv'.uid = pv.uid, pv'.path = pv.path, pv'.fin = pv.fin,
           Withdrawn => Withdrawn', pvSynced' => pvCache' = pv',
           pv.uid # 0 /\ pv.deleted => pv'.deleted,
           pv.uid # 0 /\ ~pv.inUse => ~pv'.inUse,
           \/ rec' = Idle
           \/ /\ rec'.pc = rec.pc /\ rec'.v = rec.v /\ rec'.vFresh = rec.vFresh
              /\ rec'.job = rec.job /\ rec'.next = rec.next
    PROVE  ServingInv'
  <1>1. PvInv'
    BY PvKept
  <1>2. ProgressesInv /\ CreatingInv /\ UnusedInv /\ RefreshReason /\ PhaseInv
    BY DEF ServingInv
  <1>3. /\ FailureRecorded(vol)' /\ ProgressInv(vol)'
        /\ FailureRecorded(volCache)' /\ ProgressInv(volCache)'
    <2>1. /\ \A v \in {vol, volCache} :
                Same(v) /\ Healthy(v) => pv'.uid \in {pv.uid, v.uid}
          /\ \A v \in {vol, volCache} :
                Same(v) /\ v.job = "GetDeviceInfo"
                    => devices' \in {0, devices, v.uid}
      OBVIOUS
    <2> QED
      BY <1>2, <2>1, ObjectsProgress
  <1>4. Creating(volCache)' = Creating(volCache)
    BY DEF Creating, Same
  <1>5. CASE rec' = Idle
    <2>1. FailureRecorded(rec.v)' /\ ProgressInv(rec.v)'
      BY <1>5, IdleProgress
    <2>2. ProgressesInv'
      BY <1>3, <2>1 DEF ProgressesInv
    <2>3. /\ rec'.pc = "idle"
          /\ UnusedInv' /\ RefreshReason' /\ PhaseInv'
      BY <1>5, IdlePassServing
    <2>4. CreatingInv'
      BY <1>2, <1>4, <2>3 DEF CreatingInv
    <2> QED
      BY <1>1, <2>2, <2>3, <2>4 DEF ServingInv
  <1>6. CASE /\ rec'.pc = rec.pc /\ rec'.v = rec.v /\ rec'.vFresh = rec.vFresh
             /\ rec'.job = rec.job /\ rec'.next = rec.next
    <2>1. FailureRecorded(rec.v)' /\ ProgressInv(rec.v)'
      <3>1. devices' \in {0, devices, rec.v.uid}
        OBVIOUS
      <3> QED
        BY <1>2, <1>6, <3>1, PassProgress
    <2>2. ProgressesInv'
      BY <1>3, <2>1 DEF ProgressesInv
    <2>3. UnusedInv'
      BY <1>2, <1>6 DEF UnusedInv
    <2>4. RefreshReason'
      BY <1>2, <1>6 DEF RefreshReason
    <2>5. PhaseInv'
      BY <1>2, <1>6 DEF PhaseInv, NextPhases
    <2>6. CreatingInv'
      <3>1. Creating(rec.v)' = Creating(rec.v)
        BY <1>6 DEF Creating, Same
      <3> QED
        BY <1>2, <1>4, <1>6, <3>1 DEF CreatingInv
    <2> QED
      BY <1>1, <2>2, <2>3, <2>4, <2>5, <2>6 DEF ServingInv
  <1> QED
    BY <1>5, <1>6

\* Users, Kubernetes and the pass under way move the PersistentVolume.
LEMMA PvServing ==
    ASSUME TypeOK, VolumeInv, ServingInv,
           \/ Cluster \/ UserDeletesPv \/ BindPv \/ FailPv
           \/ UpdatePvStatus \/ DeletePv
    PROVE  ServingInv'
  <1>1. /\ UNCHANGED <<vol, volSynced, volCache, pvCache, devices, sent,
                       running, jobs, storage>>
        /\ \/ rec' = Idle
           \/ /\ rec'.pc = rec.pc /\ rec'.v = rec.v /\ rec'.vFresh = rec.vFresh
              /\ rec'.job = rec.job /\ rec'.next = rec.next
    <2>1. UNCHANGED <<vol, volSynced, volCache, pvCache, devices, sent,
                      running, jobs, storage>>
      BY DEF Cluster, PublishPv, ReleasePv, UnprotectPv, CollectPv,
             UserDeletesPv, BindPv, FailPv, UpdatePvStatus, DeletePv,
             OthersWritePv, volVars, caches, saltVars, nodeVars
    <2>2. \/ rec' = Idle
          \/ \E b : rec' = [rec EXCEPT !.pFresh = b]
      BY DEF Cluster, PublishPv, ReleasePv, UnprotectPv, CollectPv,
             UserDeletesPv, BindPv, FailPv, UpdatePvStatus, DeletePv,
             OthersWritePv, Requeue
    <2>3. ASSUME NEW b, rec' = [rec EXCEPT !.pFresh = b]
          PROVE  /\ rec'.pc = rec.pc /\ rec'.v = rec.v
                 /\ rec'.vFresh = rec.vFresh
                 /\ rec'.job = rec.job /\ rec'.next = rec.next
      BY <2>3, StateTypes DEF Reconciliation
    <2> QED
      BY <2>1, <2>2, <2>3
  <1>2. PvInv
    BY DEF ServingInv
  <1>3. /\ pv'.uid = pv.uid /\ pv'.path = pv.path
        /\ pv'.fin = pv.fin
        /\ Withdrawn => Withdrawn'
        /\ pv.uid # 0 /\ pv.deleted => pv'.deleted
        /\ pv.uid # 0 /\ ~pv.inUse => ~pv'.inUse
        /\ pvSynced' => pvSynced /\ pv' = pv
    BY <1>2, PvMoves
  <1>4. pvSynced' => pvCache' = pv'
    BY <1>1, <1>2, <1>3 DEF PvInv
  <1> QED
    BY <1>1, <1>3, <1>4, MovedServing

\* The operator learns what the PersistentVolume is.
LEMMA SyncPvServing ==
    ASSUME ServingInv, SyncPv
    PROVE  ServingInv'
  <1>1. /\ UNCHANGED <<vol, volSynced, volCache, devices, sent, running, jobs,
                       storage, pv, rec>>
        /\ pvCache' = pv'
    BY DEF SyncPv, volVars, saltVars, nodeVars
  <1>2. Withdrawn => Withdrawn'
    BY <1>1 DEF Withdrawn
  <1> QED
    BY <1>1, <1>2, MovedServing

\* Nothing changes, and the pass goes on or ends.
LEMMA SameServing ==
    ASSUME ServingInv,
           UNCHANGED <<vol, volSynced, volCache, pv, pvSynced, pvCache,
                       devices, sent, running, jobs, storage>>,
           rec' = rec \/ rec' = Idle
    PROVE  ServingInv'
  <1>1. Withdrawn => Withdrawn'
    BY DEF Withdrawn
  <1>2. pvSynced' => pvCache' = pv'
    BY DEF ServingInv, PvInv
  <1> QED
    BY <1>1, <1>2, MovedServing

\* A pass ends without a write.
LEMMA StoppedServing ==
    ASSUME ServingInv,
           Conflict \/ SubmitRefused \/ PollStillRunning \/ CallFails
    PROVE  ServingInv'
  <1>1. /\ UNCHANGED <<vol, volSynced, volCache, pv, pvSynced, pvCache,
                       devices, sent, running, jobs, storage>>
        /\ rec' = Idle
    BY DEF Conflict, SubmitRefused, PollStillRunning, CallFails, Requeue,
           volVars, pvVars, caches, saltVars, nodeVars
  <1> QED
    BY <1>1, SameServing

-----------------------------------------------------------------------------
(***************************************************************************)
(* What a pass decides from PersistentVolumes that are current.            *)
(***************************************************************************)
\* Only the pass under way changes.
LEMMA PassServing ==
    ASSUME ServingInv,
           UNCHANGED <<vol, volSynced, volCache, pv, pvSynced, pvCache,
                       devices, sent, running, jobs, storage>>,
           FailureRecorded(rec.v)', ProgressInv(rec.v)',
           UnusedInv', RefreshReason', PhaseInv',
           rec'.pc = "create" => /\ Creating(rec.v)'
                                 /\ vol.phase = "Pending" \/ pv.uid # 0,
           rec'.pc = "submit" /\ rec'.job = "GetDeviceInfo" =>
               \/ rec'.v.job = "GetDeviceInfo"
               \/ rec'.v.job = "PrepareVolume" /\ rec'.v.jid = DoneMarker
    PROVE  ServingInv'
  <1>1. PvInv'
    <2>1. Withdrawn => Withdrawn'
      BY DEF Withdrawn
    <2>2. pvSynced' => pvCache' = pv'
      BY DEF ServingInv, PvInv
    <2> QED
      BY <2>1, <2>2, PvKept
  <1>2. ProgressesInv /\ CreatingInv
    BY DEF ServingInv
  <1>3. ProgressesInv'
    <2>1. /\ \A v \in {vol, volCache} :
                Same(v) /\ Healthy(v) => pv'.uid \in {pv.uid, v.uid}
          /\ \A v \in {vol, volCache} :
                Same(v) /\ v.job = "GetDeviceInfo"
                    => devices' \in {0, devices, v.uid}
      OBVIOUS
    <2>2. /\ FailureRecorded(vol)' /\ ProgressInv(vol)'
          /\ FailureRecorded(volCache)' /\ ProgressInv(volCache)'
      BY <1>2, <2>1, ObjectsProgress
    <2> QED
      BY <2>2 DEF ProgressesInv
  <1>4. CreatingInv'
    <2>1. Creating(volCache)' = Creating(volCache)
      BY DEF Creating, Same
    <2> QED
      BY <1>2, <2>1 DEF CreatingInv
  <1> QED
    BY <1>1, <1>3, <1>4 DEF ServingInv

\* What was recorded of a status that is as good as the one recorded before.
LEMMA ProgressOf ==
    ASSUME NEW v, NEW w, ProgressInv(v), w.uid = v.uid, w.job = v.job,
           w.jid = v.jid, Same(w) /\ Healthy(w) => pv.uid = w.uid
    PROVE  ProgressInv(w)
  <1>1. Same(w) = Same(v) /\ Prepared(w) = Prepared(v)
    BY DEF Same, Prepared
  <1> QED
    BY <1>1 DEF ProgressInv

\* Nothing was.
LEMMA NoProgress ==
    ASSUME NEW w, w.job = "", w.jid \notin Jids,
           Same(w) /\ Healthy(w) => pv.uid = w.uid
    PROVE  ProgressInv(w)
  BY DEF ProgressInv, Prepared

\* The copy of the pass is `w`, of which all is known.
LEMMA CopyProgress ==
    ASSUME NEW w, rec'.v = w, FailureRecorded(w), ProgressInv(w),
           UNCHANGED <<vol, volCache, pv, devices, sent, running, jobs, storage>>
    PROVE  FailureRecorded(rec.v)' /\ ProgressInv(rec.v)'
  <1>1. CacheRetired' = CacheRetired /\ Same(w)' = Same(w)
    BY DEF CacheRetired, Same
  <1>2. ProgressInv(w)'
    BY <1>1, ProgressKept
  <1> QED
    BY <1>2

\* The pass that starts.
LEMMA StartedFields ==
    ASSUME NEW pc, NEW v, NEW p, NEW job, NEW next,
           rec' = At(pc, v, p, job, next)
    PROVE  /\ rec'.pc = pc /\ rec'.v = v /\ rec'.vFresh = volSynced
           /\ rec'.job = job /\ rec'.next = next
  BY AtFields

\* A pass starts with what the cache says.
LEMMA StartedServing ==
    ASSUME TypeOK, VolumeInv, ServingInv,
           NEW pc, NEW p, NEW job, NEW next,
           rec' = At(pc, volCache, p, job, next), next # "refresh",
           UNCHANGED <<vol, volSynced, volCache, pv, pvSynced, pvCache,
                       devices, sent, running, jobs, storage>>,
           pc \notin {"status", "refresh"},
           pc = "submit" /\ job = "UnprepareVolume" => Withdrawn,
           pc = "pvFinalizer" => pv.uid = 0 \/ (pv.deleted /\ ~pv.inUse),
           pc = "volFinalizer" => pv.uid = 0,
           pc = "create" => Creating(volCache),
           pc = "submit" /\ job = "GetDeviceInfo" =>
               \/ volCache.job = "GetDeviceInfo"
               \/ volCache.job = "PrepareVolume" /\ volCache.jid = DoneMarker,
           volSynced /\ (pc = "finalizer" \/ (pc = "submit" /\ job # "UnprepareVolume"))
               => volCache.phase \in {"", "Pending"},
           volSynced /\ pc = "create" => volCache.phase = "Pending",
           volSynced /\ pc = "poll" => volCache.phase \in {"Pending", "Terminating"}
    PROVE  ServingInv'
  <1>1. /\ rec'.pc = pc /\ rec'.v = volCache /\ rec'.vFresh = volSynced
        /\ rec'.job = job /\ rec'.next = next
    BY StartedFields
  <1>2. volSynced => volCache = vol
    BY DEF VolumeInv, ObjectsInv
  <1>3. ProgressesInv /\ CreatingInv
    BY DEF ServingInv
  <1>4. FailureRecorded(rec.v)' /\ ProgressInv(rec.v)'
    <2>1. PICK w : w = volCache
      OBVIOUS
    <2>2. FailureRecorded(w) /\ ProgressInv(w)
      BY <1>3, <2>1 DEF ProgressesInv
    <2> QED
      BY <1>1, <2>1, <2>2, CopyProgress
  <1>5. UnusedInv'
    BY <1>1 DEF UnusedInv, Withdrawn
  <1>6. RefreshReason'
    BY <1>1 DEF RefreshReason
  <1>7. PhaseInv'
    BY <1>1, <1>2 DEF PhaseInv
  <1>8. pc = "create" => Creating(rec.v)'
    BY <1>1 DEF Creating, Same
  <1>9. pc = "create" => vol.phase = "Pending" \/ pv.uid # 0
    BY <1>3 DEF CreatingInv
  <1> QED
    BY <1>1, <1>4, <1>5, <1>6, <1>7, <1>8, <1>9, PassServing

\* A pass starts by writing a status.
LEMMA WritingServing ==
    ASSUME TypeOK, VolumeInv, ServingInv,
           NEW w, NEW pc, NEW p, NEW job, NEW next,
           rec' = At(pc, w, p, job, next), pc = "status",
           UNCHANGED <<vol, volSynced, volCache, pv, pvSynced, pvCache,
                       devices, sent, running, jobs, storage>>,
           FailureRecorded(w), ProgressInv(w),
           next = "refresh" => w.phase = "Available",
           volSynced => w.phase \in {vol.phase} \cup NextPhases(vol),
           w.phase = "Failed" => w.reason # "CreationError"
    PROVE  ServingInv'
  <1>1. /\ rec'.pc = "status" /\ rec'.v = w /\ rec'.vFresh = volSynced
        /\ rec'.next = next
    BY StartedFields
  <1>2. FailureRecorded(rec.v)' /\ ProgressInv(rec.v)'
    BY <1>1, CopyProgress
  <1>3. UnusedInv'
    BY <1>1 DEF UnusedInv
  <1>4. RefreshReason'
    BY <1>1 DEF RefreshReason
  <1>5. PhaseInv'
    <2>1. NextPhases(vol)' = NextPhases(vol)
      BY DEF NextPhases
    <2> QED
      BY <1>1, <2>1 DEF PhaseInv
  <1> QED
    BY <1>1, <1>2, <1>3, <1>4, <1>5, PassServing

\* The PersistentVolume a pass reads is the one there is.
LEMMA PvIsCurrent ==
    ASSUME ServingInv, Lookup, "PersistentVolume" \notin CacheMayLag
    PROVE  pvCache = pv
  BY DEF Lookup, ServingInv, PvInv

\* A Volume that a pass deploys from a current copy is new or Pending.
LEMMA DeployedPhase ==
    ASSUME TypeOK, VolumeInv, ServingInv, Lookup, ~NothingToDo(volCache),
           Deploying, "PersistentVolume" \notin CacheMayLag, volSynced,
           volCache.job # "UnprepareVolume"
    PROVE  volCache.phase \in {"", "Pending"}
  <1>1. pvCache = pv /\ pv.uid = 0
    BY PvIsCurrent DEF Deploying
  <1>2. volCache = vol
    BY DEF VolumeInv, ObjectsInv
  <1>3. volCache.uid # 0
    BY DEF NothingToDo
  <1>4. Same(volCache)
    BY <1>2, <1>3 DEF Same
  <1>5. ~Healthy(volCache)
    BY <1>1, <1>3, <1>4 DEF ServingInv, ProgressesInv, ProgressInv
  <1>6. volCache.phase \in Phases
    BY CacheSound DEF VolumeObject
  <1>7. volCache.phase # "Terminating"
    BY CacheSound DEF StatusConsistent
  <1>8. volCache.phase = "Failed" => volCache.reason = "UnavailableError"
    BY DEF NothingToDo, Deploying, IsInUnrecoverableFailedState
  <1> QED
    BY <1>5, <1>6, <1>7, <1>8 DEF Healthy, Phases

\* A pass on an invalid Volume.
LEMMA InvalidServing ==
    ASSUME TypeOK, VolumeInv, ServingInv, ReconcileInvalid
    PROVE  ServingInv'
  <1>1. PICK w, pc, p, next, reason :
              /\ rec' = At(pc, w, p, "", next) /\ pc = "status"
              /\ next = "idle" /\ w = SetFailed(volCache, reason)
              /\ reason = "InternalError"
    BY DEF ReconcileInvalid
  <1>2. /\ UNCHANGED <<vol, volSynced, volCache, pv, pvSynced, pvCache,
                       devices, sent, running, jobs, storage>>
        /\ ~volCache.valid
    BY DEF ReconcileInvalid, Read, volVars, pvVars, caches, saltVars, nodeVars
  <1>3. /\ w.uid = volCache.uid /\ w.job = volCache.job
        /\ w.jid = volCache.jid /\ w.phase = "Failed"
        /\ w.reason = "InternalError"
    <2>1. volCache \in VolumeObject /\ w = SetFailed(volCache, reason)
      BY <1>1, CacheSound
    <2>2. /\ w.uid = volCache.uid /\ w.job = volCache.job
          /\ w.jid = volCache.jid /\ w.phase = "Failed" /\ w.reason = reason
      BY <2>1, FailedFields
    <2> QED
      BY <1>1, <2>2
  <1>4. w.valid = volCache.valid
    BY <1>1, CacheSound, SettersKeepMetadata DEF SameMetadata
  <1>5. FailureRecorded(w)
    BY <1>2, <1>3, <1>4 DEF FailureRecorded
  <1>6. ProgressInv(w)
    <2>1. w.job = "" /\ w.jid = NoId
      BY <1>2, <1>3, CacheSound
    <2>2. ~Healthy(w)
      BY <1>3 DEF Healthy
    <2> QED
      BY <2>1, <2>2, Handles, NoProgress
  <1>7. "Failed" \in {vol.phase} \cup NextPhases(vol)
    BY StateTypes DEF NextPhases, VolumeObject, Phases
  <1>8. /\ w.phase \in {vol.phase} \cup NextPhases(vol)
        /\ next # "refresh" /\ w.reason # "CreationError"
    BY <1>1, <1>3, <1>7
  <1> QED
    BY <1>1, <1>2, <1>5, <1>6, <1>8, WritingServing

\* A pass on a Volume whose PersistentVolume exists.
LEMMA HealthServing ==
    ASSUME TypeOK, VolumeInv, ServingInv, CheckHealth,
           "PersistentVolume" \notin CacheMayLag
    PROVE  ServingInv'
  <1>1. /\ UNCHANGED <<vol, volSynced, volCache, pv, pvSynced, pvCache,
                       devices, sent, running, jobs, storage>>
        /\ Lookup /\ ~NothingToDo(volCache)
        /\ volCache.valid /\ ~Finalizing(volCache)
        /\ pvCache.uid = volCache.uid
    BY DEF CheckHealth, Read, volVars, pvVars, caches, saltVars, nodeVars
  <1>2. pv.uid = volCache.uid /\ volCache.uid # 0
    BY <1>1, PvIsCurrent DEF NothingToDo
  <1>3. volSynced => volCache = vol
    BY DEF VolumeInv, ObjectsInv
  <1>4. ProgressInv(volCache)
    BY DEF ServingInv, ProgressesInv
  <1>5. CASE rec' = At("status", SetFailed(volCache, "UnavailableError"),
                       NoPv, "", "idle")
    <2>1. PICK w, pc, p, next, reason :
                /\ rec' = At(pc, w, p, "", next) /\ pc = "status"
                /\ next = "idle" /\ w = SetFailed(volCache, reason)
                /\ reason = "UnavailableError"
      BY <1>5
    <2>2. /\ w.uid = volCache.uid /\ w.job = volCache.job
          /\ w.jid = volCache.jid /\ w.phase = "Failed"
          /\ w.reason = "UnavailableError"
      <3>1. volCache \in VolumeObject /\ w = SetFailed(volCache, reason)
        BY <2>1, CacheSound
      <3>2. /\ w.uid = volCache.uid /\ w.job = volCache.job
            /\ w.jid = volCache.jid /\ w.phase = "Failed" /\ w.reason = reason
        BY <3>1, FailedFields
      <3> QED
        BY <2>1, <3>2
    <2>3. FailureRecorded(w)
      BY <2>2 DEF FailureRecorded
    <2>4. ProgressInv(w)
      <3>1. Same(w) /\ Healthy(w) => pv.uid = w.uid
        BY <1>2, <2>2
      <3>2. PICK v : v = volCache
        OBVIOUS
      <3> QED
        BY <1>4, <2>2, <3>1, <3>2, ProgressOf
    <2>5. "Failed" \in {vol.phase} \cup NextPhases(vol)
      BY StateTypes DEF NextPhases, VolumeObject, Phases
    <2>6. /\ w.phase \in {vol.phase} \cup NextPhases(vol)
          /\ next # "refresh" /\ w.reason # "CreationError"
      BY <2>1, <2>2, <2>5
    <2> QED
      BY <1>1, <2>1, <2>3, <2>4, <2>6, WritingServing
  <1>6. CASE rec' = At("status", SetAvailable(volCache), NoPv, "", "refresh")
    <2>1. PICK w, pc, p, next :
                /\ rec' = At(pc, w, p, "", next) /\ pc = "status"
                /\ next = "refresh" /\ w = SetAvailable(volCache)
      BY <1>6
    <2>2. /\ w.uid = volCache.uid /\ w.job = "" /\ w.jid = NoId
          /\ w.phase = "Available"
      BY <2>1, CacheSound DEF SetAvailable, VolumeObject
    <2>3. FailureRecorded(w)
      BY <2>2 DEF FailureRecorded
    <2>4. ProgressInv(w)
      BY <1>2, <2>2, Handles, NoProgress
    <2>5. volSynced => "Available" \in {vol.phase} \cup NextPhases(vol)
      <3> SUFFICES ASSUME volSynced
                   PROVE  "Available" \in {vol.phase} \cup NextPhases(vol)
        OBVIOUS
      <3>1. vol.phase # ""
        BY <1>2 DEF ServingInv, PvInv, PvOwned
      <3>2. vol.phase # "Terminating"
        BY <1>1, <1>3, CacheSound DEF StatusConsistent, Finalizing
      <3>3. vol.phase = "Failed" => vol.reason = "UnavailableError"
        BY <1>1, <1>3 DEF NothingToDo, IsInUnrecoverableFailedState
      <3>4. vol.phase \in Phases
        BY StateTypes DEF VolumeObject
      <3> QED
        BY <3>1, <3>2, <3>3, <3>4 DEF Phases, NextPhases
    <2>6. /\ volSynced => w.phase \in {vol.phase} \cup NextPhases(vol)
          /\ w.phase # "Failed"
      BY <2>2, <2>5
    <2> QED
      BY <1>1, <2>1, <2>2, <2>3, <2>4, <2>6, WritingServing
  <1> QED
    BY <1>5, <1>6 DEF CheckHealth

\* A pass deploys the Volume.
LEMMA DeployServing ==
    ASSUME TypeOK, VolumeInv, ReclaimInv, ServingInv,
           PrepareStorage \/ GetStorageSize,
           "PersistentVolume" \notin CacheMayLag
    PROVE  ServingInv'
  <1>1. /\ UNCHANGED <<vol, volSynced, volCache, pv, pvSynced, pvCache,
                       devices, sent, running, jobs, storage>>
        /\ Lookup /\ ~NothingToDo(volCache) /\ Deploying
        /\ volCache.job \in {"", "PrepareVolume", "GetDeviceInfo"}
    BY DEF PrepareStorage, GetStorageSize, Read, volVars, pvVars, caches,
           saltVars, nodeVars
  <1>2. volSynced => volCache.phase \in {"", "Pending"}
    BY <1>1, DeployedPhase
  <1>3. volCache.jid # NoId => volCache.job # "" /\ volCache.phase # ""
    BY CacheSound
  <1>4. CASE rec' = At("finalizer", volCache, NoPv, "PrepareVolume", "idle")
    <2>1. PICK pc, p, job, next :
                /\ rec' = At(pc, volCache, p, job, next)
                /\ pc = "finalizer" /\ next = "idle"
      BY <1>4
    <2>2. /\ pc \notin {"status", "refresh", "pvFinalizer", "volFinalizer",
                         "submit", "create", "poll"}
          /\ next # "refresh"
      BY <2>1
    <2> QED
      BY <1>1, <1>2, <2>1, <2>2, StartedServing
  <1>5. CASE /\ rec' = At("submit", volCache, NoPv, "GetDeviceInfo", "idle")
             /\ \/ volCache.job = "GetDeviceInfo"
                \/ /\ volCache.job \in {"", "PrepareVolume"}
                   /\ volCache.jid = DoneMarker
    <2>1. PICK pc, p, job, next :
                /\ rec' = At(pc, volCache, p, job, next)
                /\ pc = "submit" /\ job = "GetDeviceInfo" /\ next = "idle"
      BY <1>5
    <2>2. /\ pc \notin {"status", "refresh", "pvFinalizer", "volFinalizer",
                         "create", "poll"}
          /\ next # "refresh" /\ job # "UnprepareVolume"
      BY <2>1
    <2>3. \/ volCache.job = "GetDeviceInfo"
          \/ volCache.job = "PrepareVolume" /\ volCache.jid = DoneMarker
      BY <1>3, <1>5, Handles
    <2> QED
      BY <1>1, <1>2, <2>1, <2>2, <2>3, StartedServing
  <1>6. CASE /\ rec' = At("poll", volCache, NoPv, "", "idle")
             /\ volCache.jid \in Jids
    <2>1. PICK pc, p, job, next :
                /\ rec' = At(pc, volCache, p, job, next)
                /\ pc = "poll" /\ next = "idle"
      BY <1>6
    <2>2. /\ pc \notin {"status", "refresh", "pvFinalizer", "volFinalizer",
                         "create", "submit", "finalizer"}
          /\ next # "refresh"
      BY <2>1
    <2>3. volSynced => volCache.phase \in {"Pending", "Terminating"}
      BY <1>2, <1>3, <1>6, Handles
    <2> QED
      BY <1>1, <2>1, <2>2, <2>3, StartedServing
  <1>7. CASE /\ rec' = At("create", volCache, NoPv, "", "idle")
             /\ volCache.job = "GetDeviceInfo" /\ volCache.jid = DoneMarker
    <2>1. PICK pc, p, job, next :
                /\ rec' = At(pc, volCache, p, job, next)
                /\ pc = "create" /\ next = "idle"
      BY <1>7
    <2>2. /\ pc \notin {"status", "refresh", "pvFinalizer", "volFinalizer",
                         "poll", "submit", "finalizer"}
          /\ next # "refresh"
      BY <2>1
    <2>3. volCache.fin /\ volCache.phase # ""
      BY <1>1, <1>3, <1>7, Handles, CacheSound DEF Deploying
    <2>4. Same(volCache)
      BY <1>7, <2>3 DEF ReclaimInv, CopiesInv, Same
    <2>5. Creating(volCache)
      BY <1>1, <1>7, <2>4 DEF Deploying, Finalizing, Retired, Creating
    <2>6. volSynced => volCache.phase = "Pending"
      BY <1>2, <2>3
    <2> QED
      BY <1>1, <2>1, <2>2, <2>5, <2>6, StartedServing
  <1> QED
    BY <1>4, <1>5, <1>6, <1>7 DEF PrepareStorage, GetStorageSize

\* A pass finalizes the Volume.
LEMMA FinalizeServing ==
    ASSUME TypeOK, VolumeInv, ServingInv,
           FinalizeDeletePv \/ ReclaimStorage,
           "PersistentVolume" \notin CacheMayLag
    PROVE  ServingInv'
  <1>1. /\ UNCHANGED <<vol, volSynced, volCache, pv, pvSynced, pvCache,
                       devices, sent, running, jobs, storage>>
        /\ Lookup /\ Finalizing(volCache)
    BY DEF FinalizeDeletePv, ReclaimStorage, Read, volVars, pvVars, caches,
           saltVars, nodeVars
  <1>2. pvCache = pv
    BY <1>1, PvIsCurrent
  <1>3. CASE FinalizeDeletePv
    <2>1. PICK pc, p, job, next :
                /\ rec' = At(pc, volCache, p, job, next) /\ next = "idle"
                /\ pc = "deletePv"
      BY <1>3 DEF FinalizeDeletePv
    <2>2. pc \notin {"status", "refresh", "pvFinalizer", "volFinalizer",
                     "submit", "create", "finalizer", "poll"}
          /\ next # "refresh"
      BY <2>1
    <2> QED
      BY <1>1, <2>1, <2>2, StartedServing
  <1>4. CASE ReclaimStorage
    <2>1. \/ pv.uid = 0
          \/ pv.deleted /\ ~pv.inUse /\ pv.phase # "Bound"
      BY <1>2, <1>4 DEF ReclaimStorage, IsPersistentVolumeUnused
    <2>2. Withdrawn /\ (pv.uid = 0 \/ (pv.deleted /\ ~pv.inUse))
      BY <2>1 DEF Withdrawn
    <2>3. CASE rec' = At("submit", volCache, NoPv, "UnprepareVolume", "idle")
      <3>1. PICK pc, p, job, next :
                  /\ rec' = At(pc, volCache, p, job, next)
                  /\ pc = "submit" /\ job = "UnprepareVolume" /\ next = "idle"
        BY <2>3
      <3>2. /\ pc \notin {"status", "refresh", "pvFinalizer", "volFinalizer",
                           "create", "poll", "finalizer"}
            /\ next # "refresh" /\ job # "GetDeviceInfo"
            /\ ~(job # "UnprepareVolume")
        BY <3>1
      <3> QED
        BY <1>1, <2>2, <3>1, <3>2, StartedServing
    <2>4. CASE rec' = At(FirstFinalizer(pvCache), volCache, pvCache, "", "idle")
      <3>1. PICK pc, p, job, next :
                  /\ rec' = At(pc, volCache, p, job, next)
                  /\ pc = FirstFinalizer(pvCache) /\ next = "idle"
        BY <2>4
      <3>2. /\ pc \notin {"status", "refresh", "submit", "create", "poll",
                           "finalizer"}
            /\ next # "refresh"
            /\ pc = "volFinalizer" => pv.uid = 0
        BY <1>2, <3>1 DEF FirstFinalizer
      <3> QED
        BY <1>1, <2>2, <3>1, <3>2, StartedServing
    <2>5. CASE /\ rec' = At("poll", volCache, pvCache, "", "idle")
               /\ volCache.phase # "Failed" /\ volCache.jid \in Jids
      <3>1. PICK pc, p, job, next :
                  /\ rec' = At(pc, volCache, p, job, next)
                  /\ pc = "poll" /\ next = "idle"
        BY <2>5
      <3>2. /\ pc \notin {"status", "refresh", "pvFinalizer", "volFinalizer",
                           "create", "submit", "finalizer"}
            /\ next # "refresh"
        BY <3>1
      <3>3. volCache.phase \in {"Pending", "Terminating"}
        <4>1. volCache.phase \in Phases
          BY CacheSound DEF VolumeObject
        <4>2. volCache.phase \in {"", "Available"} => volCache.job = ""
          BY CacheSound DEF StatusConsistent
        <4>3. volCache.job # ""
          BY <2>5, CacheSound, Handles
        <4> QED
          BY <2>5, <4>1, <4>2, <4>3 DEF Phases
      <3> QED
        BY <1>1, <3>1, <3>2, <3>3, StartedServing
    <2> QED
      BY <1>4, <2>3, <2>4, <2>5 DEF ReclaimStorage
  <1> QED
    BY <1>3, <1>4

\* A pass starts, unless there is nothing to do.
LEMMA ReconcileServing ==
    ASSUME TypeOK, VolumeInv, ReclaimInv, ServingInv, Reconcile,
           "PersistentVolume" \notin CacheMayLag
    PROVE  ServingInv'
  <1>1. CASE ReconcileNothing \/ ReconcileNameConflict \/ FinalizeWait
    <2>1. /\ UNCHANGED <<vol, volSynced, volCache, pv, pvSynced, pvCache,
                         devices, sent, running, jobs, storage>>
          /\ rec' = rec \/ rec' = Idle
      BY <1>1 DEF ReconcileNothing, ReconcileNameConflict, FinalizeWait,
                  Requeue, volVars, pvVars, caches, saltVars, nodeVars
    <2> QED
      BY <2>1, SameServing
  <1>2. CASE ReconcileInvalid
    BY <1>2, InvalidServing
  <1>3. CASE PrepareStorage \/ GetStorageSize
    BY <1>3, DeployServing
  <1>4. CASE CheckHealth
    BY <1>4, HealthServing
  <1>5. CASE FinalizeDeletePv \/ ReclaimStorage
    BY <1>5, FinalizeServing
  <1> QED
    BY <1>1, <1>2, <1>3, <1>4, <1>5 DEF Reconcile

-----------------------------------------------------------------------------
(***************************************************************************)
(* A pass is about to record where it has got to.                          *)
(***************************************************************************)
LEMMA RecordServing ==
    ASSUME ServingInv, PvInv', ProgressesInv',
           UNCHANGED <<vol, volSynced, volCache>>,
           pv.uid # 0 => pv'.uid # 0,
           rec'.pc = "status",
           rec'.next = "refresh" => rec'.v.phase = "Available",
           rec'.vFresh => rec'.v.phase \in {vol.phase} \cup NextPhases(vol),
           rec'.vFresh /\ rec'.v.phase = "Failed"
               /\ rec'.v.reason = "CreationError" =>
               volSynced /\ vol.jid \in Jids
    PROVE  ServingInv'
  <1>1. UnusedInv'
    BY DEF UnusedInv
  <1>2. RefreshReason'
    BY DEF RefreshReason
  <1>3. PhaseInv'
    <2>1. NextPhases(vol)' = NextPhases(vol)
      BY DEF NextPhases
    <2> QED
      BY <2>1 DEF PhaseInv
  <1>4. CreatingInv'
    <2>1. Creating(volCache)' = Creating(volCache)
      BY DEF Creating, Same
    <2> QED
      BY <2>1 DEF ServingInv, CreatingInv
  <1> QED
    BY <1>1, <1>2, <1>3, <1>4 DEF ServingInv

\* Nothing but the copy of the pass, `w`, is recorded.
LEMMA NotedServing ==
    ASSUME ServingInv, NEW w, rec'.v = w, FailureRecorded(w), ProgressInv(w),
           UNCHANGED <<vol, volSynced, volCache, pv, pvSynced, pvCache,
                       devices, sent, running, jobs, storage>>,
           rec'.pc = "status",
           rec'.next = "refresh" => w.phase = "Available",
           rec'.vFresh => w.phase \in {vol.phase} \cup NextPhases(vol),
           rec'.vFresh /\ w.phase = "Failed" /\ w.reason = "CreationError" =>
               volSynced /\ vol.jid \in Jids
    PROVE  ServingInv'
  <1>1. PvInv'
    <2>1. Withdrawn => Withdrawn'
      BY DEF Withdrawn
    <2>2. pvSynced' => pvCache' = pv'
      BY DEF ServingInv, PvInv
    <2> QED
      BY <2>1, <2>2, PvKept
  <1>2. ProgressesInv'
    <2>1. ProgressesInv
      BY DEF ServingInv
    <2>2. /\ \A v \in {vol, volCache} :
                Same(v) /\ Healthy(v) => pv'.uid \in {pv.uid, v.uid}
          /\ \A v \in {vol, volCache} :
                Same(v) /\ v.job = "GetDeviceInfo"
                    => devices' \in {0, devices, v.uid}
      OBVIOUS
    <2>3. /\ FailureRecorded(vol)' /\ ProgressInv(vol)'
          /\ FailureRecorded(volCache)' /\ ProgressInv(volCache)'
      BY <2>1, <2>2, ObjectsProgress
    <2>4. FailureRecorded(rec.v)' /\ ProgressInv(rec.v)'
      BY CopyProgress
    <2> QED
      BY <2>3, <2>4 DEF ProgressesInv
  <1> QED
    BY <1>1, <1>2, RecordServing

\* What a pass knows while it polls a job.
LEMMA PollingFacts ==
    ASSUME TypeOK, VolumeInv, ReclaimInv, ServingInv, rec.pc = "poll"
    PROVE  /\ rec.v.jid \in Jids /\ rec.v.job \in JobNames
           /\ rec.v \in VolumeObject /\ rec.v.uid # 0
           /\ rec.next # "refresh"
           /\ rec.vFresh =>
                 /\ volSynced /\ vol.phase = rec.v.phase /\ vol.jid = rec.v.jid
                 /\ vol.phase \in {"Pending", "Terminating"}
                 /\ vol.phase = "Terminating" <=> rec.v.job = "UnprepareVolume"
  <1>1. /\ rec.v.jid \in Jids /\ rec.v.job \in JobNames
        /\ rec.v \in VolumeObject /\ StatusConsistent(rec.v)
    BY PollFacts, PassFacts
  <1>2. rec.v.uid # 0
    BY DEF ReclaimInv, ReasonInv
  <1>3. rec.next # "refresh"
    BY DEF ServingInv, RefreshReason
  <1>4. rec.vFresh =>
            /\ volSynced /\ vol.phase = rec.v.phase /\ vol.jid = rec.v.jid
            /\ vol.phase \in {"Pending", "Terminating"}
    BY DEF ReclaimInv, FreshInv, SameStatus, ServingInv, PhaseInv
  <1>5. rec.v.phase = "Terminating" => rec.v.job = "UnprepareVolume"
    BY <1>1 DEF StatusConsistent
  <1>6. rec.v.phase = "Pending" => rec.v.job # "UnprepareVolume"
    BY <1>1 DEF StatusConsistent
  <1> QED
    BY <1>1, <1>2, <1>3, <1>4, <1>5, <1>6

\* What setInProgress makes of the phase.
LEMMA InProgressPhase ==
    ASSUME NEW v \in VolumeObject, NEW job, NEW jid, NEW w,
           w = SetInProgress(v, job, jid)
    PROVE  w.phase = IF job = "UnprepareVolume" THEN "Terminating"
                                                ELSE "Pending"
  BY DEF SetInProgress, SetPending, SetTerminating, VolumeObject

\* The device info of a job of this Volume is of this Volume; if the Volume the
\* pass works on is gone, the one there is has no use for it yet.
LEMMA DeviceInfoKept ==
    ASSUME TypeOK, VolumeInv, ReclaimInv, ServingInv, rec.pc = "poll",
           rec.v.job = "GetDeviceInfo", jobs[rec.v.jid].state = "ok",
           NEW v \in {vol, volCache, rec.v}, Same(v), v.job = "GetDeviceInfo"
    PROVE  jobs[rec.v.jid].path = v.uid
  <1>1. rec.v.jid \in Jids /\ rec.v.uid # 0
    BY PollingFacts
  <1>2. CASE Same(rec.v)
    <2>1. ProgressInv(rec.v)
      BY DEF ServingInv, ProgressesInv
    <2>2. DeviceInfoRight(rec.v.jid, rec.v.uid)
      BY <1>1, <1>2, <2>1 DEF ProgressInv
    <2>3. v.uid = rec.v.uid
      BY <1>2 DEF Same
    <2> QED
      BY <2>2, <2>3 DEF DeviceInfoRight
  <1>3. CASE ~Same(rec.v)
    <2>1. ~vol.fin /\ v # rec.v
      BY <1>1, <1>3 DEF ReclaimInv, CopiesInv, Same
    <2>2. v.job = "" \/ v.fin
      <3>1. vol.valid /\ vol.phase # "" => vol.fin
        BY DEF VolumeInv, ObjectsInv, Sound, Protected
      <3>2. vol.phase = "" \/ ~vol.valid => vol.job = ""
        BY DEF VolumeInv, ObjectsInv, Sound, StatusConsistent
      <3> QED
        BY <2>1, <3>1, <3>2, CacheSound
    <2>3. ~v.fin
      BY <2>1 DEF VolumeInv, ObjectsInv, Same
    <2> QED
      BY <2>2, <2>3
  <1> QED
    BY <1>2, <1>3

\* A job has ended well: the pass records it, with the device it is told of.
LEMMA SucceededServing ==
    ASSUME TypeOK, VolumeInv, ReclaimInv, ServingInv, PollSucceeded
    PROVE  ServingInv'
  <1>1. /\ rec.pc = "poll"
        /\ UNCHANGED <<vol, volSynced, volCache, pv, pvSynced, pvCache, sent,
                       running, jobs, storage>>
        /\ devices' = DeviceInfoOf(rec.v.job)
    BY DEF PollSucceeded, volVars, pvVars, caches, saltVars, nodeVars
  <1>2. jobs[rec.v.jid].state = "ok"
    <2>1. PollAnswer(jobs[rec.v.jid].state) = "success"
      BY DEF PollSucceeded, Answer
    <2> QED
      BY <2>1 DEF PollAnswer
  <1>3. PICK w : w = SetInProgress(rec.v, rec.v.job, DoneMarker)
    OBVIOUS
  <1>4. /\ rec'.pc = "status" /\ rec'.vFresh = rec.vFresh
        /\ rec'.next = rec.next /\ rec'.v = w
    BY <1>3, PassFacts DEF PollSucceeded, Reconciliation
  <1>5. /\ rec.v.jid \in Jids /\ rec.v.job \in JobNames
        /\ rec.v \in VolumeObject /\ rec.v.uid # 0
        /\ rec.next # "refresh"
        /\ rec.vFresh =>
              /\ volSynced /\ vol.phase = rec.v.phase /\ vol.jid = rec.v.jid
              /\ vol.phase \in {"Pending", "Terminating"}
              /\ vol.phase = "Terminating" <=> rec.v.job = "UnprepareVolume"
    BY <1>1, PollingFacts
  <1>6. /\ w.uid = rec.v.uid /\ w.job = rec.v.job /\ w.jid = DoneMarker
        /\ w.phase = IF rec.v.job = "UnprepareVolume" THEN "Terminating"
                                                      ELSE "Pending"
    BY <1>3, <1>5, InProgressFields, InProgressPhase
  <1>7. \A v \in {vol, volCache, rec.v} :
            Same(v) /\ v.job = "GetDeviceInfo"
                => devices' \in {0, devices, v.uid}
    <2> SUFFICES ASSUME NEW v \in {vol, volCache, rec.v}, Same(v),
                        v.job = "GetDeviceInfo"
                 PROVE  devices' \in {0, devices, v.uid}
      OBVIOUS
    <2>1. CASE rec.v.job = "GetDeviceInfo"
      BY <1>1, <1>2, <2>1, DeviceInfoKept DEF DeviceInfoOf, Answer
    <2>2. CASE rec.v.job # "GetDeviceInfo"
      BY <1>1, <2>2 DEF DeviceInfoOf
    <2> QED
      BY <2>1, <2>2
  <1>8. ProgressesInv
    BY DEF ServingInv
  <1>9. /\ FailureRecorded(vol)' /\ ProgressInv(vol)'
        /\ FailureRecorded(volCache)' /\ ProgressInv(volCache)'
    <2>1. \A v \in {vol, volCache} :
              Same(v) /\ Healthy(v) => pv'.uid \in {pv.uid, v.uid}
      BY <1>1
    <2> QED
      BY <1>1, <1>7, <1>8, <2>1, ObjectsProgress
  <1>10. FailureRecorded(w)
    BY <1>6 DEF FailureRecorded
  <1>11. ProgressInv(w)'
    <2> SUFFICES ASSUME Same(rec.v)
                 PROVE  /\ ~Healthy(w)
                        /\ w.job = "GetDeviceInfo" => devices' \in {0, w.uid}
                        /\ w.jid \notin Jids
                        /\ Prepared(w)' /\ ~CacheRetired =>
                              storage[w.uid] = "prepared"
      <3>1. Same(w)' = Same(rec.v) /\ CacheRetired' = CacheRetired
        BY <1>1, <1>6 DEF Same, CacheRetired
      <3>2. Healthy(w)' = Healthy(w)
        BY DEF Healthy
      <3> QED
        BY <1>1, <3>1, <3>2 DEF ProgressInv
    <2>1. ~Healthy(w)
      BY <1>6 DEF Healthy
    <2>2. w.job = "GetDeviceInfo" => devices' \in {0, w.uid}
      <3> SUFFICES ASSUME w.job = "GetDeviceInfo" PROVE devices' = w.uid
        OBVIOUS
      <3>1. devices' = jobs[rec.v.jid].path
        BY <1>1, <1>6 DEF DeviceInfoOf, Answer
      <3> QED
        BY <1>1, <1>2, <1>6, <3>1, DeviceInfoKept
    <2>3. w.jid \notin Jids
      BY <1>6, Handles
    <2>4. Prepared(w)' /\ ~CacheRetired => storage[w.uid] = "prepared"
      <3>1. Prepared(w)' => Prepared(rec.v)
        BY <1>2, <1>5, <1>6 DEF Prepared
      <3>2. ProgressInv(rec.v)
        BY <1>8 DEF ProgressesInv
      <3> QED
        BY <1>6, <3>1, <3>2 DEF ProgressInv
    <2> QED
      BY <2>1, <2>2, <2>3, <2>4
  <1>12. ProgressesInv'
    BY <1>4, <1>9, <1>10, <1>11 DEF ProgressesInv
  <1>13. PvInv'
    <2>1. Withdrawn => Withdrawn'
      BY <1>1 DEF Withdrawn
    <2>2. pvSynced' => pvCache' = pv'
      BY <1>1 DEF ServingInv, PvInv
    <2> QED
      BY <1>1, <2>1, <2>2, PvKept
  <1>14. rec.vFresh => w.phase = vol.phase
    BY <1>5, <1>6
  <1> QED
    BY <1>1, <1>4, <1>5, <1>6, <1>12, <1>13, <1>14, RecordServing

\* A job has failed, or is to be spawned again.
LEMMA RetriedServing ==
    ASSUME TypeOK, VolumeInv, ReclaimInv, ServingInv, PollFailed \/ PollRetry
    PROVE  ServingInv'
  <1>1. /\ rec.pc = "poll"
        /\ UNCHANGED <<vol, volSynced, volCache, pv, pvSynced, pvCache,
                       devices, sent, running, jobs, storage>>
    BY DEF PollFailed, PollRetry, volVars, pvVars, caches, saltVars, nodeVars
  <1>2. /\ rec.v.jid \in Jids /\ rec.v.job \in JobNames
        /\ rec.v \in VolumeObject /\ rec.v.uid # 0
        /\ rec.next # "refresh"
        /\ rec.vFresh =>
              /\ volSynced /\ vol.phase = rec.v.phase /\ vol.jid = rec.v.jid
              /\ vol.phase \in {"Pending", "Terminating"}
              /\ vol.phase = "Terminating" <=> rec.v.job = "UnprepareVolume"
    BY <1>1, PollingFacts
  <1>3. PICK r : r = rec.v
    OBVIOUS
  <1>4. ProgressInv(r)
    BY <1>3 DEF ServingInv, ProgressesInv
  <1>5. CASE PollFailed
    <2>1. PICK w : w = SetFailed(rec.v, FailureReason(rec.v.job))
      OBVIOUS
    <2>2. /\ rec'.pc = "status" /\ rec'.vFresh = rec.vFresh
          /\ rec'.next # "refresh" /\ rec'.v = w
      BY <1>5, <2>1, PassFacts DEF PollFailed, Reconciliation
    <2>3. /\ w.uid = rec.v.uid /\ w.job = rec.v.job /\ w.jid = rec.v.jid
          /\ w.phase = "Failed" /\ w.reason = FailureReason(rec.v.job)
      BY <1>2, <2>1, FailedFields
    <2>4. w.reason \in {"DestructionError", "CreationError"}
      BY <2>3 DEF FailureReason
    <2>5. FailureRecorded(w)
      BY <1>2, <2>3, <2>4 DEF FailureRecorded
    <2>6. ~Healthy(w)
      BY <2>3, <2>4 DEF Healthy
    <2>7. ProgressInv(w)
      BY <1>3, <1>4, <2>3, <2>6, ProgressOf
    <2>8. vol.phase \in {"Pending", "Terminating"} =>
              "Failed" \in NextPhases(vol)
      BY DEF NextPhases
    <2> QED
      BY <1>1, <1>2, <2>2, <2>3, <2>5, <2>7, <2>8, NotedServing
  <1>6. CASE PollRetry
    <2>1. PICK w : w = SetInProgress(rec.v, rec.v.job, NoId)
      OBVIOUS
    <2>2. /\ rec'.pc = "status" /\ rec'.vFresh = rec.vFresh
          /\ rec'.next = rec.next /\ rec'.v = w
      BY <1>6, <2>1, PassFacts DEF PollRetry, Reconciliation
    <2>3. /\ w.uid = rec.v.uid /\ w.job = rec.v.job /\ w.jid = NoId
          /\ w.phase = IF rec.v.job = "UnprepareVolume" THEN "Terminating"
                                                        ELSE "Pending"
      BY <1>2, <2>1, InProgressFields, InProgressPhase
    <2>4. FailureRecorded(w)
      BY <2>3 DEF FailureRecorded
    <2>5. ~Healthy(w) /\ w.jid \notin Jids /\ w.jid # DoneMarker
      BY <2>3, Handles DEF Healthy
    <2>6. ProgressInv(w)
      <3>1. Prepared(w) => Prepared(r)
        BY <1>3, <2>3, <2>5 DEF Prepared
      <3>2. Same(w) = Same(r)
        BY <1>3, <2>3 DEF Same
      <3> QED
        BY <1>3, <1>4, <2>3, <2>5, <3>1, <3>2 DEF ProgressInv
    <2>7. rec.vFresh => w.phase = vol.phase
      BY <1>2, <2>3
    <2> QED
      BY <1>1, <1>2, <2>2, <2>3, <2>4, <2>6, <2>7, NotedServing
  <1> QED
    BY <1>5, <1>6

\* refreshDeviceName.
LEMMA RefreshServing ==
    ASSUME TypeOK, VolumeInv, ReclaimInv, ServingInv, RefreshDeviceName
    PROVE  ServingInv'
  <1>1. /\ rec.pc = "refresh"
        /\ UNCHANGED <<vol, volSynced, volCache, pv, pvSynced, pvCache,
                       devices, sent, running, jobs, storage>>
    BY DEF RefreshDeviceName, volVars, pvVars, caches, saltVars, nodeVars
  <1>2. CASE rec' = Idle
    BY <1>1, <1>2, SameServing
  <1>3. CASE rec' = [rec EXCEPT !.pc = "status", !.v.named = TRUE]
    <2>1. PICK w : w = [rec.v EXCEPT !.named = TRUE]
      OBVIOUS
    <2>2. /\ rec'.pc = "status" /\ rec'.vFresh = rec.vFresh
          /\ rec'.next = rec.next /\ rec'.v = w
      BY <1>3, <2>1, PassFacts DEF Reconciliation
    <2>3. /\ w.uid = rec.v.uid /\ w.job = rec.v.job /\ w.jid = rec.v.jid
          /\ w.phase = rec.v.phase /\ w.reason = rec.v.reason
      BY <2>1, PassFacts DEF VolumeObject
    <2>4. w.phase = "Available"
      BY <1>1, <2>3 DEF ServingInv, RefreshReason
    <2>5. FailureRecorded(w)
      BY <2>4 DEF FailureRecorded
    <2>6. PICK r : r = rec.v
      OBVIOUS
    <2>7. ProgressInv(r)
      BY <2>6 DEF ServingInv, ProgressesInv
    <2>8. ProgressInv(w)
      <3>1. Same(w) /\ Healthy(w) => pv.uid = w.uid
        <4>1. Healthy(r) /\ Same(w) = Same(r)
          BY <2>3, <2>4, <2>6 DEF Healthy, Same
        <4> QED
          BY <2>3, <2>6, <2>7, <4>1 DEF ProgressInv
      <3> QED
        BY <2>3, <2>6, <2>7, <3>1, ProgressOf
    <2>9. rec.vFresh => w.phase = vol.phase
      BY <1>1, <2>3 DEF ReclaimInv, FreshInv, SameStatus
    <2> QED
      BY <1>1, <2>2, <2>4, <2>5, <2>8, <2>9, NotedServing
  <1> QED
    BY <1>2, <1>3 DEF RefreshDeviceName, EndReconciliation

-----------------------------------------------------------------------------
(***************************************************************************)
(* The PersistentVolume is created, and lets go of.                        *)
(***************************************************************************)
\* The storage that is to be served is ready, and no job at the node erases it.
LEMMA ServedStorage ==
    ASSUME TypeOK, VolumeInv, ReclaimInv, ServingInv, rec.pc = "create",
           pv.uid = 0, devices # 0
    PROVE  /\ Same(rec.v) /\ vol.phase = "Pending" /\ devices = rec.v.uid
           /\ storage[rec.v.uid] = "prepared" /\ ~AtNode("UnprepareVolume")
  <1>1. Creating(rec.v) /\ vol.phase = "Pending"
    BY DEF ServingInv, CreatingInv
  <1>2. /\ Same(rec.v) /\ rec.v.job = "GetDeviceInfo"
        /\ rec.v.jid = DoneMarker
    BY <1>1 DEF Creating
  <1>3. ProgressInv(rec.v)
    BY DEF ServingInv, ProgressesInv
  <1>4. devices = rec.v.uid
    BY <1>2, <1>3 DEF ProgressInv
  <1>5. ~CacheRetired
    BY <1>1 DEF ReclaimInv, CopiesInv, CacheRetired, Retired
  <1>6. storage[rec.v.uid] = "prepared"
    BY <1>2, <1>3, <1>5 DEF ProgressInv, Prepared
  <1>7. ~AtNode("UnprepareVolume")
    BY <1>2, <1>5, <1>6 DEF ReclaimInv, NodeStorageInv, NothingErased, Same
  <1> QED
    BY <1>1, <1>2, <1>4, <1>6, <1>7

\* createPersistentVolume.
LEMMA CreatedPvServing ==
    ASSUME TypeOK, VolumeInv, ReclaimInv, ServingInv,
           rec.pc = "create", pv.uid = 0, devices # 0,
           WritePv(NewPersistentVolume(rec.v, devices)),
           rec' = [rec EXCEPT !.pc = "status", !.v = SetAvailable(rec.v)],
           UNCHANGED <<vol, volSynced, volCache, pvCache, devices, sent,
                       running, jobs, storage>>
    PROVE  ServingInv'
  <1>1. /\ Same(rec.v) /\ vol.phase = "Pending" /\ devices = rec.v.uid
        /\ storage[rec.v.uid] = "prepared" /\ ~AtNode("UnprepareVolume")
    BY ServedStorage
  <1>2. /\ pv'.uid = rec.v.uid /\ pv'.path = devices /\ pv'.fin
        /\ ~pv'.deleted /\ pv' # pv /\ ~pvSynced'
    <2>1. PICK q : q = NewPersistentVolume(rec.v, devices)
      OBVIOUS
    <2>2. /\ q.uid = rec.v.uid /\ q.path = devices /\ q.fin /\ ~q.deleted
      BY <2>1 DEF NewPersistentVolume
    <2>3. pv' = q /\ pvSynced' = (pvSynced /\ q = pv)
      BY <2>1 DEF WritePv
    <2>4. q # pv
      BY <1>1, <2>2 DEF Same
    <2> QED
      BY <2>2, <2>3, <2>4
  <1>3. PICK w : w = SetAvailable(rec.v)
    OBVIOUS
  <1>4. /\ rec'.pc = "status" /\ rec'.vFresh = rec.vFresh
        /\ rec'.next = rec.next /\ rec'.v = w
    BY <1>3, PassFacts DEF Reconciliation
  <1>5. /\ w.uid = rec.v.uid /\ w.job = "" /\ w.jid = NoId
        /\ w.phase = "Available"
    BY <1>3, PassFacts DEF SetAvailable, VolumeObject
  <1>6. PvInv'
    <2>1. PvOwned'
      BY <1>1, <1>2 DEF PvOwned, Same
    <2>2. ~AtNode("UnprepareVolume")'
      BY <1>1 DEF AtNode, Sent
    <2>3. PvBacked'
      BY <1>1, <1>2, <2>2 DEF PvBacked
    <2> QED
      BY <1>2, <2>1, <2>3 DEF PvInv
  <1>7. ProgressesInv'
    <2>1. ProgressesInv
      BY DEF ServingInv
    <2>2. /\ \A v \in {vol, volCache} :
                Same(v) /\ Healthy(v) => pv'.uid \in {pv.uid, v.uid}
          /\ \A v \in {vol, volCache} :
                Same(v) /\ v.job = "GetDeviceInfo"
                    => devices' \in {0, devices, v.uid}
      BY <1>1, <1>2 DEF Same
    <2>3. /\ FailureRecorded(vol)' /\ ProgressInv(vol)'
          /\ FailureRecorded(volCache)' /\ ProgressInv(volCache)'
      BY <2>1, <2>2, ObjectsProgress
    <2>4. FailureRecorded(w)
      BY <1>5 DEF FailureRecorded
    <2>5. ProgressInv(w)'
      <3>1. w.jid \notin Jids
        BY <1>5, Handles
      <3> QED
        BY <1>2, <1>5, <3>1 DEF ProgressInv, Prepared
    <2> QED
      BY <1>4, <2>3, <2>4, <2>5 DEF ProgressesInv
  <1>8. "Available" \in NextPhases(vol)
    BY <1>1 DEF NextPhases
  <1> QED
    BY <1>4, <1>5, <1>6, <1>7, <1>8, RecordServing

LEMMA CreatePvServing ==
    ASSUME TypeOK, VolumeInv, ReclaimInv, ServingInv, CreatePersistentVolume
    PROVE  ServingInv'
  <1>1. /\ rec.pc = "create"
        /\ UNCHANGED <<vol, volSynced, volCache, pvCache, devices, sent,
                       running, jobs, storage>>
    BY DEF CreatePersistentVolume, volVars, caches, saltVars, nodeVars
  <1>2. CASE /\ rec' = [rec EXCEPT
                    !.pc = "status",
                    !.v = SetPending(rec.v, "GetDeviceInfo", NoId)]
             /\ UNCHANGED <<pv, pvSynced>>
    <2>1. PICK w : w = SetPending(rec.v, "GetDeviceInfo", NoId)
      OBVIOUS
    <2>2. /\ rec'.pc = "status" /\ rec'.vFresh = rec.vFresh
          /\ rec'.next = rec.next /\ rec'.v = w
      BY <1>2, <2>1, PassFacts DEF Reconciliation
    <2>3. /\ w.uid = rec.v.uid /\ w.job = "GetDeviceInfo" /\ w.jid = NoId
          /\ w.phase = "Pending"
      BY <2>1, PassFacts DEF SetPending, VolumeObject
    <2>4. FailureRecorded(w)
      BY <2>3 DEF FailureRecorded
    <2>5. PICK r : r = rec.v
      OBVIOUS
    <2>6. ProgressInv(r) /\ r.job = "GetDeviceInfo"
      BY <1>1, <2>5 DEF ServingInv, ProgressesInv, CreatingInv, Creating
    <2>7. ProgressInv(w)
      <3>1. ~Healthy(w) /\ w.jid \notin Jids /\ w.jid # DoneMarker
        BY <2>3, Handles DEF Healthy
      <3>2. Prepared(r) /\ Same(w) = Same(r)
        BY <2>3, <2>5, <2>6 DEF Prepared, Same
      <3> QED
        BY <2>3, <2>5, <2>6, <3>1, <3>2 DEF ProgressInv
    <2>8. rec.vFresh => w.phase = vol.phase
      BY <1>1, <2>3 DEF ServingInv, PhaseInv
    <2>9. rec.next # "refresh"
      BY <1>1 DEF ServingInv, RefreshReason
    <2> QED
      BY <1>1, <1>2, <2>2, <2>3, <2>4, <2>7, <2>8, <2>9, NotedServing
  <1>3. CASE /\ devices # 0 /\ pv.uid = 0
             /\ WritePv(NewPersistentVolume(rec.v, devices))
             /\ rec' = [rec EXCEPT !.pc = "status", !.v = SetAvailable(rec.v)]
    BY <1>1, <1>3, CreatedPvServing
  <1>4. CASE rec' = Idle /\ UNCHANGED <<pv, pvSynced>>
    BY <1>1, <1>4, SameServing
  <1> QED
    BY <1>2, <1>3, <1>4
       DEF CreatePersistentVolume, CreationFails, Requeue, pvVars

\* The finalizer of a PersistentVolume goes when nobody uses it any more, for a
\* Volume whose storage is reclaimed: none of its statuses is healthy.
LEMMA Unprotected ==
    ASSUME TypeOK, VolumeInv, ReclaimInv, ServingInv, RemovePvFinalizer
    PROVE  /\ pv'.uid = 0 /\ pvSynced' = (pvSynced /\ pv' = pv)
           /\ pv.uid # 0 => \A v \in {vol, volCache, rec.v} :
                               v.job = "UnprepareVolume" /\ ~Healthy(v)
  <1>1. rec.pc = "pvFinalizer"
    BY DEF RemovePvFinalizer
  <1>2. PICK p \in PvObject : p = [pv EXCEPT !.fin = FALSE]
    BY StateTypes DEF PvObject
  <1>3. /\ p.uid = pv.uid /\ ~p.fin /\ p.inUse = pv.inUse
        /\ p.deleted = pv.deleted
    BY <1>2, StateTypes DEF PvObject
  <1>4. pv' = Collected(p) /\ pvSynced' = (pvSynced /\ pv' = pv)
    BY <1>2 DEF RemovePvFinalizer, WritePv
  <1>5. pv'.uid = 0
    <2>1. CASE pv.uid = 0
      BY <1>2, <1>3, <1>4, <2>1, CollectedUid
    <2>2. CASE pv.uid # 0
      <3>1. p.deleted /\ ~p.inUse
        BY <1>1, <1>3, <2>2 DEF ServingInv, UnusedInv
      <3> QED
        BY <1>3, <1>4, <3>1, NullSound DEF Collected
    <2> QED
      BY <2>1, <2>2
  <1>6. ASSUME pv.uid # 0
        PROVE  \A v \in {vol, volCache, rec.v} :
                   v.job = "UnprepareVolume" /\ ~Healthy(v)
    <2>1. vol.fin /\ vol.uid # 0
      BY <1>6 DEF ServingInv, PvInv, PvOwned, VolumeInv, ObjectsInv, Protects
    <2>2. Same(rec.v) /\ Same(volCache)
      BY <1>1, <2>1 DEF ReclaimInv, CopiesInv, ReasonInv, Same
    <2>3. rec.v.job = "UnprepareVolume" /\ volCache.job = "UnprepareVolume"
      BY <1>1, <2>2 DEF ReclaimInv, ReasonInv
    <2>4. vol.job = "UnprepareVolume"
      BY <2>2, <2>3 DEF ReclaimInv, CopiesInv
    <2>5. \A v \in {vol, volCache, rec.v} : StatusConsistent(v)
      BY PassFacts, CacheSound DEF VolumeInv, ObjectsInv, Sound
    <2> QED
      BY <2>3, <2>4, <2>5 DEF StatusConsistent, Healthy
  <1> QED
    BY <1>4, <1>5, <1>6

LEMMA UnprotectServing ==
    ASSUME TypeOK, VolumeInv, ReclaimInv, ServingInv, RemovePvFinalizer
    PROVE  ServingInv'
  <1>1. /\ rec.pc = "pvFinalizer"
        /\ UNCHANGED <<vol, volSynced, volCache, pvCache, devices, sent,
                       running, jobs, storage>>
    BY DEF RemovePvFinalizer, volVars, caches, saltVars, nodeVars
  <1>2. /\ rec'.pc = "volFinalizer" /\ rec'.v = rec.v
        /\ rec'.vFresh = rec.vFresh /\ rec'.next = rec.next
    BY PassFacts DEF RemovePvFinalizer, Reconciliation
  <1>3. /\ pv'.uid = 0 /\ pvSynced' = (pvSynced /\ pv' = pv)
        /\ pv.uid # 0 => \A v \in {vol, volCache, rec.v} :
                            v.job = "UnprepareVolume" /\ ~Healthy(v)
    BY Unprotected
  <1>4. PvInv'
    <2>1. pvSynced' => pvCache' = pv'
      BY <1>1, <1>3 DEF ServingInv, PvInv
    <2>2. PvOwned' /\ PvBacked'
      BY <1>3 DEF PvOwned, PvBacked, Withdrawn
    <2> QED
      BY <2>1, <2>2 DEF PvInv
  <1>5. ProgressesInv /\ CreatingInv
    BY DEF ServingInv
  <1>6. ProgressesInv'
    <2>1. /\ \A v \in {vol, volCache} :
                Same(v) /\ Healthy(v) => pv'.uid \in {pv.uid, v.uid}
          /\ \A v \in {vol, volCache} :
                Same(v) /\ v.job = "GetDeviceInfo"
                    => devices' \in {0, devices, v.uid}
          /\ Healthy(rec.v) => pv'.uid \in {pv.uid, rec.v.uid}
          /\ devices' \in {0, devices, rec.v.uid}
      BY <1>1, <1>3
    <2>2. /\ FailureRecorded(vol)' /\ ProgressInv(vol)'
          /\ FailureRecorded(volCache)' /\ ProgressInv(volCache)'
      BY <1>1, <1>5, <2>1, ObjectsProgress
    <2>3. FailureRecorded(rec.v)' /\ ProgressInv(rec.v)'
      BY <1>1, <1>2, <1>5, <2>1, PassProgress
    <2> QED
      BY <2>2, <2>3 DEF ProgressesInv
  <1>7. CreatingInv'
    <2>1. Creating(volCache)' = Creating(volCache)
      BY <1>1 DEF Creating, Same
    <2>2. Creating(volCache) => vol.phase = "Pending"
      BY <1>3, <1>5 DEF CreatingInv, Creating
    <2> QED
      BY <1>1, <1>2, <2>1, <2>2 DEF CreatingInv
  <1>8. UnusedInv'
    BY <1>2, <1>3 DEF UnusedInv
  <1>9. RefreshReason'
    BY <1>1, <1>2 DEF ServingInv, RefreshReason
  <1>10. PhaseInv'
    BY <1>2 DEF PhaseInv
  <1> QED
    BY <1>4, <1>6, <1>7, <1>8, <1>9, <1>10 DEF ServingInv
-----------------------------------------------------------------------------
(***************************************************************************)
(* A job is submitted.                                                     *)
(***************************************************************************)
\* The job that is published has an ID that no status refers to; a removal is
\* only published once the PersistentVolume is withdrawn.
LEMMA PublishServing ==
    ASSUME TypeOK, VolumeInv, ReclaimInv, ServingInv, rec.pc = "submit",
           NEW j \in FreeJids, NEW job, job = rec.job, Publish(j, job),
           UNCHANGED <<vol, volCache, pv, pvSynced, pvCache, devices, storage>>
    PROVE  /\ PvInv'
           /\ \A v \in {vol, volCache, rec.v} :
                 ProgressInv(v) => ProgressInv(v)'
           /\ SentAs(j, job)' /\ jobs'[j].state = "sent"
           /\ \A k \in Jids : k # j => jobs'[k] = jobs[k]
  <1>1. /\ j \in Jids /\ jobs[j].state # "sent" /\ jobs[j].state # "running"
        /\ j # vol.jid /\ j # volCache.jid /\ j # rec.v.jid
        /\ j # 0
    BY Bounds DEF FreeJids
  <1>2. /\ running' = running
        /\ jobs' = [jobs EXCEPT ![j] = [state |-> "sent", path |-> 0]]
    BY DEF Publish
  <1>3. /\ jobs'[j].state = "sent"
        /\ \A k \in Jids : k # j => jobs'[k] = jobs[k]
    BY <1>1, <1>2, NodeTypes
  <1>4. PICK n : /\ n \notin DOMAIN sent
                 /\ DOMAIN sent' = DOMAIN sent \cup {n}
                 /\ sent'[n].jid = j /\ sent'[n].job = job
                 /\ \A i \in DOMAIN sent : sent'[i] = sent[i]
    <2>1. PICK e : e = [jid |-> j, job |-> job]
      OBVIOUS
    <2>2. sent' = Append(sent, e) /\ e.jid = j /\ e.job = job
      BY <2>1 DEF Publish
    <2> QED
      BY <2>2, Appended
  <1>5. SentKnown /\ RunningKnown
    BY DEF ReclaimInv, QueueInv
  <1>6. \A i \in DOMAIN sent : sent[i].jid # j
    BY <1>1, <1>5 DEF SentKnown
  <1>7. running.jid # j
    BY <1>1, <1>5 DEF RunningKnown
  <1>8. SentAs(j, job)'
    <2>1. running' = running
      BY <1>2
    <2>2. \A i \in DOMAIN sent' : sent'[i].jid = j => sent'[i].job = job
      BY <1>4, <1>6
    <2> QED
      BY <1>7, <2>1, <2>2 DEF SentAs
  <1>9. ASSUME NEW jid, NEW name, jid # j, SentAs(jid, name)
        PROVE  SentAs(jid, name)'
    BY <1>2, <1>4, <1>9 DEF SentAs
  <1>10. PvInv'
    <2>1. AtNode("UnprepareVolume")' =>
              AtNode("UnprepareVolume") \/ rec.job = "UnprepareVolume"
      BY <1>2, <1>4 DEF AtNode, Sent
    <2>2. rec.job = "UnprepareVolume" => Withdrawn
      BY DEF ServingInv, UnusedInv
    <2>3. PvOwned /\ PvBacked
      BY DEF ServingInv, PvInv
    <2>4. Withdrawn' = Withdrawn
      BY DEF Withdrawn
    <2>5. PvOwned'
      BY <2>3 DEF PvOwned
    <2>6. PvBacked'
      BY <2>1, <2>2, <2>3, <2>4 DEF PvBacked
    <2> QED
      BY <2>5, <2>6 DEF PvInv, ServingInv
  <1>11. CacheRetired' = CacheRetired
    BY DEF CacheRetired, Same
  <1>12. ASSUME NEW v, v.jid # j, ProgressInv(v) PROVE ProgressInv(v)'
    <2>1. Same(v)' = Same(v) /\ Healthy(v)' = Healthy(v)
      BY DEF Same, Healthy
    <2>2. v.jid \in Jids => jobs'[v.jid] = jobs[v.jid]
      BY <1>3, <1>12
    <2>3. Prepared(v)' = Prepared(v)
      BY <2>2 DEF Prepared
    <2>4. v.jid \in Jids =>
              DeviceInfoRight(v.jid, v.uid)' = DeviceInfoRight(v.jid, v.uid)
      BY <2>2 DEF DeviceInfoRight
    <2>5. SentAs(v.jid, v.job) => SentAs(v.jid, v.job)'
      BY <1>9, <1>12
    <2> QED
      BY <1>11, <1>12, <2>1, <2>3, <2>4, <2>5 DEF ProgressInv
  <1>13. ASSUME NEW v \in {vol, volCache, rec.v}, ProgressInv(v)
         PROVE  ProgressInv(v)'
    BY <1>1, <1>12, <1>13
  <1> QED
    BY <1>3, <1>8, <1>10, <1>13

LEMMA SubmitServing ==
    ASSUME TypeOK, VolumeInv, ReclaimInv, ServingInv,
           SubmitJob \/ SubmitAnswerLost
    PROVE  ServingInv'
  <1>1. /\ rec.pc = "submit"
        /\ UNCHANGED <<vol, volSynced, volCache, pv, pvSynced, pvCache,
                       devices, storage>>
    BY DEF SubmitJob, SubmitAnswerLost, volVars, pvVars, caches, nodeVars
  <1>0. PICK job : job = rec.job
    OBVIOUS
  <1>2. PICK j \in FreeJids :
              /\ job = rec.job /\ Publish(j, job)
              /\ \/ rec' = [rec EXCEPT !.pc = "status", !.job = "",
                                       !.v = SetInProgress(rec.v, rec.job, j)]
                 \/ rec' = Idle
    BY <1>0 DEF SubmitJob, SubmitAnswerLost, Requeue
  <1>3. /\ PvInv'
        /\ \A v \in {vol, volCache, rec.v} : ProgressInv(v) => ProgressInv(v)'
        /\ SentAs(j, job)' /\ jobs'[j].state = "sent"
        /\ \A k \in Jids : k # j => jobs'[k] = jobs[k]
    BY <1>1, <1>2, PublishServing
  <1>4. ProgressesInv /\ CreatingInv /\ UnusedInv /\ RefreshReason /\ PhaseInv
    BY DEF ServingInv
  <1>5. /\ FailureRecorded(vol)' /\ ProgressInv(vol)'
        /\ FailureRecorded(volCache)' /\ ProgressInv(volCache)'
    <2>1. PICK v : v = vol
      OBVIOUS
    <2>2. PICK c : c = volCache
      OBVIOUS
    <2>3. /\ FailureRecorded(v) /\ ProgressInv(v)
          /\ FailureRecorded(c) /\ ProgressInv(c)
      BY <1>4, <2>1, <2>2 DEF ProgressesInv
    <2>4. ProgressInv(v)' /\ ProgressInv(c)'
      BY <1>3, <2>1, <2>2, <2>3
    <2>5. v = vol' /\ c = volCache'
      BY <1>1, <2>1, <2>2
    <2> QED
      BY <2>3, <2>4, <2>5
  <1>6. CASE rec' = Idle
    <2>1. FailureRecorded(rec.v)' /\ ProgressInv(rec.v)'
      BY <1>6, IdleProgress
    <2>2. ProgressesInv'
      BY <1>5, <2>1 DEF ProgressesInv
    <2>3. rec'.pc = "idle" /\ UnusedInv' /\ RefreshReason' /\ PhaseInv'
      BY <1>6, IdlePassServing
    <2>4. CreatingInv'
      <3>1. Creating(volCache)' = Creating(volCache)
        BY <1>1 DEF Creating, Same
      <3> QED
        BY <1>1, <1>4, <2>3, <3>1 DEF CreatingInv
    <2> QED
      BY <1>3, <2>2, <2>3, <2>4 DEF ServingInv
  <1>7. CASE rec' = [rec EXCEPT !.pc = "status", !.job = "",
                                !.v = SetInProgress(rec.v, rec.job, j)]
    <2>1. PICK w : w = SetInProgress(rec.v, rec.job, j)
      OBVIOUS
    <2>2. /\ rec'.pc = "status" /\ rec'.vFresh = rec.vFresh
          /\ rec'.next = rec.next /\ rec'.v = w
      BY <1>7, <2>1, PassFacts DEF Reconciliation
    <2>3. /\ w.uid = rec.v.uid /\ w.job = rec.job /\ w.jid = j
          /\ w.phase = IF rec.job = "UnprepareVolume" THEN "Terminating"
                                                      ELSE "Pending"
      BY <2>1, PassFacts, InProgressFields, InProgressPhase
    <2>4. FailureRecorded(w)
      BY <2>3 DEF FailureRecorded
    <2>5. j \in Jids /\ j # DoneMarker
      BY Handles DEF FreeJids
    <2>6. PICK r : r = rec.v
      OBVIOUS
    <2>7. ProgressInv(r)
      BY <1>4, <2>6 DEF ProgressesInv
    <2>8. Prepared(w)' => Prepared(r)
      <3>1. jobs'[j].state # "ok"
        BY <1>3
      <3>2. Prepared(w)' => rec.job = "GetDeviceInfo"
        BY <2>3, <2>5, <3>1 DEF Prepared
      <3>3. rec.job = "GetDeviceInfo" => Prepared(r)
        BY <1>1, <1>4, <2>6 DEF CreatingInv, Prepared
      <3> QED
        BY <3>2, <3>3
    <2>9. ProgressInv(w)'
      <3>1. Same(w)' = Same(r) /\ CacheRetired' = CacheRetired
        BY <1>1, <2>3, <2>6 DEF Same, CacheRetired
      <3>2. ~Healthy(w)'
        BY <2>3 DEF Healthy
      <3>3. SentAs(w.jid, w.job)'
        BY <1>2, <1>3, <2>3
      <3>4. DeviceInfoRight(w.jid, w.uid)'
        <4>1. jobs'[w.jid].state # "ok"
          BY <1>3, <2>3
        <4> QED
          BY <4>1 DEF DeviceInfoRight
      <3>5. Same(r) /\ Prepared(r) /\ ~CacheRetired =>
                storage[w.uid] = "prepared"
        BY <2>3, <2>6, <2>7 DEF ProgressInv
      <3> QED
        BY <1>1, <2>3, <2>5, <2>8, <3>1, <3>2, <3>3, <3>4, <3>5 DEF ProgressInv
    <2>10. ProgressesInv'
      BY <1>5, <2>2, <2>4, <2>9 DEF ProgressesInv
    <2>11. rec.vFresh => w.phase \in {vol.phase} \cup NextPhases(vol)
      <3> SUFFICES ASSUME rec.vFresh
                   PROVE  w.phase \in {vol.phase} \cup NextPhases(vol)
        OBVIOUS
      <3>1. CASE rec.job = "UnprepareVolume"
        <4>1. Retired(rec.v) /\ vol.phase = rec.v.phase
          BY <1>1, <3>1 DEF ReclaimInv, ReasonInv, FreshInv, SameStatus
        <4>2. vol.phase # "Pending" /\ vol.phase \in Phases
          BY <4>1, StateTypes DEF Retired, VolumeObject
        <4> QED
          BY <2>3, <3>1, <4>2 DEF Phases, NextPhases
      <3>2. CASE rec.job # "UnprepareVolume"
        <4>1. vol.phase \in {"", "Pending"}
          BY <1>1, <1>4, <3>2 DEF PhaseInv
        <4> QED
          BY <2>3, <3>2, <4>1 DEF NextPhases
      <3> QED
        BY <3>1, <3>2
    <2>12. rec.next # "refresh" /\ w.phase # "Failed"
      BY <1>1, <1>4, <2>3 DEF RefreshReason
    <2> QED
      BY <1>1, <1>3, <2>2, <2>10, <2>11, <2>12, RecordServing
  <1> QED
    BY <1>2, <1>6, <1>7


-----------------------------------------------------------------------------
(***************************************************************************)
(* Volumes come and go.                                                    *)
(***************************************************************************)
\* A new Volume, or none: there is no PersistentVolume, nor a copy of the
\* Volume there is.
LEMMA NewServing ==
    ASSUME ServingInv, pv.uid = 0,
           vol'.phase = "", vol'.job = "", vol'.jid = NoId,
           vol'.uid # 0 => vol'.uid # volCache.uid /\ vol'.uid # rec'.v.uid,
           UNCHANGED <<volCache, pv, pvSynced, pvCache, devices, sent, running,
                       jobs, storage>>,
           ~rec'.vFresh, rec'.pc # "create",
           \/ rec' = Idle
           \/ /\ rec'.pc = rec.pc /\ rec'.v = rec.v
              /\ rec'.job = rec.job /\ rec'.next = rec.next
    PROVE  ServingInv'
  <1>1. ~Same(volCache)' /\ ~Same(rec.v)'
    BY DEF Same
  <1>2. PvInv /\ ProgressesInv /\ CreatingInv /\ UnusedInv /\ RefreshReason
    BY DEF ServingInv
  <1>3. PvInv'
    <2>1. PvOwned'
      BY DEF PvOwned
    <2>2. PvBacked'
      BY DEF PvBacked, Withdrawn
    <2> QED
      BY <1>2, <2>1, <2>2 DEF PvInv
  <1>4. ProgressesInv'
    <2>1. FailureRecorded(vol)'
      BY DEF FailureRecorded
    <2>2. ProgressInv(vol)'
      <3>1. ~Healthy(vol)' /\ ~Prepared(vol)'
        BY DEF Healthy, Prepared
      <3>2. vol'.jid \notin Jids
        BY Handles
      <3> QED
        BY <3>1, <3>2 DEF ProgressInv
    <2>3. FailureRecorded(volCache)'
      BY <1>2 DEF ProgressesInv, FailureRecorded
    <2>4. FailureRecorded(rec.v)'
      <3>1. CASE rec' = Idle
        BY <3>1, IdleProgress
      <3>2. CASE rec'.v = rec.v
        BY <1>2, <3>2 DEF ProgressesInv, FailureRecorded
      <3> QED
        BY <3>1, <3>2
    <2>5. ProgressInv(volCache)' /\ ProgressInv(rec.v)'
      BY <1>1 DEF ProgressInv
    <2> QED
      BY <2>1, <2>2, <2>3, <2>4, <2>5 DEF ProgressesInv
  <1>5. PhaseInv'
    BY DEF PhaseInv
  <1>6. CASE rec' = Idle
    <2>1. rec'.pc = "idle" /\ UnusedInv' /\ RefreshReason'
      BY <1>6, IdlePassServing
    <2>2. CreatingInv'
      BY <1>1, <2>1 DEF CreatingInv, Creating
    <2> QED
      BY <1>3, <1>4, <1>5, <2>1, <2>2 DEF ServingInv
  <1>7. CASE /\ rec'.pc = rec.pc /\ rec'.v = rec.v
             /\ rec'.job = rec.job /\ rec'.next = rec.next
    <2>1. UnusedInv'
      BY <1>2, <1>7 DEF UnusedInv, Withdrawn
    <2>2. RefreshReason'
      BY <1>2, <1>7 DEF RefreshReason
    <2>3. CreatingInv'
      BY <1>1, <1>2, <1>7 DEF CreatingInv, Creating
    <2> QED
      BY <1>3, <1>4, <1>5, <2>1, <2>2, <2>3 DEF ServingInv
  <1> QED
    BY <1>6, <1>7

\* The last finalizer of a Volume is only removed once its PersistentVolume is
\* gone.
LEMMA ReleaseServing ==
    ASSUME TypeOK, VolumeInv, ReclaimInv, ServingInv, RemoveVolumeFinalizer
    PROVE  ServingInv'
  <1>1. /\ rec.pc = "volFinalizer" /\ rec.vFresh /\ rec' = Idle
        /\ vol' = IF vol.deleted THEN NoVolume ELSE [vol EXCEPT !.fin = FALSE]
        /\ UNCHANGED <<volCache, pv, pvSynced, pvCache, devices, sent, running,
                       jobs, storage>>
    BY DEF RemoveVolumeFinalizer, IsCurrent, WriteVolume, EndReconciliation,
           caches, saltVars, nodeVars, pvVars
  <1>2. rec.v.deleted = vol.deleted /\ rec.v.deleted
    BY <1>1, PassFacts DEF VolumeInv, CopyInv, SameMetadata
  <1>3. vol' = NoVolume
    BY <1>1, <1>2
  <1>4. NoVolume.phase = "" /\ NoVolume.job = "" /\ NoVolume.jid = NoId
    BY DEF NoVolume
  <1>5. vol'.phase = "" /\ vol'.job = "" /\ vol'.jid = NoId /\ vol'.uid = 0
    BY <1>3, <1>4, NullSound
  <1>6. pv.uid = 0
    BY <1>1 DEF ServingInv, UnusedInv
  <1>7. ~rec'.vFresh /\ rec'.pc # "create"
    BY <1>1, NullSound
  <1> QED
    BY <1>1, <1>5, <1>6, <1>7, NewServing

LEMMA CreatedServing ==
    ASSUME TypeOK, VolumeInv, ReclaimInv, ServingInv, CreateVolume
    PROVE  ServingInv'
  <1>1. /\ vol.uid = 0
        /\ UNCHANGED <<volCache, pv, pvSynced, pvCache, devices, sent, running,
                       jobs, storage>>
        /\ \E valid \in BOOLEAN :
              /\ vol' = [NoVolume EXCEPT !.uid = lastUid + 1, !.valid = valid]
              /\ rec' = [rec EXCEPT !.vFresh = @ /\ vol' = vol]
    BY DEF CreateVolume, OthersWriteVolume, WriteVolume, caches, saltVars,
           nodeVars, pvVars
  <1>2. /\ lastUid \in Nat
        /\ volCache.uid <= lastUid /\ rec.v.uid <= lastUid
        /\ volCache.uid \in Nat /\ rec.v.uid \in Nat
    <2>1. lastUid \in Nat
      <3>1. lastUid \in 0 .. MaxUid
        BY DEF TypeOK
      <3> QED
        BY <3>1, BoundsAssumption
    <2>2. volCache.uid \in 0 .. MaxUid /\ rec.v.uid \in 0 .. MaxUid
      BY StateTypes DEF VolumeObject
    <2> QED
      BY <2>1, <2>2, BoundsAssumption DEF VolumeInv, ObjectsInv, CopyInv
  <1>3. /\ vol'.uid = lastUid + 1
        /\ vol'.phase = "" /\ vol'.job = "" /\ vol'.jid = NoId
    BY <1>1 DEF NoVolume
  <1>4. /\ volCache.uid # vol'.uid /\ rec.v.uid # vol'.uid
        /\ vol'.uid # vol.uid
    <2>1. vol.uid = 0 /\ lastUid + 1 # 0
      BY <1>1, <1>2
    <2>2. \A a, b \in Nat : a <= b => a # b + 1
      OBVIOUS
    <2>3. volCache.uid # lastUid + 1 /\ rec.v.uid # lastUid + 1
      BY <1>2, <2>2
    <2> QED
      BY <1>3, <2>1, <2>3
  <1>5. /\ rec'.pc = rec.pc /\ rec'.v = rec.v /\ rec'.job = rec.job
        /\ rec'.next = rec.next /\ ~rec'.vFresh
    BY <1>1, <1>4, StateTypes DEF Reconciliation
  <1>6. pv.uid = 0
    BY <1>1 DEF ServingInv, PvInv, PvOwned
  <1>7. rec.pc # "create"
    BY <1>1 DEF ServingInv, CreatingInv, Creating, Same
  <1> QED
    BY <1>1, <1>3, <1>4, <1>5, <1>6, <1>7, NewServing

-----------------------------------------------------------------------------
(***************************************************************************)
(* The Volume there is, is written.                                        *)
(***************************************************************************)
LEMMA WrittenServing ==
    ASSUME ServingInv, vol'.uid = vol.uid, pv.uid # 0 => vol'.phase # "",
           UNCHANGED <<volCache, pv, pvSynced, pvCache, devices, sent, running,
                       jobs, storage>>
    PROVE  /\ PvInv' /\ Withdrawn' = Withdrawn
           /\ Creating(volCache)' = Creating(volCache)
           /\ \A v : ProgressInv(v) => ProgressInv(v)'
           /\ FailureRecorded(volCache)' /\ ProgressInv(volCache)'
  <1>1. Withdrawn' = Withdrawn /\ Creating(volCache)' = Creating(volCache)
    BY DEF Withdrawn, Creating, Same
  <1>2. PvOwned /\ PvBacked /\ PvInv
    BY DEF ServingInv, PvInv
  <1>3. PvInv'
    <2>1. PvOwned'
      BY <1>2 DEF PvOwned
    <2>2. AtNode("UnprepareVolume")' = AtNode("UnprepareVolume")
      BY DEF AtNode, Sent
    <2>3. PvBacked'
      BY <1>1, <1>2, <2>2 DEF PvBacked
    <2> QED
      BY <1>2, <2>1, <2>3 DEF PvInv
  <1>4. ASSUME NEW v, ProgressInv(v) PROVE ProgressInv(v)'
    <2>1. Same(v)' = Same(v) /\ CacheRetired' = CacheRetired
      BY DEF Same, CacheRetired
    <2> QED
      BY <1>4, <2>1, ProgressKept
  <1>5. FailureRecorded(volCache)' /\ ProgressInv(volCache)'
    <2>1. PICK c : c = volCache
      OBVIOUS
    <2>2. FailureRecorded(c) /\ ProgressInv(c)
      BY <2>1 DEF ServingInv, ProgressesInv
    <2>3. ProgressInv(c)' /\ c = volCache'
      BY <1>4, <2>1, <2>2
    <2> QED
      BY <2>2, <2>3
  <1> QED
    BY <1>1, <1>3, <1>4, <1>5

\* A user deletes the Volume: its status stays.
LEMMA DeletedServing ==
    ASSUME TypeOK, VolumeInv, ReclaimInv, ServingInv, DeleteVolume
    PROVE  ServingInv'
  <1>1. /\ vol.uid # 0 /\ ~vol.deleted
        /\ vol' = IF vol.fin THEN [vol EXCEPT !.deleted = TRUE] ELSE NoVolume
        /\ rec' = [rec EXCEPT !.vFresh = @ /\ vol' = vol]
        /\ UNCHANGED <<volCache, pv, pvSynced, pvCache, devices, sent, running,
                       jobs, storage>>
    BY DEF DeleteVolume, OthersWriteVolume, WriteVolume, caches, saltVars,
           nodeVars, pvVars
  <1>2. vol' # vol
    <2>1. CASE vol.fin
      <3>1. vol'.deleted
        BY <1>1, <2>1, StateTypes DEF VolumeObject
      <3> QED
        BY <1>1, <3>1
    <2>2. CASE ~vol.fin
      BY <1>1, <2>2, NullSound
    <2> QED
      BY <2>1, <2>2
  <1>3. /\ rec'.pc = rec.pc /\ rec'.v = rec.v /\ rec'.job = rec.job
        /\ rec'.next = rec.next /\ ~rec'.vFresh
    BY <1>1, <1>2, StateTypes DEF Reconciliation
  <1>4. CASE ~vol.fin
    <2>1. vol' = NoVolume
      BY <1>1, <1>4
    <2>2. NoVolume.phase = "" /\ NoVolume.job = "" /\ NoVolume.jid = NoId
      BY DEF NoVolume
    <2>3. vol'.phase = "" /\ vol'.job = "" /\ vol'.jid = NoId /\ vol'.uid = 0
      BY <2>1, <2>2, NullSound
    <2>4. pv.uid = 0
      BY <1>4 DEF ServingInv, PvInv, PvOwned, VolumeInv, ObjectsInv, Protects
    <2>5. rec.pc # "create"
      <3>1. rec.pc = "create" => rec.v.fin /\ Same(rec.v)
        BY PassFacts DEF ServingInv, CreatingInv, Creating
      <3>2. Same(rec.v) /\ rec.v.fin => vol.fin
        BY DEF VolumeInv, CopyInv, Same
      <3> QED
        BY <1>4, <3>1, <3>2
    <2> QED
      BY <1>1, <1>3, <2>3, <2>4, <2>5, NewServing
  <1>5. CASE vol.fin
    <2>1. /\ vol'.uid = vol.uid /\ vol'.valid = vol.valid
          /\ vol'.phase = vol.phase /\ vol'.reason = vol.reason
          /\ vol'.job = vol.job /\ vol'.jid = vol.jid
      BY <1>1, <1>5, StateTypes DEF VolumeObject
    <2>2. pv.uid # 0 => vol'.phase # ""
      BY <2>1 DEF ServingInv, PvInv, PvOwned
    <2>3. /\ PvInv' /\ Withdrawn' = Withdrawn
          /\ Creating(volCache)' = Creating(volCache)
          /\ \A v : ProgressInv(v) => ProgressInv(v)'
          /\ FailureRecorded(volCache)' /\ ProgressInv(volCache)'
      BY <1>1, <2>1, <2>2, WrittenServing
    <2>4. ProgressesInv /\ CreatingInv /\ UnusedInv /\ RefreshReason
      BY DEF ServingInv
    <2>5. FailureRecorded(vol)'
      BY <2>1, <2>4 DEF ProgressesInv, FailureRecorded
    <2>6. ProgressInv(vol)'
      <3>1. PICK w : w = vol'
        OBVIOUS
      <3>2. PICK v : v = vol
        OBVIOUS
      <3>3. ProgressInv(v)
        BY <2>4, <3>2 DEF ProgressesInv
      <3>4. w.uid = v.uid /\ w.job = v.job /\ w.jid = v.jid
        BY <2>1, <3>1, <3>2
      <3>5. Same(w) /\ Healthy(w) => pv.uid = w.uid
        BY <2>1, <3>1, <3>2, <3>3 DEF ProgressInv, Healthy, Same
      <3>6. ProgressInv(w)
        BY <3>3, <3>4, <3>5, ProgressOf
      <3>7. ProgressInv(w)'
        BY <2>3, <3>6
      <3> QED
        BY <3>1, <3>7
    <2>7. FailureRecorded(rec.v)' /\ ProgressInv(rec.v)'
      <3>1. PICK r : r = rec.v
        OBVIOUS
      <3>2. FailureRecorded(r) /\ ProgressInv(r) /\ r = rec'.v
        BY <1>3, <2>4, <3>1 DEF ProgressesInv
      <3>3. ProgressInv(r)'
        BY <2>3, <3>2
      <3> QED
        BY <3>2, <3>3
    <2>8. ProgressesInv'
      BY <2>3, <2>5, <2>6, <2>7 DEF ProgressesInv
    <2>9. CreatingInv'
      <3>1. Creating(rec.v)' = Creating(rec.v)
        BY <1>3, <2>1 DEF Creating, Same
      <3> QED
        BY <1>1, <1>3, <2>1, <2>3, <2>4, <3>1 DEF CreatingInv
    <2>10. UnusedInv'
      BY <1>1, <1>3, <2>3, <2>4 DEF UnusedInv
    <2>11. RefreshReason'
      BY <1>3, <2>4 DEF RefreshReason
    <2>12. PhaseInv'
      BY <1>3 DEF PhaseInv
    <2> QED
      BY <2>3, <2>8, <2>9, <2>10, <2>11, <2>12 DEF ServingInv
  <1> QED
    BY <1>4, <1>5

\* addVolumeFinalizer: nothing but the finalizer changes.
LEMMA ProtectServing ==
    ASSUME TypeOK, VolumeInv, ReclaimInv, ServingInv, AddVolumeFinalizer
    PROVE  ServingInv'
  <1>1. /\ rec.pc = "finalizer" /\ rec.vFresh
        /\ UNCHANGED <<volCache, pv, pvSynced, pvCache, devices, sent, running,
                       jobs, storage>>
        /\ vol' = [vol EXCEPT !.fin = TRUE]
        /\ rec' = [rec EXCEPT !.pc = "submit", !.v.fin = TRUE]
    BY DEF AddVolumeFinalizer, IsCurrent, WriteVolume, caches, saltVars,
           nodeVars, pvVars
  <1>2. /\ vol'.uid = vol.uid /\ vol'.valid = vol.valid
        /\ vol'.phase = vol.phase /\ vol'.reason = vol.reason
        /\ vol'.job = vol.job /\ vol'.jid = vol.jid
    BY <1>1, StateTypes DEF VolumeObject
  <1>3. /\ rec'.pc = "submit" /\ rec'.vFresh = rec.vFresh
        /\ rec'.job = rec.job /\ rec'.next = rec.next
        /\ rec'.v = [rec.v EXCEPT !.fin = TRUE]
    BY <1>1, StateTypes DEF Reconciliation
  <1>4. /\ rec'.v.uid = rec.v.uid /\ rec'.v.valid = rec.v.valid
        /\ rec'.v.phase = rec.v.phase /\ rec'.v.reason = rec.v.reason
        /\ rec'.v.job = rec.v.job /\ rec'.v.jid = rec.v.jid
    BY <1>3, StateTypes DEF VolumeObject
  <1>5. rec.job = "PrepareVolume"
    BY <1>1 DEF VolumeInv, PassInv, StepSound
  <1>6. pv.uid # 0 => vol'.phase # ""
    BY <1>2 DEF ServingInv, PvInv, PvOwned
  <1>7. /\ PvInv' /\ Withdrawn' = Withdrawn
        /\ Creating(volCache)' = Creating(volCache)
        /\ \A v : ProgressInv(v) => ProgressInv(v)'
        /\ FailureRecorded(volCache)' /\ ProgressInv(volCache)'
    BY <1>1, <1>2, <1>6, WrittenServing
  <1>8. ProgressesInv /\ CreatingInv /\ RefreshReason /\ PhaseInv
    BY DEF ServingInv
  <1>9. ASSUME NEW v, NEW w, ProgressInv(v), w.uid = v.uid,
               w.phase = v.phase, w.reason = v.reason,
               w.job = v.job, w.jid = v.jid
        PROVE  ProgressInv(w)'
    <2>1. Same(w) /\ Healthy(w) => pv.uid = w.uid
      BY <1>9 DEF ProgressInv, Healthy, Same
    <2>2. ProgressInv(w)
      BY <1>9, <2>1, ProgressOf
    <2> QED
      BY <1>7, <2>2
  <1>10. FailureRecorded(vol)' /\ FailureRecorded(rec.v)'
    BY <1>2, <1>4, <1>8 DEF ProgressesInv, FailureRecorded
  <1>11. ProgressInv(vol)'
    <2>1. PICK w : w = vol'
      OBVIOUS
    <2>2. PICK v : v = vol
      OBVIOUS
    <2>3. ProgressInv(v)
      BY <1>8, <2>2 DEF ProgressesInv
    <2>4. ProgressInv(w)'
      BY <1>2, <1>9, <2>1, <2>2, <2>3
    <2> QED
      BY <2>1, <2>4
  <1>12. ProgressInv(rec.v)'
    <2>1. PICK w : w = rec'.v
      OBVIOUS
    <2>2. PICK v : v = rec.v
      OBVIOUS
    <2>3. ProgressInv(v)
      BY <1>8, <2>2 DEF ProgressesInv
    <2>4. ProgressInv(w)'
      BY <1>4, <1>9, <2>1, <2>2, <2>3
    <2> QED
      BY <2>1, <2>4
  <1>13. ProgressesInv'
    BY <1>7, <1>10, <1>11, <1>12 DEF ProgressesInv
  <1>14. CreatingInv'
    BY <1>1, <1>2, <1>3, <1>5, <1>7, <1>8 DEF CreatingInv
  <1>15. UnusedInv'
    BY <1>3, <1>5 DEF UnusedInv
  <1>16. RefreshReason'
    BY <1>1, <1>3, <1>8 DEF RefreshReason
  <1>17. PhaseInv'
    BY <1>1, <1>2, <1>3, <1>8 DEF PhaseInv
  <1> QED
    BY <1>7, <1>13, <1>14, <1>15, <1>16, <1>17 DEF ServingInv

\* updateVolumeStatus.
LEMMA StatusWrittenServing ==
    ASSUME TypeOK, VolumeInv, ReclaimInv, ServingInv, UpdateVolumeStatus
    PROVE  ServingInv'
  <1>1. /\ rec.pc = "status" /\ rec.vFresh
        /\ UNCHANGED <<volCache, pv, pvSynced, pvCache, devices, sent, running,
                       jobs, storage>>
        /\ vol' = [vol EXCEPT
              !.phase = rec.v.phase, !.reason = rec.v.reason,
              !.job = rec.v.job, !.jid = rec.v.jid, !.named = rec.v.named]
    BY DEF UpdateVolumeStatus, IsCurrent, WriteVolume, caches, saltVars,
           nodeVars, pvVars
  <1>2. /\ vol'.uid = vol.uid /\ vol'.valid = vol.valid
        /\ vol'.phase = rec.v.phase /\ vol'.reason = rec.v.reason
        /\ vol'.job = rec.v.job /\ vol'.jid = rec.v.jid
    BY <1>1, StateTypes DEF VolumeObject
  <1>3. rec.v.uid = vol.uid /\ rec.v.valid = vol.valid
    BY <1>1 DEF VolumeInv, CopyInv, SameMetadata
  <1>4. /\ rec.v.phase \in {vol.phase} \cup NextPhases(vol)
        /\ rec.v.phase = "Failed" /\ rec.v.reason = "CreationError" =>
              volSynced /\ vol.jid \in Jids
    BY <1>1 DEF ServingInv, PhaseInv
  <1>5. vol.phase # "" => rec.v.phase # ""
    BY <1>4, StateTypes DEF NextPhases, VolumeObject, Phases
  <1>6. pv.uid # 0 => vol'.phase # ""
    BY <1>2, <1>5 DEF ServingInv, PvInv, PvOwned
  <1>7. /\ PvInv' /\ Withdrawn' = Withdrawn
        /\ Creating(volCache)' = Creating(volCache)
        /\ \A v : ProgressInv(v) => ProgressInv(v)'
        /\ FailureRecorded(volCache)' /\ ProgressInv(volCache)'
    BY <1>1, <1>2, <1>6, WrittenServing
  <1>8. ProgressesInv /\ CreatingInv /\ RefreshReason
    BY DEF ServingInv
  <1>9. \/ rec' = Idle
        \/ /\ rec'.pc = rec.next /\ rec'.next = "idle" /\ rec'.v = rec.v
           /\ rec.next \in {"pvStatus", "refresh"}
    <2>1. CASE rec.next = "idle"
      BY <2>1 DEF UpdateVolumeStatus, Requeue
    <2>2. CASE rec.next # "idle"
      <3>1. rec' = [rec EXCEPT !.pc = rec.next, !.next = "idle"]
        BY <2>2 DEF UpdateVolumeStatus
      <3> QED
        BY <2>2, <3>1, StateTypes DEF Reconciliation
    <2> QED
      BY <2>1, <2>2
  <1>10. rec'.pc \in {"idle", "pvStatus", "refresh"} /\ rec'.next # "refresh"
    BY <1>9, NullSound
  <1>11. ProgressesInv'
    <2>1. PICK r : r = rec.v
      OBVIOUS
    <2>2. FailureRecorded(r) /\ ProgressInv(r)
      BY <1>8, <2>1 DEF ProgressesInv
    <2>3. ProgressInv(r)'
      BY <1>7, <2>2
    <2>4. FailureRecorded(vol)'
      BY <1>2, <1>3, <2>1, <2>2 DEF FailureRecorded
    <2>5. ProgressInv(vol)'
      <3>1. PICK w : w = vol'
        OBVIOUS
      <3>2. /\ w.uid = r.uid /\ w.phase = r.phase /\ w.reason = r.reason
            /\ w.job = r.job /\ w.jid = r.jid
        BY <1>2, <1>3, <2>1, <3>1
      <3>3. Same(w) /\ Healthy(w) => pv.uid = w.uid
        BY <2>2, <3>2 DEF ProgressInv, Healthy, Same
      <3>4. ProgressInv(w)
        BY <2>2, <3>2, <3>3, ProgressOf
      <3>5. ProgressInv(w)'
        BY <1>7, <3>4
      <3> QED
        BY <3>1, <3>5
    <2>6. FailureRecorded(rec.v)' /\ ProgressInv(rec.v)'
      <3>1. CASE rec' = Idle
        BY <3>1, IdleProgress
      <3>2. CASE rec'.v = rec.v
        <4>1. r = rec'.v
          BY <2>1, <3>2
        <4> QED
          BY <2>2, <2>3, <4>1
      <3> QED
        BY <1>9, <3>1, <3>2
    <2> QED
      BY <1>7, <2>4, <2>5, <2>6 DEF ProgressesInv
  <1>12. Creating(volCache) => rec.v.phase = "Pending" \/ pv.uid # 0
    <2> SUFFICES ASSUME Creating(volCache), pv.uid = 0
                 PROVE  rec.v.phase = "Pending"
      OBVIOUS
    <2>1. /\ Same(volCache) /\ ~Retired(volCache)
          /\ volCache.job = "GetDeviceInfo" /\ volCache.jid = DoneMarker
      BY DEF Creating
    <2>2. Same(rec.v)
      BY <1>3, <2>1 DEF Same
    <2>3. vol.phase = "Pending"
      BY <1>8 DEF CreatingInv
    <2>4. rec.v.phase \in {"Pending", "Available", "Failed"}
      BY <1>4, <2>3 DEF NextPhases
    <2>5. ~Healthy(rec.v)
      BY <1>8, <2>2 DEF ProgressesInv, ProgressInv, Same
    <2>6. rec.v.phase # "Failed"
      <3> SUFFICES ASSUME rec.v.phase = "Failed" PROVE FALSE
        OBVIOUS
      <3>1. /\ rec.v.reason # ""
            /\ rec.v.reason = "InternalError" => ~rec.v.valid
        BY <1>8 DEF ProgressesInv, FailureRecorded
      <3>2. rec.v.reason # "InternalError"
        <4>1. volCache.valid = vol.valid
          BY <2>1 DEF ReclaimInv, CopiesInv
        <4>2. volCache.valid
          BY <2>1, CacheSound
        <4> QED
          BY <1>3, <3>1, <4>1, <4>2
      <3>3. rec.v.reason # "CreationError"
        <4>1. volSynced => volCache = vol
          BY DEF VolumeInv, ObjectsInv
        <4> QED
          BY <1>4, <2>1, <4>1, Handles
      <3>4. rec.v.reason # "UnavailableError"
        BY <2>5 DEF Healthy
      <3>5. rec.v.reason # "DestructionError"
        <4>1. rec.v.reason = "DestructionError" =>
                  rec.v.job = "UnprepareVolume"
          BY PassFacts DEF StatusConsistent
        <4>2. rec.v.job = "UnprepareVolume" => CacheRetired
          BY <2>2 DEF ReclaimInv, ReasonInv
        <4> QED
          BY <2>1, <4>1, <4>2 DEF CacheRetired
      <3>6. rec.v.reason \in Reasons
        BY StateTypes DEF VolumeObject
      <3> QED
        BY <3>1, <3>2, <3>3, <3>4, <3>5, <3>6 DEF Reasons
    <2> QED
      BY <2>4, <2>5, <2>6 DEF Healthy
  <1>13. CreatingInv'
    BY <1>1, <1>2, <1>7, <1>10, <1>12 DEF CreatingInv
  <1>14. UnusedInv'
    BY <1>10 DEF UnusedInv
  <1>15. RefreshReason'
    <2>1. CASE rec' = Idle
      BY <2>1, IdlePassServing
    <2>2. CASE rec'.pc = rec.next /\ rec'.next = "idle" /\ rec'.v = rec.v
      BY <1>8, <2>2 DEF RefreshReason
    <2> QED
      BY <1>9, <2>1, <2>2
  <1>16. PhaseInv'
    BY <1>10 DEF PhaseInv
  <1> QED
    BY <1>7, <1>11, <1>13, <1>14, <1>15, <1>16 DEF ServingInv

-----------------------------------------------------------------------------
(***************************************************************************)
(* The operator learns what the Volume is, or starts afresh.               *)
(***************************************************************************)
\* What a failure leaves of a status is nothing to create from.
LEMMA CreatingPhase ==
    ASSUME TypeOK, VolumeInv, ServingInv, Creating(vol)
    PROVE  vol.phase = "Pending" \/ pv.uid # 0
  <1> SUFFICES ASSUME pv.uid = 0 PROVE vol.phase = "Pending"
    OBVIOUS
  <1>1. /\ vol.uid # 0 /\ Same(vol)
        /\ vol.job = "GetDeviceInfo" /\ vol.jid = DoneMarker
    BY DEF Creating, Same
  <1>2. StatusConsistent(vol) /\ (~vol.valid => vol.job = "")
    BY DEF VolumeInv, ObjectsInv, Sound
  <1>3. vol.phase \in Phases /\ vol.reason \in Reasons
    BY StateTypes DEF VolumeObject
  <1>4. FailureRecorded(vol) /\ ProgressInv(vol)
    BY DEF ServingInv, ProgressesInv
  <1>5. ~Healthy(vol)
    BY <1>1, <1>4 DEF ProgressInv
  <1>6. vol.phase \in {"Pending", "Failed"}
    BY <1>1, <1>2, <1>3 DEF StatusConsistent, Phases
  <1>7. ASSUME vol.phase = "Failed" PROVE FALSE
    <2>1. vol.reason # "" /\ vol.reason # "InternalError"
      BY <1>1, <1>2, <1>4, <1>7 DEF FailureRecorded
    <2>2. vol.reason # "CreationError"
      BY <1>1, <1>4, <1>7, Handles DEF FailureRecorded
    <2>3. vol.reason # "DestructionError"
      BY <1>1, <1>2, <1>7 DEF StatusConsistent
    <2>4. vol.reason # "UnavailableError"
      BY <1>5, <1>7 DEF Healthy
    <2> QED
      BY <1>3, <2>1, <2>2, <2>3, <2>4 DEF Reasons
  <1> QED
    BY <1>6, <1>7

LEMMA SyncServing ==
    ASSUME TypeOK, VolumeInv, ReclaimInv, ServingInv,
           SyncVolume \/ OperatorRestart
    PROVE  ServingInv'
  <1>1. /\ volCache' = vol /\ volSynced' = TRUE
        /\ UNCHANGED <<vol, pv, sent, running, jobs, storage>>
        /\ pvCache' = pv \/ UNCHANGED <<pvCache, pvSynced>>
        /\ devices' \in {0, devices}
        /\ rec' = rec \/ rec' = Idle
    BY DEF SyncVolume, OperatorRestart, saltVars, nodeVars, pvVars
  <1>2. PvInv /\ ProgressesInv /\ CreatingInv /\ UnusedInv /\ RefreshReason
        /\ PhaseInv
    BY DEF ServingInv
  <1>3. PvInv'
    <2>1. PvOwned' /\ Withdrawn' = Withdrawn
      BY <1>1, <1>2 DEF PvInv, PvOwned, Withdrawn
    <2>2. AtNode("UnprepareVolume")' = AtNode("UnprepareVolume")
      BY <1>1 DEF AtNode, Sent
    <2>3. PvBacked'
      BY <1>1, <1>2, <2>1, <2>2 DEF PvInv, PvBacked
    <2>4. pvSynced' => pvCache' = pv'
      BY <1>1, <1>2 DEF PvInv
    <2> QED
      BY <2>1, <2>3, <2>4 DEF PvInv
  <1>4. CacheRetired => CacheRetired'
    BY <1>1 DEF CacheRetired, ReclaimInv, CopiesInv, Same
  <1>5. ASSUME NEW v, ProgressInv(v) PROVE ProgressInv(v)'
    <2>1. Same(v)' = Same(v)
      BY <1>1 DEF Same
    <2>2. /\ devices' \in {0, devices, v.uid}
          /\ pv'.uid \in {pv.uid, v.uid}
          /\ UNCHANGED <<sent, running, jobs, storage>>
      BY <1>1
    <2> QED
      BY <1>4, <1>5, <2>1, <2>2, ProgressKept
  <1>6. ProgressesInv'
    <2>1. PICK v : v = vol
      OBVIOUS
    <2>2. PICK r : r = rec.v
      OBVIOUS
    <2>3. /\ FailureRecorded(v) /\ ProgressInv(v)
          /\ FailureRecorded(r) /\ ProgressInv(r)
      BY <1>2, <2>1, <2>2 DEF ProgressesInv
    <2>4. ProgressInv(v)' /\ ProgressInv(r)'
      BY <1>5, <2>3
    <2>5. /\ FailureRecorded(vol)' /\ ProgressInv(vol)'
          /\ FailureRecorded(volCache)' /\ ProgressInv(volCache)'
      <3>1. v = vol' /\ v = volCache'
        BY <1>1, <2>1
      <3> QED
        BY <2>3, <2>4, <3>1
    <2>6. FailureRecorded(rec.v)' /\ ProgressInv(rec.v)'
      <3>1. CASE rec' = Idle
        BY <3>1, IdleProgress
      <3>2. CASE rec' = rec
        <4>1. r = rec'.v
          BY <2>2, <3>2
        <4> QED
          BY <2>3, <2>4, <4>1
      <3> QED
        BY <1>1, <3>1, <3>2
    <2> QED
      BY <2>5, <2>6 DEF ProgressesInv
  <1>7. Creating(volCache)' => vol'.phase = "Pending" \/ pv'.uid # 0
    <2>1. PICK v : v = vol
      OBVIOUS
    <2>2. Creating(v)' = Creating(v)
      BY <1>1 DEF Creating, Same
    <2>3. v = volCache'
      BY <1>1, <2>1
    <2>4. Creating(volCache)' => Creating(v)
      BY <2>2, <2>3
    <2> QED
      BY <1>1, <2>1, <2>4, CreatingPhase
  <1>8. CASE rec' = Idle
    <2>1. rec'.pc = "idle" /\ UnusedInv' /\ RefreshReason' /\ PhaseInv'
      BY <1>8, IdlePassServing
    <2>2. CreatingInv'
      BY <1>7, <2>1 DEF CreatingInv
    <2> QED
      BY <1>3, <1>6, <2>1, <2>2 DEF ServingInv
  <1>9. CASE rec' = rec
    <2>1. UnusedInv'
      BY <1>1, <1>2, <1>9 DEF UnusedInv, Withdrawn
    <2>2. RefreshReason'
      BY <1>2, <1>9 DEF RefreshReason
    <2>3. PhaseInv'
      BY <1>1, <1>2, <1>9 DEF PhaseInv, NextPhases
    <2>4. CreatingInv'
      <3>1. Creating(rec.v)' = Creating(rec.v)
        BY <1>1, <1>9 DEF Creating, Same
      <3> QED
        BY <1>1, <1>2, <1>7, <1>9, <3>1 DEF CreatingInv
    <2> QED
      BY <1>3, <1>6, <2>1, <2>2, <2>3, <2>4 DEF ServingInv
  <1> QED
    BY <1>1, <1>8, <1>9

-----------------------------------------------------------------------------
(***************************************************************************)
(* The invariant, and what it says.                                        *)
(***************************************************************************)
LEMMA InitServing == Init => ServingInv
  <1> SUFFICES ASSUME Init PROVE ServingInv
    OBVIOUS
  <1>1. /\ vol = NoVolume /\ volCache = NoVolume
        /\ pv = NoPv /\ pvCache = NoPv /\ rec = Idle
    BY DEF Init
  <1>2. NoVolume.phase = "" /\ NoVolume.job = "" /\ NoVolume.jid = NoId
    BY DEF NoVolume
  <1>3. vol.uid = 0 /\ pv.uid = 0 /\ rec.v = NoVolume
    BY <1>1, NullSound
  <1>4. PvInv
    BY <1>1, <1>3 DEF PvInv, PvOwned, PvBacked, Withdrawn
  <1>5. ASSUME NEW v \in {vol, volCache, rec.v}
        PROVE  FailureRecorded(v) /\ ProgressInv(v)
    <2>1. v = NoVolume
      BY <1>1, <1>3
    <2>2. ~Same(v)
      BY <2>1, NullSound DEF Same
    <2>3. v.phase = ""
      BY <1>2, <2>1
    <2> QED
      BY <2>2, <2>3 DEF FailureRecorded, ProgressInv
  <1>6. ~Same(volCache)
    BY <1>1, NullSound DEF Same
  <1>7. rec.pc = "idle" /\ rec.next = "idle" /\ ~rec.vFresh
    BY <1>1, NullSound
  <1>8. CreatingInv
    BY <1>6, <1>7 DEF CreatingInv, Creating
  <1>9. UnusedInv /\ RefreshReason /\ PhaseInv
    BY <1>7 DEF UnusedInv, RefreshReason, PhaseInv
  <1> QED
    BY <1>4, <1>5, <1>8, <1>9 DEF ServingInv, ProgressesInv

LEMMA NextServing ==
    ASSUME TypeOK, VolumeInv, ReclaimInv, ServingInv, [Next]_vars,
           "PersistentVolume" \notin CacheMayLag
    PROVE  ServingInv'
  <1>1. CASE Reconcile
    BY <1>1, ReconcileServing
  <1>2. CASE Conflict \/ SubmitRefused \/ PollStillRunning \/ CallFails
    BY <1>2, StoppedServing
  <1>3. CASE AddVolumeFinalizer
    BY <1>3, ProtectServing
  <1>4. CASE UpdateVolumeStatus
    BY <1>4, StatusWrittenServing
  <1>5. CASE \/ Cluster \/ UserDeletesPv \/ BindPv \/ FailPv
             \/ UpdatePvStatus \/ DeletePv
    BY <1>5, PvServing
  <1>6. CASE RefreshDeviceName
    BY <1>6, RefreshServing
  <1>7. CASE CreatePersistentVolume
    BY <1>7, CreatePvServing
  <1>8. CASE RemovePvFinalizer
    BY <1>8, UnprotectServing
  <1>9. CASE RemoveVolumeFinalizer
    BY <1>9, ReleaseServing
  <1>10. CASE SubmitJob \/ SubmitAnswerLost
    BY <1>10, SubmitServing
  <1>11. CASE PollSucceeded
    BY <1>11, SucceededServing
  <1>12. CASE PollFailed \/ PollRetry
    BY <1>12, RetriedServing
  <1>13. CASE SyncVolume \/ OperatorRestart
    BY <1>13, SyncServing
  <1>14. CASE SyncPv
    BY <1>14, SyncPvServing
  <1>15. CASE \/ MinionStep \/ RejectStateJob \/ FailStateJob \/ MinionRestart
              \/ \E j \in Jids : ForgetJob(j)
    BY <1>15, NodeServing
  <1>16. CASE CreateVolume
    BY <1>16, CreatedServing
  <1>17. CASE DeleteVolume
    BY <1>17, DeletedServing
  <1>18. CASE UNCHANGED vars
    <2>1. /\ UNCHANGED <<vol, volSynced, volCache, pv, pvSynced, pvCache,
                         devices, sent, running, jobs, storage>>
          /\ rec' = rec
      BY <1>18 DEF vars, volVars, pvVars, caches, saltVars, nodeVars
    <2> QED
      BY <2>1, SameServing
  <1>19. CASE OperatorStep
    BY <1>2, <1>3, <1>4, <1>5, <1>6, <1>7, <1>8, <1>9, <1>10, <1>11, <1>12,
       <1>19 DEF OperatorStep
  <1>20. CASE ClassChanges
    BY <1>20, ClassFrame, SameServing DEF volVars, pvVars, caches, saltVars
  <1> QED
    BY <1>1, <1>2, <1>5, <1>10, <1>13, <1>14, <1>15, <1>16, <1>17, <1>18,
       <1>19, <1>20 DEF Next

\* The storage, the jobs, the objects and every copy of them agree: no bound,
\* no job that is forgotten and no outdated Volume breaks it.
THEOREM StorageInvariant == Spec => [](TypeOK /\ VolumeInv /\ StorageInv)
  <1>1. Init => TypeOK /\ VolumeInv /\ StorageInv
    BY InitTypeOK, InitInv, InitReclaim, InitServing DEF StorageInv
  <1>2. TypeOK /\ VolumeInv /\ StorageInv /\ [Next]_vars
            => (TypeOK /\ VolumeInv /\ StorageInv)'
    <2> SUFFICES ASSUME TypeOK, VolumeInv, StorageInv, [Next]_vars
                 PROVE  (TypeOK /\ VolumeInv /\ StorageInv)'
      OBVIOUS
    <2>1. TypeOK' /\ VolumeInv' /\ ReclaimInv'
      BY NextType, NextInv, NextReclaim DEF StorageInv
    <2>2. "PersistentVolume" \notin CacheMayLag => ServingInv'
      BY NextServing DEF StorageInv
    <2> QED
      BY <2>1, <2>2 DEF StorageInv
  <1> QED
    BY <1>1, <1>2, PTL DEF Spec

\* Every copy of a Volume, every job at the node and the storage they speak of
\* agree (the invariant of the run that states it).
THEOREM StorageSound == Spec => []StorageInv
  BY StorageInvariant, PTL

\* A PersistentVolume names the device of the Volume that owns it, whatever
\* device info the operator and the minion remember of an earlier Volume of the
\* same name (createPersistentVolume, ReconcileVolume.devices).
THEOREM DevicesMatch ==
    ASSUME "PersistentVolume" \notin CacheMayLag
    PROVE  Spec => []PvDeviceMatchesOwner
  <1>1. StorageInv => PvDeviceMatchesOwner
    BY DEF StorageInv, ServingInv, PvInv, PvOwned, PvDeviceMatchesOwner
  <1> QED
    BY <1>1, StorageInvariant, PTL

\* Storage a claim uses or may come to use is there: finalizeVolume only spawns
\* a removal once the PersistentVolume is on its way out and unused.
THEOREM StorageServed ==
    ASSUME "PersistentVolume" \notin CacheMayLag
    PROVE  Spec => []ServedStorageKept
  <1>1. StorageInv => ServedStorageKept
    BY DEF StorageInv, ServingInv, PvInv, PvOwned, PvBacked, Withdrawn,
           ServedStorageKept
  <1> QED
    BY <1>1, StorageInvariant, PTL

\* The Volume outlives its PersistentVolume: its finalizer is only removed once
\* the PersistentVolume is gone, and none is created for a Volume that is gone.
THEOREM PersistentVolumeGoesFirst ==
    ASSUME "PersistentVolume" \notin CacheMayLag
    PROVE  Spec => []VolumeOutlivesPv
  <1>1. StorageInv => VolumeOutlivesPv
    BY DEF StorageInv, ServingInv, PvInv, PvOwned, VolumeOutlivesPv
  <1> QED
    BY <1>1, StorageInvariant, PTL

\* What a step does to the Volume there is: only a status that a pass has
\* recorded changes the phase of an incarnation.
LEMMA PhaseMoves ==
    ASSUME TypeOK, [Next]_vars, vol'.uid = vol.uid, vol.uid # 0,
           vol'.phase # vol.phase
    PROVE  UpdateVolumeStatus
  <1>1. vol \in VolumeObject
    BY StateTypes
  <1>2. ~(UNCHANGED vol)
    OBVIOUS
  <1>3. ~Reconcile
    BY <1>2
       DEF Reconcile, ReconcileNothing, ReconcileInvalid,
           ReconcileNameConflict, PrepareStorage, GetStorageSize,
           CheckHealth, FinalizeDeletePv, FinalizeWait, ReclaimStorage, Read,
           volVars
  <1>4. ~AddVolumeFinalizer
    <2> SUFFICES ASSUME AddVolumeFinalizer PROVE FALSE
      OBVIOUS
    <2>1. vol' = [vol EXCEPT !.fin = TRUE]
      BY DEF AddVolumeFinalizer, WriteVolume
    <2>2. vol'.phase = vol.phase
      BY <1>1, <2>1 DEF VolumeObject
    <2> QED
      BY <2>2
  <1>5. ~RemoveVolumeFinalizer
    <2> SUFFICES ASSUME RemoveVolumeFinalizer PROVE FALSE
      OBVIOUS
    <2>1. vol' = IF vol.deleted THEN NoVolume ELSE [vol EXCEPT !.fin = FALSE]
      BY DEF RemoveVolumeFinalizer, WriteVolume
    <2>2. CASE vol.deleted
      BY <2>1, <2>2, NullSound
    <2>3. CASE ~vol.deleted
      <3>1. vol'.phase = vol.phase
        BY <1>1, <2>1, <2>3 DEF VolumeObject
      <3> QED
        BY <3>1
    <2> QED
      BY <2>2, <2>3
  <1>6. OperatorStep => UpdateVolumeStatus
    BY <1>2, <1>4, <1>5
       DEF OperatorStep, Conflict, UpdatePvStatus, RefreshDeviceName,
           CreatePersistentVolume, DeletePv, RemovePvFinalizer, SubmitJob,
           SubmitRefused, PollStillRunning, PollSucceeded, PollFailed,
           PollRetry, volVars
  <1>7. ~(SubmitAnswerLost \/ CallFails \/ OperatorRestart)
    BY <1>2 DEF SubmitAnswerLost, CallFails, OperatorRestart, volVars
  <1>8. ~(\/ MinionStep \/ RejectStateJob \/ FailStateJob \/ MinionRestart
          \/ \E j \in Jids : ForgetJob(j))
    BY <1>2
       DEF MinionStep, StartStateJob, DeviceInfo, FinishPrepare,
           FinishUnprepare, RejectStateJob, FailStateJob, MinionRestart,
           ForgetJob, volVars
  <1>9. ~CreateVolume
    BY DEF CreateVolume
  <1>10. ~DeleteVolume
    <2> SUFFICES ASSUME DeleteVolume PROVE FALSE
      OBVIOUS
    <2>1. vol' = IF vol.fin THEN [vol EXCEPT !.deleted = TRUE] ELSE NoVolume
      BY DEF DeleteVolume, OthersWriteVolume, WriteVolume
    <2>2. CASE vol.fin
      <3>1. vol'.phase = vol.phase
        BY <1>1, <2>1, <2>2 DEF VolumeObject
      <3> QED
        BY <3>1
    <2>3. CASE ~vol.fin
      BY <2>1, <2>3, NullSound
    <2> QED
      BY <2>2, <2>3
  <1>11. ~(Cluster \/ UserDeletesPv \/ BindPv \/ FailPv \/ SyncVolume \/ SyncPv)
    BY <1>2
       DEF Cluster, PublishPv, ReleasePv, UnprotectPv, CollectPv,
           UserDeletesPv, BindPv, FailPv, OthersWritePv, SyncVolume, SyncPv,
           volVars
  <1>12. ~(UNCHANGED vars)
    BY <1>2 DEF vars, volVars
  <1>13. ~ClassChanges
    BY <1>2, ClassFrame DEF volVars
  <1> QED
    BY <1>3, <1>6, <1>7, <1>8, <1>9, <1>10, <1>11, <1>12, <1>13 DEF Next

\* The phases of an incarnation follow one another as they should: a pass whose
\* copy is outdated cannot write a phase it decided from it.
THEOREM PhasesInOrder ==
    ASSUME "PersistentVolume" \notin CacheMayLag
    PROVE  Spec => PhasesFollowed
  <1>1. TypeOK /\ VolumeInv /\ StorageInv /\ [Next]_vars =>
            [vol.uid # 0 /\ vol'.uid = vol.uid /\ vol'.phase # vol.phase
                => vol'.phase \in NextPhases(vol)]_vars
    <2> SUFFICES ASSUME TypeOK, VolumeInv, StorageInv, [Next]_vars,
                        vol.uid # 0, vol'.uid = vol.uid,
                        vol'.phase # vol.phase
                 PROVE  vol'.phase \in NextPhases(vol)
      OBVIOUS
    <2>1. UpdateVolumeStatus
      BY PhaseMoves
    <2>2. rec.pc = "status" /\ rec.vFresh /\ vol'.phase = rec.v.phase
      BY <2>1, StateTypes
         DEF UpdateVolumeStatus, IsCurrent, WriteVolume, VolumeObject
    <2>3. rec.v.phase \in {vol.phase} \cup NextPhases(vol)
      BY <2>2 DEF StorageInv, ServingInv, PhaseInv
    <2> QED
      BY <2>2, <2>3
  <1> QED
    BY <1>1, StorageInvariant, PTL DEF Spec, PhasesFollowed

-----------------------------------------------------------------------------
(***************************************************************************)
(* The lifecycle this controller implements.                               *)
(***************************************************************************)
\* The stage of an incarnation, in terms of what the invariant says of it: its
\* removal is recorded in its status once it has no PersistentVolume.
Removing(v) ==
    \/ v.phase = "Terminating"
    \/ v.phase = "Failed" /\ v.reason = "DestructionError"

LEMMA StageOf ==
    ASSUME TypeOK, VolumeInv, PvInv, NEW u \in Uids
    PROVE  /\ u > lastUid => Stage(u) = "unborn"
           /\ u <= lastUid /\ vol.uid # u => Stage(u) = "gone"
           /\ vol.uid = u /\ pv.uid = u =>
                 Stage(u) = IF Withdrawn THEN "retired" ELSE "serving"
           /\ vol.uid = u /\ pv.uid # u =>
                 Stage(u) = IF Removing(vol) THEN "retired" ELSE "declared"
  <1>1. /\ u \in Nat /\ u # 0 /\ lastUid \in Nat
        /\ vol.uid <= lastUid /\ vol.uid \in Nat
    <2>1. vol.uid \in 0 .. MaxUid /\ lastUid \in 0 .. MaxUid
      BY StateTypes DEF VolumeObject, TypeOK
    <2> QED
      BY <2>1, BoundsAssumption DEF Uids, VolumeInv, ObjectsInv
  <1>2. pv.uid # 0 => vol.uid = pv.uid
    BY DEF PvInv, PvOwned
  <1>3. u > lastUid => vol.uid # u
    BY <1>1
  <1>4. u > lastUid \/ u <= lastUid
    BY <1>1
  <1>5. u > lastUid => ~(u <= lastUid)
    BY <1>1
  <1> QED
    BY <1>1, <1>2, <1>3, <1>4, <1>5 DEF Stage, Withdrawn, Removing

LEMMA NextStageOf ==
    ASSUME TypeOK', VolumeInv', PvInv', NEW u \in Uids
    PROVE  /\ u > lastUid' => Stage(u)' = "unborn"
           /\ u <= lastUid' /\ vol'.uid # u => Stage(u)' = "gone"
           /\ vol'.uid = u /\ pv'.uid = u =>
                 Stage(u)' = IF Withdrawn' THEN "retired" ELSE "serving"
           /\ vol'.uid = u /\ pv'.uid # u =>
                 Stage(u)' = IF Removing(vol)' THEN "retired" ELSE "declared"
  <1>1. /\ u \in Nat /\ u # 0 /\ lastUid' \in Nat
        /\ vol'.uid <= lastUid' /\ vol'.uid \in Nat
    <2>1. vol'.uid \in 0 .. MaxUid /\ lastUid' \in 0 .. MaxUid
      BY DEF VolumeObject, TypeOK
    <2> QED
      BY <2>1, BoundsAssumption DEF Uids, VolumeInv, ObjectsInv
  <1>2. pv'.uid # 0 => vol'.uid = pv'.uid
    BY DEF PvInv, PvOwned
  <1>3. u > lastUid' => vol'.uid # u
    BY <1>1
  <1>4. u > lastUid' \/ u <= lastUid'
    BY <1>1
  <1>5. u > lastUid' => ~(u <= lastUid')
    BY <1>1
  <1> QED
    BY <1>1, <1>2, <1>3, <1>4, <1>5 DEF Stage, Withdrawn, Removing

\* One incarnation moves, or none.
LEMMA Moved ==
    ASSUME NEW u \in Uids, NEW from, NEW to, Stage(u) \in from,
           Stage(u)' = to, UNCHANGED storage,
           \A w \in Uids : w # u => Stage(w)' = Stage(w)
    PROVE  Lifecycle!Move(u, from, to)
  BY DEF Lifecycle!Move

LEMMA Stays ==
    ASSUME \A w \in Uids : Stage(w)' = Stage(w), UNCHANGED storage
    PROVE  UNCHANGED Lifecycle!lifeVars
  BY DEF Lifecycle!lifeVars

\* The lifecycle starts as it should.
LEMMA InitLifecycle == Init => Lifecycle!LifeInit
  <1> SUFFICES ASSUME Init PROVE Lifecycle!LifeInit
    OBVIOUS
  <1>1. TypeOK /\ VolumeInv /\ PvInv /\ lastUid = 0
    BY InitTypeOK, InitInv, InitServing DEF Init, ServingInv
  <1>2. \A u \in Uids : u > lastUid
    BY <1>1, BoundsAssumption DEF Uids
  <1>3. \A u \in Uids : Stage(u) = "unborn"
    BY <1>1, <1>2, StageOf
  <1>4. Lifecycle!Incarnations = Uids
    BY DEF Lifecycle!Incarnations, Uids
  <1> QED
    BY <1>3, <1>4 DEF Lifecycle!LifeInit, Init

\* The node only works on storage that nobody can use.
LEMMA StorageMoves ==
    ASSUME TypeOK, ReclaimInv, ServingInv,
           \/ MinionStep \/ RejectStateJob \/ FailStateJob \/ MinionRestart
           \/ \E j \in Jids : ForgetJob(j)
    PROVE  \/ UNCHANGED storage
           \/ /\ vol.uid \in Uids /\ Withdrawn
              /\ \E d \in {"absent", "created", "prepared"} :
                    storage' = [storage EXCEPT ![vol.uid] = d]
  <1> DEFINE Contents == {"absent", "created", "prepared"}
  <1>1. storage \in [Uids -> Contents]
    BY DEF TypeOK
  <1>2. running.jid # 0 => running.job \in StateJobs
    BY DEF ReclaimInv, QueueInv, RunningKnown
  <1>3. running.uid # 0 => running.uid \in Uids
    BY NodeTypes, Incarnations
  <1>4. ASSUME NEW st \in Contents, running.uid \in Uids,
               storage' = [storage EXCEPT ![running.uid] = st],
               running.job \in StateJobs,
               running.job = "PrepareVolume" =>
                   (storage[running.uid] = "prepared" => st = "prepared"),
               running.job = "UnprepareVolume" =>
                   st \in {storage[running.uid], "absent"},
               st # storage[running.uid]
        PROVE  /\ vol.uid \in Uids /\ Withdrawn
               /\ \E d \in Contents : storage' = [storage EXCEPT ![vol.uid] = d]
    <2>1. AtNode(running.job)
      BY DEF AtNode
    <2>2. CASE running.job = "PrepareVolume"
      <3>1. running.uid = vol.uid
        BY <2>2 DEF ReclaimInv, NodeStorageInv, OwnPreparations
      <3>2. storage[vol.uid] # "prepared"
        BY <1>4, <2>2, <3>1
      <3>3. Withdrawn
        BY <3>2 DEF ServingInv, PvInv, PvOwned, PvBacked, Withdrawn
      <3> QED
        BY <1>4, <3>1, <3>3
    <2>3. CASE running.job = "UnprepareVolume"
      <3>1. storage[running.uid] # "absent"
        BY <1>4, <2>3
      <3>2. running.uid = vol.uid
        BY <1>4, <3>1 DEF ReclaimInv, NodeStorageInv, OwnStorage
      <3>3. Withdrawn
        BY <2>1, <2>3 DEF ServingInv, PvInv, PvBacked
      <3> QED
        BY <1>4, <3>2, <3>3
    <2> QED
      BY <1>4, <2>2, <2>3 DEF StateJobs
  <1>5. ASSUME NEW st \in Contents, running.uid \in Uids,
               storage' = [storage EXCEPT ![running.uid] = st],
               st = storage[running.uid]
        PROVE  storage' = storage
    BY <1>1, <1>5
  <1>6. CASE StartStateJob \/ DeviceInfo \/ RejectStateJob
                \/ \E j \in Jids : ForgetJob(j)
    BY <1>6 DEF StartStateJob, DeviceInfo, RejectStateJob, ForgetJob, nodeVars
  <1>7. CASE FinishPrepare
    <2>1. PICK st \in {"created", "prepared"} :
              /\ storage' = IF running.uid = 0 THEN storage
                            ELSE [storage EXCEPT ![running.uid] = st]
              /\ storage[running.uid] = "prepared" => st = "prepared"
      BY <1>7, PreparationEnds
    <2>2. running.job = "PrepareVolume" /\ running.job \in StateJobs
      BY <1>7 DEF FinishPrepare, StateJobs
    <2>3. st \in Contents
      BY <1>1
    <2> QED
      BY <1>3, <1>4, <1>5, <2>1, <2>2, <2>3
  <1>8. CASE FinishUnprepare
    <2>1. \/ storage' = storage
          \/ /\ running.uid \in Uids
             /\ storage' = [storage EXCEPT ![running.uid] = "absent"]
      BY <1>3, <1>8 DEF FinishUnprepare
    <2>2. running.job = "UnprepareVolume" /\ running.job \in StateJobs
      BY <1>8 DEF FinishUnprepare, StateJobs
    <2> QED
      BY <1>4, <1>5, <2>1, <2>2
  <1>9. CASE FailStateJob
    <2>1. \/ storage' = storage
          \/ /\ running.job = "PrepareVolume" /\ running.uid \in Uids
             /\ \E st \in Remains("PrepareVolume", storage[running.uid]) :
                   storage' = [storage EXCEPT ![running.uid] = st]
      BY <1>3, <1>9 DEF FailStateJob
    <2>2. ASSUME running.job = "PrepareVolume", running.uid \in Uids,
                 NEW st \in Remains("PrepareVolume", storage[running.uid]),
                 storage' = [storage EXCEPT ![running.uid] = st]
          PROVE  storage' = storage \/ (/\ vol.uid \in Uids /\ Withdrawn
                 /\ \E d \in Contents : storage' = [storage EXCEPT ![vol.uid] = d])
      <3>1. /\ st \in Contents
            /\ storage[running.uid] = "prepared" => st = "prepared"
        BY <1>1, <2>2 DEF Remains
      <3>2. running.job \in StateJobs
        BY <2>2 DEF StateJobs
      <3> QED
        BY <1>4, <1>5, <2>2, <3>1, <3>2
    <2> QED
      BY <2>1, <2>2
  <1>10. CASE MinionRestart
    <2>1. \/ storage' = storage
          \/ /\ running.uid # 0
             /\ \E st \in Remains(running.job, storage[running.uid]) :
                   storage' = [storage EXCEPT ![running.uid] = st]
      BY <1>10 DEF MinionRestart
    <2>2. ASSUME running.uid # 0,
                 NEW st \in Remains(running.job, storage[running.uid]),
                 storage' = [storage EXCEPT ![running.uid] = st]
          PROVE  storage' = storage \/ (/\ vol.uid \in Uids /\ Withdrawn
                 /\ \E d \in Contents : storage' = [storage EXCEPT ![vol.uid] = d])
      <3>1. running.job \in StateJobs
        <4>1. NoJob.uid = 0
          BY DEF NoJob
        <4>2. running.jid = 0 => running = NoJob
          BY DEF ReclaimInv, QueueInv, RunningKnown
        <4> QED
          BY <1>2, <2>2, <4>1, <4>2
      <3>2. running.uid \in Uids
        BY <1>3, <2>2
      <3>3. /\ st \in Contents
            /\ running.job = "PrepareVolume" =>
                   (storage[running.uid] = "prepared" => st = "prepared")
            /\ running.job = "UnprepareVolume" =>
                   st \in {storage[running.uid], "absent"}
        BY <1>1, <2>2, <3>2 DEF Remains
      <3> QED
        BY <1>4, <1>5, <2>2, <3>1, <3>2, <3>3
    <2> QED
      BY <2>1, <2>2
  <1> QED
    BY <1>6, <1>7, <1>8, <1>9, <1>10 DEF MinionStep

LEMMA NodeLifecycle ==
    ASSUME TypeOK, VolumeInv, ReclaimInv, ServingInv,
           \/ MinionStep \/ RejectStateJob \/ FailStateJob \/ MinionRestart
           \/ \E j \in Jids : ForgetJob(j)
    PROVE  [Lifecycle!LifeNext]_Lifecycle!lifeVars
  <1>1. UNCHANGED <<vol, pv, lastUid>>
    BY DEF MinionStep, StartStateJob, DeviceInfo, FinishPrepare,
           FinishUnprepare, RejectStateJob, FailStateJob, MinionRestart,
           ForgetJob, volVars, pvVars
  <1>2. \A u \in Uids : Stage(u)' = Stage(u)
    BY <1>1 DEF Stage
  <1>3. CASE UNCHANGED storage
    BY <1>2, <1>3, Stays
  <1>4. ASSUME vol.uid \in Uids, Withdrawn,
               NEW d \in {"absent", "created", "prepared"},
               storage' = [storage EXCEPT ![vol.uid] = d]
        PROVE  Lifecycle!LifeNext
    <2>1. vol.uid <= lastUid
      BY DEF VolumeInv, ObjectsInv
    <2>2. PvInv
      BY DEF ServingInv
    <2>3. PICK u \in Uids : u = vol.uid
      BY <1>4
    <2>4. Stage(u) \in {"declared", "retired"}
      <3>1. CASE pv.uid = u
        BY <1>4, <2>2, <2>3, <3>1, StageOf
      <3>2. CASE pv.uid # u
        BY <2>2, <2>3, <3>2, StageOf
      <3> QED
        BY <3>1, <3>2
    <2>5. Lifecycle!Work(u)
      BY <1>2, <1>4, <2>3, <2>4 DEF Lifecycle!Work, Lifecycle!Data
    <2>6. u \in Lifecycle!Incarnations
      BY DEF Lifecycle!Incarnations, Uids
    <2> QED
      BY <2>5, <2>6 DEF Lifecycle!LifeNext
  <1> QED
    BY <1>3, <1>4, StorageMoves

\* Nothing that the stages depend on changes.
LEMMA SameLifecycle ==
    ASSUME UNCHANGED <<vol, pv, lastUid, storage>>
    PROVE  [Lifecycle!LifeNext]_Lifecycle!lifeVars
  <1>1. \A u \in Uids : Stage(u)' = Stage(u)
    BY DEF Stage
  <1> QED
    BY <1>1, Stays

LEMMA OneMoves ==
    ASSUME NEW u \in Uids,
           \/ Lifecycle!Declare(u) \/ Lifecycle!Serve(u)
           \/ Lifecycle!Retire(u) \/ Lifecycle!Leave(u)
    PROVE  [Lifecycle!LifeNext]_Lifecycle!lifeVars
  <1>1. u \in Lifecycle!Incarnations
    BY DEF Lifecycle!Incarnations, Uids
  <1> QED
    BY <1>1 DEF Lifecycle!LifeNext

LEMMA Births ==
    ASSUME TypeOK
    PROVE  /\ lastUid \in Nat
           /\ \A w \in Uids : w \in Nat /\ (w > lastUid \/ w <= lastUid)
  <1>1. lastUid \in 0 .. MaxUid
    BY DEF TypeOK
  <1> QED
    BY <1>1, BoundsAssumption DEF Uids

\* The incarnation that is there moves, if any.
LEMMA CurrentLifecycle ==
    ASSUME TypeOK, VolumeInv, PvInv, TypeOK', VolumeInv', PvInv',
           vol'.uid = vol.uid, UNCHANGED <<lastUid, storage>>,
           NEW u, u = vol.uid,
           u # 0 =>
              \/ Stage(u)' = Stage(u)
              \/ Stage(u) \in {"declared", "serving"} /\ Stage(u)' = "retired"
              \/ /\ Stage(u) = "declared" /\ storage[u] = "prepared"
                 /\ Stage(u)' = "serving"
    PROVE  [Lifecycle!LifeNext]_Lifecycle!lifeVars
  <1>1. ASSUME NEW w \in Uids, w # u PROVE Stage(w)' = Stage(w)
    <2>1. w > lastUid \/ w <= lastUid
      BY Births
    <2>2. CASE w > lastUid
      <3>1. w > lastUid'
        BY <2>2
      <3> QED
        BY <2>2, <3>1, StageOf, NextStageOf
    <2>3. CASE w <= lastUid
      <3>1. w <= lastUid' /\ vol'.uid # w /\ vol.uid # w
        BY <1>1, <2>3
      <3> QED
        BY <2>3, <3>1, StageOf, NextStageOf
    <2> QED
      BY <2>1, <2>2, <2>3
  <1>2. CASE u = 0
    <2>1. \A w \in Uids : Stage(w)' = Stage(w)
      BY <1>1, <1>2, Incarnations
    <2> QED
      BY <2>1, Stays
  <1>3. CASE u # 0
    <2>1. u \in Uids
      BY <1>3, Incarnations
    <2>2. CASE Stage(u)' = Stage(u)
      <3>1. \A w \in Uids : Stage(w)' = Stage(w)
        BY <1>1, <2>2
      <3> QED
        BY <3>1, Stays
    <2>3. CASE Stage(u) \in {"declared", "serving"} /\ Stage(u)' = "retired"
      <3>1. Lifecycle!Move(u, {"declared", "serving"}, "retired")
        BY <1>1, <2>1, <2>3, Moved
      <3>2. Lifecycle!Retire(u)
        BY <3>1 DEF Lifecycle!Retire
      <3> QED
        BY <2>1, <3>2, OneMoves
    <2>4. CASE /\ Stage(u) = "declared" /\ storage[u] = "prepared"
               /\ Stage(u)' = "serving"
      <3>1. Lifecycle!Move(u, {"declared"}, "serving")
        BY <1>1, <2>1, <2>4, Moved
      <3>2. Lifecycle!Serve(u)
        BY <2>4, <3>1 DEF Lifecycle!Serve
      <3> QED
        BY <2>1, <3>2, OneMoves
    <2> QED
      BY <1>3, <2>2, <2>3, <2>4
  <1> QED
    BY <1>2, <1>3

\* A name is declared again once what bore it is gone.
LEMMA CreatedLifecycle ==
    ASSUME TypeOK, VolumeInv, PvInv, TypeOK', VolumeInv', PvInv', CreateVolume
    PROVE  [Lifecycle!LifeNext]_Lifecycle!lifeVars
  <1>1. /\ vol.uid = 0 /\ lastUid < MaxUid /\ lastUid' = lastUid + 1
        /\ UNCHANGED <<pv, storage>>
        /\ \E valid \in BOOLEAN :
              vol' = [NoVolume EXCEPT !.uid = lastUid + 1, !.valid = valid]
    BY DEF CreateVolume, OthersWriteVolume, WriteVolume, pvVars, nodeVars
  <1>2. vol'.uid = lastUid + 1 /\ vol'.phase = ""
    BY <1>1 DEF NoVolume
  <1>3. lastUid \in Nat /\ lastUid + 1 \in Uids
    <2>1. lastUid \in Nat
      BY Births
    <2> QED
      BY <1>1, <2>1, BoundsAssumption DEF Uids
  <1>4. PICK u \in Uids : u = lastUid + 1
    BY <1>3
  <1>5. pv.uid = 0 /\ 0 \notin Uids
    BY <1>1, Incarnations DEF PvInv, PvOwned
  <1>6. Stage(u) = "unborn"
    <2>1. u > lastUid
      BY <1>3, <1>4
    <2> QED
      BY <2>1, StageOf
  <1>7. Stage(u)' = "declared"
    <2>1. vol'.uid = u /\ pv'.uid # u
      BY <1>1, <1>2, <1>4, <1>5
    <2>2. ~Removing(vol)'
      BY <1>2 DEF Removing
    <2> QED
      BY <2>1, <2>2, NextStageOf
  <1>8. ASSUME NEW w \in Uids, w < u
        PROVE  Stage(w) = "gone" /\ Stage(w)' = "gone"
    <2>1. w <= lastUid /\ w <= lastUid'
      BY <1>1, <1>3, <1>4, <1>8, BoundsAssumption DEF Uids
    <2>2. vol.uid # w
      BY <1>1, <1>5
    <2>3. vol'.uid # w
      <3>1. vol'.uid = u
        BY <1>2, <1>4
      <3>2. u \in Nat /\ w \in Nat
        BY Births
      <3> QED
        BY <1>8, <3>1, <3>2
    <2> QED
      BY <2>1, <2>2, <2>3, StageOf, NextStageOf
  <1>9. ASSUME NEW w \in Uids, w > u
        PROVE  Stage(w) = "unborn" /\ Stage(w)' = "unborn"
    <2>1. w > lastUid /\ w > lastUid'
      BY <1>1, <1>3, <1>4, <1>9, BoundsAssumption DEF Uids
    <2> QED
      BY <2>1, StageOf, NextStageOf
  <1>10. \A w \in Uids : w # u => Stage(w)' = Stage(w)
    <2>1. \A w \in Uids : w # u => w < u \/ w > u
      BY BoundsAssumption DEF Uids
    <2> QED
      BY <1>8, <1>9, <2>1
  <1>11. Lifecycle!Move(u, {"unborn"}, "declared")
    BY <1>1, <1>6, <1>7, <1>10, Moved
  <1>12. Lifecycle!Declare(u)
    <2>1. Lifecycle!Incarnations = Uids
      BY DEF Lifecycle!Incarnations, Uids
    <2> QED
      BY <1>8, <1>11, <2>1 DEF Lifecycle!Declare
  <1> QED
    BY <1>12, OneMoves

\* The Volume is gone, and nothing of it is left.
LEMMA GoneLifecycle ==
    ASSUME TypeOK, VolumeInv, PvInv, TypeOK', VolumeInv', PvInv',
           NodeStorageInv', vol.uid # 0, vol'.uid = 0, pv.uid = 0,
           UNCHANGED <<pv, lastUid, storage>>
    PROVE  [Lifecycle!LifeNext]_Lifecycle!lifeVars
  <1>1. PICK u \in Uids : u = vol.uid
    BY Incarnations
  <1>2. u # 0 /\ u <= lastUid
    BY <1>1 DEF VolumeInv, ObjectsInv
  <1>3. Stage(u) \in {"declared", "retired"}
    BY <1>1, <1>2, StageOf
  <1>4. Stage(u)' = "gone"
    BY <1>2, NextStageOf
  <1>5. ASSUME NEW w \in Uids, w # u PROVE Stage(w)' = Stage(w)
    <2>1. w > lastUid \/ w <= lastUid
      BY Births
    <2>2. vol.uid # w /\ vol'.uid # w
      BY <1>1, <1>5, Incarnations
    <2>3. CASE w > lastUid
      <3>1. w > lastUid'
        BY <2>3
      <3> QED
        BY <2>3, <3>1, StageOf, NextStageOf
    <2>4. CASE w <= lastUid
      <3>1. w <= lastUid'
        BY <2>4
      <3> QED
        BY <2>2, <2>4, <3>1, StageOf, NextStageOf
    <2> QED
      BY <2>1, <2>3, <2>4
  <1>6. storage[u] = "absent"
    <2>1. storage'[u] = "absent"
      BY <1>2 DEF NodeStorageInv, OwnStorage
    <2> QED
      BY <2>1
  <1>7. Lifecycle!Move(u, {"declared", "retired"}, "gone")
    BY <1>3, <1>4, <1>5, Moved
  <1>8. Lifecycle!Leave(u)
    BY <1>6, <1>7 DEF Lifecycle!Leave
  <1> QED
    BY <1>8, OneMoves

\* Only a status that a pass has recorded changes what is known of a removal,
\* and none brings a Volume back from it.
LEMMA WrittenLifecycle ==
    ASSUME TypeOK, VolumeInv, PvInv, TypeOK', VolumeInv', PvInv',
           vol'.uid = vol.uid, UNCHANGED <<pv, lastUid, storage>>,
           Removing(vol) => Removing(vol)'
    PROVE  [Lifecycle!LifeNext]_Lifecycle!lifeVars
  <1>1. PICK u : u = vol.uid
    OBVIOUS
  <1>2. Withdrawn' = Withdrawn
    BY DEF Withdrawn
  <1>3. ASSUME u # 0
        PROVE  \/ Stage(u)' = Stage(u)
               \/ Stage(u) = "declared" /\ Stage(u)' = "retired"
    <2>1. u \in Uids /\ vol'.uid = u
      BY <1>1, <1>3, Incarnations
    <2>2. CASE pv.uid = u
      <3>1. pv'.uid = u
        BY <2>2
      <3> QED
        BY <1>1, <1>2, <2>1, <2>2, <3>1, StageOf, NextStageOf
    <2>3. CASE pv.uid # u
      <3>1. pv'.uid # u
        BY <2>3
      <3> QED
        BY <1>1, <2>1, <2>3, <3>1, StageOf, NextStageOf
    <2> QED
      BY <2>2, <2>3
  <1> QED
    BY <1>1, <1>3, CurrentLifecycle

LEMMA StatusLifecycle ==
    ASSUME TypeOK, VolumeInv, ReclaimInv, PvInv, TypeOK', VolumeInv', PvInv',
           UpdateVolumeStatus
    PROVE  [Lifecycle!LifeNext]_Lifecycle!lifeVars
  <1>1. /\ rec.pc = "status" /\ rec.vFresh
        /\ UNCHANGED <<pv, lastUid, storage>>
        /\ vol' = [vol EXCEPT
              !.phase = rec.v.phase, !.reason = rec.v.reason,
              !.job = rec.v.job, !.jid = rec.v.jid, !.named = rec.v.named]
    BY DEF UpdateVolumeStatus, IsCurrent, WriteVolume, nodeVars, pvVars
  <1>2. /\ vol'.uid = vol.uid
        /\ vol'.phase = rec.v.phase /\ vol'.reason = rec.v.reason
    BY <1>1, StateTypes DEF VolumeObject
  <1>3. ASSUME Removing(vol) PROVE Removing(vol)'
    <2>1. vol.job = "UnprepareVolume"
      BY <1>3 DEF Removing, VolumeInv, ObjectsInv, Sound, StatusConsistent
    <2>2. rec.v.job = "UnprepareVolume"
      BY <1>1, <2>1 DEF ReclaimInv, FreshInv
    <2>3. StatusConsistent(rec.v) /\ rec.v.phase \in Phases
      BY PassFacts, StateTypes DEF VolumeObject
    <2>4. Removing(rec.v)
      BY <2>2, <2>3 DEF StatusConsistent, Phases, Removing
    <2> QED
      BY <1>2, <2>4 DEF Removing
  <1> QED
    BY <1>1, <1>2, <1>3, WrittenLifecycle

\* The other writes of a Volume keep its status.
LEMMA MetadataLifecycle ==
    ASSUME TypeOK, VolumeInv, ServingInv, TypeOK', VolumeInv', PvInv',
           NodeStorageInv', AddVolumeFinalizer \/ DeleteVolume
    PROVE  [Lifecycle!LifeNext]_Lifecycle!lifeVars
  <1>1. PvInv /\ UNCHANGED <<pv, lastUid, storage>>
    BY DEF ServingInv, AddVolumeFinalizer, DeleteVolume, OthersWriteVolume,
           nodeVars, pvVars
  <1>2. CASE AddVolumeFinalizer
    <2>1. vol' = [vol EXCEPT !.fin = TRUE]
      BY <1>2 DEF AddVolumeFinalizer, WriteVolume
    <2>2. /\ vol'.uid = vol.uid
          /\ vol'.phase = vol.phase /\ vol'.reason = vol.reason
      BY <2>1, StateTypes DEF VolumeObject
    <2>3. Removing(vol)' = Removing(vol)
      BY <2>2 DEF Removing
    <2> QED
      BY <1>1, <2>2, <2>3, WrittenLifecycle
  <1>3. CASE DeleteVolume
    <2>1. /\ vol.uid # 0
          /\ vol' = IF vol.fin THEN [vol EXCEPT !.deleted = TRUE] ELSE NoVolume
      BY <1>3 DEF DeleteVolume, OthersWriteVolume, WriteVolume
    <2>2. CASE vol.fin
      <3>1. /\ vol'.uid = vol.uid
            /\ vol'.phase = vol.phase /\ vol'.reason = vol.reason
        BY <2>1, <2>2, StateTypes DEF VolumeObject
      <3>2. Removing(vol)' = Removing(vol)
        BY <3>1 DEF Removing
      <3> QED
        BY <1>1, <3>1, <3>2, WrittenLifecycle
    <2>3. CASE ~vol.fin
      <3>1. vol'.uid = 0
        BY <2>1, <2>3, NullSound
      <3>2. pv.uid = 0
        BY <2>3 DEF ServingInv, PvInv, PvOwned, VolumeInv, ObjectsInv, Protects
      <3> QED
        BY <1>1, <2>1, <3>1, <3>2, GoneLifecycle
    <2> QED
      BY <2>2, <2>3
  <1> QED
    BY <1>2, <1>3

LEMMA ReleaseLifecycle ==
    ASSUME TypeOK, VolumeInv, ReclaimInv, ServingInv, TypeOK', VolumeInv',
           PvInv', NodeStorageInv', RemoveVolumeFinalizer
    PROVE  [Lifecycle!LifeNext]_Lifecycle!lifeVars
  <1>1. /\ rec.pc = "volFinalizer" /\ rec.vFresh
        /\ vol' = IF vol.deleted THEN NoVolume ELSE [vol EXCEPT !.fin = FALSE]
        /\ UNCHANGED <<pv, lastUid, storage>>
    BY DEF RemoveVolumeFinalizer, IsCurrent, WriteVolume, nodeVars, pvVars
  <1>2. rec.v.uid = vol.uid /\ rec.v.deleted = vol.deleted /\ rec.v.deleted
    BY <1>1, PassFacts DEF VolumeInv, CopyInv, SameMetadata
  <1>3. vol'.uid = 0
    BY <1>1, <1>2, NullSound
  <1>4. vol.uid # 0
    BY <1>1, <1>2 DEF ReclaimInv, ReasonInv
  <1>5. pv.uid = 0 /\ PvInv
    BY <1>1 DEF ServingInv, UnusedInv
  <1> QED
    BY <1>1, <1>3, <1>4, <1>5, GoneLifecycle

\* A PersistentVolume that is withdrawn stays so.
LEMMA PvLifecycle ==
    ASSUME TypeOK, VolumeInv, PvInv, TypeOK', VolumeInv', PvInv',
           \/ Cluster \/ UserDeletesPv \/ BindPv \/ FailPv
           \/ UpdatePvStatus \/ DeletePv
    PROVE  [Lifecycle!LifeNext]_Lifecycle!lifeVars
  <1>1. UNCHANGED <<vol, lastUid, storage>>
    BY DEF Cluster, PublishPv, ReleasePv, UnprotectPv, CollectPv,
           UserDeletesPv, BindPv, FailPv, UpdatePvStatus, DeletePv,
           OthersWritePv, volVars, nodeVars
  <1>2. pv'.uid = pv.uid /\ (Withdrawn => Withdrawn')
    BY PvMoves
  <1>3. PICK u : u = vol.uid
    OBVIOUS
  <1>4. ASSUME u # 0
        PROVE  \/ Stage(u)' = Stage(u)
               \/ Stage(u) = "serving" /\ Stage(u)' = "retired"
    <2>1. u \in Uids /\ vol'.uid = u
      BY <1>1, <1>3, <1>4, Incarnations
    <2>2. CASE pv.uid = u
      BY <1>2, <1>3, <2>1, <2>2, StageOf, NextStageOf
    <2>3. CASE pv.uid # u
      <3>1. Removing(vol)' = Removing(vol)
        BY <1>1 DEF Removing
      <3> QED
        BY <1>2, <1>3, <2>1, <2>3, <3>1, StageOf, NextStageOf
    <2> QED
      BY <2>2, <2>3
  <1> QED
    BY <1>1, <1>3, <1>4, CurrentLifecycle

\* It is created for storage that is ready.
LEMMA CreatePvLifecycle ==
    ASSUME TypeOK, VolumeInv, ReclaimInv, ServingInv, TypeOK', VolumeInv',
           PvInv', CreatePersistentVolume
    PROVE  [Lifecycle!LifeNext]_Lifecycle!lifeVars
  <1>1. rec.pc = "create" /\ UNCHANGED <<vol, lastUid, storage>> /\ PvInv
    BY DEF CreatePersistentVolume, volVars, nodeVars, ServingInv
  <1>2. CASE UNCHANGED pv
    BY <1>1, <1>2, SameLifecycle
  <1>3. CASE /\ devices # 0 /\ pv.uid = 0
             /\ WritePv(NewPersistentVolume(rec.v, devices))
    <2>1. /\ Same(rec.v) /\ vol.phase = "Pending"
          /\ storage[rec.v.uid] = "prepared"
      BY <1>1, <1>3, ServedStorage
    <2>2. PICK u : u = vol.uid
      OBVIOUS
    <2>3. u # 0 /\ u = rec.v.uid /\ u \in Uids /\ vol'.uid = u
      BY <1>1, <2>1, <2>2, Incarnations DEF Same
    <2>4. pv'.uid = u /\ ~pv'.deleted
      BY <1>3, <2>3 DEF WritePv, NewPersistentVolume
    <2>5. Stage(u) = "declared"
      <3>1. ~Removing(vol)
        BY <2>1 DEF Removing
      <3> QED
        BY <1>1, <1>3, <2>2, <2>3, <3>1, StageOf
    <2>6. Stage(u)' = "serving"
      <3>1. ~Withdrawn'
        BY <2>3, <2>4 DEF Withdrawn
      <3> QED
        BY <2>3, <2>4, <3>1, NextStageOf
    <2> QED
      BY <1>1, <2>1, <2>2, <2>3, <2>5, <2>6, CurrentLifecycle
  <1> QED
    BY <1>2, <1>3 DEF CreatePersistentVolume, CreationFails, pvVars

\* It is let go of once the removal of its Volume is recorded.
LEMMA UnprotectLifecycle ==
    ASSUME TypeOK, VolumeInv, ReclaimInv, ServingInv, TypeOK', VolumeInv',
           PvInv', RemovePvFinalizer
    PROVE  [Lifecycle!LifeNext]_Lifecycle!lifeVars
  <1>1. /\ rec.pc = "pvFinalizer" /\ UNCHANGED <<vol, lastUid, storage>>
        /\ PvInv
    BY DEF RemovePvFinalizer, volVars, nodeVars, ServingInv
  <1>2. pv'.uid = 0 /\ (pv.uid # 0 => vol.job = "UnprepareVolume")
    BY Unprotected
  <1>3. PICK u : u = vol.uid
    OBVIOUS
  <1>4. ASSUME u # 0 PROVE Stage(u)' = Stage(u)
    <2>1. u \in Uids /\ vol'.uid = u /\ pv'.uid # u
      BY <1>1, <1>2, <1>3, <1>4, Incarnations
    <2>2. Removing(vol)' = Removing(vol)
      BY <1>1 DEF Removing
    <2>3. CASE pv.uid = u
      <3>1. StatusConsistent(vol) /\ vol.phase \in Phases
        BY StateTypes DEF VolumeInv, ObjectsInv, Sound, VolumeObject
      <3>2. Removing(vol)
        BY <1>2, <1>4, <2>3, <3>1 DEF StatusConsistent, Phases, Removing
      <3>3. Withdrawn
        <4>1. Same(rec.v)
          <5>1. vol.fin /\ rec.v.uid # 0
            BY <1>1, <1>3, <1>4, <2>3
               DEF VolumeInv, ObjectsInv, Protects, ReclaimInv, ReasonInv
          <5> QED
            BY <5>1 DEF ReclaimInv, CopiesInv, Same
        <4>2. RemovalInv(rec.v) /\ rec.v.job = "UnprepareVolume"
              /\ rec.v.jid = DoneMarker
          BY <1>1 DEF ReclaimInv, RemovalsInv, ReasonInv
        <4>3. storage[vol.uid] = "absent"
          BY <4>1, <4>2 DEF RemovalInv, Clean
        <4> QED
          BY <1>1, <1>3, <2>3, <4>3 DEF PvInv, PvBacked
      <3>4. Stage(u) = "retired"
        BY <1>1, <1>3, <2>1, <2>3, <3>3, StageOf
      <3>5. Stage(u)' = "retired"
        BY <2>1, <2>2, <3>2, NextStageOf
      <3> QED
        BY <3>4, <3>5
    <2>4. CASE pv.uid # u
      BY <1>1, <1>3, <2>1, <2>2, <2>4, StageOf, NextStageOf
    <2> QED
      BY <2>3, <2>4
  <1> QED
    BY <1>1, <1>3, <1>4, CurrentLifecycle

\* Every step is one of the lifecycle, or none.
LEMMA NextLifecycle ==
    ASSUME TypeOK, VolumeInv, ReclaimInv, ServingInv,
           TypeOK', VolumeInv', ReclaimInv', ServingInv', [Next]_vars
    PROVE  [Lifecycle!LifeNext]_Lifecycle!lifeVars
  <1>1. PvInv /\ PvInv' /\ NodeStorageInv'
    BY DEF ServingInv, ReclaimInv
  <1>2. CASE Reconcile
    <2>1. UNCHANGED <<vol, pv, lastUid, storage>>
      BY <1>2
         DEF Reconcile, ReconcileNothing, ReconcileInvalid,
             ReconcileNameConflict, PrepareStorage, GetStorageSize,
             CheckHealth, FinalizeDeletePv, FinalizeWait, ReclaimStorage,
             Read, volVars, pvVars, nodeVars
    <2> QED
      BY <2>1, SameLifecycle
  <1>3. CASE \/ Conflict \/ RefreshDeviceName \/ SubmitJob \/ SubmitRefused
             \/ PollStillRunning \/ PollSucceeded \/ PollFailed \/ PollRetry
             \/ SubmitAnswerLost \/ CallFails \/ OperatorRestart
             \/ SyncVolume \/ SyncPv
    <2>1. UNCHANGED <<vol, pv, lastUid, storage>>
      BY <1>3
         DEF Conflict, RefreshDeviceName, SubmitJob, SubmitRefused,
             PollStillRunning, PollSucceeded, PollFailed, PollRetry,
             SubmitAnswerLost, CallFails, OperatorRestart, SyncVolume, SyncPv,
             volVars, pvVars, nodeVars
    <2> QED
      BY <2>1, SameLifecycle
  <1>4. CASE UNCHANGED vars
    <2>1. UNCHANGED <<vol, pv, lastUid, storage>>
      BY <1>4 DEF vars, volVars, pvVars, nodeVars
    <2> QED
      BY <2>1, SameLifecycle
  <1>5. CASE AddVolumeFinalizer \/ DeleteVolume
    BY <1>1, <1>5, MetadataLifecycle
  <1>6. CASE UpdateVolumeStatus
    BY <1>1, <1>6, StatusLifecycle
  <1>7. CASE \/ Cluster \/ UserDeletesPv \/ BindPv \/ FailPv
             \/ UpdatePvStatus \/ DeletePv
    BY <1>1, <1>7, PvLifecycle
  <1>8. CASE CreatePersistentVolume
    BY <1>1, <1>8, CreatePvLifecycle
  <1>9. CASE RemovePvFinalizer
    BY <1>1, <1>9, UnprotectLifecycle
  <1>10. CASE RemoveVolumeFinalizer
    BY <1>1, <1>10, ReleaseLifecycle
  <1>11. CASE CreateVolume
    BY <1>1, <1>11, CreatedLifecycle
  <1>12. CASE \/ MinionStep \/ RejectStateJob \/ FailStateJob \/ MinionRestart
              \/ \E j \in Jids : ForgetJob(j)
    BY <1>12, NodeLifecycle
  <1>13. CASE OperatorStep
    BY <1>3, <1>5, <1>6, <1>7, <1>8, <1>9, <1>10, <1>13 DEF OperatorStep
  <1>14. CASE ClassChanges
    <2>1. UNCHANGED <<vol, pv, lastUid, storage>>
      BY <1>14, ClassFrame DEF volVars, pvVars
    <2> QED
      BY <2>1, SameLifecycle
  <1> QED
    BY <1>2, <1>3, <1>4, <1>5, <1>7, <1>11, <1>12, <1>13, <1>14 DEF Next

\* The controller, the jobs it spawns and the caches it reads implement the
\* lifecycle a user relies on: an incarnation is declared, serves its storage
\* once, is retired for good, and is gone when nothing of it is left.
THEOREM LifecycleImplemented ==
    ASSUME "PersistentVolume" \notin CacheMayLag
    PROVE  Spec => ImplementsLifecycle
  <1>1. Init => Lifecycle!LifeInit
    BY InitLifecycle
  <1>2. Spec => [](TypeOK /\ VolumeInv /\ ReclaimInv /\ ServingInv)
    <2>1. StorageInv => ReclaimInv /\ ServingInv
      BY DEF StorageInv
    <2> QED
      BY <2>1, StorageInvariant, PTL
  <1>3. TypeOK /\ VolumeInv /\ ReclaimInv /\ ServingInv /\ [Next]_vars
            /\ (TypeOK /\ VolumeInv /\ ReclaimInv /\ ServingInv)'
            => [Lifecycle!LifeNext]_Lifecycle!lifeVars
    BY NextLifecycle
  <1> QED
    BY <1>1, <1>2, <1>3, PTL
       DEF Spec, ImplementsLifecycle, Lifecycle!LifeSpec
===============================================================================
