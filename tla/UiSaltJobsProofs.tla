--------------------------- MODULE UiSaltJobsProofs ---------------------------
(***************************************************************************)
(* The list of jobs on the page agrees with localStorage, for any set of   *)
(* deployments and any number of connections and reloads.                  *)
(*                                                                         *)
(* PageMatchesStorage is not inductive: an answer to a deployment adds a   *)
(* job as pending, which would contradict localStorage if it already had   *)
(* the job as completed.  FreshInv says that it cannot: a deployment that  *)
(* was not asked for, or is not answered, was never saved.                 *)
(*                                                                         *)
(* The end of a job that came before the connection is seen, and announced *)
(* once while no load connects twice.  SeenInv says what a connection has  *)
(* polled and waits for, OnceInv that a job whose end was announced is     *)
(* completed in localStorage for good.                                     *)
(***************************************************************************)
EXTENDS UiSaltJobs, TLAPS, FiniteSetTheorems,
        WellFoundedInduction

\* What is known of an entry of the list (its rank in it does not matter).
IsEntry(e) ==
    /\ e = [jid |-> e.jid, copy |-> e.copy, completedAt |-> e.completedAt]
    /\ e.jid \in Jobs
    /\ e.completedAt \in Nat

StateInv ==
    /\ \A e \in store : IsEntry(e)
    /\ storage \in [Jobs -> Nat \cup {Absent}]
    /\ completions \in [Jobs -> Nat]
    /\ server \in [Jobs -> {"none", "asked", "running", "done"}]
    /\ pending \in Jobs \cup {None}

FreshInv ==
    /\ \A j \in Jobs : server[j] = "none" => storage[j] = Absent
    /\ pending # None => storage[pending] = Absent

JobsInv == StateInv /\ FreshInv /\ PageMatchesStorage

-----------------------------------------------------------------------------
(* The dispatches.                                                         *)

\* JOB_COMPLETED changes the list and localStorage alike, and saves or forgets
\* no job.
LEMMA Completing ==
    ASSUME NEW j \in Jobs, StateInv, PageMatchesStorage, CompleteJob(j)
    PROVE  /\ \A e \in store' : IsEntry(e) /\ storage'[e.jid] = e.completedAt
           /\ storage' \in [Jobs -> Nat \cup {Absent}]
           /\ completions' \in [Jobs -> Nat]
           /\ \A k \in Jobs : storage'[k] = Absent <=> storage[k] = Absent
           /\ \A k \in Jobs : Copies(k) # {} => Copies(k)' # {}
<1> DEFINE at == completions[j] + 1
           new(e) == [e EXCEPT !.completedAt = IF e.jid = j THEN at ELSE @]
<1>1. at \in Nat \ {0}
  BY DEF StateInv
<1>2. store' = {new(e) : e \in store}
  BY DEF CompleteJob
<1>3. /\ storage' \in [Jobs -> Nat \cup {Absent}]
      /\ completions' \in [Jobs -> Nat]
      /\ \A k \in Jobs : storage'[k] = Absent <=> storage[k] = Absent
  BY <1>1 DEF StateInv, CompleteJob, Absent
<1>4. ASSUME NEW e \in store
      PROVE  IsEntry(new(e)) /\ new(e).jid = e.jid /\ storage'[e.jid] = new(e).completedAt
  <2>1. /\ e = [jid |-> e.jid, copy |-> e.copy, completedAt |-> e.completedAt]
        /\ e.jid \in Jobs /\ e.completedAt \in Nat
        /\ storage[e.jid] = e.completedAt
    BY DEF StateInv, IsEntry, PageMatchesStorage
  <2>2. new(e) = [jid |-> e.jid, copy |-> e.copy,
                  completedAt |-> IF e.jid = j THEN at ELSE e.completedAt]
    BY <2>1
  <2>3. storage'[e.jid] = IF e.jid = j THEN at ELSE e.completedAt
    BY <2>1, <1>1 DEF CompleteJob, StateInv, Absent
  <2> QED BY <2>1, <2>2, <2>3, <1>1 DEF IsEntry
<1>5. ASSUME NEW k \in Jobs, Copies(k) # {}
      PROVE  Copies(k)' # {}
  <2>1. PICK e \in store : e.jid = k
    BY <1>5 DEF Copies
  <2>2. new(e) \in store' /\ new(e).jid = k
    BY <2>1, <1>2, <1>4
  <2> QED BY <2>2 DEF Copies
<1>6. ASSUME NEW f \in store'
      PROVE  IsEntry(f) /\ storage'[f.jid] = f.completedAt
  <2>1. PICK e \in store : f = new(e)
    BY <1>2
  <2> QED BY <2>1, <1>4
<1> HIDE DEF at, new
<1> QED BY <1>3, <1>5, <1>6

-----------------------------------------------------------------------------
(* The steps.                                                              *)

LEMMA InitJobsInv == Init => JobsInv
<1> SUFFICES ASSUME Init PROVE JobsInv
  OBVIOUS
<1>1. StateInv
  BY DEF Init, StateInv, Absent
<1>2. FreshInv
  BY DEF Init, FreshInv
<1>3. PageMatchesStorage
  BY DEF Init, PageMatchesStorage, Connected, Off
<1> QED BY <1>1, <1>2, <1>3 DEF JobsInv

\* The steps that leave the list, localStorage and the connections alone.
LEMMA QuietSteps ==
    ASSUME JobsInv, UNCHANGED <<store, storage, completions>>,
           server' \in [Jobs -> {"none", "asked", "running", "done"}],
           pending' \in Jobs \cup {None},
           \A j \in Jobs : server'[j] = "none" => server[j] = "none",
           pending' # None => storage[pending'] = Absent,
           Connected' => Connected
    PROVE  JobsInv'
<1>1. StateInv'
  BY DEF JobsInv, StateInv
<1>2. FreshInv'
  BY DEF JobsInv, FreshInv
<1>3. PageMatchesStorage'
  BY DEF JobsInv, PageMatchesStorage, Saved, Copies
<1> QED BY <1>1, <1>2, <1>3 DEF JobsInv

\* The steps that complete a job or leave the list as it is.
LEMMA CompletingSteps ==
    ASSUME JobsInv, NEW j \in Jobs, NEW wasNull \in BOOLEAN,
           UpdateJobStatus(j, wasNull), UNCHANGED <<server, pending>>,
           Connected' => Connected
    PROVE  JobsInv'
<1>1. CASE ~wasNull
  <2>1. UNCHANGED <<store, storage, completions>>
    BY <1>1 DEF UpdateJobStatus
  <2> QED BY <2>1, QuietSteps DEF JobsInv, StateInv, FreshInv
<1>2. CASE wasNull
  <2>1. CompleteJob(j)
    BY <1>2 DEF UpdateJobStatus
  <2>2. /\ \A e \in store' : IsEntry(e) /\ storage'[e.jid] = e.completedAt
        /\ storage' \in [Jobs -> Nat \cup {Absent}]
        /\ completions' \in [Jobs -> Nat]
        /\ \A k \in Jobs : storage'[k] = Absent <=> storage[k] = Absent
        /\ \A k \in Jobs : Copies(k) # {} => Copies(k)' # {}
    BY <2>1, Completing DEF JobsInv
  <2>3. StateInv'
    BY <2>2 DEF JobsInv, StateInv, IsEntry
  <2>4. FreshInv'
    BY <2>2 DEF JobsInv, StateInv, FreshInv
  <2>5. PageMatchesStorage'
    BY <2>2 DEF JobsInv, PageMatchesStorage, Saved
  <2> QED BY <2>3, <2>4, <2>5 DEF JobsInv
<1> QED BY <1>1, <1>2
\* ADD_JOB, which the answer to a deployment causes: the job is not saved yet.
LEMMA DeployAnsweredStep ==
    ASSUME JobsInv, DeployAnswered
    PROVE  JobsInv'
<1>1. /\ pending \in Jobs /\ storage[pending] = Absent
      /\ server[pending] # "none" /\ pending' = None
      /\ UNCHANGED <<conns, server, completions>>
  BY DEF JobsInv, StateInv, FreshInv, DeployAnswered
<1>2. /\ store' = store \cup {NewEntry(pending, Null)}
      /\ storage' = [storage EXCEPT ![pending] = Null]
  BY <1>1 DEF DeployAnswered, AddJob, JobsInv, StateInv
<1>3. /\ IsEntry(NewEntry(pending, Null))
      /\ NewEntry(pending, Null).jid = pending
      /\ NewEntry(pending, Null).completedAt = Null
  BY <1>1 DEF NewEntry, IsEntry, Null
<1>4. StateInv'
  BY <1>1, <1>2, <1>3 DEF JobsInv, StateInv, Null
<1>5. FreshInv'
  BY <1>1, <1>2 DEF JobsInv, FreshInv, StateInv
<1>6. \A e \in store' : storage'[e.jid] = e.completedAt
  <2> SUFFICES ASSUME NEW e \in store' PROVE storage'[e.jid] = e.completedAt
    OBVIOUS
  <2>1. CASE e \in store
    <3>1. e.jid \in Jobs /\ e.completedAt \in Nat /\ storage[e.jid] = e.completedAt
      BY <2>1 DEF JobsInv, StateInv, IsEntry, PageMatchesStorage
    <3>2. e.jid # pending
      BY <3>1, <1>1 DEF Absent
    <3> QED BY <3>1, <3>2, <1>2
  <2>2. CASE e = NewEntry(pending, Null)
    BY <2>2, <1>1, <1>2, <1>3 DEF JobsInv, StateInv
  <2> QED BY <2>1, <2>2, <1>2
<1>7. Connected' => \A j \in Saved' : Copies(j)' # {}
  <2> SUFFICES ASSUME Connected', NEW j \in Saved' PROVE Copies(j)' # {}
    OBVIOUS
  <2>1. CASE j = pending
    BY <2>1, <1>2, <1>3 DEF Copies
  <2>2. CASE j # pending
    <3>1. Connected /\ j \in Saved
      BY <2>2, <1>1, <1>2 DEF Connected, Saved, JobsInv, StateInv
    <3>2. Copies(j) # {}
      BY <3>1 DEF JobsInv, PageMatchesStorage
    <3> QED BY <3>2, <1>2 DEF Copies
  <2> QED BY <2>1, <2>2
<1> QED BY <1>4, <1>5, <1>6, <1>7 DEF JobsInv, PageMatchesStorage

\* Connecting adds back every saved job with the completion time it has.
LEMMA ConnectStep ==
    ASSUME JobsInv, NEW c \in Conns, Connect(c)
    PROVE  JobsInv'
<1>1. /\ store' = store \cup {NewEntry(j, storage[j]) : j \in Saved}
      /\ UNCHANGED <<storage, pending, server, completions>>
  BY DEF Connect
<1>2. ASSUME NEW j \in Saved
      PROVE  /\ j \in Jobs /\ IsEntry(NewEntry(j, storage[j]))
             /\ NewEntry(j, storage[j]).jid = j
             /\ NewEntry(j, storage[j]).completedAt = storage[j]
  BY DEF JobsInv, StateInv, Saved, NewEntry, IsEntry, Absent
<1>3. ASSUME NEW e \in store'
      PROVE  IsEntry(e) /\ storage[e.jid] = e.completedAt
  <2>1. CASE e \in store
    BY <2>1 DEF JobsInv, StateInv, PageMatchesStorage
  <2>2. CASE e \notin store
    <3>1. PICK j \in Saved : e = NewEntry(j, storage[j])
      BY <2>2, <1>1
    <3> QED BY <3>1, <1>2
  <2> QED BY <2>1, <2>2
<1>4. ASSUME NEW j \in Saved
      PROVE  Copies(j)' # {}
  BY <1>1, <1>2 DEF Copies
<1>5. StateInv'
  BY <1>1, <1>3 DEF JobsInv, StateInv, IsEntry
<1>6. FreshInv'
  BY <1>1 DEF JobsInv, FreshInv
<1>7. PageMatchesStorage'
  BY <1>1, <1>3, <1>4 DEF PageMatchesStorage, Saved
<1> QED BY <1>5, <1>6, <1>7 DEF JobsInv

\* REMOVE_JOB takes every entry of a job and its copy in localStorage.
LEMMA GarbageCollectStep ==
    ASSUME JobsInv, GarbageCollect
    PROVE  JobsInv'
<1> DEFINE js == {e.jid : e \in {f \in store : Expired(f)}}
<1>1. /\ store' = {e \in store : e.jid \notin js}
      /\ storage' = [j \in Jobs |-> IF j \in js THEN Absent ELSE storage[j]]
      /\ UNCHANGED <<conns, pending, server, completions>>
  BY DEF GarbageCollect, RemoveJobs
<1> HIDE DEF js
<1>2. StateInv'
  BY <1>1 DEF JobsInv, StateInv, IsEntry
<1>3. FreshInv'
  BY <1>1 DEF JobsInv, FreshInv, StateInv
<1>4. \A e \in store' : storage'[e.jid] = e.completedAt
  BY <1>1 DEF JobsInv, StateInv, IsEntry, PageMatchesStorage
<1>5. Connected' => \A j \in Saved' : Copies(j)' # {}
  <2> SUFFICES ASSUME Connected', NEW j \in Saved' PROVE Copies(j)' # {}
    OBVIOUS
  <2>1. Connected /\ j \in Saved /\ j \notin js
    BY <1>1 DEF Connected, Saved
  <2>2. PICK e \in store : e.jid = j
    BY <2>1 DEF JobsInv, PageMatchesStorage, Copies
  <2> QED BY <2>1, <2>2, <1>1 DEF Copies
<1> QED BY <1>2, <1>3, <1>4, <1>5 DEF JobsInv, PageMatchesStorage

\* A reload empties the list and closes the connections.
LEMMA ReloadStep ==
    ASSUME JobsInv, Reload
    PROVE  JobsInv'
<1>1. /\ store' = {} /\ pending' = None
      /\ conns' = [c \in Conns |-> Off]
      /\ UNCHANGED <<storage, server, completions>>
  BY DEF Reload
<1>2. ~Connected'
  BY <1>1 DEF Connected, Off
<1> QED BY <1>1, <1>2 DEF JobsInv, StateInv, FreshInv, PageMatchesStorage

LEMMA NextJobsInv == JobsInv /\ [Next]_vars => JobsInv'
<1> SUFFICES ASSUME JobsInv, [Next]_vars PROVE JobsInv'
  OBVIOUS
<1> USE JobsAssumption
<1>1. ASSUME NEW j \in Jobs, DeployNode(j) PROVE JobsInv'
  BY <1>1, QuietSteps DEF DeployNode, JobsInv, StateInv, FreshInv, Connected
<1>2. ASSUME NEW j \in Jobs, ServerStarts(j) PROVE JobsInv'
  BY <1>2, QuietSteps DEF ServerStarts, JobsInv, StateInv, FreshInv, Connected
<1>3. ASSUME NEW j \in Jobs, ServerEnds(j) PROVE JobsInv'
  <2>1. Connected' => Connected
    BY <1>3 DEF ServerEnds, Connected
  <2> QED BY <1>3, <2>1, QuietSteps DEF ServerEnds, JobsInv, StateInv, FreshInv
<1>4. CASE DeployFailed
  BY <1>4, QuietSteps DEF DeployFailed, JobsInv, StateInv, FreshInv, Connected
<1>5. ASSUME NEW c \in Conns, StreamEnds(c) PROVE JobsInv'
  <2>1. Connected
    BY <1>5 DEF StreamEnds, Connected
  <2> QED BY <1>5, <2>1, QuietSteps DEF StreamEnds, JobsInv, StateInv, FreshInv
<1>6. ASSUME NEW c \in Conns, NEW j \in Jobs, PollAnswered(c, j) PROVE JobsInv'
  <2>1. Connected
    BY <1>6 DEF PollAnswered, Connected
  <2>2. CASE UpdateJobStatus(j, j \in conns[c].nulls)
    <3>1. PICK wasNull \in BOOLEAN : UpdateJobStatus(j, wasNull)
      BY <2>2 DEF UpdateJobStatus
    <3> QED BY <1>6, <2>1, <3>1, CompletingSteps DEF PollAnswered
  <2>3. CASE UNCHANGED <<store, storage, completions, told>>
    BY <1>6, <2>1, <2>3, QuietSteps
       DEF PollAnswered, JobsInv, StateInv, FreshInv
  <2> QED BY <1>6, <2>2, <2>3 DEF PollAnswered
<1>7. ASSUME NEW c \in Conns, NEW j \in Jobs, PollFailed(c, j) PROVE JobsInv'
  BY <1>7, QuietSteps DEF PollFailed, JobsInv, StateInv, FreshInv, Connected
<1>8. ASSUME NEW c \in Conns, NEW j \in Jobs, EventRead(c, j) PROVE JobsInv'
  <2>1. Connected
    BY <1>8 DEF EventRead, Connected
  <2>2. CASE Copies(j) = {}
    BY <1>8, <2>1, <2>2, QuietSteps DEF EventRead, JobsInv, StateInv, FreshInv
  <2>3. CASE Copies(j) # {}
    <3>1. PICK wasNull \in BOOLEAN : UpdateJobStatus(j, wasNull)
      BY <1>8, <2>3 DEF EventRead
    <3> QED BY <1>8, <2>1, <3>1, CompletingSteps DEF EventRead
  <2> QED BY <2>2, <2>3
<1>9. ASSUME NEW j \in Jobs, FiveMinutesPass(j) PROVE JobsInv'
  BY <1>9, QuietSteps DEF FiveMinutesPass, JobsInv, StateInv, FreshInv, Connected
<1>10. CASE UNCHANGED vars
  BY <1>10, QuietSteps DEF vars, JobsInv, StateInv, FreshInv, Connected
<1> QED
  BY <1>1, <1>2, <1>3, <1>4, <1>5, <1>6, <1>7, <1>8, <1>9, <1>10,
     DeployAnsweredStep, ConnectStep, GarbageCollectStep, ReloadStep DEF Next

-----------------------------------------------------------------------------
\* The list on the page and the one a reload will find agree, whatever the
\* order of polls, events, deployments, collections and reloads, for any
\* deployments and any number of connections.
THEOREM JobsAgree == Spec => []PageMatchesStorage
<1>1. Init => JobsInv
  BY InitJobsInv
<1>2. JobsInv /\ [Next]_vars => JobsInv'
  BY NextJobsInv
<1>3. JobsInv => PageMatchesStorage
  BY DEF JobsInv
<1> QED BY <1>1, <1>2, <1>3, PTL DEF Spec

-----------------------------------------------------------------------------
(* The state is of its type.  A new entry has the number of the job's       *)
(* entries for its rank, so the entries of one job must stay finitely many; *)
(* the jobs themselves need not be.                                        *)

CopiesAreFinite == \A j \in Jobs : IsFiniteSet(Copies(j))

TypeInv == TypeOK /\ CopiesAreFinite

\* An entry that joins the list is an entry.
LEMMA NewEntryType ==
    ASSUME NEW j \in Jobs, NEW at \in Nat, CopiesAreFinite
    PROVE  /\ NewEntry(j, at) \in Entry
           /\ NewEntry(j, at).jid = j
           /\ NewEntry(j, at).completedAt = at
<1>1. Cardinality(Copies(j)) \in Nat
  BY FS_CardinalityType DEF CopiesAreFinite
<1> QED BY <1>1 DEF NewEntry, Entry

\* A list to which each job adds one entry at most, and any part of it, keep the
\* entries of each job finitely many.
LEMMA OneMoreCopy ==
    ASSUME CopiesAreFinite,
           \A j \in Jobs : \E x : Copies(j)' \subseteq Copies(j) \cup {x}
    PROVE  CopiesAreFinite'
<1> SUFFICES ASSUME NEW j \in Jobs PROVE IsFiniteSet(Copies(j)')
  BY DEF CopiesAreFinite
<1>1. PICK x : Copies(j)' \subseteq Copies(j) \cup {x}
  OBVIOUS
<1>2. IsFiniteSet(Copies(j) \cup {x})
  BY FS_AddElement DEF CopiesAreFinite
<1> QED BY <1>1, <1>2, FS_Subset

LEMMA CompletingType ==
    ASSUME TypeInv, NEW j \in Jobs, CompleteJob(j)
    PROVE  /\ store' \subseteq Entry
           /\ storage' \in [Jobs -> Nat \cup {Absent}]
           /\ completions' \in [Jobs -> Nat]
           /\ told' \in [Jobs -> Nat]
           /\ CopiesAreFinite'
<1> DEFINE at == completions[j] + 1
           new(e) == [e EXCEPT !.completedAt = IF e.jid = j THEN at ELSE @]
<1>1. at \in Nat
  BY DEF TypeInv, TypeOK
<1>2. store' = {new(e) : e \in store}
  BY DEF CompleteJob
<1>3. ASSUME NEW e \in store
      PROVE  new(e) \in Entry /\ new(e).jid = e.jid
  BY <1>1 DEF TypeInv, TypeOK, Entry
<1>4. /\ storage' \in [Jobs -> Nat \cup {Absent}]
      /\ completions' \in [Jobs -> Nat]
      /\ told' \in [Jobs -> Nat]
  BY <1>1 DEF TypeInv, TypeOK, CompleteJob
<1>5. store' \subseteq Entry
  BY <1>2, <1>3
<1>6. ASSUME NEW k \in Jobs
      PROVE  IsFiniteSet(Copies(k)')
  <2> DEFINE g == [e \in Copies(k) |-> new(e)]
  <2>1. ASSUME NEW f \in Copies(k)'
        PROVE  \E e \in Copies(k) : f = new(e)
    <3>1. f \in store' /\ f.jid = k
      BY DEF Copies
    <3>2. PICK e \in store : f = new(e)
      BY <3>1, <1>2
    <3>3. e.jid = k
      BY <3>1, <3>2, <1>3
    <3> QED BY <3>2, <3>3 DEF Copies
  <2>2. ASSUME NEW e \in Copies(k)
        PROVE  new(e) \in Copies(k)'
    BY <1>2, <1>3 DEF Copies
  <2> HIDE DEF new
  <2>3. g \in Surjection(Copies(k), Copies(k)')
    BY <2>1, <2>2 DEF Surjection
  <2> QED BY <2>3, FS_Surjection DEF TypeInv, CopiesAreFinite
<1> HIDE DEF at, new
<1> QED BY <1>4, <1>5, <1>6 DEF CopiesAreFinite

LEMMA UpdatingType ==
    ASSUME TypeInv, NEW j \in Jobs, NEW wasNull, UpdateJobStatus(j, wasNull)
    PROVE  /\ store' \subseteq Entry
           /\ storage' \in [Jobs -> Nat \cup {Absent}]
           /\ completions' \in [Jobs -> Nat]
           /\ told' \in [Jobs -> Nat]
           /\ CopiesAreFinite'
<1>1. CASE CompleteJob(j)
  BY <1>1, CompletingType
<1>2. CASE UNCHANGED <<store, storage, completions, told>>
  BY <1>2 DEF TypeInv, TypeOK, CopiesAreFinite, Copies
<1> QED BY <1>1, <1>2 DEF UpdateJobStatus

\* A set of numbers has a smallest one.
LEMMA HasLeast ==
    ASSUME NEW S, S \subseteq Nat, S # {}
    PROVE  \E n \in S : \A m \in S : n <= m
<1>1. PICK R : /\ R = {p \in Nat \X Nat : p[1] < p[2]}
               /\ IsWellFoundedOn(R, Nat)
  BY NatLessThanWellFounded DEF OpToRel
<1>2. PICK n \in S : \A m \in S : <<m, n>> \notin R
  BY <1>1, WFMin
<1>3. ASSUME NEW m \in S PROVE n <= m
  <2>1. m \in Nat /\ n \in Nat
    BY <1>2
  <2>2. ~(m < n)
    BY <1>1, <1>2, <2>1
  <2> QED BY <2>1, <2>2
<1> QED BY <1>2, <1>3

\* A job that is in the list has a first entry there.
LEMMA FirstCopy ==
    ASSUME TypeInv, NEW j \in Jobs, Copies(j) # {}
    PROVE  \E e \in Copies(j) : \A f \in Copies(j) : e.copy <= f.copy
<1> DEFINE ranks == {e.copy : e \in Copies(j)}
<1>1. ranks \subseteq Nat /\ ranks # {}
  BY DEF TypeInv, TypeOK, Entry, Copies
<1>2. PICK r \in ranks : \A s \in ranks : r <= s
  <2> HIDE DEF ranks
  <2> QED BY <1>1, HasLeast
<1> QED BY <1>1, <1>2

LEMMA InitTypeInv == Init => TypeInv
<1> SUFFICES ASSUME Init PROVE TypeInv
  OBVIOUS
<1>1. Off \in Conn
  BY DEF Off, Conn
<1>2. TypeOK
  BY <1>1 DEF Init, TypeOK, Absent
<1>3. ASSUME NEW j \in Jobs
      PROVE  Copies(j) = {}
  BY DEF Init, Copies
<1> QED BY <1>2, <1>3, FS_EmptySet DEF TypeInv, CopiesAreFinite

\* The steps that leave the list as it is.
LEMMA QuietTypes ==
    ASSUME TypeInv, UNCHANGED <<store, storage, completions, told, reloads>>,
           alive' \in BOOLEAN, reconnected' \in BOOLEAN,
           conns' \in [Conns -> Conn],
           pending' \in Jobs \cup {None},
           server' \in [Jobs -> {"none", "asked", "running", "done"}],
           forgettable' \in [Jobs -> Nat]
    PROVE  TypeInv'
BY DEF TypeInv, TypeOK, CopiesAreFinite, Copies

LEMMA NextTypeInv == TypeInv /\ [Next]_vars => TypeInv'
<1> SUFFICES ASSUME TypeInv, [Next]_vars PROVE TypeInv'
  OBVIOUS
<1>1. ASSUME NEW j \in Jobs, DeployNode(j) PROVE TypeInv'
  BY <1>1, QuietTypes DEF DeployNode, TypeInv, TypeOK
<1>2. ASSUME NEW j \in Jobs, ServerStarts(j) PROVE TypeInv'
  BY <1>2, QuietTypes DEF ServerStarts, TypeInv, TypeOK
<1>3. ASSUME NEW j \in Jobs, ServerEnds(j) PROVE TypeInv'
  <2>1. conns' \in [Conns -> Conn]
    BY <1>3 DEF ServerEnds, TypeInv, TypeOK, Conn
  <2> QED BY <1>3, <2>1, QuietTypes DEF ServerEnds, TypeInv, TypeOK
<1>4. CASE DeployAnswered
  <2>1. pending \in Jobs
    BY <1>4 DEF DeployAnswered, TypeInv, TypeOK
  <2>2. store' = store \cup {NewEntry(pending, Null)}
    BY <1>4 DEF DeployAnswered, AddJob
  <2>3. NewEntry(pending, Null) \in Entry
    BY <2>1, NewEntryType DEF TypeInv, Null
  <2>4. CopiesAreFinite'
    <3>1. \A j \in Jobs : Copies(j)' \subseteq Copies(j) \cup {NewEntry(pending, Null)}
      BY <2>2 DEF Copies
    <3> QED BY <3>1, OneMoreCopy DEF TypeInv
  <2> QED
    BY <1>4, <2>1, <2>2, <2>3, <2>4
       DEF DeployAnswered, AddJob, TypeInv, TypeOK, Null, Absent
<1>5. CASE DeployFailed
  BY <1>5, QuietTypes DEF DeployFailed, TypeInv, TypeOK
<1>6. ASSUME NEW c \in Conns, Connect(c) PROVE TypeInv'
  <2>1. store' = store \cup {NewEntry(j, storage[j]) : j \in Saved}
    BY <1>6 DEF Connect
  <2>2. \A j \in Saved : /\ NewEntry(j, storage[j]) \in Entry
                         /\ NewEntry(j, storage[j]).jid = j
    BY NewEntryType DEF TypeInv, TypeOK, Saved, Absent
  <2>3. CopiesAreFinite'
    <3>1. ASSUME NEW j \in Jobs
          PROVE  Copies(j)' \subseteq Copies(j) \cup {NewEntry(j, storage[j])}
      BY <2>1, <2>2 DEF Copies
    <3> QED BY <3>1, OneMoreCopy DEF TypeInv
  <2>4. conns' \in [Conns -> Conn]
    BY <1>6 DEF Connect, TypeInv, TypeOK, Conn, Saved
  <2> QED
    BY <1>6, <2>1, <2>2, <2>3, <2>4 DEF Connect, TypeInv, TypeOK
<1>7. ASSUME NEW c \in Conns, StreamEnds(c) PROVE TypeInv'
  <2>1. conns' \in [Conns -> Conn]
    <3>1. [conns[c] EXCEPT !.phase = "ended", !.events = {}] \in Conn
      BY DEF TypeInv, TypeOK, Conn
    <3>2. conns' = [conns EXCEPT ![c] =
                      [conns[c] EXCEPT !.phase = "ended", !.events = {}]]
      BY <1>7 DEF StreamEnds, TypeInv, TypeOK
    <3> QED BY <3>1, <3>2 DEF TypeInv, TypeOK
  <2> QED BY <1>7, <2>1, QuietTypes DEF StreamEnds, TypeInv, TypeOK
<1>8. ASSUME NEW c \in Conns, NEW j \in Jobs, PollAnswered(c, j) PROVE TypeInv'
  <2>1. conns' \in [Conns -> Conn]
    <3> DEFINE left == conns[c].waiting \ {j}
               phase == IF left = {} THEN "open" ELSE conns[c].phase
    <3>1. [conns[c] EXCEPT !.waiting = left, !.phase = phase] \in Conn
      BY DEF TypeInv, TypeOK, Conn
    <3>2. conns' = [conns EXCEPT ![c] =
                      [conns[c] EXCEPT !.waiting = left, !.phase = phase]]
      BY <1>8 DEF PollAnswered, TypeInv, TypeOK
    <3> QED BY <3>1, <3>2 DEF TypeInv, TypeOK
  <2>2. CASE UpdateJobStatus(j, j \in conns[c].nulls)
    BY <1>8, <2>1, <2>2, UpdatingType DEF PollAnswered, TypeInv, TypeOK
  <2>3. CASE UNCHANGED <<store, storage, completions, told>>
    BY <1>8, <2>1, <2>3, QuietTypes DEF PollAnswered, TypeInv, TypeOK
  <2> QED BY <1>8, <2>2, <2>3 DEF PollAnswered
<1>9. ASSUME NEW c \in Conns, NEW j \in Jobs, PollFailed(c, j) PROVE TypeInv'
  BY <1>9, QuietTypes DEF PollFailed, TypeInv, TypeOK
<1>10. ASSUME NEW c \in Conns, NEW j \in Jobs, EventRead(c, j) PROVE TypeInv'
  <2>1. conns' \in [Conns -> Conn]
    BY <1>10 DEF EventRead, TypeInv, TypeOK, Conn
  <2>2. CASE Copies(j) = {}
    BY <1>10, <2>1, <2>2, QuietTypes DEF EventRead, TypeInv, TypeOK
  <2>3. CASE Copies(j) # {}
    <3>1. PICK wasNull \in BOOLEAN : UpdateJobStatus(j, wasNull)
      BY <1>10, <2>3 DEF EventRead
    <3> QED BY <1>10, <2>1, <3>1, UpdatingType DEF EventRead, TypeInv, TypeOK
  <2> QED BY <2>2, <2>3
<1>11. CASE GarbageCollect
  <2>1. CopiesAreFinite'
    <3>1. \A j \in Jobs : Copies(j)' \subseteq Copies(j) \cup {Null}
      BY <1>11 DEF GarbageCollect, RemoveJobs, Copies
    <3> QED BY <3>1, OneMoreCopy DEF TypeInv
  <2> QED
    BY <1>11, <2>1 DEF GarbageCollect, RemoveJobs, TypeInv, TypeOK
<1>12. ASSUME NEW j \in Jobs, FiveMinutesPass(j) PROVE TypeInv'
  BY <1>12, QuietTypes DEF FiveMinutesPass, TypeInv, TypeOK
<1>13. CASE Reload
  <2>1. CopiesAreFinite'
    <3>1. \A j \in Jobs : Copies(j)' \subseteq Copies(j) \cup {Null}
      BY <1>13 DEF Reload, Copies
    <3> QED BY <3>1, OneMoreCopy DEF TypeInv
  <2>2. conns' \in [Conns -> Conn]
    BY <1>13 DEF Reload, Off, Conn
  <2> QED BY <1>13, <2>1, <2>2 DEF Reload, TypeInv, TypeOK
<1>14. CASE UNCHANGED vars
  BY <1>14, QuietTypes DEF vars, TypeInv, TypeOK
<1> QED
  BY <1>1, <1>2, <1>3, <1>4, <1>5, <1>6, <1>7, <1>8, <1>9, <1>10, <1>11,
     <1>12, <1>13, <1>14 DEF Next

-----------------------------------------------------------------------------
(* The polls, and the announcements.                                       *)

\* What a connection knows of the jobs it polled.  None of them is still being
\* asked for, so none becomes pending again; those that were not pending when
\* the polls were sent, and those that had ended then and whose poll has been
\* answered, are pending no more.  The stream opens when no poll is left.
PolledIsKnown(c) ==
    /\ pending \notin conns[c].polled
    /\ conns[c].waiting \subseteq conns[c].polled
    /\ \A j \in conns[c].polled :
         /\ server[j] # "none"
         /\ j \notin conns[c].nulls => storage[j] # Null
         /\ j \in conns[c].ended /\ j \notin conns[c].waiting
              => storage[j] # Null
    /\ conns[c].phase \in {"open", "ended"} => conns[c].waiting = {}

SeenInv == \A c \in Conns : conns[c].phase # "off" => PolledIsKnown(c)

\* While no load connects twice only the first connection is used, and a job
\* whose end was announced can be announced no more: it is not pending in
\* localStorage, nor asked for, nor polled as pending.
AnnouncedIsOver(j) ==
    /\ told[j] <= 1
    /\ told[j] # 0 =>
         /\ storage[j] # Null
         /\ pending # j
         /\ server[j] # "none"
         /\ \A c \in Conns : conns[c].phase = "polling"
              => j \notin conns[c].nulls \cap conns[c].waiting

OnceInv == ~reconnected =>
    /\ \A c \in Conns : c # 1 => conns[c].phase = "off"
    /\ \A j \in Jobs : AnnouncedIsOver(j)

SafeInv == JobsInv /\ TypeInv /\ SeenInv /\ OnceInv

\* Completing a job makes no job pending, and what it announces is pending no
\* more.
LEMMA UpdatingOver ==
    ASSUME JobsInv, TypeInv, NEW j \in Jobs, NEW wasNull, UpdateJobStatus(j, wasNull)
    PROVE  /\ \A k \in Jobs : storage'[k] = Null => storage[k] = Null
           /\ \A k \in Jobs : k # j => told'[k] = told[k]
           /\ told'[j] # told[j]
                => wasNull /\ told'[j] = told[j] + 1 /\ storage'[j] # Null
           /\ wasNull /\ storage[j] # Absent => storage'[j] # Null
<1>1. CASE wasNull
  <2>1. CompleteJob(j)
    BY <1>1 DEF UpdateJobStatus
  <2>2. completions[j] + 1 \in Nat \ {0}
    BY DEF TypeInv, TypeOK
  <2>3. Copies(j) # {} => storage[j] # Absent
    <3> SUFFICES ASSUME NEW e \in Copies(j) PROVE storage[j] # Absent
      OBVIOUS
    <3>1. e \in store /\ e.jid = j
      BY DEF Copies
    <3>2. storage[j] = e.completedAt /\ e.completedAt \in Nat
      BY <3>1 DEF JobsInv, StateInv, IsEntry, PageMatchesStorage
    <3> QED BY <3>2 DEF Absent
  <2> QED
    BY <1>1, <2>1, <2>2, <2>3 DEF CompleteJob, TypeInv, TypeOK, Null, Absent
<1>2. CASE ~wasNull
  BY <1>2 DEF UpdateJobStatus
<1> QED BY <1>1, <1>2

LEMMA InitSafeInv == Init => SafeInv
<1> SUFFICES ASSUME Init PROVE SafeInv
  OBVIOUS
<1>1. JobsInv /\ TypeInv
  BY InitJobsInv, InitTypeInv
<1>2. \A c \in Conns : conns[c].phase = "off"
  BY DEF Init, Off
<1>3. \A j \in Jobs : told[j] = 0
  BY DEF Init
<1>4. SeenInv
  BY <1>2 DEF SeenInv
<1>5. OnceInv
  BY <1>2, <1>3 DEF OnceInv, AnnouncedIsOver
<1> QED BY <1>1, <1>4, <1>5 DEF SafeInv

\* The steps that end no poll and make no job pending.
LEMMA QuietSeen ==
    ASSUME SafeInv, UNCHANGED <<told, reconnected>>,
           pending' = pending \/ pending' = None
             \/ (pending' \in Jobs /\ server[pending'] = "none"),
           \A j \in Jobs : server'[j] = "none" => server[j] = "none",
           \A j \in Jobs : storage'[j] = Null => storage[j] = Null,
           \A c \in Conns :
             /\ conns'[c].phase # "off" => conns[c].phase # "off"
             /\ conns'[c].phase = "polling" => conns[c].phase = "polling"
             /\ conns'[c].phase \in {"open", "ended"}
                  => conns[c].phase \in {"open", "ended"}
             /\ conns'[c].polled = conns[c].polled
             /\ conns'[c].nulls = conns[c].nulls
             /\ conns'[c].ended = conns[c].ended
             /\ conns'[c].waiting = conns[c].waiting
    PROVE  SeenInv' /\ OnceInv'
<1> USE JobsAssumption
<1>1. \A c \in Conns : conns[c].polled \subseteq Jobs
  BY DEF SafeInv, TypeInv, TypeOK, Conn
<1>2. SeenInv'
  <2> SUFFICES ASSUME NEW c \in Conns, conns'[c].phase # "off"
               PROVE  PolledIsKnown(c)'
    BY DEF SeenInv
  <2>1. PolledIsKnown(c)
    BY DEF SafeInv, SeenInv
  <2> QED BY <1>1, <2>1 DEF PolledIsKnown
<1>3. OnceInv'
  <2> SUFFICES ASSUME ~reconnected
               PROVE  /\ \A c \in Conns : c # 1 => conns'[c].phase = "off"
                      /\ \A j \in Jobs : AnnouncedIsOver(j)'
    BY DEF OnceInv
  <2>1. \A c \in Conns : c # 1 => conns'[c].phase = "off"
    BY DEF SafeInv, OnceInv
  <2>2. ASSUME NEW j \in Jobs PROVE AnnouncedIsOver(j)'
    <3>1. AnnouncedIsOver(j)
      BY DEF SafeInv, OnceInv
    <3> QED BY <3>1 DEF AnnouncedIsOver
  <2> QED BY <2>1, <2>2
<1> QED BY <1>2, <1>3

\* The answer to a deployment makes pending a job that no connection polled and
\* whose end was not announced.
LEMMA AnsweredSeen ==
    ASSUME SafeInv, DeployAnswered
    PROVE  SeenInv' /\ OnceInv'
<1> USE JobsAssumption
<1>1. /\ pending \in Jobs /\ pending' = None
      /\ UNCHANGED <<conns, server, told, reconnected>>
      /\ \A j \in Jobs : j # pending => storage'[j] = storage[j]
  BY DEF DeployAnswered, AddJob, SafeInv, TypeInv, TypeOK
<1>2. \A c \in Conns : conns[c].polled \subseteq Jobs
  BY DEF SafeInv, TypeInv, TypeOK, Conn
<1>3. SeenInv'
  <2> SUFFICES ASSUME NEW c \in Conns, conns'[c].phase # "off"
               PROVE  PolledIsKnown(c)'
    BY DEF SeenInv
  <2>1. PolledIsKnown(c)
    BY <1>1 DEF SafeInv, SeenInv
  <2> QED BY <1>1, <1>2, <2>1 DEF PolledIsKnown
<1>4. ASSUME NEW j \in Jobs, AnnouncedIsOver(j)
      PROVE  AnnouncedIsOver(j)'
  BY <1>1, <1>4 DEF AnnouncedIsOver
<1>5. OnceInv'
  BY <1>1, <1>4 DEF SafeInv, OnceInv
<1> QED BY <1>3, <1>5

\* A connection polls the saved jobs, and takes as pending those that are.
LEMMA ConnectSeen ==
    ASSUME SafeInv, NEW c \in Conns, Connect(c)
    PROVE  SeenInv' /\ OnceInv'
<1> DEFINE new == [phase |-> IF Saved = {} THEN "open" ELSE "polling",
                   polled |-> Saved,
                   nulls |-> {j \in Saved : storage[j] = Null},
                   waiting |-> Saved,
                   ended |-> {j \in Jobs : server[j] = "done"},
                   events |-> {}]
<1>1. /\ UNCHANGED <<storage, pending, server, told>>
      /\ conns' = [conns EXCEPT ![c] = new]
      /\ reconnected' = (reconnected \/ c > 1)
  BY DEF Connect
<1>2. /\ conns'[c] = new
      /\ \A d \in Conns : d # c => conns'[d] = conns[d]
  BY <1>1 DEF SafeInv, TypeInv, TypeOK
<1>3. pending \notin Saved /\ \A j \in Saved : server[j] # "none"
  BY JobsAssumption DEF SafeInv, JobsInv, FreshInv, Saved
<1>4. SeenInv'
  <2> SUFFICES ASSUME NEW d \in Conns, conns'[d].phase # "off"
               PROVE  PolledIsKnown(d)'
    BY DEF SeenInv
  <2>1. CASE d = c
    BY <2>1, <1>1, <1>2, <1>3 DEF PolledIsKnown
  <2>2. CASE d # c
    <3>1. PolledIsKnown(d)
      BY <2>2, <1>2 DEF SafeInv, SeenInv
    <3> QED BY <2>2, <3>1, <1>1, <1>2 DEF PolledIsKnown
  <2> QED BY <2>1, <2>2
<1>5. OnceInv'
  <2> SUFFICES ASSUME ~reconnected'
               PROVE  /\ \A d \in Conns : d # 1 => conns'[d].phase = "off"
                      /\ \A j \in Jobs : AnnouncedIsOver(j)'
    BY DEF OnceInv
  <2>1. ~reconnected /\ c = 1
    <3>1. ~reconnected /\ ~(c > 1)
      BY <1>1
    <3>2. c \in Nat \ {0}
      BY BoundsAssumption DEF Conns
    <3> QED BY <3>1, <3>2
  <2>2. \A d \in Conns : d # 1 => conns'[d].phase = "off"
    BY <2>1, <1>2 DEF SafeInv, OnceInv
  <2>3. ASSUME NEW j \in Jobs PROVE AnnouncedIsOver(j)'
    <3>1. AnnouncedIsOver(j)
      BY <2>1 DEF SafeInv, OnceInv
    <3>2. told[j] # 0 => j \notin new.nulls
      BY <3>1 DEF AnnouncedIsOver
    <3> QED BY <3>1, <3>2, <1>1, <1>2 DEF AnnouncedIsOver
  <2> QED BY <2>2, <2>3
<1> QED BY <1>4, <1>5

\* The answer to a poll: if the job had ended when the poll was sent, it is
\* pending no more, and its poll cannot announce it again.
LEMMA PollSeen ==
    ASSUME SafeInv, NEW c \in Conns, NEW j \in Jobs, PollAnswered(c, j)
    PROVE  SeenInv' /\ OnceInv'
<1> DEFINE left == conns[c].waiting \ {j}
<1>1. /\ conns[c].phase = "polling" /\ j \in conns[c].waiting
      /\ UNCHANGED <<pending, server, reconnected>>
  BY DEF PollAnswered
<1>2. /\ conns'[c].polled = conns[c].polled
      /\ conns'[c].nulls = conns[c].nulls
      /\ conns'[c].ended = conns[c].ended
      /\ conns'[c].waiting = left
      /\ conns'[c].phase = IF left = {} THEN "open" ELSE "polling"
      /\ \A d \in Conns : d # c => conns'[d] = conns[d]
  BY <1>1 DEF PollAnswered, SafeInv, TypeInv, TypeOK, Conn
<1>3. PICK wasNull \in BOOLEAN :
        /\ wasNull => j \in conns[c].nulls
        /\ j \in conns[c].nulls /\ j \in conns[c].ended => wasNull
        /\ UpdateJobStatus(j, wasNull)
  <2>1. CASE UpdateJobStatus(j, j \in conns[c].nulls)
    BY <2>1 DEF UpdateJobStatus
  <2>2. CASE j \notin conns[c].ended /\ UNCHANGED <<store, storage, completions, told>>
    BY <2>2 DEF UpdateJobStatus
  <2> QED BY <2>1, <2>2 DEF PollAnswered
<1>4. /\ \A k \in Jobs : storage'[k] = Null => storage[k] = Null
      /\ \A k \in Jobs : k # j => told'[k] = told[k]
      /\ told'[j] # told[j]
           => wasNull /\ told'[j] = told[j] + 1 /\ storage'[j] # Null
      /\ wasNull /\ storage[j] # Absent => storage'[j] # Null
  BY <1>3, UpdatingOver DEF SafeInv
<1>5. storage[j] = Absent => storage'[j] # Null
  BY <1>4 DEF Null, Absent
<1>6. \A d \in Conns : conns[d].polled \subseteq Jobs
  BY DEF SafeInv, TypeInv, TypeOK, Conn
<1>7. SeenInv'
  <2> SUFFICES ASSUME NEW d \in Conns, conns'[d].phase # "off"
               PROVE  PolledIsKnown(d)'
    BY DEF SeenInv
  <2>1. PolledIsKnown(d)
    BY <1>1, <1>2 DEF SafeInv, SeenInv
  <2>2. CASE d = c
    <3>1. \A k \in conns[c].polled :
            k \in conns[c].ended /\ k \notin left => storage'[k] # Null
      <4> SUFFICES ASSUME NEW k \in conns[c].polled, k \in conns[c].ended,
                          k \notin left
                   PROVE  storage'[k] # Null
        OBVIOUS
      <4>1. CASE k # j
        BY <4>1, <2>1, <2>2, <1>4, <1>6 DEF PolledIsKnown
      <4>2. CASE k = j /\ j \in conns[c].nulls
        BY <4>2, <1>3, <1>4, <1>5
      <4>3. CASE k = j /\ j \notin conns[c].nulls
        BY <4>3, <2>1, <2>2, <1>4 DEF PolledIsKnown
      <4> QED BY <4>1, <4>2, <4>3
    <3>2. left \subseteq conns[c].polled
      BY <2>1, <2>2 DEF PolledIsKnown
    <3> HIDE DEF left
    <3> QED
      BY <3>1, <3>2, <2>1, <2>2, <1>1, <1>2, <1>4, <1>6 DEF PolledIsKnown
  <2>3. CASE d # c
    BY <2>1, <2>3, <1>1, <1>2, <1>4, <1>6 DEF PolledIsKnown
  <2> QED BY <2>2, <2>3
<1>8. OnceInv'
  <2> SUFFICES ASSUME ~reconnected
               PROVE  /\ \A d \in Conns : d # 1 => conns'[d].phase = "off"
                      /\ \A k \in Jobs : AnnouncedIsOver(k)'
    BY <1>1 DEF OnceInv
  <2>1. /\ c = 1
        /\ \A d \in Conns : d # 1 => conns'[d].phase = "off"
    BY <1>1, <1>2 DEF SafeInv, OnceInv
  <2>2. ASSUME NEW k \in Jobs PROVE AnnouncedIsOver(k)'
    <3>1. AnnouncedIsOver(k)
      BY DEF SafeInv, OnceInv
    <3>2. told[k] \in Nat
      BY DEF SafeInv, TypeInv, TypeOK
    <3>3. CASE told'[k] = told[k]
      BY <3>1, <3>3, <2>1, <1>1, <1>2, <1>4 DEF AnnouncedIsOver
    <3>4. CASE told'[k] # told[k]
      <4>1. k = j /\ j \in conns[c].nulls \cap conns[c].waiting
        BY <3>4, <1>1, <1>3, <1>4
      <4>2. told[j] = 0 /\ told'[j] = 1 /\ storage'[j] # Null
        BY <3>1, <3>2, <3>4, <4>1, <1>1, <1>4 DEF AnnouncedIsOver
      <4>3. pending # j /\ server[j] # "none"
        <5>1. PolledIsKnown(c)
          BY <1>1 DEF SafeInv, SeenInv
        <5>2. j \in conns[c].polled
          BY <1>1 DEF SafeInv, SeenInv, PolledIsKnown
        <5> QED BY <5>1, <5>2 DEF PolledIsKnown
      <4> QED BY <4>1, <4>2, <4>3, <2>1, <1>1, <1>2 DEF AnnouncedIsOver
    <3> QED BY <3>3, <3>4
  <2> QED BY <2>1, <2>2
<1> QED BY <1>7, <1>8

\* An event is read while the stream is open: the job it announces was pending
\* in the list, hence in localStorage, and no poll is left.
LEMMA EventSeen ==
    ASSUME SafeInv, NEW c \in Conns, NEW j \in Jobs, EventRead(c, j)
    PROVE  SeenInv' /\ OnceInv'
<1>1. /\ conns[c].phase = "open"
      /\ UNCHANGED <<pending, server, reconnected>>
  BY DEF EventRead
<1>2. \A d \in Conns :
        /\ conns'[d].phase = conns[d].phase /\ conns'[d].polled = conns[d].polled
        /\ conns'[d].nulls = conns[d].nulls /\ conns'[d].ended = conns[d].ended
        /\ conns'[d].waiting = conns[d].waiting
  BY DEF EventRead, SafeInv, TypeInv, TypeOK, Conn
<1>3. CASE UNCHANGED <<store, storage, completions, told>>
  BY <1>1, <1>2, <1>3, QuietSeen
<1>4. CASE Copies(j) # {}
  <2> DEFINE related == CHOOSE e \in Copies(j) :
                          \A f \in Copies(j) : e.copy <= f.copy
  <2>1. UpdateJobStatus(j, related.completedAt = Null)
    BY <1>4 DEF EventRead
  <2>2. PICK wasNull \in BOOLEAN :
          /\ wasNull => related.completedAt = Null
          /\ UpdateJobStatus(j, wasNull)
    BY <2>1 DEF UpdateJobStatus
  <2>3. wasNull => storage[j] = Null
    <3>1. \E e \in Copies(j) : \A f \in Copies(j) : e.copy <= f.copy
      BY <1>4, FirstCopy DEF SafeInv
    <3>2. related \in store /\ related.jid = j
      BY <3>1 DEF Copies
    <3> QED BY <3>2, <2>2 DEF SafeInv, JobsInv, PageMatchesStorage
  <2>4. /\ \A k \in Jobs : storage'[k] = Null => storage[k] = Null
        /\ \A k \in Jobs : k # j => told'[k] = told[k]
        /\ told'[j] # told[j]
             => wasNull /\ told'[j] = told[j] + 1 /\ storage'[j] # Null
    BY <2>2, UpdatingOver DEF SafeInv
  <2>5. SeenInv'
    <3> SUFFICES ASSUME NEW d \in Conns, conns'[d].phase # "off"
                 PROVE  PolledIsKnown(d)'
      BY DEF SeenInv
    <3>1. PolledIsKnown(d) /\ conns[d].polled \subseteq Jobs
      BY <1>2 DEF SafeInv, SeenInv, TypeInv, TypeOK, Conn
    <3> QED BY <3>1, <1>1, <1>2, <2>4 DEF PolledIsKnown
  <2>6. OnceInv'
    <3> SUFFICES ASSUME ~reconnected
                 PROVE  /\ \A d \in Conns : d # 1 => conns'[d].phase = "off"
                        /\ \A k \in Jobs : AnnouncedIsOver(k)'
      BY <1>1 DEF OnceInv
    <3>1. /\ c = 1
          /\ \A d \in Conns : d # 1 => conns'[d].phase = "off"
          /\ \A d \in Conns : conns'[d].phase # "polling"
      BY <1>1, <1>2 DEF SafeInv, OnceInv
    <3>2. ASSUME NEW k \in Jobs PROVE AnnouncedIsOver(k)'
      <4>1. AnnouncedIsOver(k) /\ told[k] \in Nat
        BY DEF SafeInv, OnceInv, TypeInv, TypeOK
      <4>2. CASE told'[k] = told[k]
        BY <4>1, <4>2, <3>1, <1>1, <2>4 DEF AnnouncedIsOver
      <4>3. CASE told'[k] # told[k]
        <5>1. k = j /\ storage[j] = Null
          BY <4>3, <2>3, <2>4
        <5>2. told[j] = 0 /\ told'[j] = 1 /\ storage'[j] # Null
          BY <4>1, <4>3, <5>1, <2>4 DEF AnnouncedIsOver
        <5>3. pending # j /\ server[j] # "none"
          BY <5>1, JobsAssumption
             DEF SafeInv, JobsInv, FreshInv, Null, Absent
        <5>4. told'[k] = 1 /\ storage'[k] # Null /\ pending' # k
              /\ server'[k] # "none"
          BY <5>1, <5>2, <5>3, <1>1
        <5> QED BY <5>4, <3>1 DEF AnnouncedIsOver
      <4> QED BY <4>2, <4>3
    <3> QED BY <3>1, <3>2
  <2> QED BY <2>5, <2>6
<1> QED BY <1>3, <1>4 DEF EventRead

LEMMA NextSafeInv == SafeInv /\ [Next]_vars => SafeInv'
<1> SUFFICES ASSUME SafeInv, [Next]_vars PROVE SeenInv' /\ OnceInv'
  BY NextJobsInv, NextTypeInv DEF SafeInv
<1>1. ASSUME NEW j \in Jobs, DeployNode(j) PROVE SeenInv' /\ OnceInv'
  <2>1. /\ UNCHANGED <<storage, conns, told, reconnected>>
        /\ pending' = j /\ server[j] = "none"
        /\ \A k \in Jobs : server'[k] = "none" => server[k] = "none"
    BY <1>1 DEF DeployNode, SafeInv, TypeInv, TypeOK
  <2> QED BY <2>1, QuietSeen
<1>2. ASSUME NEW j \in Jobs, ServerStarts(j) PROVE SeenInv' /\ OnceInv'
  <2>1. /\ UNCHANGED <<storage, conns, told, reconnected, pending>>
        /\ \A k \in Jobs : server'[k] = "none" => server[k] = "none"
    BY <1>2 DEF ServerStarts, SafeInv, TypeInv, TypeOK
  <2> QED BY <2>1, QuietSeen
<1>3. ASSUME NEW j \in Jobs, ServerEnds(j) PROVE SeenInv' /\ OnceInv'
  <2>1. /\ UNCHANGED <<storage, told, reconnected, pending>>
        /\ \A k \in Jobs : server'[k] = "none" => server[k] = "none"
    BY <1>3 DEF ServerEnds, SafeInv, TypeInv, TypeOK
  <2>2. \A c \in Conns :
          /\ conns'[c].phase = conns[c].phase /\ conns'[c].polled = conns[c].polled
          /\ conns'[c].nulls = conns[c].nulls /\ conns'[c].ended = conns[c].ended
          /\ conns'[c].waiting = conns[c].waiting
    BY <1>3 DEF ServerEnds, SafeInv, TypeInv, TypeOK, Conn
  <2> QED BY <2>1, <2>2, QuietSeen
<1>4. CASE DeployFailed
  BY <1>4, QuietSeen DEF DeployFailed
<1>5. ASSUME NEW c \in Conns, StreamEnds(c) PROVE SeenInv' /\ OnceInv'
  <2>1. UNCHANGED <<storage, told, reconnected, pending, server>>
    BY <1>5 DEF StreamEnds
  <2>2. \A d \in Conns :
          /\ conns'[d].phase = IF d = c THEN "ended" ELSE conns[d].phase
          /\ conns'[d].polled = conns[d].polled
          /\ conns'[d].nulls = conns[d].nulls /\ conns'[d].ended = conns[d].ended
          /\ conns'[d].waiting = conns[d].waiting
    BY <1>5 DEF StreamEnds, SafeInv, TypeInv, TypeOK, Conn
  <2>3. conns[c].phase = "open"
    BY <1>5 DEF StreamEnds
  <2> QED BY <2>1, <2>2, <2>3, QuietSeen
<1>6. ASSUME NEW c \in Conns, NEW j \in Jobs, PollFailed(c, j)
      PROVE  SeenInv' /\ OnceInv'
  BY <1>6, QuietSeen DEF PollFailed
<1>7. CASE GarbageCollect
  <2>1. \A j \in Jobs : storage'[j] = Null => storage[j] = Null
    BY <1>7 DEF GarbageCollect, RemoveJobs, Null, Absent
  <2> QED BY <1>7, <2>1, QuietSeen DEF GarbageCollect
<1>8. ASSUME NEW j \in Jobs, FiveMinutesPass(j) PROVE SeenInv' /\ OnceInv'
  BY <1>8, QuietSeen DEF FiveMinutesPass
<1>9. CASE Reload
  <2>1. /\ UNCHANGED <<storage, server, told, reconnected>> /\ pending' = None
        /\ \A c \in Conns : conns'[c].phase = "off"
    BY <1>9 DEF Reload, Off
  <2>2. \A j \in Jobs : AnnouncedIsOver(j) => AnnouncedIsOver(j)'
    BY <2>1, JobsAssumption DEF AnnouncedIsOver
  <2> QED BY <2>1, <2>2 DEF SafeInv, SeenInv, OnceInv
<1>10. CASE UNCHANGED vars
  BY <1>10, QuietSeen DEF vars
<1> QED
  BY <1>1, <1>2, <1>3, <1>4, <1>5, <1>6, <1>7, <1>8, <1>9, <1>10,
     AnsweredSeen, ConnectSeen, PollSeen, EventSeen DEF Next

\* For any deployments, any number of connections and of reloads: the end of a
\* job that came before the connection is seen, and it is announced once, over
\* all reloads, while no load connects twice.
THEOREM JobsAreSafe == Spec => []JobsSafe
<1>1. SafeInv => JobsSafe
  <2> SUFFICES ASSUME SafeInv PROVE EndedBeforeIsSeen /\ AnnouncedOncePerConnection
    BY DEF JobsSafe, SafeInv, TypeInv
  <2>1. EndedBeforeIsSeen
    <3> SUFFICES ASSUME NEW c \in Conns, conns[c].phase \in {"open", "ended"},
                        NEW e \in store,
                        e.jid \in conns[c].polled \cap conns[c].ended
                 PROVE  e.completedAt # Null
      BY DEF EndedBeforeIsSeen
    <3>1. PolledIsKnown(c)
      BY DEF SafeInv, SeenInv
    <3>2. storage[e.jid] # Null
      BY <3>1 DEF PolledIsKnown
    <3> QED BY <3>2 DEF SafeInv, JobsInv, PageMatchesStorage
  <2>2. AnnouncedOncePerConnection
    BY DEF SafeInv, OnceInv, AnnouncedIsOver, AnnouncedOncePerConnection
  <2> QED BY <2>1, <2>2
<1> QED BY <1>1, InitSafeInv, NextSafeInv, PTL DEF Spec
=============================================================================
