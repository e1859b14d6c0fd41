---------------------------- MODULE NodeDrainProofs ----------------------------
(***************************************************************************)
(* Proofs about NodeDrain: its types, and that a drain which completes has *)
(* emptied the node.                                                       *)
(***************************************************************************)
EXTENDS NodeDrain, TLAPS

Selected == ~again /\ pc \in {"filter", "evict", "tick", "look", "done"}

\* A pod the drain must not lose sight of.
MustLeave(p) == p \in OnNode /\ Kind(p) \notin {"DaemonSet", "Mirror"}

\* Between the listing and the end, a pod that must leave is one of those
\* listed, still the same, and in the list the drain works from.
Followed(p) ==
    /\ p \in DOMAIN seen
    /\ pod[p].uid = seen[p].uid
    /\ p \in pods \/ (pc = "filter" /\ p \in rest)

CordonInv == pc \notin {"cordon", "failed"} => cordoned
AgainInv  == again => pc \in {"list", "filter", "failed", "left", "escaped"}
FollowInv == Selected => \A p \in Pods : MustLeave(p) => Followed(p)

DoneInv   == pc = "done" => ~again /\ pods = {}

DrainInv == CordonInv /\ AgainInv /\ FollowInv /\ DoneInv

-----------------------------------------------------------------------------
(***************************************************************************)
(* Types.                                                                  *)
(***************************************************************************)
LEMMA InitTypes == Init => TypeOK
<1> SUFFICES ASSUME Init PROVE TypeOK
  OBVIOUS
<1> USE DrainAssumption DEF Init
<1>1. cast \in [Pods -> [kind: Kinds, local: BOOLEAN, here: BOOLEAN,
                         managed: BOOLEAN]]
  OBVIOUS
<1>2. ASSUME NEW p \in Pods
      PROVE  [uid |-> IF cast[p].here THEN 1 ELSE 0,
              at |-> IF cast[p].here THEN "node" ELSE "nowhere",
              finished |-> FALSE, deleting |-> FALSE,
              managed |-> cast[p].managed] \in PodState
  BY <1>1 DEF PodState, MaxUid
<1>3. pod \in [Pods -> PodState]
  BY <1>2
<1>4. DOMAIN seen = {}
  OBVIOUS
<1>5. seen \in [DOMAIN seen -> PodState]
  BY <1>4
<1>6. /\ DOMAIN seen \subseteq Pods
      /\ pods \subseteq DOMAIN seen
      /\ rest \subseteq DOMAIN seen
  BY <1>4
<1>7. mishaps \in 0 .. MaxMishaps
  OBVIOUS
<1>8. /\ cast \in Casts /\ opts \in Calls
      /\ cordoned \in BOOLEAN /\ again \in BOOLEAN /\ failing \in BOOLEAN
      /\ expired \in BOOLEAN
      /\ pc \in {"cordon", "list", "filter", "evict", "tick", "look"}
                  \cup Ended
      /\ cur \subseteq Pods
      /\ evicted \subseteq Pods \X (0 .. MaxUid)
  OBVIOUS
<1> HIDE DEF Init
<1> QED
  BY <1>3, <1>4, <1>5, <1>6, <1>7, <1>8 DEF TypeOK

\* What users, controllers and kubelets do to a pod.
LEMMA WorldTypes ==
    ASSUME TypeOK, NEW p \in Pods, NEW state \in PodState,
           PodChanges(p, state), mishaps' \in 0 .. MaxMishaps
    PROVE  TypeOK'
BY DEF TypeOK, PodChanges, Kind

LEMMA MishapTypes ==
    ASSUME TypeOK, Mishap
    PROVE  mishaps' \in 0 .. MaxMishaps
BY DrainAssumption DEF TypeOK, Mishap

LEMMA ArrivesTypes ==
    ASSUME TypeOK, NEW p \in Pods, Arrives(p), mishaps' \in 0 .. MaxMishaps
    PROVE  TypeOK'
<1>1. PICK place \in {"node", "elsewhere"} :
         PodChanges(p, [pod[p] EXCEPT !.uid = @ + 1, !.at = place,
                                      !.finished = FALSE])
  BY DEF Arrives
<1>2. pod[p] \in PodState /\ pod[p].uid < MaxUid
  BY DEF TypeOK, Arrives
<1>3. pod[p].uid + 1 \in 0 .. MaxUid
  BY <1>2, DrainAssumption DEF PodState, MaxUid
<1>4. [pod[p] EXCEPT !.uid = @ + 1, !.at = place, !.finished = FALSE]
         \in PodState
  BY <1>2, <1>3 DEF PodState
<1> QED
  BY <1>1, <1>4, WorldTypes

LEMMA EvictTypes ==
    ASSUME TypeOK, NEW p \in Pods, Evict(p)
    PROVE  /\ pod' \in [Pods -> PodState]
           /\ evicted' \subseteq Pods \X (0 .. MaxUid)
<1>1. pod[p] \in PodState
  BY DEF TypeOK
<1>2. [pod[p] EXCEPT !.deleting = TRUE] \in PodState
  BY <1>1 DEF PodState
<1>3. pod' = [pod EXCEPT ![p] = [pod[p] EXCEPT !.deleting = TRUE]]
  BY DEF Evict, TypeOK
<1>4. pod' \in [Pods -> PodState]
  BY <1>2, <1>3 DEF TypeOK
<1>5. <<p, pod[p].uid>> \in Pods \X (0 .. MaxUid)
  BY <1>1 DEF PodState
<1> QED
  BY <1>4, <1>5 DEF Evict, TypeOK

LEMMA StepTypes == TypeOK /\ [Next]_vars => TypeOK'
<1> SUFFICES ASSUME TypeOK, [Next]_vars PROVE TypeOK'
  OBVIOUS
<1> USE DEF world
<1>1. CASE Cordon
  BY <1>1 DEF Cordon, TypeOK
<1>2. CASE ListPods
  <2>1. OnNode \subseteq Pods
    BY DEF OnNode
  <2>2. /\ DOMAIN seen' = OnNode
        /\ seen' \in [OnNode -> PodState]
    BY <1>2, <2>1 DEF ListPods, TypeOK
  <2> QED
    BY <1>2, <2>1, <2>2 DEF ListPods, TypeOK
<1>3. ASSUME NEW p \in Pods, FilterPod(p) PROVE TypeOK'
  <2>1. failing' \in BOOLEAN
    BY <1>3 DEF FilterPod
  <2>2. pods' \subseteq DOMAIN seen /\ rest' \subseteq DOMAIN seen
    BY <1>3 DEF FilterPod, TypeOK
  <2> QED
    BY <1>3, <2>1, <2>2 DEF FilterPod, TypeOK
<1>4. CASE EndFilter
  <2>1. pc' \in {"evict"} \cup Ended
    BY <1>4 DEF EndFilter, Ended
  <2>2. rest' \subseteq DOMAIN seen
    BY <1>4 DEF EndFilter, TypeOK
  <2> QED
    BY <1>4, <2>1, <2>2 DEF EndFilter, TypeOK
<1>5. ASSUME NEW p \in Pods, EvictPod(p) PROVE TypeOK'
  <2>1. /\ pod' \in [Pods -> PodState]
        /\ evicted' \subseteq Pods \X (0 .. MaxUid)
    BY <1>5, EvictTypes DEF EvictPod, TypeOK
  <2>2. rest' \subseteq DOMAIN seen /\ cur' \subseteq Pods
    BY <1>5 DEF EvictPod, TypeOK
  <2> QED
    BY <1>5, <2>1, <2>2 DEF EvictPod, TypeOK
<1>6. CASE EndEvictions
  BY <1>6 DEF EndEvictions, TypeOK
<1>7. CASE Tick
  BY <1>7 DEF Tick, TypeOK
<1>8. ASSUME NEW p \in Pods, LookAt(p) PROVE TypeOK'
  <2>1. pods' \subseteq DOMAIN seen /\ rest' \subseteq DOMAIN seen
    BY <1>8 DEF LookAt, TypeOK
  <2> QED
    BY <1>8, <2>1 DEF LookAt, TypeOK
<1>9. CASE EndLook
  BY <1>9 DEF EndLook, TypeOK, Ended
<1>10. CASE Timeout
  BY <1>10 DEF Timeout, ReportRemaining, TypeOK
<1>11. CASE Expire
  BY <1>11 DEF Expire, TypeOK
<1>12. CASE SelectionFails
  BY <1>12, MishapTypes DEF SelectionFails, TypeOK, Ended
<1>13. CASE EvictionFails
  <2>1. /\ pod' \in [Pods -> PodState]
        /\ evicted' \subseteq Pods \X (0 .. MaxUid)
    <3>1. ASSUME NEW p \in rest, Evict(p)
          PROVE  /\ pod' \in [Pods -> PodState]
                 /\ evicted' \subseteq Pods \X (0 .. MaxUid)
      BY <3>1, EvictTypes DEF TypeOK
    <3> QED
      BY <1>13, <3>1 DEF EvictionFails, TypeOK
  <2>2. mishaps' \in 0 .. MaxMishaps
    BY <1>13, MishapTypes DEF EvictionFails
  <2> QED
    BY <1>13, <2>1, <2>2 DEF EvictionFails, ReportRemaining, TypeOK
<1>14. ASSUME NEW p \in Pods, Replace(p) PROVE TypeOK'
  BY <1>14, ArrivesTypes DEF Replace, TypeOK
<1>15. ASSUME NEW p \in Pods, UserCreates(p) PROVE TypeOK'
  BY <1>15, ArrivesTypes, MishapTypes DEF UserCreates
<1>16. ASSUME NEW p \in Pods PROVE pod[p] \in PodState
  BY DEF TypeOK
<1>17. ASSUME NEW p \in Pods, DeletePod(p) PROVE TypeOK'
  <2>1. [pod[p] EXCEPT !.deleting = TRUE] \in PodState
    BY <1>16 DEF PodState
  <2> QED
    BY <1>17, <2>1, WorldTypes, MishapTypes DEF DeletePod
<1>18. ASSUME NEW p \in Pods, DeleteController(p) PROVE TypeOK'
  <2>1. [pod[p] EXCEPT !.managed = FALSE] \in PodState
    BY <1>16 DEF PodState
  <2> QED
    BY <1>18, <2>1, WorldTypes, MishapTypes DEF DeleteController
<1>19. ASSUME NEW p \in Pods, Finish(p) PROVE TypeOK'
  <2>1. [pod[p] EXCEPT !.finished = TRUE] \in PodState
    BY <1>16 DEF PodState
  <2>2. mishaps' \in 0 .. MaxMishaps
    BY <1>19 DEF Finish, TypeOK
  <2> QED
    BY <1>19, <2>1, <2>2, WorldTypes DEF Finish
<1>20. ASSUME NEW p \in Pods, Terminate(p) PROVE TypeOK'
  <2>1. [pod[p] EXCEPT !.at = "nowhere", !.deleting = FALSE] \in PodState
    BY <1>16 DEF PodState
  <2>2. mishaps' \in 0 .. MaxMishaps
    BY <1>20 DEF Terminate, TypeOK
  <2> QED
    BY <1>20, <2>1, <2>2, WorldTypes DEF Terminate
<1>21. CASE UNCHANGED vars
  BY <1>21 DEF vars, TypeOK
<1> QED
  BY <1>1, <1>2, <1>3, <1>4, <1>5, <1>6, <1>7, <1>8, <1>9, <1>10, <1>11,
     <1>12, <1>13, <1>14, <1>15, <1>17, <1>18, <1>19, <1>20, <1>21
     DEF Next, DrainStep

\* Every variable keeps its type, whatever the pods, the casts, the calls, the
\* budget and the number of mishaps.
THEOREM DrainTypeCorrect == Spec => []TypeOK
BY InitTypes, StepTypes, PTL DEF Spec

-----------------------------------------------------------------------------
(***************************************************************************)
(* The invariant.                                                          *)
(***************************************************************************)
LEMMA InitInv == Init => DrainInv
BY DEF Init, DrainInv, CordonInv, AgainInv, FollowInv, DoneInv,
             Selected

\* What happens to a pod brings nothing that must leave to a cordoned node.
LEMMA WorldInv ==
    ASSUME TypeOK, DrainInv, NEW p \in Pods, NEW state \in PodState,
           PodChanges(p, state),
           cordoned /\ state.at = "node" /\ Kind(p) # "DaemonSet" =>
               pod[p].at = "node" /\ state.uid = pod[p].uid
    PROVE  DrainInv'
<1>1. UNCHANGED <<cast, cordoned, pc, again, seen, pods, rest>>
  BY DEF PodChanges
<1>2. CordonInv' /\ AgainInv' /\ DoneInv'
  BY <1>1 DEF DrainInv, CordonInv, AgainInv, DoneInv
<1>3. ASSUME Selected', NEW q \in Pods, MustLeave(q)'
      PROVE  Followed(q)'
  <2>1. Selected /\ cordoned
    BY <1>1, <1>3 DEF Selected, DrainInv, CordonInv
  <2>2. pod' = [pod EXCEPT ![p] = state] /\ pod \in [Pods -> PodState]
    BY DEF PodChanges, TypeOK
  <2>3. Kind(q)' = Kind(q)
    BY <1>1 DEF Kind
  <2>4. pod'[q].at = "node"
    BY <1>3 DEF MustLeave, OnNode
  <2>5. pod[q].at = "node" /\ pod'[q].uid = pod[q].uid
    <3>1. CASE q = p
      BY <3>1, <1>3, <2>1, <2>2, <2>3, <2>4 DEF MustLeave
    <3>2. CASE q # p
      BY <3>2, <2>2, <2>4
    <3> QED
      BY <3>1, <3>2
  <2>6. MustLeave(q)
    BY <1>3, <2>3, <2>5 DEF MustLeave, OnNode
  <2>7. Followed(q)
    BY <2>1, <2>6 DEF DrainInv, FollowInv
  <2> QED
    BY <2>5, <2>7, <1>1 DEF Followed
<1> QED
  BY <1>2, <1>3 DEF DrainInv, FollowInv

LEMMA ArrivesInv ==
    ASSUME TypeOK, DrainInv, NEW p \in Pods, Arrives(p)
    PROVE  DrainInv'
<1>1. PICK place \in {"node", "elsewhere"} :
         /\ Kind(p) # "DaemonSet" /\ cordoned => place = "elsewhere"
         /\ PodChanges(p, [pod[p] EXCEPT !.uid = @ + 1, !.at = place,
                                         !.finished = FALSE])
  BY DEF Arrives
<1> DEFINE state == [pod[p] EXCEPT !.uid = @ + 1, !.at = place,
                                   !.finished = FALSE]
<1>2. pod[p] \in PodState /\ pod[p].uid < MaxUid
  BY DEF TypeOK, Arrives
<1>3. pod[p].uid + 1 \in 0 .. MaxUid
  BY <1>2, DrainAssumption DEF PodState, MaxUid
<1>4. state \in PodState /\ state.at = place
  BY <1>2, <1>3 DEF PodState
<1> HIDE DEF state
<1>5. PodChanges(p, state)
  BY <1>1 DEF state
<1> QED
  BY <1>1, <1>4, <1>5, WorldInv

\* An eviction that is accepted moves no pod.
LEMMA EvictInv ==
    ASSUME TypeOK, NEW p \in Pods, Evict(p)
    PROVE  \A q \in Pods : pod'[q].at = pod[q].at /\ pod'[q].uid = pod[q].uid
<1>1. pod' = [pod EXCEPT ![p].deleting = TRUE] /\ pod \in [Pods -> PodState]
  BY DEF Evict, TypeOK
<1> TAKE q \in Pods
<1>2. CASE q = p
  BY <1>1, <1>2 DEF PodState
<1>3. CASE q # p
  BY <1>1, <1>3
<1> QED
  BY <1>2, <1>3

\* A pod still there under its UID is not taken for gone.
LEMMA PresentNotGone ==
    ASSUME NEW p \in Pods, p \in OnNode, pod[p].uid = seen[p].uid
    PROVE  ~Gone(p)
BY DEF OnNode, Gone, NameTaken, Exists

LEMMA StepInv == TypeOK /\ DrainInv /\ [Next]_vars => DrainInv'
<1> SUFFICES ASSUME TypeOK, DrainInv, [Next]_vars PROVE DrainInv'
  OBVIOUS
<1> USE DEF world, DrainInv, CordonInv, AgainInv, DoneInv
<1>1. CASE Cordon
  BY <1>1 DEF Cordon, FollowInv, Selected
<1>2. CASE ListPods
  <2>1. \A p \in Pods : MustLeave(p)' => Followed(p)'
    BY <1>2 DEF ListPods, MustLeave, Followed, OnNode, Kind, TypeOK
  <2> QED
    BY <1>2, <2>1 DEF ListPods, FollowInv
<1>3. ASSUME NEW p \in Pods, FilterPod(p) PROVE DrainInv'
  <2>1. ASSUME Selected', NEW q \in Pods, MustLeave(q)'
        PROVE  Followed(q)'
    <3>1. Selected /\ MustLeave(q)
      BY <1>3, <2>1 DEF FilterPod, Selected, MustLeave, OnNode, Kind
    <3>2. Followed(q)
      BY <3>1 DEF FollowInv
    <3>3. q = p => Deletable(p)
      BY <3>1 DEF MustLeave, Deletable
    <3> QED
      BY <1>3, <3>2, <3>3 DEF FilterPod, Followed
  <2> QED
    BY <1>3, <2>1 DEF FilterPod, FollowInv
<1>4. CASE EndFilter
  <2>1. pc' \in {"escaped", "refused", "left", "dry", "evict"}
    BY <1>4 DEF EndFilter
  <2>2. again => pc' \in {"escaped", "left"}
    BY <1>4 DEF EndFilter
  <2>3. ASSUME Selected', NEW q \in Pods, MustLeave(q)'
        PROVE  Followed(q)'
    <3>1. Selected /\ MustLeave(q)
      BY <1>4, <2>3 DEF EndFilter, Selected, MustLeave, OnNode, Kind
    <3>2. Followed(q)
      BY <3>1 DEF FollowInv
    <3> QED
      BY <1>4, <3>2 DEF EndFilter, Followed
  <2> QED
    BY <1>4, <2>1, <2>2, <2>3 DEF EndFilter, FollowInv
<1>5. ASSUME NEW p \in Pods, EvictPod(p) PROVE DrainInv'
  <2>1. \A q \in Pods : pod'[q].at = pod[q].at /\ pod'[q].uid = pod[q].uid
    BY <1>5, EvictInv DEF EvictPod
  <2>2. ASSUME Selected', NEW q \in Pods, MustLeave(q)'
        PROVE  Followed(q)'
    <3>1. Selected /\ MustLeave(q)
      BY <1>5, <2>1, <2>2 DEF EvictPod, Selected, MustLeave, OnNode, Kind
    <3>2. Followed(q)
      BY <3>1 DEF FollowInv
    <3> QED
      BY <1>5, <2>1, <3>2 DEF EvictPod, Followed
  <2> QED
    BY <1>5, <2>2 DEF EvictPod, FollowInv
<1>6. ASSUME EndEvictions \/ Tick \/ Expire
      PROVE  DrainInv'
  <2>1. ASSUME Selected', NEW q \in Pods, MustLeave(q)'
        PROVE  Followed(q)'
    <3>1. Selected /\ MustLeave(q)
      BY <1>6, <2>1 DEF EndEvictions, Tick, Expire, Selected, MustLeave,
                        OnNode, Kind
    <3>2. Followed(q)
      BY <3>1 DEF FollowInv
    <3> QED
      BY <1>6, <3>2 DEF EndEvictions, Tick, Expire, Followed
  <2> QED
    BY <1>6, <2>1 DEF EndEvictions, Tick, Expire, FollowInv
<1>7. ASSUME NEW p \in Pods, LookAt(p) PROVE DrainInv'
  <2>1. ASSUME Selected', NEW q \in Pods, MustLeave(q)'
        PROVE  Followed(q)'
    <3>1. Selected /\ MustLeave(q)
      BY <1>7, <2>1 DEF LookAt, Selected, MustLeave, OnNode, Kind
    <3>2. Followed(q)
      BY <3>1 DEF FollowInv
    <3>3. ~Gone(q)
      BY <3>1, <3>2, PresentNotGone DEF Followed, MustLeave
    <3> QED
      BY <1>7, <3>2, <3>3 DEF LookAt, Followed
  <2> QED
    BY <1>7, <2>1 DEF LookAt, FollowInv
<1>8. CASE EndLook
  <2>1. ASSUME Selected', NEW q \in Pods, MustLeave(q)'
        PROVE  Followed(q)'
    <3>1. Selected /\ MustLeave(q)
      BY <1>8, <2>1 DEF EndLook, Selected, MustLeave, OnNode, Kind
    <3>2. Followed(q)
      BY <3>1 DEF FollowInv
    <3> QED
      BY <1>8, <3>2 DEF EndLook, Followed
  <2> QED
    BY <1>8, <2>1 DEF EndLook, FollowInv
<1>9. CASE Timeout \/ EvictionFails
  BY <1>9 DEF Timeout, EvictionFails, ReportRemaining, FollowInv, Selected
<1>10. CASE SelectionFails
  BY <1>10 DEF SelectionFails, FollowInv, Selected
<1>11. ASSUME NEW p \in Pods, Replace(p) \/ UserCreates(p) PROVE DrainInv'
  BY <1>11, ArrivesInv DEF Replace, UserCreates
<1>12. ASSUME NEW p \in Pods PROVE pod[p] \in PodState
  BY DEF TypeOK
<1>13. ASSUME NEW p \in Pods,
             DeletePod(p) \/ DeleteController(p) \/ Finish(p) \/ Terminate(p)
       PROVE DrainInv'
  <2>1. PICK state \in PodState :
           /\ PodChanges(p, state)
           /\ state.uid = pod[p].uid
           /\ state.at \in {pod[p].at, "nowhere"}
    <3>1. CASE DeletePod(p)
      <4>1. [pod[p] EXCEPT !.deleting = TRUE] \in PodState
        BY <1>12 DEF PodState
      <4> QED
        BY <3>1, <4>1, <1>12 DEF DeletePod, PodState
    <3>2. CASE DeleteController(p)
      <4>1. [pod[p] EXCEPT !.managed = FALSE] \in PodState
        BY <1>12 DEF PodState
      <4> QED
        BY <3>2, <4>1, <1>12 DEF DeleteController, PodState
    <3>3. CASE Finish(p)
      <4>1. [pod[p] EXCEPT !.finished = TRUE] \in PodState
        BY <1>12 DEF PodState
      <4> QED
        BY <3>3, <4>1, <1>12 DEF Finish, PodState
    <3>4. CASE Terminate(p)
      <4>1. [pod[p] EXCEPT !.at = "nowhere", !.deleting = FALSE] \in PodState
        BY <1>12 DEF PodState
      <4> QED
        BY <3>4, <4>1, <1>12 DEF Terminate, PodState
    <3> QED
      BY <1>13, <3>1, <3>2, <3>3, <3>4
  <2> QED
    BY <2>1, WorldInv
<1>14. CASE UNCHANGED vars
  BY <1>14 DEF vars, FollowInv, Selected, MustLeave, Followed, OnNode, Kind
<1> QED
  BY <1>1, <1>2, <1>3, <1>4, <1>5, <1>6, <1>7, <1>8, <1>9, <1>10, <1>11,
     <1>13, <1>14 DEF Next, DrainStep

\* What a completed drain leaves is in its list, which is empty.
LEMMA InvEmptied == DrainInv /\ TypeOK => NodeEmptied
BY DEF NodeEmptied, OnNode, DrainInv, DoneInv, FollowInv, Selected, MustLeave,
       Followed

\* A drain that completes leaves nothing on the node but daemons and mirror
\* pods, whatever users, controllers and kubelets do between its calls.
THEOREM DrainEmpties == Spec => []NodeEmptied
<1>1. Init => TypeOK /\ DrainInv
  BY InitTypes, InitInv
<1>2. TypeOK /\ DrainInv /\ [Next]_vars => TypeOK' /\ DrainInv'
  BY StepTypes, StepInv
<1>3. TypeOK /\ DrainInv => NodeEmptied
  BY InvEmptied
<1> QED
  BY <1>1, <1>2, <1>3, PTL DEF Spec

-----------------------------------------------------------------------------
(***************************************************************************)
(* All or nothing.                                                         *)
(***************************************************************************)
Evicting == ~again /\ pc \in {"evict", "tick", "look", "done"}

\* A controller that was missing when the pods were listed still is.
MissingInv == \A p \in DOMAIN seen : ~seen[p].managed => ~pod[p].managed

FilteredInv == ~again /\ pc = "filter" /\ ~failing =>
                   \A p \in DOMAIN seen : p \in rest \/ Allowed(p)

OptionsInv == /\ Evicting => \A p \in DOMAIN seen : Allowed(p)
              /\ evicted # {} /\ ~again => Evicting

AllowedInv == MissingInv /\ FilteredInv /\ OptionsInv

LEMMA InitAllowed == Init => AllowedInv
<1> SUFFICES ASSUME Init PROVE AllowedInv
  OBVIOUS
<1>1. DOMAIN seen = {}
  BY DEF Init
<1>2. evicted = {} /\ pc = "cordon"
  BY DEF Init
<1> QED
  BY <1>1, <1>2 DEF AllowedInv, MissingInv, FilteredInv, OptionsInv, Evicting

\* Steps that leave the list, the cast and the options alone, and bring no
\* controller back, keep what is known of each pod.
LEMMA AllowedKept ==
    ASSUME UNCHANGED <<cast, opts, seen>>, NEW p
    PROVE  Allowed(p)' <=> Allowed(p)
BY DEF Allowed, Kind

LEMMA MissingKept ==
    ASSUME MissingInv, UNCHANGED seen, DOMAIN seen \subseteq Pods,
           \A p \in Pods : ~pod[p].managed => ~pod'[p].managed
    PROVE  MissingInv'
BY DEF MissingInv

LEMMA PodManaged ==
    ASSUME TypeOK, NEW p \in Pods, NEW state,
           pod' = [pod EXCEPT ![p] = state],
           ~pod[p].managed => ~state.managed
    PROVE  \A q \in Pods : ~pod[q].managed => ~pod'[q].managed
BY DEF TypeOK

LEMMA WorldManaged ==
    ASSUME TypeOK, NEW p \in Pods,
           \/ Replace(p) \/ UserCreates(p) \/ DeletePod(p)
           \/ DeleteController(p) \/ Finish(p) \/ Terminate(p)
    PROVE  /\ \A q \in Pods : ~pod[q].managed => ~pod'[q].managed
           /\ UNCHANGED <<cast, opts, pc, again, seen, failing, rest, evicted>>
<1>1. pod[p] \in PodState
  BY DEF TypeOK
<1>2. PICK state : PodChanges(p, state) /\ (~pod[p].managed => ~state.managed)
  <2>1. CASE Replace(p) \/ UserCreates(p)
    <3>1. PICK place \in {"node", "elsewhere"} :
             PodChanges(p, [pod[p] EXCEPT !.uid = @ + 1, !.at = place,
                                          !.finished = FALSE])
      BY <2>1 DEF Replace, UserCreates, Arrives
    <3>2. [pod[p] EXCEPT !.uid = @ + 1, !.at = place,
                         !.finished = FALSE].managed = pod[p].managed
      BY <1>1 DEF PodState
    <3> QED
      BY <3>1, <3>2
  <2>2. CASE DeletePod(p)
    <3>1. ~pod[p].managed => ~[pod[p] EXCEPT !.deleting = TRUE].managed
      BY <1>1 DEF PodState
    <3>2. PodChanges(p, [pod[p] EXCEPT !.deleting = TRUE])
      BY <2>2 DEF DeletePod
    <3> QED
      BY <3>1, <3>2
  <2>3. CASE DeleteController(p)
    <3>1. ~pod[p].managed => ~[pod[p] EXCEPT !.managed = FALSE].managed
      BY <1>1 DEF PodState
    <3>2. PodChanges(p, [pod[p] EXCEPT !.managed = FALSE])
      BY <2>3 DEF DeleteController
    <3> QED
      BY <3>1, <3>2
  <2>4. CASE Finish(p)
    <3>1. ~pod[p].managed => ~[pod[p] EXCEPT !.finished = TRUE].managed
      BY <1>1 DEF PodState
    <3>2. PodChanges(p, [pod[p] EXCEPT !.finished = TRUE])
      BY <2>4 DEF Finish
    <3> QED
      BY <3>1, <3>2
  <2>5. CASE Terminate(p)
    <3>1. ~pod[p].managed => ~[pod[p] EXCEPT !.at = "nowhere", !.deleting = FALSE].managed
      BY <1>1 DEF PodState
    <3>2. PodChanges(p, [pod[p] EXCEPT !.at = "nowhere", !.deleting = FALSE])
      BY <2>5 DEF Terminate
    <3> QED
      BY <3>1, <3>2
  <2> QED
    BY <2>1, <2>2, <2>3, <2>4, <2>5
<1>3. UNCHANGED <<cast, opts, pc, again, seen, failing, rest, evicted>>
  BY <1>2 DEF PodChanges
<1> QED
  BY <1>2, <1>3, PodManaged DEF PodChanges

LEMMA EvictManaged ==
    ASSUME TypeOK, NEW p \in Pods, Evict(p)
    PROVE  \A q \in Pods : ~pod[q].managed => ~pod'[q].managed
<1>1. pod[p] \in PodState
  BY DEF TypeOK
<1>2. [pod[p] EXCEPT !.deleting = TRUE].managed = pod[p].managed
  BY <1>1 DEF PodState
<1>3. pod' = [pod EXCEPT ![p] = [pod[p] EXCEPT !.deleting = TRUE]]
  BY DEF Evict, TypeOK
<1> QED
  BY <1>2, <1>3, PodManaged

LEMMA StepAllowed == TypeOK /\ AllowedInv /\ [Next]_vars => AllowedInv'
<1> SUFFICES ASSUME TypeOK, AllowedInv, [Next]_vars PROVE AllowedInv'
  OBVIOUS
<1> USE DEF world, AllowedInv
<1>1. DOMAIN seen \subseteq Pods
  BY DEF TypeOK
<1>2. CASE Cordon \/ EndEvictions \/ Tick \/ EndLook \/ Expire
           \/ SelectionFails \/ \E p \in Pods : LookAt(p)
  <2>1. UNCHANGED <<world, seen, evicted, again>>
    BY <1>2 DEF Cordon, EndEvictions, Tick, EndLook, Expire, SelectionFails,
                LookAt
  <2>2. pc' # "filter"
    BY <1>2 DEF Cordon, EndEvictions, Tick, EndLook, Expire, SelectionFails,
                LookAt
  <2>3. /\ Evicting' => Evicting
        /\ Evicting => Evicting'
    BY <1>2 DEF Cordon, EndEvictions, Tick, EndLook, Expire, SelectionFails,
                LookAt, Evicting
  <2>4. MissingInv'
    BY <2>1 DEF MissingInv
  <2>5. FilteredInv'
    BY <2>2 DEF FilteredInv
  <2>6. OptionsInv'
    BY <2>1, <2>3, AllowedKept DEF OptionsInv
  <2> QED
    BY <2>4, <2>5, <2>6
<1>3. CASE ListPods
  <2>1. /\ DOMAIN seen' = OnNode /\ rest' = OnNode
        /\ \A p \in OnNode : seen'[p] = pod[p]
        /\ pc' = "filter" /\ pc = "list"
        /\ UNCHANGED <<pod, evicted, again>>
    BY <1>3 DEF ListPods
  <2>2. MissingInv'
    BY <2>1 DEF MissingInv
  <2>3. FilteredInv'
    BY <2>1 DEF FilteredInv
  <2>4. OptionsInv'
    BY <2>1 DEF OptionsInv, Evicting
  <2> QED
    BY <2>2, <2>3, <2>4
<1>4. ASSUME NEW p \in Pods, FilterPod(p) PROVE AllowedInv'
  <2>1. UNCHANGED <<world, seen, evicted, again, pc>> /\ pc = "filter"
    BY <1>4 DEF FilterPod
  <2>2. MissingInv'
    BY <2>1 DEF MissingInv
  <2>3. ASSUME p \in DOMAIN seen, ~Fatal(p) PROVE Allowed(p)
    BY <2>3 DEF Fatal, NeedsController, Allowed, MissingInv, Owned, Kinds
  <2>4. FilteredInv'
    <3> SUFFICES ASSUME ~again, ~failing', NEW q \in DOMAIN seen
                 PROVE  q \in rest' \/ Allowed(q)'
      BY <2>1 DEF FilteredInv
    <3>1. ~failing /\ ~Fatal(p) /\ rest' = rest \ {p}
      BY <1>4 DEF FilterPod
    <3>2. q \in rest \/ Allowed(q)
      BY <2>1, <3>1 DEF FilteredInv
    <3> QED
      BY <2>1, <2>3, <3>1, <3>2, AllowedKept
  <2>5. OptionsInv'
    BY <2>1, AllowedKept DEF OptionsInv, Evicting
  <2> QED
    BY <2>2, <2>4, <2>5
<1>5. CASE EndFilter
  <2>1. /\ UNCHANGED <<world, seen, evicted, again>>
        /\ pc = "filter" /\ rest = {}
        /\ pc' \in {"escaped", "refused", "left", "dry", "evict"}
        /\ pc' = "evict" => ~failing /\ ~again
    BY <1>5 DEF EndFilter
  <2>2. MissingInv' /\ FilteredInv'
    BY <2>1 DEF MissingInv, FilteredInv
  <2>3. OptionsInv'
    BY <2>1, AllowedKept DEF OptionsInv, FilteredInv, Evicting
  <2> QED
    BY <2>2, <2>3
<1>6. ASSUME NEW p \in Pods, EvictPod(p) PROVE AllowedInv'
  <2>1. UNCHANGED <<cast, opts, seen, again, pc>> /\ pc = "evict"
    BY <1>6 DEF EvictPod
  <2>2. \A q \in Pods : ~pod[q].managed => ~pod'[q].managed
    BY <1>6, EvictManaged DEF EvictPod
  <2>3. MissingInv' /\ FilteredInv'
    BY <1>1, <2>1, <2>2, MissingKept DEF FilteredInv
  <2>4. OptionsInv'
    BY <2>1, AllowedKept DEF OptionsInv, Evicting
  <2> QED
    BY <2>3, <2>4
<1>7. CASE Timeout \/ EvictionFails
  <2>1. UNCHANGED <<cast, opts, seen>> /\ again' = TRUE
    BY <1>7 DEF Timeout, EvictionFails, ReportRemaining
  <2>2. \A q \in Pods : ~pod[q].managed => ~pod'[q].managed
    <3>1. ASSUME NEW p \in rest, Evict(p)
          PROVE  \A q \in Pods : ~pod[q].managed => ~pod'[q].managed
      BY <3>1, <1>1, EvictManaged DEF TypeOK
    <3> QED
      BY <1>7, <3>1 DEF Timeout, EvictionFails
  <2> QED
    BY <1>1, <2>1, <2>2, MissingKept DEF FilteredInv, OptionsInv, Evicting
<1>8. ASSUME NEW p \in Pods,
             \/ Replace(p) \/ UserCreates(p) \/ DeletePod(p)
             \/ DeleteController(p) \/ Finish(p) \/ Terminate(p)
      PROVE  AllowedInv'
  <2>1. /\ \A q \in Pods : ~pod[q].managed => ~pod'[q].managed
        /\ UNCHANGED <<cast, opts, pc, again, seen, failing, rest, evicted>>
    BY <1>8, WorldManaged
  <2>2. MissingInv'
    BY <1>1, <2>1, MissingKept
  <2>3. FilteredInv' /\ OptionsInv'
    BY <2>1, AllowedKept DEF FilteredInv, OptionsInv, Evicting
  <2> QED
    BY <2>2, <2>3
<1>9. CASE UNCHANGED vars
  <2>1. UNCHANGED <<world, pc, again, seen, failing, rest, evicted>>
    BY <1>9 DEF vars
  <2>2. MissingInv'
    BY <2>1 DEF MissingInv
  <2> QED
    BY <2>1, <2>2, AllowedKept DEF FilteredInv, OptionsInv, Evicting
<1> QED
  BY <1>2, <1>3, <1>4, <1>5, <1>6, <1>7, <1>8, <1>9 DEF Next, DrainStep

\* Nothing is evicted while a pod of the node is not allowed to go by the
\* options, for all of them.
THEOREM DrainAllOrNothing == Spec => []AllOrNothing
<1>1. Init => TypeOK /\ AllowedInv
  BY InitTypes, InitAllowed
<1>2. TypeOK /\ AllowedInv /\ [Next]_vars => TypeOK' /\ AllowedInv'
  BY StepTypes, StepAllowed
<1>3. AllowedInv => AllOrNothing
  BY DEF AllowedInv, OptionsInv, AllOrNothing
<1> QED
  BY <1>1, <1>2, <1>3, PTL DEF Spec
=============================================================================
