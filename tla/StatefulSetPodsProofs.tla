------------------------ MODULE StatefulSetPodsProofs ------------------------
(***************************************************************************)
(* Proofs about StatefulSetPods, for any number of replicas, of revisions  *)
(* of the pod template and of changes by the user.                         *)
(***************************************************************************)
EXTENDS StatefulSetPods, FiniteSetTheorems, TLAPS

\* Between the API calls of a removal the pod stays the one that was chosen:
\* the last one to scale down, one of the StatefulSet to recycle.
Decided ==
  /\ pc = "scale" => at.n >= 1 /\ spec.replicas = at.n + 1
  /\ pc = "delete" => at.n < spec.replicas
  /\ pc = "claims" => spec.replicas <= at.n

\* A claim of a removed pod is left only until the reconcile deletes it.
StaleIsBeingDeleted ==
  Never({"claim", "crash"}) =>
    \A n \in Ordinals : claim[n] = "stale" => pc = "claims" /\ n = at.n

\* A search head that was found drained stays so while the reconcile decides.
KnownIsTrue ==
  kind = "SearchHead" /\ pc \in {"pods", "scale", "delete"} =>
    /\ \A n \in 0 .. spec.replicas - 1 : known[n] = "Drained" => member[n] = "Drained"
    /\ pc # "pods" => known[at.n] = "Drained"

AllThere == \A m \in 0 .. spec.replicas - 1 : Ready(m)

\* A pod beyond the replicas is one that a scale down has left behind; all
\* others were ready then, and none of them is removed before it is gone.
LeftBehind ==
  prompt /\ Never({"restart"}) =>
    /\ \A k \in Ordinals : k >= spec.replicas
         => \/ pod[k].st = "absent"
            \/ pod[k].st = "ready" /\ AllThere
    /\ pc \in {"scale", "delete"} => AllThere
    /\ pc = "delete" => \A k \in Ordinals : k >= spec.replicas => pod[k].st = "absent"

PodsInv == TypeOK /\ Decided /\ StaleIsBeingDeleted /\ KnownIsTrue /\ LeftBehind

-----------------------------------------------------------------------------
(* Helpers.                                                                *)

\* A bounded set of numbers has a maximum.
LEMMA MaxIsIn ==
  ASSUME NEW k \in Int, NEW S, S \subseteq 0 .. k, S # {}
  PROVE  Max(S) \in S /\ \A y \in S : Max(S) >= y
<1> DEFINE Above(x) == {y \in 0 .. k : y > x}
           T == {Above(x) : x \in S}
           R == StrictSubsetOrdering(0 .. k)
<1>1. IsFiniteSet(0 .. k)
  BY FS_Interval
<1>2. IsWellFoundedOn(R, SUBSET (0 .. k))
  BY <1>1, FS_StrictSubsetOrderingWellFounded, FS_FiniteSubsetsOfFinite
<1>3. T \subseteq SUBSET (0 .. k) /\ T # {}
  OBVIOUS
<1>4. PICK least \in T : \A t \in T : <<t, least>> \notin R
  <2> HIDE DEF T, R
  <2> QED
    BY <1>2, <1>3, WFMin
<1>5. PICK x \in S : least = Above(x)
  BY <1>4
<1>6. ASSUME NEW y \in S PROVE x >= y
  <2> SUFFICES ASSUME y > x PROVE FALSE
    BY <1>5
  <2>1. Above(y) \subseteq Above(x) /\ Above(y) # Above(x)
    <3>1. y \in Above(x) /\ y \notin Above(y)
      OBVIOUS
    <3>2. \A z \in Above(y) : z \in Above(x)
      OBVIOUS
    <3> QED
      BY <3>1, <3>2
  <2>2. <<Above(y), Above(x)>> \in R
    BY <2>1 DEF StrictSubsetOrdering
  <2> QED
    BY <1>4, <1>5, <2>2
<1> QED
  BY <1>6 DEF Max

\* The pods of the StatefulSet are among the ordinals.
LEMMA MineAreOrdinals ==
  ASSUME TypeOK
  PROVE  spec.replicas \in Nat /\ 0 .. spec.replicas - 1 \subseteq Ordinals
<1>1. spec.replicas \in 1 .. MaxReplicas /\ MaxReplicas \in Nat
  BY PodsAssumption DEF TypeOK, Specs
<1> QED
  BY <1>1 DEF Ordinals

\* The StatefulSet has at most as many ready pods as ordinals.
LEMMA ReadyPods ==
  ASSUME TypeOK
  PROVE  /\ IsFiniteSet({n \in Ordinals : Ready(n)})
         /\ Cardinality({n \in Ordinals : Ready(n)}) \in 0 .. MaxReplicas
<1>1. IsFiniteSet(Ordinals) /\ Cardinality(Ordinals) = MaxReplicas
  BY FS_Interval, PodsAssumption DEF Ordinals
<1>2. {n \in Ordinals : Ready(n)} \in SUBSET Ordinals
  OBVIOUS
<1> QED
  BY <1>1, <1>2, FS_Subset, FS_CardinalityType, PodsAssumption

\* With a status that is up to date, the pods that are looked at are all the
\* pods there are, and all are ready.
LEMMA AllReadyMeansThere ==
  ASSUME TypeOK, LeftBehind, prompt, Never({"restart"}), seen = Current, AllReady
  PROVE  AllThere /\ \A k \in Ordinals : k >= spec.replicas => pod[k].st = "absent"
<1> DEFINE ready == {n \in Ordinals : Ready(n)}
           mine == 0 .. spec.replicas - 1
<1>1. /\ spec.replicas \in 1 .. MaxReplicas /\ Cardinality(ready) = spec.replicas
      /\ MaxReplicas \in Nat
  <2>1. seen.ready = Cardinality(ready)
    BY DEF Current
  <2> QED
    BY <2>1, PodsAssumption DEF TypeOK, AllReady, Specs
<1>2. IsFiniteSet(ready)
  BY ReadyPods
<1>3. IsFiniteSet(mine) /\ Cardinality(mine) = spec.replicas
  BY <1>1, FS_Interval
<1>4. ASSUME NEW k \in Ordinals, k >= spec.replicas, pod[k].st # "absent"
      PROVE  FALSE
  <2>1. AllThere /\ Ready(k)
    BY <1>4 DEF LeftBehind, Ready
  <2>2. mine \cup {k} \subseteq ready
    BY <1>1, <1>4, <2>1 DEF AllThere, Ordinals
  <2>3. Cardinality(mine \cup {k}) = spec.replicas + 1
    <3>1. k \notin mine
      BY <1>1, <1>4 DEF Ordinals
    <3> QED
      BY <1>3, <3>1, FS_AddElement
  <2>4. Cardinality(mine \cup {k}) <= Cardinality(ready)
    BY <1>2, <2>2, FS_Subset
  <2> QED
    BY <1>1, <2>3, <2>4
<1>5. ready \in SUBSET mine
  <2>1. ASSUME NEW n \in ready PROVE n \in mine
    <3>1. ~(n >= spec.replicas)
      BY <1>4, <2>1 DEF Ready
    <3> QED
      BY <1>1, <3>1 DEF Ordinals
  <2> QED
    BY <2>1
<1>6. ready = mine
  BY <1>1, <1>3, <1>5, FS_Subset
<1> QED
  BY <1>4, <1>6 DEF AllThere

\* What the end of a reconcile leaves.
Over(ph) == /\ pc' = "save" /\ phase' = ph /\ desired' = 1 /\ at' = Nowhere
            /\ known' = Unknown /\ upgrading' \in BOOLEAN /\ saved' = saved

LEMMA EndsAreOver ==
  ASSUME TypeOK, NEW ph
  PROVE  /\ EndsIn(ph) => Over(ph)
         /\ \A upg \in BOOLEAN : EndsWith(ph, upg) => Over(ph)
<1>1. upgrading \in BOOLEAN
  BY DEF TypeOK
<1> QED
  BY <1>1 DEF EndsIn, EndsWith, Forgotten, Over

\* The pod that is looked at belongs to the StatefulSet.
LEMMA LooksAtMine ==
  ASSUME TypeOK, NEW n \in Ordinals, LooksAt(n)
  PROVE  n \in ToDo /\ n < spec.replicas /\ spec' = spec
<1>1. seen.ready \in Nat /\ seen.ready = spec.replicas
  BY DEF TypeOK, LooksAt, AllReady
<1>2. ToDo \subseteq 0 .. seen.ready - 1 /\ ToDo # {} /\ n = Max(ToDo) /\ spec' = spec
  BY DEF ToDo, LooksAt
<1>3. n \in ToDo
  <2>1. seen.ready - 1 \in Int
    BY <1>1
  <2>2. Max(ToDo) \in ToDo
    BY <1>2, <2>1, MaxIsIn
  <2> QED
    BY <1>2, <2>2
<1> QED
  BY <1>1, <1>2, <1>3 DEF ToDo, Ordinals

-----------------------------------------------------------------------------
(* Types.                                                                  *)

LEMMA PodsTypeInit == Init => TypeOK
<1> SUFFICES ASSUME Init PROVE TypeOK
  OBVIOUS
<1>1. 0 \in Ordinals /\ 1 \in 1 .. MaxReplicas /\ 1 \in 1 .. MaxRevision
      /\ MaxReplicas \in Nat
  BY PodsAssumption DEF Ordinals
<1>2. want \in Specs /\ spec \in Specs
  BY <1>1 DEF Init, Specs
<1>3. Absent \in Pods /\ [rev |-> 1, st |-> "ready", ver |-> 0] \in Pods
  BY <1>1 DEF Absent, Pods
<1>4. pod \in [Ordinals -> Pods]
  BY <1>3 DEF Init
<1>5. seen \in [rev : 1 .. MaxRevision, ready : 0 .. MaxReplicas]
  BY <1>1 DEF Init
<1>6. at \in [n : Ordinals, pod : Pods] /\ known \in [Ordinals -> Members]
      /\ member \in [Ordinals -> Members]
  BY <1>1, <1>3 DEF Init, Nowhere, Unknown, Members
<1> QED
  BY <1>1, <1>2, <1>4, <1>5, <1>6 DEF Init, TypeOK

\* The values that steps write have their types.
LEMMA PodsValues ==
  ASSUME TypeOK
  PROVE  /\ 1 \in 1 .. MaxReplicas /\ Nowhere \in [n : Ordinals, pod : Pods]
         /\ Unknown \in [Ordinals -> Members] /\ Absent \in Pods
         /\ Current \in [rev : 1 .. MaxRevision, ready : 0 .. MaxReplicas]
         /\ \A n \in Ordinals : pod[n] \in Pods
         /\ \A r \in 1 .. MaxReplicas : [spec EXCEPT !.replicas = r] \in Specs
         /\ [spec EXCEPT !.rev = want.rev] \in Specs
         /\ spec.rev \in 1 .. MaxRevision
<1>1. 0 \in Ordinals /\ 1 \in 1 .. MaxReplicas /\ 1 \in 1 .. MaxRevision
  BY PodsAssumption DEF Ordinals
<1>2. Absent \in Pods
  BY <1>1 DEF Absent, Pods
<1>3. spec.rev \in 1 .. MaxRevision /\ want.rev \in 1 .. MaxRevision
  BY DEF TypeOK, Specs
<1>4. Current \in [rev : 1 .. MaxRevision, ready : 0 .. MaxReplicas]
  BY <1>3, ReadyPods DEF Current
<1>5. \A r \in 1 .. MaxReplicas : [spec EXCEPT !.replicas = r] \in Specs
  BY DEF TypeOK, Specs
<1>6. [spec EXCEPT !.rev = want.rev] \in Specs
  BY <1>3 DEF TypeOK, Specs
<1> QED
  BY <1>1, <1>2, <1>3, <1>4, <1>5, <1>6 DEF Nowhere, Unknown, Members, TypeOK

Phases == {"Pending", "ScalingUp", "ScalingDown", "Updating", "Ready", "Error"}

\* The variables of a reconcile that has ended have their types.
LEMMA OverTypes ==
  ASSUME TypeOK, NEW ph \in Phases, Over(ph)
  PROVE  /\ desired' \in 1 .. MaxReplicas /\ at' \in [n : Ordinals, pod : Pods]
         /\ known' \in [Ordinals -> Members] /\ upgrading' \in BOOLEAN
         /\ saved' \in BOOLEAN
         /\ pc' \in {"idle", "pods", "scale", "claims", "delete", "save"}
         /\ phase' \in Phases
BY PodsValues DEF Over, TypeOK

\* What Prepare does: the pod is chosen, or the reconcile ends.
LEMMA Prepared ==
  ASSUME TypeOK, NEW n \in Ordinals, NEW enforceCounts \in BOOLEAN, NEW next,
         NEW ph \in Phases, Prepare(n, enforceCounts, next, ph)
  PROVE  /\ pod' = pod /\ claim' = claim
         /\ faults' = faults \/ Fault("rest")
         /\ \/ /\ MayRemove(n) /\ at' = [n |-> n, pod |-> pod[n]] /\ pc' = next
               /\ UNCHANGED <<member, enforced, inUpgrade, desired, known, phase,
                              upgrading, saved>>
            \/ /\ \E end \in {ph, "Error"} : Over(end)
               /\ enforced' \in [Ordinals -> BOOLEAN] /\ inUpgrade' \in BOOLEAN
               /\ \A m \in Ordinals : member'[m] = member[m] \/ member'[m] = "Draining"
               /\ member' \in [Ordinals -> Members]
<1>1. /\ EndsIn(ph) => Over(ph)
      /\ EndsIn("Error") => Over("Error")
      /\ EndsWith(ph, UpgradeNoted) => Over(ph)
      /\ EndsWith("Error", UpgradeNoted) => Over("Error")
  BY EndsAreOver DEF UpgradeNoted
<1>2. CASE MayRemove(n) /\ at' = [n |-> n, pod |-> pod[n]] /\ Goes(next)
           /\ UNCHANGED <<world, faults>>
  BY <1>2 DEF Goes, world
<1>3. CASE EndsIn(ph) /\ UNCHANGED <<world, faults>>
  BY <1>1, <1>3 DEF world, TypeOK, Phases
<1>4. CASE TakeOut(n, enforceCounts, ph) /\ UNCHANGED <<pod, claim>>
  <2>1. faults' = faults \/ Fault("rest")
    BY <1>4 DEF TakeOut
  <2>2. \E end \in {ph, "Error"} : Over(end)
    BY <1>1, <1>4 DEF TakeOut
  <2>3. enforced' \in [Ordinals -> BOOLEAN] /\ inUpgrade' \in BOOLEAN
    BY <1>4 DEF TakeOut, TypeOK
  <2>4. \/ member' = member
        \/ member' = [member EXCEPT ![n] = "Draining"]
        \/ member' = [member EXCEPT ![n] = IF @ = "Up" THEN "Draining" ELSE @]
    BY <1>4 DEF TakeOut
  <2>5. /\ \A m \in Ordinals : member'[m] = member[m] \/ member'[m] = "Draining"
        /\ member' \in [Ordinals -> Members]
    BY <2>4 DEF TypeOK, Members
  <2> QED
    BY <1>4, <2>1, <2>2, <2>3, <2>5 DEF Phases
<1> QED
  BY <1>2, <1>3, <1>4 DEF Prepare

\* A reconcile keeps the types.
LEMMA PodsTypeReconcile == ASSUME TypeOK, Decided, Reconcile PROVE TypeOK'
<1>1. \A f : Fault(f) => faults' \subseteq FaultKinds
  BY DEF Fault, TypeOK
<1>2. ASSUME NEW ph \in Phases, EndsIn(ph) PROVE Over(ph)
  BY <1>2, EndsAreOver
<1>3. ASSUME NEW ph \in Phases, Over(ph), UNCHANGED <<config, want, seen, changes>>,
             spec' \in Specs, pod' \in [Ordinals -> Pods],
             claim' \in [Ordinals -> {"none", "fresh", "stale"}],
             member' \in [Ordinals -> Members], enforced' \in [Ordinals -> BOOLEAN],
             inUpgrade' \in BOOLEAN, faults' \subseteq FaultKinds
      PROVE  TypeOK'
  BY <1>3, OverTypes DEF TypeOK, config, Phases
<1>4. ASSUME NEW ph \in Phases, Over(ph), UNCHANGED <<config, want, seen, changes>>,
             UNCHANGED world, spec' \in Specs, faults' \subseteq FaultKinds
      PROVE  TypeOK'
  BY <1>3, <1>4 DEF world, TypeOK
<1>5. CASE StartReconcile
  <2>1. UNCHANGED <<config, want, seen, world, changes>>
    BY <1>5 DEF StartReconcile
  <2>2. CASE /\ ~EndsAfterUpdate /\ ~NotReady /\ ApplyStatefulSet /\ Found
             /\ IF kind # "Default" /\ known' = Unknown
                THEN pc' = "save" /\ phase' = "Pending" /\ desired' = 1
                ELSE pc' = "pods" /\ phase' = phase /\ desired' = want.replicas
             /\ UNCHANGED <<at, upgrading, saved>>
    <3>1. known' \in [Ordinals -> Members]
      <4>1. \A n \in Ordinals : Answers(n) \in Members
        BY DEF Answers, TypeOK, Members
      <4>2. \A n \in Ordinals : Unanswered(n) \in [Ordinals -> Members]
        BY <4>1, PodsValues DEF Unanswered, Members
      <4> QED
        BY <2>2, <4>1, <4>2 DEF Found
    <3>2. faults' \subseteq FaultKinds
      BY <1>1, <2>2 DEF Found, TypeOK
    <3>3. spec' \in Specs /\ desired' \in 1 .. MaxReplicas
      BY <2>2, PodsValues DEF ApplyStatefulSet, TypeOK, Specs
    <3> QED
      BY <2>1, <2>2, <3>1, <3>2, <3>3 DEF TypeOK, config, world
  <2>3. CASE Fault("api") /\ EndsIn("Error") /\ UNCHANGED spec
    BY <1>1, <1>2, <1>4, <2>1, <2>3 DEF TypeOK, Phases
  <2>4. CASE /\ ApplyStatefulSet /\ UNCHANGED faults
             /\ EndsIn(IF NotReady THEN "Pending" ELSE "Updating")
    BY <1>2, <1>4, <2>1, <2>4, PodsValues DEF ApplyStatefulSet, TypeOK, Phases
  <2> QED
    BY <1>5, <2>2, <2>3, <2>4 DEF StartReconcile
<1>6. CASE WaitForPods
  <2>1. PICK ph \in Phases : EndsIn(ph)
    BY <1>6 DEF WaitForPods, Phases
  <2> QED
    BY <1>2, <1>4, <1>6, <2>1 DEF WaitForPods, Refetches, TypeOK
<1>7. CASE ScaleUp
  <2>1. UNCHANGED <<config, want, seen, changes>> /\ UNCHANGED world
    BY <1>7 DEF ScaleUp, Refetches
  <2>2. \/ spec' = [spec EXCEPT !.replicas = desired] /\ EndsIn("ScalingUp")
           /\ UNCHANGED faults
        \/ Fault("api") /\ EndsIn("Error") /\ UNCHANGED spec
    BY <1>7 DEF ScaleUp
  <2>3. spec' \in Specs /\ faults' \subseteq FaultKinds
    BY <1>1, <2>2, PodsValues DEF TypeOK
  <2> QED
    BY <1>2, <1>4, <2>1, <2>2, <2>3 DEF Phases
<1>8. ASSUME NEW n \in Ordinals, NEW enforceCounts \in BOOLEAN,
             NEW next \in {"scale", "delete"}, NEW ph \in Phases,
             Prepare(n, enforceCounts, next, ph), Refetches, spec' = spec
      PROVE  TypeOK'
  <2>1. UNCHANGED <<config, want, seen, changes, pod, claim, spec>>
        /\ faults' \subseteq FaultKinds
    BY <1>1, <1>8, Prepared DEF Refetches, TypeOK
  <2>2. CASE \E end \in {ph, "Error"} : Over(end)
    BY <1>3, <1>8, <2>1, <2>2, Prepared DEF TypeOK, Phases
  <2>3. CASE /\ at' = [n |-> n, pod |-> pod[n]] /\ pc' = next
             /\ UNCHANGED <<member, enforced, inUpgrade, desired, known, phase,
                            upgrading, saved>>
    BY <2>1, <2>3 DEF TypeOK, config
  <2> QED
    BY <1>8, <2>2, <2>3, Prepared
<1>9. CASE PrepareScaleDown
  <2>1. Refetches /\ spec' = spec /\ seen.ready - 1 \in Ordinals
    <3>1. seen.ready \in 0 .. MaxReplicas /\ desired \in 1 .. MaxReplicas
          /\ seen.ready > desired /\ MaxReplicas \in Nat
      BY <1>9, PodsAssumption DEF PrepareScaleDown, TypeOK
    <3> QED
      BY <1>9, <3>1 DEF PrepareScaleDown, Ordinals
  <2>2. CASE RemovalFails(seen.ready - 1)
    BY <1>1, <1>2, <1>4, <2>1, <2>2 DEF RemovalFails, Refetches, TypeOK, Phases
  <2> QED
    BY <1>8, <1>9, <2>1, <2>2 DEF PrepareScaleDown, Phases
<1>10. CASE ScaleDown
  <2>1. UNCHANGED <<config, want, seen, pod, member, enforced, inUpgrade, changes>>
    BY <1>10 DEF ScaleDown
  <2>2. CASE Fault("api") /\ EndsIn("Error") /\ UNCHANGED <<spec, claim>>
    BY <1>1, <1>2, <1>3, <2>1, <2>2 DEF TypeOK, Phases
  <2>3. CASE /\ ScalesTo(at.n) /\ claim' = [claim EXCEPT ![at.n] = "stale"]
             /\ Goes("claims") /\ UNCHANGED <<at, faults>>
    <3>1. spec' \in Specs
      <4>1. at.n \in 1 .. MaxReplicas
        BY <1>10, PodsAssumption DEF ScaleDown, Decided, TypeOK, Ordinals
      <4> QED
        BY <2>3, <4>1, PodsValues DEF ScalesTo
    <3> QED
      BY <2>1, <2>3, <3>1 DEF TypeOK, Goes, config
  <2> QED
    BY <1>10, <2>2, <2>3 DEF ScaleDown
<1>11. CASE DeleteClaims
  <2>1. UNCHANGED <<config, want, seen, spec, pod, member, enforced, inUpgrade, changes>>
    BY <1>11 DEF DeleteClaims, sts
  <2>2. \/ ClaimsDeleted(at.n) /\ EndsIn("ScalingDown") /\ UNCHANGED faults
        \/ Fault("claim") /\ EndsIn("Error") /\ UNCHANGED claim
    BY <1>11 DEF DeleteClaims
  <2>3. /\ claim' \in [Ordinals -> {"none", "fresh", "stale"}]
        /\ faults' \subseteq FaultKinds
    BY <1>1, <2>2 DEF ClaimsDeleted, TypeOK
  <2> QED
    BY <1>2, <1>3, <2>1, <2>2, <2>3 DEF TypeOK, Phases
<1>12. CASE WaitForPod
  <2>1. PICK ph \in Phases : EndsIn(ph)
    BY <1>12 DEF WaitForPod, Phases
  <2> QED
    BY <1>2, <1>4, <1>12, <2>1 DEF WaitForPod, LooksAt, Refetches, TypeOK
<1>13. CASE PrepareRecycle
  BY <1>8, <1>13 DEF PrepareRecycle, LooksAt, Phases
<1>14. CASE DeletePod
  <2>1. UNCHANGED <<config, want, seen, spec, claim, member, enforced, inUpgrade, changes>>
    BY <1>14 DEF DeletePod, sts
  <2>2. /\ pod' = pod \/ pod' = [pod EXCEPT ![at.n].st = "stopping"]
        /\ faults' = faults \/ Fault("api")
        /\ EndsIn("Updating") \/ EndsIn("Error")
    BY <1>14 DEF DeletePod
  <2>3. pod' \in [Ordinals -> Pods]
    BY <2>2 DEF TypeOK, Pods
  <2> QED
    BY <1>1, <1>2, <1>3, <2>1, <2>2, <2>3 DEF TypeOK, Phases
<1>15. CASE FinishRecycle
  <2>1. PICK n \in Ordinals :
          /\ LooksAt(n) /\ UNCHANGED <<pod, claim, enforced, inUpgrade>>
          /\ Releases(n) \/ member' = member
          /\ faults' = faults \/ Fault("rest")
          /\ EndsIn("Updating") \/ EndsIn("Error")
    BY <1>15 DEF FinishRecycle
  <2>2. member' \in [Ordinals -> Members]
    BY <2>1 DEF Releases, TypeOK, Members
  <2>3. UNCHANGED <<config, want, seen, spec, changes>>
    BY <2>1 DEF LooksAt, Refetches
  <2> QED
    BY <1>1, <1>2, <1>3, <2>1, <2>2, <2>3 DEF TypeOK, Phases
<1>16. CASE AllInOrder
  <2>1. UNCHANGED <<config, want, seen, spec, changes, pod, claim, member, enforced>>
    BY <1>16 DEF AllInOrder, Refetches
  <2>2. Over("Error") \/ Over("Ready")
    BY <1>16, EndsAreOver DEF AllInOrder
  <2>3. inUpgrade' \in BOOLEAN /\ faults' \subseteq FaultKinds
    <3>1. inUpgrade' = inUpgrade \/ inUpgrade' = (inUpgrade /\ ~upgrading)
      BY <1>16 DEF AllInOrder
    <3> QED
      BY <1>1, <1>16, <3>1 DEF AllInOrder, TypeOK
  <2> QED
    BY <1>3, <2>1, <2>2, <2>3 DEF TypeOK, Phases
<1>17. CASE SaveStatus
  BY <1>17 DEF SaveStatus, TypeOK, config, sts, world
<1> QED
  BY <1>5, <1>6, <1>7, <1>9, <1>10, <1>11, <1>12, <1>13, <1>14, <1>15, <1>16, <1>17
     DEF Reconcile

\* Every step keeps the types.
LEMMA PodsTypeNext == TypeOK /\ Decided /\ [Next]_vars => TypeOK'
<1> SUFFICES ASSUME TypeOK, Decided, [Next]_vars PROVE TypeOK'
  OBVIOUS
<1>1. \A f : Fault(f) => faults' \subseteq FaultKinds
  BY DEF Fault, TypeOK
<1>2. Elsewhere => UNCHANGED <<kind, prompt, spec, desired, pc, at, known, upgrading, saved,
                               phase, inUpgrade>>
  BY DEF Elsewhere, config, recon
<1>3. CASE Reconcile
  BY <1>3, PodsTypeReconcile
<1>4. CASE ObserveStatus
  BY <1>2, <1>4, PodsValues DEF ObserveStatus, TypeOK
<1>5. ASSUME NEW n \in Ordinals, CreatePod(n) PROVE TypeOK'
  <2>1. [rev |-> spec.rev, st |-> "starting", ver |-> 0] \in Pods
    BY PodsValues DEF Pods
  <2> QED
    BY <1>2, <1>5, <2>1 DEF CreatePod, TypeOK
<1>6. ASSUME NEW n \in Ordinals, EndPod(n) PROVE TypeOK'
  <2>1. member' \in [Ordinals -> Members]
    BY <1>6 DEF EndPod, TypeOK, Members
  <2> QED
    BY <1>2, <1>6, <2>1, PodsValues DEF EndPod, TypeOK
<1>7. ASSUME NEW n \in Ordinals, PodBecomesReady(n) PROVE TypeOK'
  <2>1. member' \in [Ordinals -> Members]
    BY <1>7 DEF PodBecomesReady, TypeOK, Members
  <2>2. pod' \in [Ordinals -> Pods]
    BY <1>7 DEF PodBecomesReady, TypeOK, Pods
  <2> QED
    BY <1>2, <1>7, <2>1, <2>2 DEF PodBecomesReady, TypeOK
<1>8. ASSUME NEW n \in Ordinals, MemberDrains(n) PROVE TypeOK'
  BY <1>2, <1>8 DEF MemberDrains, TypeOK, Members
<1>9. ASSUME NEW n \in Ordinals, PodRestarts(n) PROVE TypeOK'
  <2>1. pod[n] \in Pods
    BY DEF TypeOK
  <2>2. pod[n].ver + 1 \in Nat
    BY <2>1 DEF Pods
  <2>3. pod' \in [Ordinals -> Pods]
    BY <1>9, <2>1, <2>2 DEF PodRestarts, TypeOK, Pods
  <2> QED
    BY <1>1, <1>2, <1>9, <2>3 DEF PodRestarts, TypeOK
<1>10. CASE UserChanges
  BY <1>2, <1>10 DEF UserChanges, TypeOK
<1>11. CASE Crash
  BY <1>1, <1>11, PodsValues DEF Crash, Forgotten, TypeOK, config, sts, world
<1>12. CASE UNCHANGED vars
  BY <1>12 DEF vars, TypeOK, config, sts, world, recon
<1> QED
  BY <1>3, <1>4, <1>5, <1>6, <1>7, <1>8, <1>9, <1>10, <1>11, <1>12 DEF Next, Kubernetes

-----------------------------------------------------------------------------
(* The inductive invariant.                                                *)

\* Faults are not forgotten.
LEMMA FaultsStay ==
  ASSUME NEW f, Fault(f) \/ faults' = faults
  PROVE  \A fs : Never(fs)' => Never(fs)
BY DEF Fault, Never

\* A reconcile that ends without removing a pod keeps the invariant.
LEMMA OverKeeps ==
  ASSUME PodsInv, TypeOK', pc' \in {"save", "idle"}, pc # "claims",
         UNCHANGED <<claim, pod, prompt>>, spec'.replicas = spec.replicas,
         \A fs : Never(fs)' => Never(fs)
  PROVE  PodsInv'
<1>1. Decided' /\ KnownIsTrue'
  BY DEF Decided, KnownIsTrue
<1>2. StaleIsBeingDeleted'
  BY DEF PodsInv, StaleIsBeingDeleted
<1>3. AllThere' = AllThere
  BY DEF AllThere, Ready
<1>4. LeftBehind'
  BY <1>3 DEF PodsInv, LeftBehind
<1> QED
  BY <1>1, <1>2, <1>4 DEF PodsInv

\* The choice of a pod keeps the invariant.
LEMMA PrepareKeeps ==
  ASSUME PodsInv, TypeOK', pc = "pods", NEW n \in Ordinals, NEW enforceCounts \in BOOLEAN,
         NEW next \in {"scale", "delete"}, NEW ph \in Phases,
         Prepare(n, enforceCounts, next, ph), Refetches, AllReady, spec' = spec,
         next = "scale" => n >= 1 /\ spec.replicas = n + 1,
         n < spec.replicas
  PROVE  PodsInv'
<1>1. TypeOK /\ prompt' = prompt /\ kind' = kind
  BY DEF PodsInv, Refetches, config
<1>2. UNCHANGED <<pod, claim>> /\ \A fs : Never(fs)' => Never(fs)
  BY <1>1, Prepared, FaultsStay
<1>3. CASE \E end \in {ph, "Error"} : Over(end)
  <2>1. pc' = "save"
    BY <1>3 DEF Over
  <2> QED
    BY <1>1, <1>2, <2>1, OverKeeps
<1>4. CASE /\ MayRemove(n) /\ at' = [n |-> n, pod |-> pod[n]] /\ pc' = next
           /\ UNCHANGED <<member, known>>
  <2>1. Decided'
    BY <1>4 DEF Decided
  <2>2. StaleIsBeingDeleted'
    BY <1>2, <1>4 DEF PodsInv, StaleIsBeingDeleted
  <2>3. KnownIsTrue'
    BY <1>1, <1>4 DEF PodsInv, KnownIsTrue, MayRemove, DrainComplete
  <2>4. prompt /\ Never({"restart"}) =>
          AllThere /\ \A k \in Ordinals : k >= spec.replicas => pod[k].st = "absent"
    BY <1>1, AllReadyMeansThere DEF PodsInv, Refetches
  <2>5. AllThere' = AllThere
    BY <1>2 DEF AllThere, Ready
  <2>6. LeftBehind'
    BY <1>1, <1>2, <2>4, <2>5 DEF PodsInv, LeftBehind
  <2> QED
    BY <2>1, <2>2, <2>3, <2>6 DEF PodsInv
<1> QED
  BY <1>1, <1>3, <1>4, Prepared

\* A reconcile keeps the invariant.
LEMMA PodsReconcile == ASSUME PodsInv, TypeOK', Reconcile PROVE PodsInv'
<1>1. TypeOK
  BY DEF PodsInv
<1>2. ASSUME NEW ph, EndsIn(ph) PROVE pc' = "save"
  BY <1>2 DEF EndsIn, EndsWith
<1>3. CASE StartReconcile
  <2>1. /\ pc = "idle" /\ UNCHANGED <<claim, pod, member, prompt, kind>>
        /\ spec'.replicas = spec.replicas
        /\ faults' = faults \/ \E f : Fault(f)
        /\ pc' # "pods" => pc' = "save"
    <3>1. pc = "idle" /\ UNCHANGED <<claim, pod, member, prompt, kind>>
      BY <1>3 DEF StartReconcile, world, config
    <3>2. spec' = spec \/ ApplyStatefulSet
      BY <1>3 DEF StartReconcile
    <3>3. spec'.replicas = spec.replicas
      BY <1>1, <3>2 DEF ApplyStatefulSet, TypeOK, Specs
    <3>4. faults' = faults \/ \E f : Fault(f)
      BY <1>3 DEF StartReconcile, Found
    <3>5. pc' # "pods" => pc' = "save"
      BY <1>2, <1>3 DEF StartReconcile
    <3> QED
      BY <3>1, <3>3, <3>4, <3>5
  <2>2. \A fs : Never(fs)' => Never(fs)
    BY <2>1, FaultsStay
  <2>3. CASE pc' = "save"
    BY <2>1, <2>2, <2>3, OverKeeps
  <2>4. CASE pc' = "pods"
    <3>1. Found
      BY <1>2, <1>3, <2>4 DEF StartReconcile
    <3>2. ASSUME kind = "SearchHead", NEW n \in Ordinals, known'[n] = "Drained"
          PROVE  member[n] = "Drained"
      BY <3>1, <3>2 DEF Found, Answers, Unanswered
    <3>3. KnownIsTrue'
      <4>1. 0 .. spec.replicas - 1 \subseteq Ordinals
        BY <1>1, MineAreOrdinals
      <4> QED
        BY <2>1, <2>4, <3>2, <4>1 DEF KnownIsTrue
    <3>4. Decided' /\ StaleIsBeingDeleted'
      BY <2>1, <2>2, <2>4 DEF PodsInv, Decided, StaleIsBeingDeleted
    <3>5. AllThere' = AllThere
      BY <2>1 DEF AllThere, Ready
    <3>6. LeftBehind'
      BY <2>1, <2>2, <2>4, <3>5 DEF PodsInv, LeftBehind
    <3> QED
      BY <3>3, <3>4, <3>6 DEF PodsInv
  <2> QED
    BY <2>1, <2>3, <2>4
<1>4. CASE WaitForPods \/ WaitForPod \/ FinishRecycle \/ AllInOrder
  <2>1. /\ pc = "pods" /\ pc' = "save" /\ UNCHANGED <<claim, pod, prompt, spec>>
        /\ faults' = faults \/ \E f : Fault(f)
    BY <1>4 DEF WaitForPods, WaitForPod, FinishRecycle, AllInOrder, LooksAt, Refetches,
                EndsIn, EndsWith, world, config
  <2> QED
    BY <2>1, FaultsStay, OverKeeps
<1>5. CASE ScaleUp
  <2>1. /\ pc = "pods" /\ pc' = "save" /\ UNCHANGED <<claim, pod, prompt>>
        /\ faults' = faults \/ Fault("api")
        /\ \/ spec' = spec
           \/ spec' = [spec EXCEPT !.replicas = desired]
        /\ AllReady /\ seen.ready < desired /\ Refetches
    BY <1>5 DEF ScaleUp, Refetches, EndsIn, EndsWith, world, config
  <2>2. \A fs : Never(fs)' => Never(fs)
    BY <2>1, FaultsStay
  <2>3. CASE spec' = spec
    BY <2>1, <2>2, <2>3, OverKeeps
  <2>4. CASE spec' = [spec EXCEPT !.replicas = desired]
    <3>1. /\ spec'.replicas = desired /\ desired > spec.replicas /\ desired \in Nat
          /\ spec.replicas \in Nat
      BY <1>1, <2>1, <2>4 DEF TypeOK, Specs, AllReady
    <3>2. Decided' /\ StaleIsBeingDeleted' /\ KnownIsTrue'
      BY <2>1, <2>2 DEF PodsInv, Decided, StaleIsBeingDeleted, KnownIsTrue
    <3>3. prompt /\ Never({"restart"}) =>
            \A k \in Ordinals : k >= spec.replicas => pod[k].st = "absent"
      BY <1>1, <2>1, AllReadyMeansThere DEF PodsInv, Refetches
    <3>4. LeftBehind'
      BY <2>1, <2>2, <3>1, <3>3 DEF LeftBehind, Ordinals
    <3> QED
      BY <3>2, <3>4 DEF PodsInv
  <2> QED
    BY <2>1, <2>3, <2>4
<1>6. CASE PrepareScaleDown
  <2>1. /\ Refetches /\ AllReady /\ spec' = spec /\ pc = "pods"
        /\ seen.ready - 1 \in Ordinals /\ seen.ready - 1 >= 1
        /\ spec.replicas = seen.ready - 1 + 1 /\ seen.ready - 1 < spec.replicas
    <3>1. /\ seen.ready \in 0 .. MaxReplicas /\ desired \in 1 .. MaxReplicas
          /\ seen.ready > desired /\ MaxReplicas \in Nat /\ seen.ready = spec.replicas
      BY <1>1, <1>6, PodsAssumption DEF PrepareScaleDown, TypeOK, AllReady
    <3> QED
      BY <1>6, <3>1 DEF PrepareScaleDown, Ordinals, Refetches
  <2>2. CASE RemovalFails(seen.ready - 1)
    <3>1. /\ pc' = "save" /\ UNCHANGED <<claim, pod, prompt, spec>> /\ Fault("rest")
      BY <1>2, <2>1, <2>2 DEF RemovalFails, world, Refetches, config
    <3> QED
      BY <2>1, <3>1, FaultsStay, OverKeeps
  <2>3. CASE Prepare(seen.ready - 1, TRUE, "scale", "ScalingDown")
    BY <2>1, <2>3, PrepareKeeps DEF Phases
  <2> QED
    BY <1>6, <2>2, <2>3 DEF PrepareScaleDown
<1>7. CASE PrepareRecycle
  <2>1. PICK n \in Ordinals : LooksAt(n) /\ Prepare(n, FALSE, "delete", "Updating")
    BY <1>7 DEF PrepareRecycle
  <2>2. n < spec.replicas /\ spec' = spec
    BY <1>1, <2>1, LooksAtMine
  <2> QED
    BY <2>1, <2>2, PrepareKeeps DEF LooksAt, Refetches, Phases
<1>8. CASE ScaleDown
  <2>1. pc = "scale" /\ UNCHANGED <<pod, prompt>>
    BY <1>8 DEF ScaleDown, config
  <2>2. CASE Fault("api") /\ EndsIn("Error") /\ UNCHANGED <<spec, claim>>
    BY <1>2, <2>1, <2>2, FaultsStay, OverKeeps
  <2>3. CASE /\ ScalesTo(at.n) /\ claim' = [claim EXCEPT ![at.n] = "stale"]
             /\ pc' = "claims" /\ UNCHANGED <<at, faults>>
    <3>1. /\ spec'.replicas = at.n /\ spec.replicas = at.n + 1 /\ at.n \in Ordinals
          /\ at.n \in Nat
      BY <1>1, <2>1, <2>3 DEF PodsInv, Decided, ScalesTo, TypeOK, Specs, Ordinals
    <3>2. Decided' /\ KnownIsTrue'
      BY <2>3, <3>1 DEF Decided, KnownIsTrue
    <3>3. StaleIsBeingDeleted'
      BY <1>1, <2>1, <2>3 DEF PodsInv, StaleIsBeingDeleted, Never, TypeOK
    <3>4. prompt /\ Never({"restart"}) => AllThere
      BY <2>1 DEF PodsInv, LeftBehind
    <3>5. AllThere => Ready(at.n) /\ AllThere'
      BY <2>1, <3>1 DEF AllThere, Ready
    <3>6. LeftBehind'
      <4>1. ASSUME prompt, Never({"restart"}), NEW k \in Ordinals, k >= at.n
            PROVE  pod[k].st = "absent" \/ (pod[k].st = "ready" /\ AllThere')
        <5>1. CASE k = at.n
          BY <3>4, <3>5, <4>1, <5>1 DEF Ready
        <5>2. CASE k >= spec.replicas
          BY <3>5, <4>1, <5>2 DEF PodsInv, LeftBehind
        <5> QED
          BY <3>1, <4>1, <5>1, <5>2 DEF Ordinals
      <4> QED
        BY <2>1, <2>3, <3>1, <4>1 DEF LeftBehind, Never
    <3> QED
      BY <3>2, <3>3, <3>6 DEF PodsInv
  <2> QED
    BY <1>8, <2>2, <2>3 DEF ScaleDown, Goes
<1>9. CASE DeleteClaims
  <2>1. /\ pc = "claims" /\ pc' = "save" /\ UNCHANGED <<pod, prompt, spec>>
        /\ \/ ClaimsDeleted(at.n) /\ UNCHANGED faults
           \/ Fault("claim") /\ UNCHANGED claim
    BY <1>2, <1>9 DEF DeleteClaims, sts, config
  <2>2. \A fs : Never(fs)' => Never(fs)
    BY <2>1, FaultsStay
  <2>3. Decided' /\ KnownIsTrue'
    BY <2>1 DEF Decided, KnownIsTrue
  <2>4. StaleIsBeingDeleted'
    BY <1>1, <2>1 DEF PodsInv, StaleIsBeingDeleted, ClaimsDeleted, Never, Fault, TypeOK
  <2>5. AllThere' = AllThere
    BY <2>1 DEF AllThere, Ready
  <2>6. LeftBehind'
    BY <2>1, <2>2, <2>5 DEF PodsInv, LeftBehind
  <2> QED
    BY <2>3, <2>4, <2>6 DEF PodsInv
<1>10. CASE DeletePod
  <2>1. /\ pc = "delete" /\ pc' = "save" /\ UNCHANGED <<claim, prompt, spec>>
        /\ faults' = faults \/ Fault("api")
        /\ pod' = pod \/ pod' = [pod EXCEPT ![at.n].st = "stopping"]
    BY <1>2, <1>10 DEF DeletePod, sts, config
  <2>2. \A fs : Never(fs)' => Never(fs)
    BY <2>1, FaultsStay
  <2>3. CASE pod' = pod
    BY <2>1, <2>2, <2>3, OverKeeps
  <2>4. CASE pod' = [pod EXCEPT ![at.n].st = "stopping"]
    <3>1. Decided' /\ KnownIsTrue' /\ StaleIsBeingDeleted'
      BY <2>1, <2>2 DEF PodsInv, Decided, KnownIsTrue, StaleIsBeingDeleted
    <3>2. at.n \in Ordinals /\ at.n < spec.replicas /\ spec.replicas \in Nat
      BY <1>1, <2>1 DEF PodsInv, Decided, TypeOK, Specs
    <3>3. \A k \in Ordinals : k >= spec.replicas => pod'[k] = pod[k]
      BY <1>1, <2>4, <3>2 DEF TypeOK, Ordinals
    <3>4. LeftBehind'
      BY <2>1, <2>2, <3>3 DEF PodsInv, LeftBehind
    <3> QED
      BY <3>1, <3>4 DEF PodsInv
  <2> QED
    BY <2>1, <2>3, <2>4
<1>11. CASE SaveStatus
  <2>1. pc = "save" /\ pc' = "idle" /\ UNCHANGED <<claim, pod, prompt, spec, faults>>
    BY <1>11 DEF SaveStatus, world, config, sts
  <2> QED
    BY <2>1, FaultsStay, OverKeeps
<1> QED
  BY <1>3, <1>4, <1>5, <1>6, <1>7, <1>8, <1>9, <1>10, <1>11 DEF Reconcile

\* The other actors keep the invariant.
LEMMA PodsElsewhere ==
  ASSUME PodsInv, TypeOK', NEW n \in Ordinals,
         CreatePod(n) \/ EndPod(n) \/ PodBecomesReady(n) \/ MemberDrains(n)
         \/ PodRestarts(n)
  PROVE  PodsInv'
<1>1. TypeOK /\ spec.replicas \in Nat /\ 0 .. spec.replicas - 1 \subseteq Ordinals
  BY MineAreOrdinals DEF PodsInv
<1>2. UNCHANGED <<kind, prompt, spec, pc, at, known>> /\ (faults' = faults \/ Fault("restart"))
  BY DEF CreatePod, EndPod, PodBecomesReady, MemberDrains, PodRestarts, Elsewhere, config,
         recon
<1>3. \A fs : Never(fs)' => Never(fs)
  BY <1>2, FaultsStay
<1>4. Decided'
  BY <1>2 DEF PodsInv, Decided
<1>5. \A k \in Ordinals : claim'[k] = "stale" => claim[k] = "stale"
  BY <1>1 DEF CreatePod, EndPod, PodBecomesReady, MemberDrains, PodRestarts, TypeOK
<1>6. StaleIsBeingDeleted'
  BY <1>2, <1>3, <1>5 DEF PodsInv, StaleIsBeingDeleted
<1>7. ASSUME kind = "SearchHead", NEW m \in 0 .. spec.replicas - 1, member[m] = "Drained"
      PROVE  member'[m] = "Drained"
  <2>1. m \in Ordinals
    BY <1>1
  <2>2. CASE EndPod(n)
    <3>1. CASE n >= spec.replicas
      <4>1. n # m
        BY <1>1, <1>7, <3>1
      <4> QED
        BY <1>1, <1>7, <2>1, <2>2, <4>1 DEF EndPod, TypeOK
    <3>2. CASE ~(n >= spec.replicas)
      BY <1>7, <2>2, <3>2 DEF EndPod
    <3> QED
      BY <3>1, <3>2
  <2>3. CASE CreatePod(n) \/ PodRestarts(n)
    BY <1>7, <2>3 DEF CreatePod, PodRestarts
  <2>4. CASE PodBecomesReady(n) \/ MemberDrains(n)
    BY <1>1, <1>7, <2>1, <2>4 DEF PodBecomesReady, MemberDrains, TypeOK
  <2> QED
    BY <2>2, <2>3, <2>4
<1>8. KnownIsTrue'
  BY <1>2, <1>7 DEF PodsInv, KnownIsTrue
<1>9. LeftBehind'
  <2> SUFFICES ASSUME prompt, Never({"restart"})', Never({"restart"})
               PROVE  /\ \A k \in Ordinals : k >= spec.replicas
                           => \/ pod'[k].st = "absent"
                              \/ pod'[k].st = "ready" /\ AllThere'
                      /\ pc \in {"scale", "delete"} => AllThere'
                      /\ pc = "delete" => \A k \in Ordinals : k >= spec.replicas
                                                             => pod'[k].st = "absent"
    BY <1>2, <1>3 DEF LeftBehind
  <2>1. ~PodRestarts(n)
    BY DEF PodRestarts, Fault, Never
  <2>2. CASE MemberDrains(n)
    <3>1. pod' = pod /\ AllThere' = AllThere
      BY <1>2, <2>2 DEF MemberDrains, AllThere, Ready
    <3> QED
      BY <3>1 DEF PodsInv, LeftBehind
  <2>3. /\ \A k \in Ordinals : k >= spec.replicas
             => pod[k].st = "absent" \/ (pod[k].st = "ready" /\ AllThere)
        /\ pc \in {"scale", "delete"} => AllThere
        /\ pc = "delete" => \A k \in Ordinals : k >= spec.replicas => pod[k].st = "absent"
    BY DEF PodsInv, LeftBehind
  <2>4. ASSUME NEW new, pod' = [pod EXCEPT ![n] = new], n < spec.replicas, ~Ready(n)
        PROVE  /\ \A k \in Ordinals : k >= spec.replicas => pod'[k].st = "absent"
               /\ pc \notin {"scale", "delete"}
    <3>1. ~AllThere
      BY <1>1, <2>4 DEF AllThere, Ordinals
    <3>2. \A k \in Ordinals : k >= spec.replicas => pod'[k] = pod[k]
      BY <1>1, <2>4 DEF TypeOK, Ordinals
    <3> QED
      BY <2>3, <3>1, <3>2
  <2>5. CASE CreatePod(n)
    <3>1. \E new : pod' = [pod EXCEPT ![n] = new]
      BY <2>5 DEF CreatePod
    <3> QED
      BY <2>4, <2>5, <3>1 DEF CreatePod, Ready
  <2>6. CASE PodBecomesReady(n)
    <3>1. n < spec.replicas
      <4>1. ~(n >= spec.replicas)
        BY <2>3, <2>6 DEF PodBecomesReady
      <4> QED
        BY <1>1, <4>1 DEF Ordinals
    <3>2. \E new : pod' = [pod EXCEPT ![n] = new]
      BY <2>6 DEF PodBecomesReady
    <3> QED
      BY <2>4, <2>6, <3>1, <3>2 DEF PodBecomesReady, Ready
  <2>7. CASE EndPod(n) /\ n < spec.replicas
    <3>1. pod' = [pod EXCEPT ![n] = Absent] /\ ~Ready(n)
      BY <1>1, <2>7 DEF EndPod, Ready, Ordinals
    <3> QED
      BY <2>4, <2>7, <3>1
  <2>8. CASE EndPod(n) /\ n >= spec.replicas
    <3>1. pod' = [pod EXCEPT ![n] = Absent]
      BY <2>8 DEF EndPod
    <3>2. \A k \in Ordinals : pod'[k] = IF k = n THEN Absent ELSE pod[k]
      BY <1>1, <3>1 DEF TypeOK
    <3>3. \A m \in 0 .. spec.replicas - 1 : pod'[m] = pod[m]
      BY <1>1, <2>8, <3>2
    <3>4. AllThere' = AllThere
      BY <1>2, <3>3 DEF AllThere, Ready
    <3> QED
      BY <2>3, <3>2, <3>4 DEF Absent
  <2>9. n < spec.replicas \/ n >= spec.replicas
    BY <1>1 DEF Ordinals
  <2> QED
    BY <2>1, <2>2, <2>5, <2>6, <2>7, <2>8, <2>9
<1> QED
  BY <1>4, <1>6, <1>8, <1>9 DEF PodsInv

LEMMA PodsInit == Init => PodsInv
<1> SUFFICES ASSUME Init PROVE PodsInv
  OBVIOUS
<1>1. TypeOK
  BY PodsTypeInit
<1>2. pc = "idle" /\ spec = want /\ want.replicas \in 1 .. MaxReplicas
  BY DEF Init
<1>3. Decided /\ KnownIsTrue
  BY <1>2 DEF Decided, KnownIsTrue
<1>4. StaleIsBeingDeleted
  BY DEF Init, StaleIsBeingDeleted
<1>5. \A k \in Ordinals : k >= spec.replicas => pod[k].st = "absent"
  BY <1>2, PodsAssumption DEF Init, Absent, Ordinals
<1> QED
  BY <1>1, <1>2, <1>3, <1>4, <1>5 DEF PodsInv, LeftBehind

\* Every step keeps the invariant.
LEMMA PodsNext == PodsInv /\ [Next]_vars => PodsInv'
<1> SUFFICES ASSUME PodsInv, [Next]_vars PROVE PodsInv'
  OBVIOUS
<1>1. TypeOK'
  BY PodsTypeNext DEF PodsInv
<1>2. CASE Reconcile
  BY <1>1, <1>2, PodsReconcile
<1>3. ASSUME NEW n \in Ordinals,
             CreatePod(n) \/ EndPod(n) \/ PodBecomesReady(n) \/ MemberDrains(n)
             \/ PodRestarts(n)
      PROVE  PodsInv'
  BY <1>1, <1>3, PodsElsewhere
<1>4. CASE ObserveStatus \/ UserChanges \/ UNCHANGED vars
  <2>1. UNCHANGED <<kind, prompt, spec, pod, claim, member, pc, at, known, faults>>
    BY <1>4 DEF ObserveStatus, UserChanges, Elsewhere, vars, config, recon, world, sts
  <2>2. AllThere' = AllThere /\ \A fs : Never(fs)' = Never(fs)
    BY <2>1 DEF AllThere, Ready, Never
  <2> QED
    BY <1>1, <2>1, <2>2 DEF PodsInv, Decided, StaleIsBeingDeleted, KnownIsTrue, LeftBehind
<1>5. CASE Crash
  <2>1. /\ pc' = "idle" /\ UNCHANGED <<prompt, spec, pod, claim>> /\ Fault("crash")
    BY <1>5 DEF Crash, config, world, sts
  <2>2. Decided' /\ KnownIsTrue'
    BY <2>1 DEF Decided, KnownIsTrue
  <2>3. StaleIsBeingDeleted'
    BY <2>1 DEF StaleIsBeingDeleted, Never, Fault
  <2>4. AllThere' = AllThere /\ \A fs : Never(fs)' => Never(fs)
    BY <2>1, FaultsStay DEF AllThere, Ready
  <2>5. LeftBehind'
    BY <2>1, <2>4 DEF PodsInv, LeftBehind
  <2> QED
    BY <1>1, <2>2, <2>3, <2>5 DEF PodsInv
<1> QED
  BY <1>2, <1>3, <1>4, <1>5 DEF Next, Kubernetes

-----------------------------------------------------------------------------
(* The theorems.                                                           *)

LEMMA PodsInvariance == Spec => []PodsInv
BY PodsInit, PodsNext, PTL DEF Spec

\* Every variable keeps its type; in particular the StatefulSet is never scaled
\* to zero, however the user's changes and stale statuses interleave.
THEOREM PodsTypeCorrect == Spec => []TypeOK
<1>1. PodsInv => TypeOK
  BY DEF PodsInv
<1> QED
  BY <1>1, PodsInvariance, PTL

\* A pod that a scale up adds never finds the volume claim of a removed one,
\* unless the deletion of the claims failed or a restart cut it off, for any
\* number of replicas.
THEOREM ScaleUpIsClean == Spec => []CleanScaleUp
<1>1. PodsInv => CleanScaleUp
  <2> SUFFICES ASSUME PodsInv, Never({"claim", "crash"}), NEW n \in Ordinals,
                      n < spec.replicas, claim[n] = "stale"
               PROVE  FALSE
    BY DEF CleanScaleUp
  <2>1. pc = "claims" /\ n = at.n
    BY DEF PodsInv, StaleIsBeingDeleted
  <2>2. spec.replicas <= n /\ spec.replicas \in Nat
    BY <2>1 DEF PodsInv, Decided, TypeOK, Specs
  <2> QED
    BY <2>2 DEF Ordinals
<1> QED
  BY <1>1, PodsInvariance, PTL

\* Only two steps of the operator remove a pod.
LEMMA RemovalSteps ==
  ASSUME PodsInv, [Next]_vars, NEW n \in Ordinals, Removes(n)
  PROVE  \/ /\ pc = "delete" /\ n = at.n /\ kind' = kind /\ spec' = spec
            /\ Ready(n)
         \/ pc = "scale" /\ n = at.n
<1>1. TypeOK /\ spec.replicas \in Nat
  BY DEF PodsInv, TypeOK, Specs
<1>2. CASE UNCHANGED <<pod, spec>>
  BY <1>1, <1>2 DEF Removes, Ordinals
<1>3. ASSUME pod' = pod, spec'.replicas = spec.replicas PROVE FALSE
  BY <1>1, <1>3 DEF Removes, Ordinals
<1>4. CASE Reconcile
  <2>1. CASE StartReconcile
    <3>1. pod' = pod /\ (spec' = spec \/ ApplyStatefulSet)
      BY <2>1 DEF StartReconcile, world
    <3>2. spec'.replicas = spec.replicas
      BY <1>1, <3>1 DEF ApplyStatefulSet, TypeOK, Specs
    <3> QED
      BY <1>3, <3>1, <3>2
  <2>2. CASE WaitForPods \/ WaitForPod \/ FinishRecycle \/ AllInOrder \/ SaveStatus
             \/ DeleteClaims
    BY <1>2, <2>2 DEF WaitForPods, WaitForPod, FinishRecycle, AllInOrder, SaveStatus,
                      DeleteClaims, LooksAt, world, sts
  <2>3. CASE ScaleUp
    <3>1. pod' = pod
      BY <2>3 DEF ScaleUp, world
    <3>2. \/ spec' = spec
          \/ spec' = [spec EXCEPT !.replicas = desired] /\ spec.replicas < desired
      BY <2>3 DEF ScaleUp, AllReady
    <3>3. spec'.replicas >= spec.replicas /\ spec'.replicas \in Nat
      BY <1>1, <3>2 DEF TypeOK, Specs
    <3> QED
      BY <1>1, <3>1, <3>3 DEF Removes, Ordinals
  <2>4. CASE PrepareScaleDown \/ PrepareRecycle
    <3>1. spec' = spec
      BY <2>4 DEF PrepareScaleDown, PrepareRecycle, LooksAt
    <3>2. pod' = pod
      BY <2>4 DEF PrepareScaleDown, PrepareRecycle, RemovalFails, Prepare, world
    <3> QED
      BY <1>2, <3>1, <3>2
  <2>5. CASE ScaleDown
    <3>1. pc = "scale" /\ pod' = pod /\ (spec' = spec \/ ScalesTo(at.n))
      BY <2>5 DEF ScaleDown
    <3>2. n < spec.replicas /\ n >= spec'.replicas
      BY <3>1 DEF Removes
    <3>3. spec'.replicas = at.n /\ spec.replicas = at.n + 1 /\ at.n \in Nat
      BY <1>1, <3>1, <3>2 DEF ScalesTo, PodsInv, Decided, TypeOK, Specs, Ordinals
    <3> QED
      BY <3>1, <3>2, <3>3 DEF Ordinals
  <2>6. CASE DeletePod
    <3>1. /\ pc = "delete" /\ spec' = spec /\ kind' = kind
          /\ pod' = pod \/ pod' = [pod EXCEPT ![at.n].st = "stopping"]
      BY <2>6 DEF DeletePod, sts, config
    <3>2. pod[n].st = "ready" /\ pod'[n].st = "stopping"
      BY <1>1, <3>1 DEF Removes, Ordinals
    <3>3. n = at.n
      BY <1>1, <3>1, <3>2 DEF TypeOK
    <3> QED
      BY <3>1, <3>2, <3>3 DEF Ready
  <2> QED
    BY <1>4, <2>1, <2>2, <2>3, <2>4, <2>5, <2>6 DEF Reconcile
<1>5. ASSUME NEW m \in Ordinals, CreatePod(m) PROVE FALSE
  <2>1. spec' = spec
    BY <1>5 DEF CreatePod, Elsewhere
  <2>2. pod[n].st = "ready" /\ pod'[n].st = "stopping"
    BY <1>1, <2>1 DEF Removes, Ordinals
  <2>3. pod'[m].st = "starting" /\ \A k \in Ordinals : k # m => pod'[k] = pod[k]
    BY <1>1, <1>5 DEF CreatePod, TypeOK
  <2> QED
    BY <2>2, <2>3
<1>6. ASSUME NEW m \in Ordinals, EndPod(m) PROVE FALSE
  <2>1. spec' = spec
    BY <1>6 DEF EndPod, Elsewhere
  <2>2. pod[n].st = "ready" /\ pod'[n].st = "stopping"
    BY <1>1, <2>1 DEF Removes, Ordinals
  <2>3. pod'[m].st = "absent" /\ \A k \in Ordinals : k # m => pod'[k] = pod[k]
    BY <1>1, <1>6 DEF EndPod, TypeOK, Absent
  <2> QED
    BY <2>2, <2>3
<1>7. ASSUME NEW m \in Ordinals, PodBecomesReady(m) \/ PodRestarts(m) PROVE FALSE
  <2>1. spec' = spec
    BY <1>7 DEF PodBecomesReady, PodRestarts, Elsewhere
  <2>2. pod[n].st = "ready" /\ pod'[n].st = "stopping"
    BY <1>1, <2>1 DEF Removes, Ordinals
  <2>3. pod[m] \in Pods /\ pod[n] \in Pods
    BY <1>1 DEF TypeOK
  <2>4. CASE PodBecomesReady(m)
    BY <1>1, <2>2, <2>3, <2>4 DEF PodBecomesReady, TypeOK, Pods
  <2>5. CASE PodRestarts(m)
    BY <1>1, <2>2, <2>3, <2>5 DEF PodRestarts, TypeOK, Pods
  <2> QED
    BY <1>7, <2>4, <2>5
<1>8. CASE ObserveStatus \/ UserChanges \/ Crash \/ UNCHANGED vars
           \/ \E m \in Ordinals : MemberDrains(m)
  BY <1>2, <1>8 DEF ObserveStatus, UserChanges, Crash, MemberDrains, Elsewhere, vars, world,
                    sts
<1> QED
  BY <1>4, <1>5, <1>6, <1>7, <1>8 DEF Next, Kubernetes

\* No search head is taken away, for an update or for good, before it is in
\* detention and its searches have ended: what updateStatus has found still
\* holds when the pod is deleted or the StatefulSet scaled down, whatever
\* Kubernetes, Splunk and the user do between the calls.
THEOREM RemovedIsDrained == Spec => DrainedBeforeRemoval
<1>1. ASSUME PodsInv, [Next]_vars, NEW n \in Ordinals, Removes(n), kind = "SearchHead"
      PROVE  member[n] = "Drained"
  <2>1. pc \in {"delete", "scale"} /\ n = at.n
    BY <1>1, RemovalSteps
  <2>2. n \in 0 .. spec.replicas - 1
    BY <1>1, <2>1 DEF PodsInv, Decided, TypeOK, Specs, Ordinals
  <2> QED
    BY <1>1, <2>1, <2>2 DEF PodsInv, KnownIsTrue
<1>2. PodsInv /\ [Next]_vars
        => [\A n \in Ordinals : Removes(n) /\ kind = "SearchHead"
                                  => member[n] = "Drained"]_vars
  BY <1>1
<1> QED
  BY <1>2, PodsInvariance, PTL DEF Spec, DrainedBeforeRemoval

\* The pods after the one that is about to be deleted have been found ready,
\* and stay so, whatever the status of the StatefulSet says.
LaterAreReady ==
  pc = "delete" /\ Never({"restart"})
    => \A m \in 0 .. spec.replicas - 1 : m > at.n => Ready(m)

\* The loop over the pods goes from the last to the first, and stops at the
\* first one that is not in order.
LEMMA LaterInOrder ==
  ASSUME TypeOK, NEW n \in Ordinals, LooksAt(n)
  PROVE  \A m \in 0 .. spec.replicas - 1 : m > n => Ready(m)
<1>1. /\ ToDo # {} /\ n = Max(ToDo) /\ seen.ready = spec.replicas /\ seen.ready - 1 \in Int
      /\ ToDo \subseteq 0 .. seen.ready - 1
  BY DEF LooksAt, ToDo, AllReady, TypeOK
<1>2. \A m \in ToDo : n >= m
  BY <1>1, MaxIsIn
<1>3. ASSUME NEW m \in 0 .. spec.replicas - 1, m > n PROVE Ready(m)
  <2>1. m \notin ToDo
    BY <1>2, <1>3 DEF Ordinals
  <2> QED
    BY <1>1, <1>3, <2>1 DEF ToDo, InOrder
<1> QED
  BY <1>3

\* Every step keeps this.
LEMMA LaterNext == PodsInv /\ LaterAreReady /\ [Next]_vars => LaterAreReady'
<1> SUFFICES ASSUME PodsInv, LaterAreReady, [Next]_vars, pc' = "delete",
                    Never({"restart"})', NEW m \in 0 .. spec'.replicas - 1, m > at'.n
             PROVE  Ready(m)'
  BY DEF LaterAreReady
<1>1. TypeOK /\ 0 .. spec.replicas - 1 \subseteq Ordinals
  BY MineAreOrdinals DEF PodsInv
<1>2. CASE Reconcile
  <2>1. PrepareRecycle
    <3>1. ASSUME NEW ph, NEW upg, EndsWith(ph, upg) \/ EndsIn(ph) PROVE FALSE
      BY <3>1 DEF EndsWith, EndsIn
    <3>2. ~WaitForPods /\ ~ScaleUp /\ ~WaitForPod /\ ~FinishRecycle /\ ~AllInOrder
      BY <3>1 DEF WaitForPods, ScaleUp, WaitForPod, FinishRecycle, AllInOrder
    <3>3. ~StartReconcile /\ ~ScaleDown /\ ~DeleteClaims /\ ~DeletePod /\ ~SaveStatus
      BY <3>1 DEF StartReconcile, ScaleDown, DeleteClaims, DeletePod, SaveStatus, Goes
    <3>4. ~PrepareScaleDown
      BY <3>1 DEF PrepareScaleDown, Prepare, TakeOut, RemovalFails, Goes
    <3> QED
      BY <1>2, <3>2, <3>3, <3>4 DEF Reconcile
  <2>2. PICK n \in Ordinals : LooksAt(n) /\ Prepare(n, FALSE, "delete", "Updating")
    BY <2>1 DEF PrepareRecycle
  <2>3. spec' = spec /\ at'.n = n /\ pod' = pod
    BY <2>2 DEF LooksAt, Prepare, TakeOut, EndsIn, EndsWith, world
  <2> QED
    BY <1>1, <2>2, <2>3, LaterInOrder DEF Ready
<1>3. ASSUME NEW n \in Ordinals,
             CreatePod(n) \/ EndPod(n) \/ PodBecomesReady(n) \/ MemberDrains(n)
             \/ PodRestarts(n)
      PROVE  Ready(m)'
  <2>1. UNCHANGED <<spec, pc, at>> /\ (faults' = faults \/ Fault("restart"))
    BY <1>3 DEF CreatePod, EndPod, PodBecomesReady, MemberDrains, PodRestarts, Elsewhere,
                recon
  <2>2. ~PodRestarts(n) /\ Never({"restart"})
    BY <2>1, FaultsStay DEF PodRestarts, Fault, Never
  <2>3. Ready(m) /\ m \in Ordinals /\ m < spec.replicas
    BY <1>1, <2>1, <2>2 DEF LaterAreReady, TypeOK, Specs
  <2>4. CASE n = m
    <3>1. ~CreatePod(n) /\ ~EndPod(n) /\ ~PodBecomesReady(n)
      BY <1>1, <2>3, <2>4 DEF CreatePod, EndPod, PodBecomesReady, Ready, TypeOK, Specs,
                              Ordinals
    <3> QED
      BY <1>3, <2>2, <2>3, <3>1 DEF MemberDrains, Ready
  <2>5. CASE n # m
    <3>1. pod' = pod \/ \E new : pod' = [pod EXCEPT ![n] = new]
      BY <1>3, <2>2 DEF CreatePod, EndPod, PodBecomesReady, MemberDrains
    <3>2. pod'[m] = pod[m]
      BY <1>1, <2>3, <2>5, <3>1 DEF TypeOK
    <3> QED
      BY <2>3, <3>2 DEF Ready
  <2> QED
    BY <2>4, <2>5
<1>4. CASE ObserveStatus \/ UserChanges \/ UNCHANGED vars
  <2>1. UNCHANGED <<spec, pod, pc, at, faults>>
    BY <1>4 DEF ObserveStatus, UserChanges, Elsewhere, vars, recon, world, sts
  <2> QED
    BY <2>1 DEF LaterAreReady, Ready, Never
<1>5. ~Crash
  BY DEF Crash
<1> QED
  BY <1>2, <1>3, <1>4, <1>5 DEF Next, Kubernetes

\* Pods are recycled one at a time, for any number of replicas: those after the
\* pod that is deleted are ready whatever status the re-fetch has found, because
\* the loop looks at the pods themselves; those before it are when the status is
\* up to date, since it counts no pod that a scale down has left behind then.
THEOREM RecycledOneAtATime == Spec => OneAtATime
<1>1. ASSUME PodsInv, LaterAreReady, [Next]_vars, Never({"restart"}), NEW n \in Ordinals,
             pod[n].st = "ready", pod'[n].st = "stopping",
             NEW m \in 0 .. spec.replicas - 1, m > n \/ prompt
      PROVE  Ready(m)
  <2>1. pc \in {"delete", "scale"} /\ n = at.n
    BY <1>1, RemovalSteps DEF Removes
  <2>2. CASE prompt
    BY <1>1, <2>1, <2>2 DEF PodsInv, LeftBehind, AllThere
  <2>3. CASE pc = "delete" /\ m > n
    BY <1>1, <2>1, <2>3 DEF LaterAreReady
  <2>4. CASE pc = "scale" /\ m > n
    BY <1>1, <2>1, <2>4 DEF PodsInv, Decided, TypeOK, Ordinals
  <2> QED
    BY <1>1, <2>1, <2>2, <2>3, <2>4
<1>2. PodsInv /\ LaterAreReady /\ [Next]_vars
        => [Never({"restart"}) =>
              \A n \in Ordinals :
                pod[n].st = "ready" /\ pod'[n].st = "stopping"
                  => \A m \in 0 .. spec.replicas - 1 : m > n \/ prompt => Ready(m)]_vars
  BY <1>1
<1>3. Init => LaterAreReady
  BY DEF Init, LaterAreReady
<1> QED
  BY <1>2, <1>3, LaterNext, PodsInvariance, PTL DEF Spec, OneAtATime
=============================================================================
