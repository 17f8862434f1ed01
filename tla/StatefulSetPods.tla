--------------------------- MODULE StatefulSetPods ---------------------------
(***************************************************************************)
(* Scaling and updating the pods of a StatefulSet: ApplyStatefulSet and    *)
(* UpdateStatefulSetPods (pkg/splunk/splkcontroller/statefulset.go) with   *)
(* the pod managers that prepare a pod for its removal: the default one,   *)
(* searchHeadClusterPodManager (detention) and indexerClusterPodManager    *)
(* (decommission).                                                         *)
(*                                                                         *)
(* A reconcile acts through the Kubernetes API and the REST API of Splunk  *)
(* while the StatefulSet controller, the pods, Splunk and the user move.   *)
(***************************************************************************)
EXTENDS Naturals, FiniteSets, FiniteSetsExt

CONSTANTS
  Kinds,        \* the pod managers: "Default", "SearchHead", "Indexer"
  MaxReplicas,  \* bound: replicas the user asks for
  MaxRevision,  \* bound: revisions of the pod template
  MaxChanges,   \* bound: changes of the CR by the user
  FaultKinds,   \* the faults that may happen, each of them once
  MaxFaults     \* bound: faults in a behaviour

ASSUME PodsAssumption ==
  /\ Kinds \subseteq {"Default", "SearchHead", "Indexer"}
  /\ MaxReplicas \in Nat \ {0} /\ MaxRevision \in Nat \ {0}
  /\ MaxChanges \in Nat /\ MaxFaults \in Nat
  /\ FaultKinds \subseteq {"api", "rest", "claim", "finalize", "restart", "crash"}

VARIABLES
  kind,       \* the pod manager of this StatefulSet; never changes
  prompt,     \* TRUE: a reconcile that reads the status of the StatefulSet
              \* finds it up to date; never changes
  want,       \* the CR: replicas and revision of the pod template
  desired,    \* the replicas of the CR, as the current reconcile has read it
  spec,       \* the StatefulSet: replicas and revision
  seen,       \* its status: UpdateRevision and ReadyReplicas
  pod,        \* the pods
  claim,      \* volume claims: "none", "fresh", or "stale" after a scale down
  member,     \* each member as Splunk sees it
  enforced,   \* was the last decommission of the peer one that rebalances
  inUpgrade,  \* is the search head cluster in a rolling upgrade
  pc,         \* where the reconcile is
  at,         \* the pod it is about to remove
  known,      \* the members as updateStatus has found them
  upgrading,  \* status: UpgradePhase is "Upgrading"
  saved,      \* the same, as stored by the API server
  phase,      \* the phase that the last reconcile reported
  changes,    \* changes by the user so far
  faults      \* faults so far

config == <<kind, prompt>>
sts == <<spec, seen>>
world == <<pod, claim, member, enforced, inUpgrade>>
recon == <<desired, pc, at, known, upgrading, saved, phase>>
vars == <<config, want, sts, world, recon, changes, faults>>

Ordinals == 0 .. MaxReplicas - 1
Specs == [replicas : 1 .. MaxReplicas, rev : 1 .. MaxRevision]
Pods == [rev : 1 .. MaxRevision, st : {"absent", "starting", "ready", "stopping"},
         ver : Nat]

\* A member of the cluster.  "Draining" stands for ManualDetention with active
\* searches and for Decommissioning and ReassigningPrimaries, "Drained" for
\* ManualDetention without searches and for GracefulShutdown and Down.
Members == {"none", "Up", "Draining", "Drained"}

Fault(f) == /\ f \in FaultKinds \ faults /\ Cardinality(faults) < MaxFaults
            /\ faults' = faults \cup {f}
Never(fs) == fs \cap faults = {}

Absent == [rev |-> 1, st |-> "absent", ver |-> 0]
Nowhere == [n |-> 0, pod |-> Absent]
Unknown == [n \in Ordinals |-> "none"]
Ready(n) == pod[n].st = "ready"
Current == [rev |-> spec.rev, ready |-> Cardinality({n \in Ordinals : Ready(n)})]

\* A StatefulSet at rest.
Init ==
  /\ kind \in Kinds /\ prompt \in BOOLEAN
  /\ want \in [replicas : 1 .. MaxReplicas, rev : {1}]
  /\ spec = want
  /\ pod = [n \in Ordinals |-> IF n < want.replicas
                               THEN [rev |-> 1, st |-> "ready", ver |-> 0]
                               ELSE Absent]
  /\ seen = [rev |-> 1, ready |-> want.replicas]
  /\ claim = [n \in Ordinals |-> IF n < want.replicas THEN "fresh" ELSE "none"]
  /\ member = [n \in Ordinals |-> IF n < want.replicas THEN "Up" ELSE "none"]
  /\ enforced = [n \in Ordinals |-> FALSE]
  /\ inUpgrade = FALSE /\ upgrading = FALSE /\ saved = FALSE
  /\ pc = "idle" /\ desired = 1 /\ at = Nowhere /\ known = Unknown
  /\ phase = "Ready" /\ changes = 0 /\ faults = {}

-----------------------------------------------------------------------------
(* The reconcile.                                                          *)

\* The reconcile ends, and its locals with it.
Forgotten == desired' = 1 /\ at' = Nowhere /\ known' = Unknown

EndsWith(ph, upg) == /\ Forgotten /\ pc' = "save" /\ phase' = ph
                     /\ upgrading' = upg /\ UNCHANGED saved
EndsIn(ph) == EndsWith(ph, upgrading)

\* The deferred update of the status.
SaveStatus == /\ pc = "save" /\ pc' = "idle" /\ saved' = upgrading
              /\ UNCHANGED <<config, want, sts, world, desired, at, known,
                             upgrading, phase, changes, faults>>

Goes(next) == pc' = next /\ UNCHANGED <<desired, known, phase, upgrading, saved>>

\* updateStatus: the search heads are asked one by one, the peers are known
\* to the cluster manager.
Answers(n) == IF kind = "SearchHead" /\ ~Ready(n) THEN "none" ELSE member[n]

\* What a failing call leaves: one search head does not answer, or the cluster
\* manager does not.
Unanswered(n) == IF kind = "SearchHead"
                 THEN [m \in Ordinals |-> IF m = n THEN "none" ELSE Answers(m)]
                 ELSE Unknown

Found == \/ known' = [n \in Ordinals |-> Answers(n)] /\ UNCHANGED faults
         \/ /\ kind # "Default" /\ Fault("rest")
            /\ \E n \in Ordinals : known' = Unanswered(n)

\* ApplyStatefulSet updates the template, and leaves the replicas alone.
HasUpdates == spec.rev # want.rev
ApplyStatefulSet == spec' = [spec EXCEPT !.rev = want.rev]

\* Update of the default manager ends the reconcile after an update.
EndsAfterUpdate == kind = "Default" /\ HasUpdates

\* Update of the others ends it when no pod is ready.
NotReady == kind # "Default" /\ seen.ready = 0

\* Update of the pod managers up to UpdateStatefulSetPods: ApplyStatefulSet
\* and updateStatus.
StartReconcile ==
  /\ pc = "idle"
  /\ \/ Fault("api") /\ EndsIn("Error") /\ UNCHANGED spec
     \/ /\ EndsAfterUpdate \/ NotReady
        /\ ApplyStatefulSet
        /\ EndsIn(IF NotReady THEN "Pending" ELSE "Updating") /\ UNCHANGED faults
     \/ /\ ~EndsAfterUpdate /\ ~NotReady
        /\ ApplyStatefulSet
        /\ Found
        /\ IF kind # "Default" /\ known' = Unknown
           THEN pc' = "save" /\ phase' = "Pending" /\ desired' = 1
           ELSE pc' = "pods" /\ phase' = phase /\ desired' = want.replicas
        /\ UNCHANGED <<at, upgrading, saved>>
  /\ UNCHANGED <<config, want, seen, world, changes>>

\* UpdateStatefulSetPods reads the StatefulSet once more.
Refetches == /\ pc = "pods" /\ (prompt => seen = Current)
             /\ UNCHANGED <<config, want, seen, changes>>

AllReady == seen.ready = spec.replicas

\* Pods are still starting, or still going away.
WaitForPods ==
  /\ Refetches /\ ~AllReady
  /\ EndsIn(IF seen.ready > spec.replicas THEN "ScalingDown"
            ELSE IF seen.ready > 0 THEN "ScalingUp" ELSE "Pending")
  /\ UNCHANGED <<spec, world, faults>>

ScaleUp ==
  /\ Refetches /\ AllReady /\ seen.ready < desired
  /\ \/ /\ spec' = [spec EXCEPT !.replicas = desired]
        /\ EndsIn("ScalingUp") /\ UNCHANGED faults
     \/ Fault("api") /\ EndsIn("Error") /\ UNCHANGED spec
  /\ UNCHANGED world

\* The member is out of service: searches drained, or decommissioned.
DetentionIsEnough(n) == known[n] \in {"Draining", "Drained"}
DrainComplete(n) == known[n] = "Drained"

MayRemove(n) == kind = "Default" \/ DrainComplete(n)

UpgradeNoted == kind = "SearchHead"

\* PrepareRecycle and decommission take a member that is up out of service;
\* a search head first starts the rolling upgrade.
TakeOut(n, enforceCounts, ph) ==
  \/ Fault("rest") /\ EndsIn("Error") /\ UNCHANGED <<member, enforced, inUpgrade>>
  \/ /\ kind = "SearchHead"                          \* the detention fails
     /\ inUpgrade' = TRUE /\ Fault("rest")
     /\ EndsWith("Error", UpgradeNoted)
     /\ UNCHANGED <<member, enforced>>
  \/ /\ kind = "SearchHead"
     /\ inUpgrade' = TRUE
     /\ member' = [member EXCEPT ![n] = "Draining"]
     /\ EndsWith(ph, UpgradeNoted)
     /\ UNCHANGED <<enforced, faults>>
  \/ /\ kind = "Indexer"
     /\ member' = [member EXCEPT ![n] = IF @ = "Up" THEN "Draining" ELSE @]
     /\ enforced' = [enforced EXCEPT ![n] = enforceCounts]
     /\ EndsIn(ph)
     /\ UNCHANGED <<inUpgrade, faults>>

\* PrepareScaleDown and PrepareRecycle: the pod is ready to go, or the
\* reconcile ends in ph.
Prepare(n, enforceCounts, next, ph) ==
  \/ /\ MayRemove(n)
     /\ at' = [n |-> n, pod |-> pod[n]] /\ Goes(next)
     /\ UNCHANGED <<world, faults>>
  \/ /\ ~MayRemove(n) /\ known[n] = "Up"
     /\ TakeOut(n, enforceCounts, ph)
     /\ UNCHANGED <<pod, claim>>
  \/ /\ ~MayRemove(n) /\ known[n] # "Up"
     /\ EndsIn(ph)
     /\ UNCHANGED <<world, faults>>

\* Before a member goes for good it is removed from its cluster.
RemovalFails(n) == /\ MayRemove(n) /\ kind # "Default" /\ Fault("rest")
                   /\ EndsIn("Error") /\ UNCHANGED world

PrepareScaleDown ==
  /\ Refetches /\ AllReady /\ seen.ready > desired
  /\ \/ Prepare(seen.ready - 1, TRUE, "scale", "ScalingDown")
     \/ RemovalFails(seen.ready - 1)
  /\ UNCHANGED spec

ScalesTo(n) == spec' = [spec EXCEPT !.replicas = n]

ScaleDown ==
  /\ pc = "scale"
  /\ \/ /\ ScalesTo(at.n)
        /\ claim' = [claim EXCEPT ![at.n] = "stale"]
        /\ Goes("claims") /\ UNCHANGED <<at, faults>>
     \/ Fault("api") /\ EndsIn("Error") /\ UNCHANGED <<spec, claim>>
  /\ UNCHANGED <<config, want, seen, pod, member, enforced, inUpgrade, changes>>

ClaimsKept(n) == UNCHANGED claim
ClaimsDeleted(n) == claim' = [claim EXCEPT ![n] = "none"]

\* The claims of the removed pod are deleted; an error ends the loop.
DeleteClaims ==
  /\ pc = "claims"
  /\ \/ ClaimsDeleted(at.n) /\ EndsIn("ScalingDown") /\ UNCHANGED faults
     \/ Fault("claim") /\ EndsIn("Error") /\ UNCHANGED claim
  /\ UNCHANGED <<config, want, sts, pod, member, enforced, inUpgrade, changes>>

-----------------------------------------------------------------------------
(* No scaling is due: the pods are looked at from the last to the first.   *)

Outdated(n) == pod[n].rev # seen.rev

\* FinishRecycle
Finished(n) == kind = "Default" \/ known[n] = "Up"

ReadinessNotChecked(n) == ~Outdated(n) /\ Finished(n)
InOrder(n) == Ready(n) /\ ~Outdated(n) /\ Finished(n)
ToDo == {n \in 0 .. seen.ready - 1 : ~InOrder(n)}

LooksAt(n) == /\ Refetches /\ AllReady /\ seen.ready = desired
              /\ ToDo # {} /\ n = Max(ToDo) /\ UNCHANGED spec

WaitForPod ==
  \E n \in Ordinals :
    /\ LooksAt(n) /\ ~Ready(n)
    /\ EndsIn(IF pod[n].st = "absent" THEN "Error" ELSE "Updating")
    /\ UNCHANGED <<world, faults>>

PrepareRecycle ==
  \E n \in Ordinals : /\ LooksAt(n) /\ Ready(n) /\ Outdated(n)
                      /\ Prepare(n, FALSE, "delete", "Updating")

\* The delete has the pod's version as a precondition.
DeletePod ==
  /\ pc = "delete"
  /\ \/ /\ pod[at.n] = at.pod
        /\ pod' = [pod EXCEPT ![at.n].st = "stopping"]
        /\ EndsIn("Updating") /\ UNCHANGED faults
     \/ /\ pod[at.n] = at.pod => Fault("api")
        /\ pod[at.n] # at.pod => UNCHANGED faults
        /\ EndsIn("Error") /\ UNCHANGED pod
  /\ UNCHANGED <<config, want, sts, claim, member, enforced, inUpgrade, changes>>

ReleaseForgotten(n) == UNCHANGED member
Releases(n) == member' = [member EXCEPT ![n] = "Up"]

\* A search head is released from detention; a peer is waited for.
FinishRecycle ==
  \E n \in Ordinals :
    /\ LooksAt(n) /\ Ready(n) /\ ~Outdated(n)
    /\ \/ /\ kind = "SearchHead" /\ known[n] # "none"
          /\ Releases(n) /\ EndsIn("Updating") /\ UNCHANGED faults
       \/ /\ kind = "SearchHead" /\ known[n] # "none"
          /\ Fault("rest") /\ EndsIn("Error") /\ UNCHANGED member
       \/ /\ kind = "SearchHead" /\ known[n] = "none"
          /\ EndsIn("Error") /\ UNCHANGED <<member, faults>>
       \/ /\ kind = "Indexer"
          /\ EndsIn("Updating") /\ UNCHANGED <<member, faults>>
    /\ UNCHANGED <<pod, claim, enforced, inUpgrade>>

\* All pods are in order: RemoveUnwantedSecrets, and FinishUpgrade, which
\* records the end of the upgrade before it asks for it.
AllInOrder ==
  /\ Refetches /\ AllReady /\ seen.ready = desired /\ ToDo = {}
  /\ \/ /\ Fault("api") /\ EndsIn("Error") /\ UNCHANGED inUpgrade
     \/ /\ inUpgrade' = (inUpgrade /\ ~upgrading)
        /\ EndsWith("Ready", FALSE) /\ UNCHANGED faults
     \/ /\ upgrading /\ Fault("finalize")
        /\ EndsWith("Error", FALSE) /\ UNCHANGED inUpgrade
  /\ UNCHANGED <<spec, pod, claim, member, enforced>>

Reconcile == StartReconcile \/ WaitForPods \/ ScaleUp \/ PrepareScaleDown
             \/ ScaleDown \/ DeleteClaims \/ WaitForPod \/ PrepareRecycle
             \/ DeletePod \/ FinishRecycle \/ AllInOrder \/ SaveStatus

-----------------------------------------------------------------------------
(* The StatefulSet controller, the pods, Splunk and the user.              *)

Elsewhere == UNCHANGED <<config, spec, recon, inUpgrade>>

ObserveStatus == /\ seen # Current /\ seen' = Current
                 /\ Elsewhere /\ UNCHANGED <<want, pod, claim, member, enforced,
                                             changes, faults>>

\* Pods are created and removed in parallel, with the latest template.
CreatePod(n) ==
  /\ pod[n].st = "absent" /\ n < spec.replicas
  /\ pod' = [pod EXCEPT ![n] = [rev |-> spec.rev, st |-> "starting", ver |-> 0]]
  /\ claim' = [claim EXCEPT ![n] = IF @ = "none" THEN "fresh" ELSE @]
  /\ Elsewhere /\ UNCHANGED <<want, seen, member, enforced, changes, faults>>

\* A deleted pod ends; a pod beyond the replicas ends for good.
EndPod(n) ==
  /\ \/ pod[n].st = "stopping" /\ UNCHANGED member
     \/ /\ pod[n].st # "absent" /\ n >= spec.replicas
        /\ member' = [member EXCEPT ![n] = "none"]
  /\ pod' = [pod EXCEPT ![n] = Absent]
  /\ Elsewhere /\ UNCHANGED <<want, seen, claim, enforced, changes, faults>>

\* A restarted search head is still in detention, a restarted peer is up.
PodBecomesReady(n) ==
  /\ pod[n].st = "starting"
  /\ pod' = [pod EXCEPT ![n].st = "ready"]
  /\ member' = [member EXCEPT ![n] =
                  IF kind = "SearchHead" /\ @ # "none" THEN @ ELSE "Up"]
  /\ Elsewhere /\ UNCHANGED <<want, seen, claim, enforced, changes, faults>>

\* Searches end; a decommission ends.
MemberDrains(n) ==
  /\ member[n] = "Draining" /\ Ready(n)
  /\ member' = [member EXCEPT ![n] = "Drained"]
  /\ Elsewhere /\ UNCHANGED <<want, seen, pod, claim, enforced, changes, faults>>

PodRestarts(n) ==
  /\ Ready(n) /\ Fault("restart")
  /\ pod' = [pod EXCEPT ![n].st = "starting", ![n].ver = @ + 1]
  /\ Elsewhere /\ UNCHANGED <<want, seen, claim, member, enforced, changes>>

UserChanges ==
  /\ changes < MaxChanges /\ changes' = changes + 1
  /\ want' \in Specs \ {want} /\ want'.rev \in {want.rev, want.rev + 1}
  /\ Elsewhere /\ UNCHANGED <<seen, pod, claim, member, enforced, faults>>

\* The operator restarts.
Crash ==
  /\ Fault("crash") /\ pc # "idle"
  /\ Forgotten /\ pc' = "idle" /\ upgrading' = saved
  /\ UNCHANGED <<config, want, sts, world, saved, phase, changes>>

Kubernetes == \/ ObserveStatus
              \/ \E n \in Ordinals : CreatePod(n) \/ EndPod(n) \/ PodBecomesReady(n)
                                     \/ MemberDrains(n)

Next == Reconcile \/ Kubernetes \/ (\E n \in Ordinals : PodRestarts(n))
        \/ UserChanges \/ Crash

Spec == Init /\ [][Next]_vars

\* Reconciles come again and again, Kubernetes does its work, and what is
\* taken out of service drains.
FairSpec ==
  /\ Spec /\ WF_vars(Reconcile) /\ WF_vars(ObserveStatus)
  /\ \A n \in Ordinals : /\ WF_vars(CreatePod(n)) /\ WF_vars(EndPod(n))
                         /\ WF_vars(PodBecomesReady(n)) /\ WF_vars(MemberDrains(n))

-----------------------------------------------------------------------------
(* Properties.                                                             *)

\* Every variable has its type; there is always a replica.
TypeOK ==
  /\ kind \in Kinds /\ prompt \in BOOLEAN
  /\ want \in Specs /\ spec \in Specs /\ desired \in 1 .. MaxReplicas
  /\ seen \in [rev : 1 .. MaxRevision, ready : 0 .. MaxReplicas]
  /\ pod \in [Ordinals -> Pods]
  /\ claim \in [Ordinals -> {"none", "fresh", "stale"}]
  /\ member \in [Ordinals -> Members] /\ known \in [Ordinals -> Members]
  /\ enforced \in [Ordinals -> BOOLEAN]
  /\ inUpgrade \in BOOLEAN /\ upgrading \in BOOLEAN /\ saved \in BOOLEAN
  /\ pc \in {"idle", "pods", "scale", "claims", "delete", "save"}
  /\ at \in [n : Ordinals, pod : Pods]
  /\ phase \in {"Pending", "ScalingUp", "ScalingDown", "Updating", "Ready", "Error"}
  /\ changes \in Nat /\ faults \subseteq FaultKinds

Removes(n) == \/ pod[n].st = "ready" /\ pod'[n].st = "stopping"
              \/ n < spec.replicas /\ n >= spec'.replicas

\* A search head is removed, for an update or for good, only when it is in
\* detention and its searches have ended.
DrainedBeforeRemoval ==
  [][\A n \in Ordinals : Removes(n) /\ kind = "SearchHead"
                           => member[n] = "Drained"]_vars

\* Pods are recycled one at a time, from the last to the first: when one is
\* deleted, those after it are ready whatever status the re-fetch has found, and
\* those before it are if that status was up to date (prompt).  A pod that just
\* restarted by itself is exempt.
OneAtATime ==
  [][Never({"restart"}) =>
       \A n \in Ordinals :
         pod[n].st = "ready" /\ pod'[n].st = "stopping"
           => \A m \in 0 .. spec.replicas - 1 : m > n \/ prompt => Ready(m)]_vars

ReportsReady == pc = "pods" /\ pc' = "save" /\ phase' = "Ready"
UpToDate == \A n \in 0 .. spec.replicas - 1 : pod[n].rev = spec.rev

\* A known limit, which no run checks: that a reconcile reports Ready only when
\* every pod runs the template of the StatefulSet, whatever status the re-fetch
\* finds (README, Known limits).  EventuallyReady says that a later reconcile
\* corrects it.
RefetchIsEnough == [][ReportsReady => UpToDate]_vars

\* A pod that is added by a scale up does not find the data of a removed one,
\* unless the deletion of its claim failed or was cut off by a restart.
CleanScaleUp ==
  Never({"claim", "crash"}) =>
    \A n \in Ordinals : n < spec.replicas => claim[n] # "stale"

\* A known limit, which no run checks: that a peer is removed for good only
\* after a decommission that rebalances its buckets across the others
\* (PrepareScaleDown; README, Known limits).
RebalancedBeforeRemoval ==
  [][\A n \in Ordinals : kind = "Indexer" /\ n < spec.replicas
                           /\ n >= spec'.replicas => enforced[n]]_vars

\* After the last change of the CR its pods reach the replicas and the
\* template it asks for, out of detention, and it is reported as Ready.
EventuallyReady ==
  kind # "Indexer" =>
    <>[](/\ phase = "Ready" /\ spec = want /\ UpToDate
         /\ \A n \in 0 .. spec.replicas - 1 : Ready(n) /\ member[n] = "Up")
=============================================================================
