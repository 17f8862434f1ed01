------------------------------- MODULE Secrets -------------------------------
(***************************************************************************)
(* How a change of the namespace scoped secret reaches the pods of a       *)
(* search head cluster or an indexer cluster: versioned copies of the      *)
(* secret (pkg/splunk/util/secrets.go), the change of the running          *)
(* instances (ApplyShcSecret, ApplyIdxcSecret), the maintenance mode of    *)
(* the cluster manager, and the recycling of the pods, which mount a copy  *)
(* by its version (UpdateStatefulSetPods, in detail in StatefulSetPods).   *)
(*                                                                         *)
(* A reconcile reads the namespace secret three or four times; the user    *)
(* may write it, and the operator may fail or restart, in between.         *)
(***************************************************************************)
EXTENDS Naturals, Sequences, FiniteSets, FiniteSetsExt

CONSTANTS
  Clusters,     \* the clusters: "SearchHead", "Indexer"
  Replicas,     \* pods of the cluster
  KeepVersions, \* MinimumVersionedSecrets
  Together,     \* may one write of the user change both tokens
  MaxChanges,   \* bound: changes of the secret, by user or operator
  MaxVersions,  \* bound: versioned copies
  MaxLag,       \* bound: by how many versions the StatefulSet controller is behind
  Hazards,      \* what may go wrong: "exec", "rest", "lost", "api", "crash",
                \* "early" (the user writes before the last change has settled),
                \* "race" (he writes during a reconcile), "revert" (he restores
                \* an old value)
  MaxHazards    \* bound: how often something goes wrong

ASSUME SecretsAssumption ==
  /\ Clusters \subseteq {"SearchHead", "Indexer"}
  /\ Replicas \in Nat \ {0} /\ KeepVersions \in Nat
  /\ MaxLag \in Nat \ {0} /\ MaxLag < KeepVersions
  /\ Together \in BOOLEAN /\ MaxChanges \in Nat /\ MaxVersions \in Nat \ {0} /\ MaxHazards \in Nat
  /\ Hazards \subseteq {"exec", "rest", "lost", "api", "crash", "early", "race", "revert"}

VARIABLES
  cluster,     \* the kind of cluster; never changes
  ns,          \* the namespace secret: its tokens and its resourceVersion
  owned,       \* does the CR own the namespace secret
  copies,      \* the versioned copies, NoData when there is none
  template,    \* the version that the pod template mounts: 0 before there is
               \* a StatefulSet, Bare when the template mounts none
  revision,    \* the version that the StatefulSet controller has observed: the
               \* one in the StatefulSet's status, and the one new pods mount
  pod,         \* the pods: mounted version, tokens on disk, tokens in use
  maintenance, \* is the cluster manager in maintenance mode
  st, saved,   \* CR status: as the reconcile holds it, as it is stored
  pc, at,      \* where the reconcile is, and the pod it works on
  seen,        \* resourceVersion that ApplySplunkConfig has read
  target,      \* the secret that Apply{Shc,Idxc}Secret has read
  phase,       \* the phase that the last reconcile has reported
  changes,     \* changes of the tokens so far
  used         \* what has gone wrong so far, as a sequence

config == <<ns, owned, copies, template, revision>>
world == <<pod, maintenance>>
recon == <<pc, at, seen, target>>
vars == <<cluster, config, world, st, saved, recon, phase, changes, used>>

Pods == 1 .. Replicas
Versions == 1 .. MaxVersions
Bare == MaxVersions + 1

\* Token values are numbers, 0 for a token that is missing.
Data == [cluster : 0 .. MaxChanges + 1, admin : 0 .. MaxChanges + 1]
NoData == [cluster |-> 0, admin |-> 0]
Secret == [data : Data, rv : Nat]
PodStates == [up : BOOLEAN, mount : 0 .. Bare, disk : Data, run : Data]
Absent == [up |-> FALSE, mount |-> 0, disk |-> NoData, run |-> NoData]

\* NamespaceSecretResourceVersion, ShcSecretChanged or IndexerSecretChanged,
\* AdminSecretChanged, the secrets to be synchronised (AdminPassword- or
\* IdxcPasswordChangedSecrets that are still true), and MaintenanceMode.
Statuses == [rv : Nat, changed : Seq({TRUE}), adminChanged : Seq({TRUE}),
             toSync : SUBSET Versions, maintenance : BOOLEAN]
NoStatus == [rv |-> 0, changed |-> <<>>, adminChanged |-> <<>>,
             toSync |-> {}, maintenance |-> FALSE]

SearchHead == cluster = "SearchHead"

----------------------------------------------------------------------------
(* The secrets                                                              *)

Exists(v) == v \in Versions /\ copies[v] # NoData

\* GetExistingLatestVersionedSecret; 0 stands for "none".
Latest == Max({0} \cup {v \in Versions : Exists(v)})

\* Mutant: the version is used without a look at what it holds.
LatestIsTaken(data) == Latest # 0

LatestHolds(data) == Latest # 0 /\ copies[Latest] = data

\* ApplyNamespaceScopedSecretObject generates the tokens that are missing.
Filled(data) ==
  [data EXCEPT !.cluster = IF @ = 0 THEN changes + 1 ELSE @,
               !.admin = IF @ = 0 THEN changes + 1 ELSE @]

ApplyNamespaceSecret ==
  IF Filled(ns.data) = ns.data THEN ns
  ELSE [data |-> Filled(ns.data), rv |-> ns.rv + 1]

CountGenerated ==
  changes' = IF Filled(ns.data) = ns.data THEN changes ELSE changes + 1

\* Mutant: the oldest copies are kept instead of the latest ones.
KeepsTheOldest ==
  [v \in Versions |-> IF v > KeepVersions THEN NoData ELSE copies[v]]

\* RemoveUnwantedSecrets
RemoveUnwanted ==
  IF Cardinality({v \in Versions : Exists(v)}) <= KeepVersions THEN copies
  ELSE [v \in Versions |-> IF Latest - v >= KeepVersions THEN NoData ELSE copies[v]]

----------------------------------------------------------------------------
(* What the operator can do with a pod                                      *)

\* GetSecretFromPod finds the secret that the pod mounts.
Mounted(i) == pod[i].up /\ Exists(pod[i].mount)
MountedData(i) == copies[pod[i].mount]

\* A REST call uses the password of the mounted secret.
Authenticates(i) == Mounted(i) /\ MountedData(i).admin = pod[i].run.admin

Flagged(flags, i) == i <= Len(flags)   \* entries are only ever true

Flag(flags, i) == IF i <= Len(flags) THEN flags ELSE Append(flags, TRUE)

----------------------------------------------------------------------------
(* A reconcile                                                              *)

Hit(kind) == /\ kind \in Hazards /\ Len(used) < MaxHazards
             /\ used' = Append(used, kind)
Fine == used' = used

\* Every return passes through the deferred updateCRStatus.
Return(reported, status) ==
  /\ pc' = "idle" /\ st' = status /\ saved' = status /\ phase' = reported
  /\ UNCHANGED <<at, seen, target>>

Goto(next) == pc' = next /\ UNCHANGED <<saved, phase>>

Init ==
  /\ cluster \in Clusters
  /\ ns = [data |-> NoData, rv |-> 1] /\ owned = FALSE
  /\ copies = [v \in Versions |-> NoData] /\ template = 0 /\ revision = 0
  /\ pod = [i \in Pods |-> Absent] /\ maintenance = FALSE
  /\ st = NoStatus /\ saved = NoStatus
  /\ pc = "idle" /\ at = 1 /\ seen = 0 /\ target = [data |-> NoData, rv |-> 0]
  /\ phase = "Pending" /\ changes = 0 /\ used = <<>>

\* ApplySplunkConfig: the namespace secret is completed; adding the owner
\* reference writes it again after its resourceVersion has been read.
ApplySplunkConfig ==
  /\ pc = "idle"
  /\ seen' = ApplyNamespaceSecret.rv
  /\ ns' = IF owned THEN ApplyNamespaceSecret
           ELSE [ApplyNamespaceSecret EXCEPT !.rv = @ + 1]
  /\ owned' = TRUE
  /\ CountGenerated /\ Goto("template")
  /\ UNCHANGED <<cluster, copies, template, revision, world, st, at, target, used>>

\* GetLatestVersionedSecret, and ApplyStatefulSet with the version found. The
\* status of the StatefulSet shows it later (ObserveTemplate).
ApplyTemplate ==
  /\ pc = "template" /\ Fine
  /\ ns' = ApplyNamespaceSecret /\ CountGenerated
  /\ \/ /\ LatestHolds(ns'.data)
        /\ template' = Latest /\ copies' = copies
     \/ /\ ~LatestHolds(ns'.data)
        /\ Latest < MaxVersions
        /\ template' = Latest + 1
        /\ copies' = [copies EXCEPT ![Latest + 1] = ns'.data]
  /\ template' <= revision + MaxLag
  /\ Goto("secret")
  /\ UNCHANGED <<cluster, owned, revision, world, st, at, seen, target>>

\* The copy cannot be created. The error is dropped for the first version,
\* and the StatefulSet is applied without a secret; for a later one the
\* reconcile ends (in a nil dereference in the log statement).
CreateCopyFails ==
  /\ pc = "template" /\ Hit("api")
  /\ ns' = ApplyNamespaceSecret /\ CountGenerated
  /\ ~LatestHolds(ns'.data)
  /\ \/ Latest = 0 /\ template' = Bare /\ Goto("secret") /\ UNCHANGED <<st, at, seen, target>>
     \/ Latest # 0 /\ template' = template /\ Return("Error", st)
  /\ UNCHANGED <<cluster, owned, copies, revision, world>>

\* Apply{Shc,Idxc}Secret: nothing to do unless the secret has a new version.
CheckSecretVersion ==
  /\ pc = "secret" /\ Fine
  /\ ns' = ApplyNamespaceSecret /\ CountGenerated
  /\ \/ /\ st.rv = 0
        /\ st' = [st EXCEPT !.rv = ns'.rv] /\ Goto("pods")
        /\ UNCHANGED <<at, target>>
     \/ /\ st.rv = ns'.rv
        /\ Goto("pods") /\ UNCHANGED <<st, at, target>>
     \/ /\ st.rv \notin {0, ns'.rv}
        /\ target' = ns' /\ at' = 1 /\ Goto("loop") /\ UNCHANGED st
  /\ UNCHANGED <<cluster, owned, copies, template, revision, world, seen>>

NextPod == at' = at + 1 /\ Goto("loop")

\* Where the loop goes once the cluster secret of the pod is dealt with.
CheckAdmin ==
  \/ /\ SearchHead /\ MountedData(at).admin # target.data.admin
     /\ ~Flagged(st.adminChanged, at)
     /\ Goto("passwd") /\ at' = at
  \/ /\ ~(SearchHead /\ MountedData(at).admin # target.data.admin
                     /\ ~Flagged(st.adminChanged, at))
     /\ NextPod

\* One turn of the loop over the pods, up to the first call that changes
\* something. A cluster secret that was changed before ends the turn, for
\* the admin password too.
LookAtPod ==
  /\ pc = "loop" /\ at \in Pods
  /\ \/ /\ ~pod[at].up /\ ~SearchHead   \* peer doesn't exist: continue
        /\ NextPod /\ UNCHANGED <<st, seen, target>>
     \/ /\ ~Mounted(at) /\ (pod[at].up \/ SearchHead)
        /\ Return("Error", st)
     \/ /\ Mounted(at) /\ MountedData(at).cluster # target.data.cluster
        /\ \/ /\ ~SearchHead /\ st.changed = <<>> /\ ~st.maintenance
              /\ Goto("maintenance") /\ at' = at
           \/ /\ SearchHead \/ st.changed # <<>> \/ st.maintenance
              /\ IF Flagged(st.changed, at) THEN NextPod
                 ELSE Goto("edit") /\ at' = at
        /\ UNCHANGED <<st, seen, target>>
     \/ /\ Mounted(at) /\ MountedData(at).cluster = target.data.cluster
        /\ CheckAdmin /\ UNCHANGED <<st, seen, target>>
  /\ UNCHANGED <<cluster, config, world, changes, used>>

\* Mutant: an error of the command is not noticed.
MaintenanceNotConfirmed ==
  /\ pc = "maintenance"
  /\ \/ Fine /\ maintenance' = TRUE
     \/ Hit("exec") /\ UNCHANGED maintenance
  /\ st' = [st EXCEPT !.maintenance = TRUE]
  /\ Goto("edit") /\ UNCHANGED <<at, seen, target>>
  /\ UNCHANGED <<cluster, config, pod, changes>>

\* SetClusterMaintenanceMode(true)
EnableMaintenance ==
  /\ pc = "maintenance"
  /\ \/ /\ Fine /\ maintenance' = TRUE
        /\ st' = [st EXCEPT !.maintenance = TRUE]
        /\ Goto("edit") /\ UNCHANGED <<at, seen, target>>
     \/ /\ Hit("exec") /\ Return("Error", st) /\ UNCHANGED maintenance
  /\ UNCHANGED <<cluster, config, pod, changes>>

\* "splunk edit shcluster-config" in the pod, or SetIdxcSecret: both with
\* the password of the mounted secret.
EditSecret ==
  /\ pc = "edit"
  /\ \/ /\ Fine /\ Authenticates(at)
        /\ pod' = [pod EXCEPT ![at].disk.cluster = target.data.cluster]
        /\ Goto("restart") /\ UNCHANGED <<st, at, seen, target>>
     \/ /\ IF Authenticates(at) THEN Hit("exec") ELSE Fine
        /\ Return("Error", st) /\ UNCHANGED pod
  /\ UNCHANGED <<cluster, config, maintenance, changes>>

\* RestartSplunk: the instance reads its files again. The answer may be lost.
Restarted == [pod EXCEPT ![at].run = pod[at].disk]

RestartAfterEdit ==
  /\ pc = "restart"
  /\ \/ /\ Fine /\ Authenticates(at)
        /\ pod' = Restarted
        /\ st' = [st EXCEPT !.changed = Flag(@, at),
                            !.toSync = IF SearchHead THEN @ ELSE @ \cup {pod[at].mount}]
        /\ CheckAdmin /\ UNCHANGED <<seen, target>>
     \/ /\ IF Authenticates(at) THEN Hit("rest") ELSE Fine
        /\ Return("Error", st) /\ UNCHANGED pod
     \/ /\ Hit("lost") /\ Authenticates(at)
        /\ pod' = Restarted /\ Return("Error", st)
  /\ UNCHANGED <<cluster, config, maintenance, changes>>

\* The admin password is changed without authentication.
ChangePassword ==
  /\ pc = "passwd"
  /\ \/ /\ Fine /\ pod[at].up
        /\ pod' = [pod EXCEPT ![at].disk.admin = target.data.admin]
        /\ Goto("restartAdmin") /\ UNCHANGED <<st, at, seen, target>>
     \/ /\ IF pod[at].up THEN Hit("exec") ELSE Fine
        /\ Return("Error", st) /\ UNCHANGED pod
  /\ UNCHANGED <<cluster, config, maintenance, changes>>

RestartAfterPassword ==
  /\ pc = "restartAdmin"
  /\ \/ /\ Fine /\ Authenticates(at)
        /\ pod' = Restarted
        /\ st' = [st EXCEPT !.adminChanged = Flag(@, at)]
        /\ Goto("note") /\ UNCHANGED <<at, seen, target>>
     \/ /\ IF Authenticates(at) THEN Hit("rest") ELSE Fine
        /\ Return("Error", st) /\ UNCHANGED pod
     \/ /\ Hit("lost") /\ Authenticates(at)
        /\ pod' = Restarted /\ Return("Error", st)
  /\ UNCHANGED <<cluster, config, maintenance, changes>>

\* Mutant: the mounted secret is not noted.
NotNoted ==
  /\ pc = "note" /\ Fine /\ NextPod
  /\ UNCHANGED <<st, seen, target, cluster, config, world, changes>>

\* The mounted secret is noted for the synchronisation below.
NoteSecret ==
  /\ pc = "note"
  /\ \/ /\ Fine /\ Mounted(at)
        /\ st' = [st EXCEPT !.toSync = @ \cup {pod[at].mount}]
        /\ NextPod /\ UNCHANGED <<seen, target>>
     \/ /\ IF Mounted(at) THEN Hit("api") ELSE Fine
        /\ Return("Error", st)
  /\ UNCHANGED <<cluster, config, world, changes>>

\* The mounted secrets get the new token: the admin password that was read
\* at the start, or the cluster secret as it is read again now.
SyncMountedSecrets ==
  /\ pc = "loop" /\ at > Replicas
  /\ \/ /\ Fine /\ \A v \in st.toSync : Exists(v)
        /\ copies' = [v \in Versions |->
             IF v \notin st.toSync THEN copies[v]
             ELSE IF SearchHead THEN [copies[v] EXCEPT !.admin = target.data.admin]
             ELSE [copies[v] EXCEPT !.cluster = ApplyNamespaceSecret.data.cluster]]
        /\ IF SearchHead \/ st.toSync = {} THEN UNCHANGED <<ns, changes>>
           ELSE ns' = ApplyNamespaceSecret /\ CountGenerated
        /\ st' = IF SearchHead THEN st ELSE [st EXCEPT !.toSync = {}]
        /\ Goto("pods") /\ UNCHANGED <<at, seen, target>>
     \/ /\ st.toSync # {}
        /\ IF \A v \in st.toSync : Exists(v) THEN Hit("api") ELSE Fine
        /\ Return("Error", st) /\ UNCHANGED <<copies, ns, changes>>
  /\ UNCHANGED <<cluster, owned, template, revision, world>>

\* A pod without the secret never becomes ready.
Ready(i) == pod[i].up /\ pod[i].mount # Bare

\* The pods whose revision hash is not the UpdateRevision in the status.
Outdated == {i \in Pods : pod[i].mount # revision}

\* updateStatus sees all pods ready and, for search heads, a captain.
AllSeen == /\ \A i \in Pods : Ready(i)
           /\ SearchHead => \E i \in Pods : Authenticates(i)

\* Recycling a pod takes REST calls to it, and for search heads
\* (FinishRecycle) to all pods behind it.
CanRecycle(n) == /\ Authenticates(n)
                 /\ SearchHead => \A i \in Pods : i > n => Authenticates(i)
AllFinished == SearchHead => \A i \in Pods : Authenticates(i)

WithMaintenance == [st EXCEPT !.maintenance = maintenance]

\* updateStatus and UpdateStatefulSetPods: wait for the pods, recycle the
\* last outdated one, or find all of them up to date and tidy up.
UpdatePods ==
  /\ pc = "pods"
  /\ \/ /\ ~AllSeen
        /\ Return("Pending", WithMaintenance) /\ UNCHANGED <<pod, copies>>
     \/ /\ AllSeen /\ Outdated # {} /\ CanRecycle(Max(Outdated))
        /\ pod' = [pod EXCEPT ![Max(Outdated)] = Absent]
        /\ Return("Updating", WithMaintenance) /\ UNCHANGED copies
     \/ /\ AllSeen
        /\ IF Outdated = {} THEN ~AllFinished ELSE ~CanRecycle(Max(Outdated))
        /\ Return("Error", WithMaintenance) /\ UNCHANGED <<pod, copies>>
     \/ /\ AllSeen /\ Outdated = {} /\ AllFinished
        /\ copies' = RemoveUnwanted /\ st' = WithMaintenance
        /\ Goto("finish") /\ UNCHANGED <<pod, at, seen, target>>
  /\ UNCHANGED <<cluster, ns, owned, template, revision, maintenance, changes, used>>

\* Mutant: the cluster manager is left in maintenance mode.
MaintenanceKept ==
  /\ pc = "finish" /\ Fine
  /\ Goto("reset")
  /\ UNCHANGED <<at, seen, target, cluster, config, pod, changes, maintenance, st>>

\* The cluster is ready. For a search head cluster the entries of the
\* monitoring console are written; for an indexer cluster it is told, and
\* maintenance mode ends. Any of this may fail, and the bookkeeping is not
\* reset then.
EndMaintenance ==
  /\ pc = "finish"
  /\ \/ /\ Fine
        /\ maintenance' = (maintenance /\ (SearchHead \/ st.changed = <<>>))
        /\ st' = [st EXCEPT !.maintenance = maintenance']
        /\ Goto("reset") /\ UNCHANGED <<at, seen, target>>
     \/ /\ Hit("api") \/ (~SearchHead /\ st.changed # <<>> /\ Hit("exec"))
        /\ Return("Ready", st) /\ UNCHANGED maintenance
  /\ UNCHANGED <<cluster, config, pod, changes>>

ResetStatus ==
  /\ pc = "reset"
  /\ Return("Ready", [NoStatus EXCEPT !.rv = seen, !.maintenance = st.maintenance])
  /\ UNCHANGED <<cluster, config, world, changes, used>>

\* The operator restarts: what the reconcile held in memory is lost.
Crash ==
  /\ pc # "idle" /\ Hit("crash")
  /\ pc' = "idle" /\ st' = saved
  /\ UNCHANGED <<cluster, config, world, saved, at, seen, target, phase, changes>>

----------------------------------------------------------------------------
(* The user, the StatefulSet controller and Splunk (external)               *)

\* The status shows the latest template, and every pod has it.
NoneOutdated == revision = template /\ \A i \in Pods : pod[i].mount = template

\* Nothing is left to do for the last change of the secret.
Settled ==
  \/ template = 0
  \/ /\ phase = "Ready" /\ NoneOutdated /\ LatestHolds(ns.data)
     /\ st.changed = <<>> /\ st.adminChanged = <<>>

\* The user writes new tokens, removes some, or restores an old value.
ChangeSecret ==
  /\ changes < MaxChanges
  /\ IF pc # "idle" THEN Hit("race") ELSE IF Settled THEN Fine ELSE Hit("early")
  /\ \E tokens \in (SUBSET {"cluster", "admin"}) \ {{}}, missing \in BOOLEAN :
       /\ Together \/ Cardinality(tokens) = 1
       /\ ns' = [data |-> [t \in {"cluster", "admin"} |->
                             IF t \notin tokens THEN ns.data[t]
                             ELSE IF missing THEN 0 ELSE changes + 1],
                 rv |-> ns.rv + 1]
  /\ changes' = changes + 1
  /\ UNCHANGED <<cluster, owned, copies, template, revision, world, st, saved, recon, phase>>

RestoreSecret ==
  /\ pc = "idle" /\ Hit("revert")
  /\ \E v \in Versions : Exists(v) /\ copies[v] # ns.data
       /\ ns' = [data |-> copies[v], rv |-> ns.rv + 1]
  /\ UNCHANGED <<cluster, owned, copies, template, revision, world, st, saved, recon, phase, changes>>

\* The StatefulSet controller observes the template and notes its revision.
ObserveTemplate ==
  /\ revision # template /\ revision' = template
  /\ UNCHANGED <<cluster, ns, owned, copies, template, world, st, saved, recon, phase,
                 changes, used>>

\* A pod starts with the secret of the template that the controller knows.
StartPod(i) ==
  /\ ~pod[i].up
  /\ revision = Bare \/ Exists(revision)
  /\ LET data == IF revision = Bare THEN NoData ELSE copies[revision] IN
       pod' = [pod EXCEPT ![i] = [up |-> TRUE, mount |-> revision, disk |-> data, run |-> data]]
  /\ UNCHANGED <<cluster, config, maintenance, st, saved, recon, phase, changes, used>>

Reconcile ==
  \/ ApplySplunkConfig \/ ApplyTemplate \/ CheckSecretVersion \/ LookAtPod
  \/ EnableMaintenance \/ EditSecret \/ RestartAfterEdit \/ ChangePassword
  \/ RestartAfterPassword \/ NoteSecret \/ SyncMountedSecrets \/ UpdatePods
  \/ EndMaintenance \/ ResetStatus

Next ==
  \/ Reconcile \/ CreateCopyFails \/ Crash
  \/ ChangeSecret \/ RestoreSecret \/ ObserveTemplate
  \/ \E i \in Pods : StartPod(i)

Fairness == WF_vars(Reconcile) /\ WF_vars(ObserveTemplate) /\ \A i \in Pods : WF_vars(StartPod(i))
Spec == Init /\ [][Next]_vars /\ Fairness

----------------------------------------------------------------------------
(* Properties                                                               *)

\* Every variable has its type.
TypeOK ==
  /\ cluster \in Clusters /\ ns \in Secret /\ owned \in BOOLEAN
  /\ copies \in [Versions -> Data] /\ template \in 0 .. Bare /\ revision \in 0 .. Bare
  /\ pod \in [Pods -> PodStates] /\ maintenance \in BOOLEAN
  /\ st \in Statuses /\ saved \in Statuses
  /\ pc \in {"idle", "template", "secret", "loop", "maintenance", "edit", "restart",
            "passwd", "restartAdmin", "note", "pods", "finish", "reset"}
  /\ at \in 1 .. Replicas + 1 /\ seen \in Nat /\ target \in Secret
  /\ phase \in {"Pending", "Updating", "Ready", "Error"}
  /\ changes \in 0 .. MaxChanges + 1
  /\ used \in Seq(Hazards) /\ Len(used) <= MaxHazards

InSync == \A i \in Pods : pod[i].up => pod[i].run = ns.data

\* RemoveUnwantedSecrets never removes a copy that a pod mounts: its name is
\* in the pod's volumes, and a container that restarts needs it.
MountedCopyIsKept == \A i \in Pods : pod[i].up /\ pod[i].mount # Bare => Mounted(i)

\* What has gone wrong is what the next reconcile tries again.
Retried == \A k \in 1 .. Len(used) :
             used[k] \in IF SearchHead THEN {"exec", "rest"} ELSE {"exec", "rest", "early"}
Happened(kind) == \E k \in 1 .. Len(used) : used[k] = kind

\* A status that says Ready for the current version of the namespace secret
\* is true of every instance, unless the status of the StatefulSet was behind:
\* the pods that it has not shown as outdated yet still run with the tokens of
\* before, until a later reconcile recycles them. (A write of the user in the
\* middle of a reconcile may be taken for the one that was applied.)
ReadyIsInSync ==
  pc = "idle" /\ phase = "Ready" /\ st.rv = ns.rv /\ NoneOutdated /\ ~Happened("race")
    => InSync

\* Peers are restarted for a new cluster secret only while the cluster
\* manager is in maintenance mode, so that it does not replicate buckets.
\* (A crash between leaving the mode and the status update breaks this: the
\* flags that are stored keep the next change from entering it again.)
RestartInMaintenance ==
  ~SearchHead /\ pc = "restart" /\ ~Happened("crash") => maintenance

\* Once the mounted secrets are synchronised, the password in them is the
\* one that the instance runs with, so that the operator's calls succeed.
AccessIsKept ==
  SearchHead /\ pc = "pods" => \A i \in Pods : Mounted(i) => Authenticates(i)

\* The same, as far as it holds: when only calls to the pods have failed, and
\* the user has waited for one change to settle before making the next.
SyncKeepsAccess == Retried => AccessIsKept

\* A change of the secret reaches all instances, the cluster becomes ready
\* and leaves maintenance mode, whatever calls have failed on the way.
SecretsSettle ==
  <>[](Retried => InSync /\ ~maintenance /\ phase = "Ready" /\ \A i \in Pods : pod[i].up)

============================================================================
