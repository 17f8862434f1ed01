# A TLA+ model of the Splunk operator

The Splunk operator for Kubernetes watches custom resources (Standalone,
SearchHeadCluster, ClusterManager, IndexerCluster, ...) and brings StatefulSets,
pods and the Splunk software in them to the state that a resource asks for. This
directory holds TLA+ specifications of the parts of it in which goroutines,
reconciles, pods and restarts interleave, the TLC configurations that check them on
small instances, and proofs checked by TLAPS that hold for every instance.

## Inventory

Paths are below `pkg/splunk/`.

| Component | State it keeps | Operations | Interacts with |
|---|---|---|---|
| App framework scheduler (`enterprise/afwscheduler.go`) | phase info of every app and pod in the CR status; queues, channels, WaitGroups and install slots of the pipeline | scheduler entry, yield, three phase managers, their handlers, one goroutine per worker, playbooks | reconcile (calls it), pods (exec, copy), object store (download), CR status |
| Bundle push (`enterprise/afwscheduler.go`) | `BundlePushStatus` of the CR, the apps directory and a status file on the deployer or cluster manager | trigger, check, retry, mark as installed | install handler (drives it), premium playbook (asks for it), Splunk |
| App repository listing (`enterprise/util.go`) | last check time, the apps of each source | poll, compare, mark for update or deletion | scheduler (its input), object store |
| Manual app update (`enterprise/util.go`) | a ConfigMap with a status and a refCount per kind, one per CR | switch on, list, count down, switch off | all CRs of a kind, concurrently |
| StatefulSet updates and pod managers (`splkcontroller/statefulset.go`, `enterprise/indexercluster.go`, `searchheadclusterpodmanager.go`) | StatefulSet, pods, volume claims, members and upgrade phase in the CR status | scale up and down, recycle, detention, decommission, upgrade | Kubernetes API, StatefulSet controller, Splunk REST API |
| Secrets (`util/secrets.go`, `ApplyIdxcSecret`, `ApplyShcSecret`) | namespace secret, versioned copies, flags in the status, passwords in pods, maintenance mode | create a version, edit the instances, restart them, synchronise, recycle, remove old versions | pods, StatefulSets, cluster manager |
| SmartStore and queue configuration (`clustermanager.go`, `standalone.go`, `indexercluster.go`, `ingestorcluster.go`, `configuration.go`) | ConfigMap and token, tracked resourceVersions, the version last applied | watch keys, write the map, push the bundle, write conf files, restart | Secrets, kubelet, pods |
| Reconcilers and upgrade order (the `Apply...` functions, `enterprise/upgrade.go`) | phase and references of each CR | apply, validate the upgrade path, wait, finalize | each other, through specs, statuses and StatefulSets |
| Monitoring console (`monitoringconsole.go`, `util.go`) | a ConfigMap of URLs | register, unregister, move, restart | every CR that names it |
| CR status update (`util.go`, `updateCRStatus`) | the CR in the API server and in the cache | write with retries | every reconcile |
| Storage tracker (`util.go`) | available bytes of the operator's volume, under a mutex | reserve, release, reset | download goroutines of all CRs |
| Controllers and predicates (`internal/controller`) | work queues | filter events, requeue | all of the above |
| Telemetry, REST client, object construction, API types, webhook | none that other parts read | requests, construction, checks | - |

What is hard in them, and what makes them correct:

* Scheduler: about ten kinds of goroutine share the CR status and the pipeline
  without a lock and meet through channels and WaitGroups; a timer stops them at any
  moment and a restart of the operator goes on from an older status. Correct means:
  the status never claims an app that is not installed, a pod never runs two
  installs, nothing is forgotten between entries, every entry ends.
* Bundle push: a push is asynchronous and answers through a file or a REST query,
  two goroutines move its stage, and a restart repeats a trigger. Correct means: an
  app counts as installed only when the members have it, and nothing stays behind.
* Listing and manual update: a listing replaces the plan of a deployment that may be
  under way, the store changes between listing and download, and CRs share a
  counter. Correct means: the status is true of the pods, and the pods end up with
  what is in the repository.
* StatefulSet updates: every decision rests on a status that may lag, and a
  reconcile that is cut short is repeated from the start. Correct means: members are
  drained before they go, one pod at a time, a Ready that was too early is corrected,
  a new pod does not start on old data.
* Secrets: one reconcile reads the secret several times, changes running instances
  one by one and records its progress only at its end. Correct means: Ready is true
  of every instance, the operator keeps access, mounted copies stay.
* SmartStore and queues: the status remembers what was applied, and several writes
  with no transaction come before it. Correct means: a change is never lost between
  them, and a push never sends outdated files.
* Reconcilers: each reads the phases and images of the others while these move.
  Correct means: upgrades go in order, nobody waits for ever, a console learns of
  every change.

`PROJECT.json` lists the hazards line by line with the properties that cover them.

## Modules

| Module | What it models |
|---|---|
| `AppDelivery` | abstract: what the app framework promises to the reader of a status |
| `AppPipeline` | the scheduler for local and premium scoped apps, with and without fan-out; implements `AppDelivery` |
| `AppPipelineProofs`, `AppWorkerProofs` | theorems about it: statuses and packages, and the life of a worker |
| `BundlePush` | cluster scoped apps on a cluster manager and on a deployer, and Enterprise Security on a deployer |
| `AppRepo` | from the object store to the pods: listing, merge into the status, polling, manual update, deletion; a scheduler entry is one step |
| `StatefulSetPods` | scaling and updating the pods of a StatefulSet, with the three pod managers |
| `Secrets` | a change of the namespace secret on its way to the members of a cluster |
| `RemoteConfig` | SmartStore of a ClusterManager or Standalone, the remote queue of an IndexerCluster or IngestorCluster |
| `Reconcile` | the reconcilers of all kinds side by side: upgrade order, phases, monitoring console, deletion, work queues |
| `BundlePushProofs`, `StatefulSetPodsProofs`, `SecretsProofs`, `AppRepoProofs`, `ReconcileProofs`, `RemoteConfigProofs` | theorems about the module of that name |
| `MC...` | instances for TLC |

The modules overlap where components meet, each with the other's part as one step:
`AppRepo` contains the scheduler and the push as `Deploy`, `Secrets` and
`RemoteConfig` contain a StatefulSet update as `UpdatePods` and `ApplyPods`, and
`Reconcile` contains every Apply function as a sequence of the steps that others can
see.

Operators whose comment or neighbour shows a second form (`SlotIgnored` beside
`SlotFree`, for example) are the deliberate bugs with which each property is shown to
be able to fail; no specification uses them.

### AppPipeline

State: `main` and `aux` are `PhaseInfo` and `AuxPhaseInfo` of the apps, `saved` the
copy in the API server; `q`, `chan`, `mgr`, `wg` are a phase's queue, `msgChannel`,
manager loop and `workerWaiter`; `isActive` and `waiter` are the fields of a
`PipelineWorker`; `gor` is where its goroutine is; `slots` the install semaphores;
`opPkg`, `podPkg`, `installed` the package on the operator's volume, on the pod, and
the app in Splunk.

* `SchedulerEntry`, `YieldWatcher`, `ManagerStop`, `PhaseDone`, `SchedulerExit`:
  `afwSchedulerEntry`, `afwYieldWatcher`, the end of the manager loops,
  `shutdownPipelinePhase`, and the end of the reconcile with its status update.
* `Manage(ph, w)`, one visit of a worker by its manager: `GiveUp` (out of retries),
  `Advance` (`transitionWorkerPhase`, with the fan-out), `MoveBack` (package missing,
  back to the previous phase), `Dispatch` (channel and slot), then `MarkActive`,
  the assignment of `isActive` after the send.
* `Handle(ph, w)`: a handler receives a worker and starts its goroutine, or, in the
  download phase, returns early on its errors.
* `Work(w)`: `Download`, `PodCopy`, `InstallFails`, `InstallSucceeds`, `PostInstall`
  (Enterprise Security), `Cleanup`; `Exit` is the deferred function of the goroutine,
  a separate step because a manager may visit in between.
* `LosePackage` and `Crash` are the environment.

Abstractions: a visit by a manager is atomic, and so is an entry; channels are sets,
bounded as in the code, and the order of a queue is left open; a `select` whose send
would block is a visit that is not enabled; versions, hashes, `IsUpdate` and names do
not appear. `PromptExit` states the one timing assumption: a deferred function runs
before the manager, which polls every 200 ms, visits the worker again.

### AppDelivery

`has` says on which pods an app is installed, `reported` which apps the stored status
calls installed. An app reaches the pods one by one, is reported once every pod has
it, and no report is taken back. `AppPipeline!Delivery` maps `has` to `installed` and
`reported` to the apps that are `InstallComplete` in `saved`, the status in the API
server; every other step of the scheduler, a restart included, is a stutter.

### BundlePush

State: the stage of the push, what is in the bundle directory, the pushes under way,
what the members have, and the deployer's status file. Download and pod copy are one
action, `Copy`, since `AppPipeline` models them. The cluster scoped playbook is split
where another goroutine or a restart can come in between: `TriggerBundlePush`,
`BundlePushStarted`, `IdxcCheck`, `ShcCheck`, `ShcRemoveFile`, `BundlePushDone`.
`PushEnds` is Splunk: a push of a deployer may fail, and on a cluster manager the bundle
may fail its validation, which `isBundlePushComplete` takes for a push in progress at
every look (`Refused`). The premium playbook is `EsStart`, `EsInstall`, `EsCleanup`,
`EsFlag`, `EsDrop`. A search head cluster that is not Ready skips a round, which is a
stuttering step; the liveness probe level that the playbooks set is left out. `clock` is
the yield interval: the timer of the yield watcher and the playbook's own check, which
compares whole seconds, may disagree for the rest of a second (the fault `second`).
`Limits` names the faults the code does not always recover from; the properties are
about the behaviours without them, `ComesToRest` about all.

### AppRepo

State: the versions in the repository, the specs, the two kinds of manual update
ConfigMap (`map`, `crmap`), the app context of each CR as stored (`saved`) and as held
by its reconcile (`st`), and the version on its pods. One reconcile is `Check` (is it
time to list), `List` (with `HandleAppRepoChanges`), `UpdateMap` and `UpdateCrMap` (the
manual update's count and switches), `Configure`, `Pods` (with what a scale up does to
the status), `Deploy` (a scheduler entry), `Save`. A deletion is `Leave`
(`UpdateOrRemoveEntryFromConfigMapLocked` counts the other owners), `Delete` (the
finalizer, unless others still refer to the resource) and, later, `Collect`: the garbage
collector, until which the owner is still in the ConfigMap and is counted by whoever
switches the update off. A push may stay in progress for ever (`NextStages`), and a
requeue in 0 seconds is refused (`Save`, the event "zero"). The four object stores
differ in paging (`AwsAppsList` and `GcsAppsList` return one page) and in whether a
download insists on the hash of the listing. Abstractions: a hash is a version number,
the pods of a CR are one, sizes and the status of old releases do not appear.

### StatefulSetPods

State: the CR (`want`), the StatefulSet (`spec`) and its status (`seen`), the pods
with their revision, the volume claims, the members as Splunk sees them, and the
reconcile with what it has read (`desired`, `known`, `at`). A reconcile is cut where
its environment can move: `StartReconcile` (`Update` of the pod manager through
`ApplyStatefulSet` and `updateStatus`), one of the outcomes of `UpdateStatefulSetPods`
(`WaitForPods`, `ScaleUp`, `PrepareScaleDown` - `ScaleDown` - `DeleteClaims`,
`WaitForPod`, `PrepareRecycle` - `DeletePod`, `FinishRecycle`, `AllInOrder`), and
`SaveStatus`. `prompt` chooses whether the re-fetch finds an up to date status or one
that may be of any earlier template (`ObserveStatus` brings it up to date).

Abstractions: the statuses of a member that its manager treats alike are one value
(see `Members`); the claims of a pod are one; a member's removal from the search
head cluster or from the cluster manager has no effect that is tracked; the secrets
(`ApplyShcSecret`, `ApplyIdxcSecret`), `verifyRFPeers` and the state of the captain
and of the cluster manager are left out; a reconcile asks for every ordinal.

### Secrets

State: the namespace secret, its versioned copies, the pods (mounted version, tokens
on disk, tokens in use), maintenance mode, the status. A reconcile is
`ApplySplunkConfig`, `ApplyTemplate`, `CheckSecretVersion`, then for each pod
`LookAtPod`, `EnableMaintenance`, `EditSecret`, `RestartAfterEdit`, `ChangePassword`,
`RestartAfterPassword`, `NoteSecret`, then `SyncMountedSecrets`, `UpdatePods`,
`EndMaintenance`, `ResetStatus`. Every step has the ways in which it fails; "lost" is
a call that took effect and whose answer was lost. `revision` is the version that the
status of the StatefulSet is about (`Status.UpdateRevision`): pods are compared with it and
not with the template, new pods mount it, and `ObserveTemplate` brings it up to date some
time later. Tokens are numbers; the cluster
token stands for `shc_secret` or `idxc_secret`, `admin` for `password`.

### RemoteConfig

State: spec, Secrets, the ConfigMap with its token, the StatefulSet, per pod what is
on disk and what the instance runs with, the status. All four kinds share `Load`,
`ApplyPods` and `Save`; SmartStore adds `CheckKeys` (`AreRemoteVolumeKeysChanged`),
`Render`, `WriteMap`, `WriteToken`, `CheckToken`, `PushBundle`; the queue adds
`ReadReady`, `Resolve`, `UpdateConf`, `RestartSplunk`. `Refresh` is the kubelet, which
brings a ConfigMap to a running pod some time later. A configuration is the number of
the settings and, per Secret, the resourceVersion its keys come from. A Secret of the
queue is watched by its name. One of SmartStore is watched through its owner, which it has
in the middle of a reconcile only (`MaybeOwned`): the CR becomes its owner when the keys
are read and gives it up before the StatefulSet is looked at, so that a change at rest
queues nothing (`SecretEnqueued`). The status of the StatefulSet is up to date here;
`StatefulSetPods`, `Secrets` and `Reconcile` have one that lags. The two writes of the
owner change the resourceVersion too, so that the same contents are rendered again; that
is left out.

### Reconcile

State: per CR its spec, stored phase (`ready`), StatefulSets, the template that their
status is about (`observed`) and their pods; per
console its ConfigMap; the work queue and, per CR, its reconcile (`rec`) with the
step it is at and what it has read. `ApplyClusterManager`, `ApplyStandalone` and the
others are the sequences of steps of the Apply functions in their order; `StepsOf`
and `Skipped` their conditions. The steps are `ReadConfigMap`, `MoveConsole`,
`WaitForLicenseManager`, `WaitForClusterManager`, `WaitForOthers`
(`UpgradePathValidation`), `UpdateDeployer`, `DeleteSetForNine`, `Update`, `Register`,
`Finish`, `Wake`, `Unregister`, `CheckReferences`, `Finalize`, `Save`; every one may end in
an API error. `UpToDate` is what the re-fetch shows: the revision of the pods is compared
with the one observed, which `Observe`, the StatefulSet controller, brings up to date later,
and pods may start with the older one. Where the code takes the first of a list, any one
may be it (`FirstOf`).
Abstractions: the pods of a set run one template or are not ready; reads of one
validation are one step; all resources are there from the start; Services, probes and
owner references are left out.

## Runs

| Run | Shows | Distinct states |
|---|---|---|
| `pipeline_one_pod` | one pod, a premium app, one retry, a fault and a restart: the scheduler implements `AppDelivery`, statuses are truthful, retries bounded, no goroutine outlives its reconcile, no forgotten work, every entry ends, every app is settled | 243 thousand |
| `pipeline_two_apps` | two apps on a pod: one install at a time, no worker run twice | 1.0 million |
| `pipeline_fanout` | two replicas: `AppDelivery` is implemented (an app is reported only with all pods), no pod is forgotten, the package is kept while needed | 1.3 million |
| `pipeline_fanout_settles` | two replicas make progress when their work fits the yield interval | 279 thousand |
| `bundle_push` | both playbooks, two apps, any two of seven faults: an installed app has been pushed, every app is pushed in the end and the stages come to rest, unless the peers refuse the bundle | 271 thousand |
| `pods_update` | three pod managers, two replicas, two changes, any two of six faults, a status that is up to date or lags: drained before removal, recycled in order and one at a time, a scale up starts clean, Ready and up to date in the end | 702 thousand |
| `secrets` | two pods of either cluster, three changes, any two of seven hazards, a status that lags: Ready is in sync once no pod is outdated, mounted copies are kept, restarts in maintenance mode only, access is kept, changes settle | 1.7 million |
| `upgrade` | five pairs of dependent CRs under upgrade and deletion, any two events, failing calls and reads, a status that lags: upgrades in order, all settle | 818 thousand |
| `console` | a Standalone or IngestorCluster and two consoles, under scaling and moving, with crashes, failing pods and a status that lags: a Ready at rest is true once the status has caught up, all settle | 736 thousand |
| `app_repo` | four stores, polling and manual update, three events: the status is true, no listing during a push, the count is never left too small, the pods follow the repository, unless a requeue is refused or a push never ends | 996 thousand |
| `remote_config` | four kinds of CR with the faults each recovers from, three events: the status claims only what is applied, a push is current, every change arrives, with keys of SmartStore at the next reconcile | 1.1 million |
| `queue_late_pod` | violation of `StatusIsApplied` (see Findings) | |

Every property has a mutant, listed in `PROJECT.json`: a small change of a mapped
definition with which TLC finds the property violated. `TypeOK` of
`AppPipeline` is part of a run; those of the other modules were found to hold on
`bundle_push`, `pods_update`, `secrets`, `console`, `app_repo` and `remote_config`, and
all of them are proved.

Bounds. Two apps are enough for a slot or a channel to be contended, and two replicas
for one pod to be ahead of another; one retry distinguishes "failed" from "out of
retries", and zero retries, where the fan-out is large already, still lets every phase
fail. One restart reaches every state that can be lost, because the state that survives
is the last one written. Two revisions and two changes of a CR allow an update to be
overtaken by a scaling and the reverse. Faults that a `FailCount` records are bounded by
the retries; the others by `MaxFaults`. In `Secrets` three changes and `KeepVersions =
2` make a copy obsolete while a pod mounts it; `MaxVersions = 5` is never exceeded. The
code keeps three versions (`names.go:39`) and the StatefulSet controller is assumed to
be fewer versions behind than are kept (`MaxLag`, one here). In `AppRepo` a source holds
`PageSize = 2` apps at most, so that no listing is cut (a known limit), and `EndsWith`
has one pair of names that the suffix comparison confuses. In `Reconcile` the pairs of
`Tiers` are the ways in which two kinds wait for each other, with two workers; `upgrade`
has the changes that make resources wait for each other, and `console` those that a
console has to learn of; each has the faults that its own properties are about. In
`RemoteConfig` three events are a change, a fault while it is applied, and a second
change; `Setups` gives to each kind the faults it recovers from.

Fairness. Goroutines that can run do run (weak fairness of managers, handlers, work
and deferred functions), and a reconcile that asked to be requeued comes. The
managers poll every 200 ms and the playbook every second while the yield interval is
30 s at least, so from some time on the timer only fires when no visit is due; how
long work takes is not restricted, except in `QuickSpec`, where it fits the interval.
In the other modules the steps of a reconcile that has begun, and of one that is
queued, are taken: controller-runtime serves its work queue and an Apply function runs
to its end. Kubernetes observes templates, creates, ends and starts pods, the kubelet
refreshes mounted
ConfigMaps, poll intervals pass, searches and decommissions end. Users, faults and
restarts are never fair, and bounded, so that a property says what happens when they
have stopped.

## Findings

1. `queue_late_pod`: an IndexerCluster is created with two replicas and the second peer
   becomes ready after `updateStatus` has counted the ready peers and before
   `UpdateStatefulSetPods` fetches the StatefulSet again. The reconcile then finds
   everything ready and applies the queue configuration, but
   `updateIndexerConfFiles` goes through the peers that were counted; the version is
   noted in the status and the second peer is never configured.

## Known limits of the code, by changing an instance

The passing runs leave these out; each shows up as a counterexample when the instance
is changed as described, or is a consequence of the code that the module's
abstraction leaves out.

Scheduler and bundle push:

* `pipeline_one_pod` with `PromptExit = FALSE` violates `NoPanic`:
  `transitionWorkerPhase` resets the waiter of a worker as soon as its status is
  complete (`afwscheduler.go:319`); the goroutine that set the status still has to
  call `waiter.Done()`. Only the 200 ms between two visits keep them apart.
* With the fault `mkdir` it violates `NoLostWork`: when a directory cannot be created on
  a pod (`afwscheduler.go:2231`) the entry ends without workers, and the scheduler
  takes the empty pipeline for finished work.
* `pipeline_fanout` with `MaxCrashes = 1`, or with the fault `operatorPkg`: a pod whose
  `AuxPhaseInfo` is back in the download phase gets no worker and is forgotten
  (`NoLostReplica`). With `NoLostWork` in its place: a pod out of retries writes
  `InstallError` in the phase info of the whole app, and the others lose their work;
  this is why `NoLostReplica` exempts it.
* `pipeline_fanout` with `Replicas = 3`, `MaxConcurrent = 2` and only the fault
  `operatorPkg` violates `NoPanic` and `RetriesBounded`: two workers of different pods
  that find no package on the operator are moved back to the download phase and share
  the app's phase info. When one of them has finished, the manager takes the other,
  which still runs, for complete and resets its waiter; and both count their failures
  in the same `FailCount`.
* A bundle that fails its validation on the cluster manager: `isBundlePushComplete` returns
  the same error at every look (`afwscheduler.go:1899`), the caller keeps the stage
  (`afwscheduler.go:2015`), and nothing triggers another push, so that
  `IsDeploymentInProgress` stays and no later listing is made. `EventuallyPushed`,
  `ComesToRest` and `RepoConverges` except it.
* `pipeline_fanout_settles` under `FairSpec`: a copy that outlasts the yield interval
  is reset to pending by the next entry, for ever.
* `bundle_push` with `Limits` empty: with `mkdir` a skipped source is copied during the
  push of the others and marked as installed; with `second` the playbook triggers a
  push in the second in which the timer stopped the copies
  (`afwscheduler.go:1202`); with `crash` on a deployer the push that the restarted
  operator triggers shares its status file with the one still under way, whose
  success is taken for its own.

Pods:

* `RefetchIsEnough` fails: the re-fetch of the StatefulSet (`statefulset.go:126`) does
  not look at `ObservedGeneration`, and Ready is reported too early, although the comment
  at `statefulset.go:121` says that the re-fetch prevents it; a later reconcile corrects
  it (`EventuallyReady`). The same in `Secrets`, where pods still run with the old
  tokens, and in `Reconcile`, where others go by that phase: `ReadyIsInSync` and
  `ReadyIsTrue` are about the time from which the status has caught up.
* With a lagging status a pod may be recycled while one before it is down
  (`MaxRevision = 3` without `prompt` in `OneAtATime`), although the code says "only delete
  one at a time" (`statefulset.go:245`).
* `RebalancedBeforeRemoval` fails: a scale down that overtakes an update removes a peer
  whose decommission did not rebalance its buckets (`indexercluster.go:1008`).
* `CleanScaleUp` exempts `claim` and `crash`: a volume claim whose deletion failed is
  never looked at again. `FinishUpgrade` is not repeated when its call fails, or when
  the status was lost.
* `EventuallyReady` leaves out the indexers: one that was decommissioned for a scale
  down that the user took back is waited for, and nothing restarts it.

Secrets (`Retried` names what the properties allow for):

* `AccessIsKept` fails when the password is changed again before the cluster is ready:
  the flags record that it was changed, not to what (`searchheadcluster.go:371`).
  With `Together = TRUE` a failed call between the two edits has the same effect.
* With the hazard "race", a secret that is written between the loop over the pods and
  the synchronisation of the mounted secrets leaves instances on the one before, with
  Ready (the documentation tells the user to go by the status,
  `docs/PasswordManagement.md:74`).
* A StatefulSet controller that is as many changes behind as versions are kept creates pods
  whose copy has been removed (`MaxLag < KeepVersions` is assumed).
* A failure to create the first versioned copy is not reported and the pods are created
  without a secret; for a later one a nil secret is dereferenced.
* A crash after the cluster manager left maintenance mode and before the status is
  stored keeps the next change from entering it. A value that the user restores after
  a failed edit leaves the mode on. A search head cluster stays stuck after a crash,
  a lost answer or a failed update between an edit and its note.

Reconcilers and console:

* `WaitsForManager` fails: the phase of the cluster manager is the stored one, the image
  that of its template (`upgrade.go:142`), which in the middle of its reconcile do
  not belong together. The peers may begin to upgrade before the manager's pod has.
* A Standalone may refer to a cluster manager (`docs/Examples.md:264`), and
  `checkCmRemainingReferences` does not look for one; nor does anything keep a resource
  from being created between that check and the removal of the finalizer
  (`clustermanager.go:156`). Hence no property says that a manager outlives its clients.
* A status update that conflicts ten times is dropped without an error
  (`util.go:2266`).
* A cluster manager is removed from its console before the references to it are checked.
  An IngestorCluster registers an empty list. URLs of a scale down stay in the
  ConfigMap. The ConfigMap goes with its console, and other resources do not write
  it again until they change.
* Clusters of several sites are not upgraded one at a time, and an indexer cluster
  that has a ClusterManager does not wait for the search heads, although the comment
  at `upgrade.go:31` says both.

Repository:

* `ManualReachesAll` fails: two CRs read the same count without the lock
  (`util.go:1530`), and the manual update is switched off before both have listed. A
  trigger while a deployment is in progress, or for one CR during its listing, is lost.
  `AppFramework.md` (lines 1456-1483) documents values other than those the code
  compares with.
* A reconcile that ends in the very second in which the poll interval does asks to be
  requeued in 0 seconds, which `updateReconcileRequeueTime` refuses (`util.go:2119`); with
  nothing else to do the resource polls no more (`PollingStopped`).
* An owner that is gone is counted until the garbage collector has removed it
  (`util.go:1611`), and a resource that is kept from being deleted leaves at every attempt:
  the count may be too large, and the update then stays on until others have listed.
* Azure and GCP serve the object of the moment: with two uploads around a download the
  status may name a version that the pods had only for a while.
* A restart between the scale up and the store of the status leaves the new pod without
  apps (`standalone.go:185`), and a `FailCount` that is used up is not reset by a scale
  up. A listing of AWS or GCP holds 4000 objects, and what falls behind counts as
  deleted. A deleted app whose name is the end of another's stays Active.

Remote configuration:

* Keys of a SmartStore volume that change while the ClusterManager or Standalone is at rest
  queue nothing: `DeleteOwnerReferencesForS3SecretObjects` (`util.go:887`) has removed the
  owner by which the Secret is watched (`clustermanager_controller.go:145`). They are
  noticed when something else queues the resource (`Overlooked`).
* "conflict" or "crash" for a ClusterManager between the contents and the token of the
  ConfigMap loses the push (`util.go:733`); "api" after `ResourceRevMap` took the new
  version loses a change of the keys (`configuration.go:1273`); "early", a change
  between the first apply and the first tracking, is lost too. Only the first tracked
  volume's Secret is watched. Two changes in one second share a token.
* A Standalone ignores an error in reading the keys, and a passing error in reading the
  ConfigMap recycles its pods twice. The pods of a first ConfigMap without token
  cannot mount it.
* A scale down, a restart and a scale up leave a new ingestor unconfigured. Pods with
  ephemeral storage lose their conf files in a restart. Static keys are not removed
  when a service account takes over. Instances are restarted one after the other
  without waiting (`ingestorcluster_types.go:79` and `indexercluster_types.go:126`
  call it rolling). Changes of the Queue and ObjectStorage specs are not noticed.

## Proofs

Eight modules hold theorems that TLAPS checks. They hold for every value of the
constants that satisfies the named assumption of the module (`PipelineAssumption`,
`RemoteConfigAssumption`, ...): any number of apps, pods, replicas, revisions, Secrets,
settings, events and faults, and any set of deployments. Where a theorem has a
hypothesis, it is the condition under which the code keeps the promise, and the section
Known limits says what happens without it; the instance of at least one run satisfies
each, so none is empty. Every inductive invariant was checked with TLC before it was
proved.

`AppPipelineProofs`, without any hypothesis:

* `TypeCorrect`: `Spec => []TypeOK`. One lemma per group of actions; `SetInfoType` and
  `PhaseInfoTypes` carry the records. That `wg` stays a natural number rests on the
  guard of `Exit`, which panics otherwise.
* `StatusIsTruthful`: `Spec => []CompleteMeansInstalled`. The inductive invariant is
  `InstallInv`, the type invariant with `CompleteMeansInstalled` and `PastInstall`: a
  goroutine that runs the post install steps or the cleanup is one whose app is
  installed. It is needed because the status is set some steps after the install, at
  the end of the playbook, and, for fan-out CRs, for the app as a whole when all pods
  have it (`MarkedIsInstalled`). All other steps are shown to mark nothing
  (`InstallQuietStep`).
* `PackageIsKept`: `Spec => PackageKeptWhileNeeded`, an action property that follows
  from `InstallInv`: a cleanup consults the statuses of all pods, and these are
  truthful.

`AppWorkerProofs`, first for CRs with one pod (`SinglePod`: `Replicas = 1`, and
`PromptExit`, without which the operator may panic), under all faults and restarts.

* `WorkersAreJoined`, `InstallsAreSerial`, `WorkersRunOnce`
  (`NoOrphanWorker`, `InstallSlotExclusive`, `NoDoubleRun`), all from
  `WorkerInv`. A worker is busy from the send on the channel to the end of its
  goroutine. `Claimed`: a busy worker has the WaitGroup of its phase and is marked as
  active, or its manager is between the send and the mark. `OneWorkerPerPod` and
  `BusyIsNotDue`: no manager moves a busy worker, because its status is not one that
  managers act on. `Counted`: `wg[ph]` is the number of goroutines of the phase, which
  is why `Done` is never one too many and `Wait` returns late enough. `SlotHeld`: who
  installs holds the slot.
* `RetriesStayBounded` (`RetriesBounded`), from `RetryInv`: `BusyHasRetries` says that
  a busy worker has a retry left, and `SavedBounded` carries the bound over a restart.
* `SchedulerDelivers` (`ImplementsDelivery`): the refinement of `AppDelivery`, step by
  step. `DeliveryInv` adds `OwnPhase`, `ReportedIsFinal` (what the API server reports as
  installed the scheduler never touches again) and `MarkedIsOver`; a step installs, or
  reports, or is a stutter.
* `NoAppIsForgotten` (`NoLostWork`), for `PlainPod`: one pod, no fan-out, and no failing
  `mkdir`, which does forget an app. `WorkInv` says that every app an entry would take
  up has a worker, and that an entry that asks for no other leaves none.

Then for the CRs that fan out, with any number of pods and apps (`SteadyFanOut`:
`FanOut`, `PromptExit`, and no package lost on the operator's volume), as long as the
operator has not been restarted. Without these two the statements are false: with three
replicas `NoPanic` and `RetriesBounded` are violated, with a restart `NoLostReplica` is
(Known limits). Copies lost on a pod, failed reservations, commands, downloads, copies
and installs remain, and a yield at any time.

* `ReplicaWorkersAreSafe`: `NoOrphanWorker`, `InstallSlotExclusive`,
  `NoDoubleRun` and `RetriesBounded`, from `FanInv`. `WorkerInv` and `RetryInv` alone are
  not inductive here: they depend on no worker returning to the download, which it
  would share. `AppOK` says how the phase infos of an app, of its pods and the package
  fit together: the package is there as long as a pod needs it, the app leaves the
  download only when all pods have it or one has given up. `WorkerOK` places the seed of
  an app in the download and every other worker in the phase of its pod. `AppStep` is
  what each step of a worker does to its own app.
* `ReplicasAreDelivered` (`ImplementsDelivery`), with `MaxCrashes = 0`: `ReportsKept`, a
  part of `FanInv`, says that no report is taken back.
* `NoReplicaIsForgotten` (`NoLostReplica`), for `FullEntries`, also without a failing
  `mkdir`. `ReplicaInv` says that every pod with work left has a worker in a queue, or the
  app its seed, unless a pod has used up its install retries (`Queued`). The proof found
  that the exemption in `NoLostReplica` has to name that pod by its own phase info: the
  status of the whole app is overwritten when a second pod goes on.

`BundlePushProofs`, without a hypothesis (`InstalledIsPushed` itself exempts `Limits`):

* `PushTypeCorrect`, and `InstalledMeansPushed`: `Spec => []InstalledIsPushed`, from
  `PushInv`. `CopiedInBundle` and `PendingIsQueued` say where an app is on its way to
  the directory; `PlaybookIsAlone`, that the playbook acts only when all copies are
  over; `PushIsComplete`, that nothing is pending under a push. Whether a bundle is refused
  does not matter to it, since a refused one never counts as done. On a cluster manager a
  copied app is then in a push or on the members (`OnItsWay`); on a deployer, where a
  retry leaves several pushes with one status file, each of them sends all copied
  apps (`EveryPushSends`), so that it does not matter whose success is read.

`StatefulSetPodsProofs`, without a hypothesis:

* `PodsTypeCorrect`: also that no interleaving scales the StatefulSet to zero.
* `ScaleUpIsClean` (`CleanScaleUp`), `RemovedIsDrained` (`DrainedBeforeRemoval`), and
  `RecycledOneAtATime` (`OneAtATime`), from `PodsInv`. `Decided`: between two API calls
  the pod stays the one that was chosen. `StaleIsBeingDeleted`: a claim without a pod
  exists only while its reconcile is about to delete it. `KnownIsTrue`: what
  `updateStatus` found of a search head still holds when the pod is deleted.
  `LeftBehind`: a pod that a scale down has left is ready, and then all others were,
  which makes the count of a status that is up to date exact.

`SecretsProofs`:

* `SecretsTypeCorrect`; `MountedIsKept` (`MountedCopyIsKept`), from `BaseInv`: the
  template is the latest copy from `ApplyTemplate` on, and no token is missing in a
  copy once there is one. `RevisionIsNear` says that the StatefulSet controller knows the
  latest copy or one less than `KeepVersions` before it, which is kept.
* `PeersRestartInMaintenance` (`RestartInMaintenance`), from `MaintenanceInv`: unless the
  operator has crashed, the flags that make the loop skip `SetClusterMaintenanceMode`
  are true of the cluster manager (`FlagsAreTrue`).
* `ReadyMeansInSync`: `Spec => []ReadyIsInSync`, from `SecretsInv`: from
  `ApplyStatefulSet` on the secret is the one in the copy that the template mounts
  (`SecretIsCopied`), the instances on the latest copy run with it (`LatestIsRun`), and
  a status that says Ready for the current version was stored after all of them were
  (`ReadyIsDone`). The property itself excepts a write in the middle of a reconcile, and
  pods that the status has not shown as outdated yet. This is more than the run checks:
  users may write before the last change has settled, and put an old secret back.
* `AccessIsNeverLost`: `~Together => (Spec => []SyncKeepsAccess)`. Under `Retried`, a
  change of the admin password goes through stages (`Stage`): every search head runs
  with the copy that it mounts (`AdminDone`), the namespace secret has a new value that
  nobody has seen (`JustChanged`), or the pods are being taken from one value to the next
  (`Changing`), those that are flagged run with the new one and the others with the
  old. `Bookkeeping` ties the flags and the numbered copies to that. When the user
  changes both tokens in one write (`Together`) a failed call between the two edits makes
  the code skip the password of that pod, so that case is a hypothesis.

`AppRepoProofs`:

* `RepoTypeCorrect`; `CountIsRestored` (`RefCountRestored`), from `CountInv`: a CR that
  has listed is among the owners, so that a count is taken only once from those who
  joined (`OwnersHaveJoined`), and only a CR that is being deleted leaves
  (`LeavesWhenAsked`), which may do so several times while the others stay counted.
* `NoPushIsCutShort` (`NoListingDuringPush`), from `ListingInv`: a stage that is pending
  or in progress keeps the deployment in progress (`PushesAreBusy`), a reconcile lists
  only when the stored status has none (`ListsWhenFree`), and the stage held by a
  reconcile is never behind the stored one (`PushGoesOn`).
* `StatusIsTrueOfPods`: `Spec => [](NoLostScaleUp => DeployedIsTrue)`, from
  `DeployedInv`. The stored status may be ahead of what is true only between a step and
  the save that follows (`StoredIsTrue`); a restart in that window after a scale up is
  what `NoLostScaleUp` excludes.

`ReconcileProofs`:

* `UpgradesAreOrdered`: `OrderedRefs => (Spec => UpgradeInOrder)`. `OrderedRefs` says
  that what refers to a manager is of a kind whose Apply function calls
  `UpgradePathValidation`. In `OrderInv`, `StepsAreOwn` places a reconcile in its own
  Apply function, `OneImage` ties what it has read to the operator's image,
  `DeployerIsFirst` orders the two sets of a search head cluster, and `LicenseFirst` and
  `ManagerFirst` say that a reconcile that has passed a wait still finds the manager at
  its image when it gets to its own StatefulSet, whatever the others do in between.
* `ReadyHolds`: `Spec => []ReadyIsTrue`, with no hypothesis, from `OrderInv` and
  `ReadyInv`. What a reconcile has found out, and later what it has stored, stays so
  unless the resource is due to run again (`Current`): a change of a spec or of pods
  queues the resource, so does a change of the status of its StatefulSet, without which a
  Ready that was stored too early would stay; a change of a ConfigMap queues the console that owns it, and a
  console that has read its ConfigMap owns it (`Told`). Nobody queues the resource whose
  URLs another one deletes, so it is also shown that `DeleteURLsConfigMap` takes away no
  URL of another resource, and `AddURLsConfigMap` none at all. Those two facts are about
  the lists of one or two URLs that `Replicas` allows, put into a list of any length.
* `ReconcileTypeCorrect`: `Spec => []TypeOK`, from the two invariants above and `Bounds`:
  only resources that exist are reconciled, so a status is stored only for those, and an
  image is no newer than the upgrades so far allow.

`RemoteConfigProofs`:

* `RemoteTypeCorrect`: `Spec => []TypeOK` under all faults, from `TypeInv`, whose second
  part `InStep` bounds the loops over the pods.
* `PushesAreCurrent`: `Recoverable => (Spec => PushIsCurrent)`. `Recoverable` gives to
  each kind the faults it recovers from: for a cluster manager, none between the
  contents of the ConfigMap, its token and the note in the status; for an indexer
  cluster, no peer that becomes ready in the middle of a reconcile (finding 1); for an
  ingestor cluster that is scaled, no lost status. In `ManagerInv`, `TokenTells` says
  that equal tokens mean equal contents, and `SendsCurrent` that this still holds when
  the push is sent, although the kubelet and restarts of the pod come in between.
* `StatusIsTrue`: `Recoverable => (Spec => []StatusIsApplied)`. For SmartStore,
  `SettingsInv`: settings only grow from the spec to the map to the peers
  (`SettingsGrow`), and a map ahead of the peers is noted as a push (`PushIsNoted`). For
  the queue, `QueueInv`: no write takes a newer key from a disk (`KeysGrow`), the loops
  have done the pods behind them (`LoopsApply`), and a version in a status is on all
  pods that the status counts (`VersionsAreTrue`). The last needs `Covered`: a status
  with a version counts no pod that a scale up would still have to create, which holds
  because peers are drained over several reconciles before they are removed.

Only model-checked:

* Liveness (`EventuallySettled`, `ReplicasEventuallySettled`, `EntryEnds`,
  `EventuallyPushed`, `ComesToRest`, `EventuallyReady`, `AllSettle`,
  `ConfigReachesInstances` and the like): fairness and `ENABLED` are beyond the prover.

## Not modelled

* Storage tracker: the free space of the disk overwrites it at every entry, so its
  sizes decide little; a reservation that fails is a fault of `AppPipeline`.
* The migration of app statuses of old releases, a change of the poll interval, the
  content of Services, probes, owner references, the automatically created monitoring
  console, the paused annotation, images pinned per CR.
* Controllers: what queues a CR again is modelled, the rest is controller-runtime.
* The REST client of Splunk, construction of Kubernetes objects, API types, generated
  code, the webhook, telemetry: input and output, or no state.

## Plan

Modelling is complete as far as listed above, and every safety property of the runs is
proved, some under the hypotheses named with the theorems. What is left are the hazards
that no property covers yet (`PROJECT.json` says of each why), and liveness, once a
prover handles fairness.
