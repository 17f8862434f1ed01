------------------------------- MODULE AppRepo -------------------------------
(***************************************************************************)
(* From the remote app repository to the pods: when a custom resource      *)
(* lists its app sources (poll interval, manual update ConfigMaps, change  *)
(* of the spec), what the listing does to its status                       *)
(* (initAndCheckAppInfoStatus, handleAppRepoChanges), which version the    *)
(* object store then serves, and when a new listing may begin.             *)
(*                                                                         *)
(* One kind of resource in one namespace.  The scheduler and the bundle    *)
(* push are in AppPipeline and BundlePush; here an entry of the scheduler  *)
(* is one step.                                                            *)
(***************************************************************************)
EXTENDS Naturals, FiniteSets

CONSTANTS
  Apps,          \* app packages: numbers, in the order of their names
  Sources,       \* app sources
  SourceOf,      \* the source that an app is uploaded to
  ClusterScoped, \* sources whose apps are sent in a bundle
  EndsWith,      \* pairs <<a, b>>: the name of b ends with the name of a
  MinInterval,   \* the shortest and the longest poll interval
  MaxInterval,
  PageSize,      \* how many objects a listing of one page holds
  Setups,        \* the deployments: the resources, their app sources, the
                 \* provider of the volumes, the poll interval, what the user
                 \* does and what goes wrong
  MaxVersion,    \* bound: versions of an app
  MaxEvents      \* bound: what the user does and what goes wrong, together

ASSUME AppRepoAssumption ==
  /\ Apps \subseteq Nat /\ SourceOf \in [Apps -> Sources] /\ ClusterScoped \subseteq Sources
  /\ EndsWith \subseteq Apps \X Apps
  /\ 0 < MinInterval /\ MinInterval < MaxInterval /\ MaxInterval \in Nat /\ MinInterval \in Nat
  /\ PageSize \in Nat \ {0} /\ MaxVersion \in Nat \ {0} /\ MaxEvents \in Nat
  /\ \A s \in Setups :
       /\ IsFiniteSet(s.crs) /\ s.sources \subseteq Sources
       /\ "scale" \in s.events => s.sources \cap ClusterScoped = {}   \* Standalone
       /\ s.interval \in Nat /\ s.provider \in {"aws", "azure", "gcp", "minio"}
       /\ s.events \subseteq {"put", "remove", "sources", "trigger", "triggerCR",
                              "delete", "refs", "scale", "list", "api", "pod", "install",
                              "zero", "crash"}

VARIABLES
  setup,   \* the deployment; never changes
  repo,    \* per app, the version in its source (0: none) and the last one
  spec,    \* per resource: its app sources, and what its user asked for
  map,     \* the manual update ConfigMap of the namespace
  crmap,   \* per resource, manualUpdate of its own ConfigMap
  saved,   \* per resource, its app context as the API server holds it
  st,      \* per resource, its app context as the reconcile holds it
  run,     \* per resource, where its reconcile is and what it has read
  pods,    \* per resource and app, the version on all its pods, or 0
  queue,   \* resources with a reconcile to be done
  timer,   \* resources that are due again after a delay
  unseen,  \* resources that have not listed since the last manual trigger
  events   \* what has happened so far

world == <<repo, spec, pods>>
maps == <<map, crmap>>
vars == <<setup, world, maps, saved, st, run, queue, timer, unseen, events>>

CRs == setup.crs
AllCRs == UNION {s.crs : s \in Setups}
Versions == 0 .. MaxVersion

\* AppDeploymentInfo: ObjectHash, RepoState, and PhaseInfo: work left to be
\* done, everything done, or the retries used up.
AppInfo == [hash : Versions, state : {"none", "Active", "Deleted"},
            phase : {"none", "pending", "done", "failed"}]
NoInfo == [hash |-> 0, state |-> "none", phase |-> "none"]

\* AppDeploymentContext: AppsSrcDeployStatus (its keys and its apps),
\* AppFrameworkConfig, IsDeploymentInProgress, whether the poll interval has
\* passed since LastAppInfoCheckTime, and BundlePushStage.
Contexts == [sources : SUBSET Sources, apps : [Apps -> AppInfo], config : SUBSET Sources,
             busy : BOOLEAN, due : BOOLEAN,
             stage : {"Uninitialized", "Pending", "InProgress", "Complete"}]
NoContext == [sources |-> {}, apps |-> [a \in Apps |-> NoInfo], config |-> {},
              busy |-> FALSE, due |-> TRUE, stage |-> "Uninitialized"]

\* A reconcile: where it is, whether it turns the manual update off, the app
\* sources it has read, and whether it is run again.
Runs == [pc : {"idle", "list", "map", "crmap", "config", "delete", "finalize", "pods", "deploy",
               "save"},
         turnOff : BOOLEAN, config : SUBSET Sources, revisit : BOOLEAN]
Idle == [pc |-> "idle", turnOff |-> FALSE, config |-> {}, revisit |-> FALSE]

Init ==
  /\ setup \in Setups
  /\ repo = [a \in Apps |-> [now |-> 1, last |-> 1]]
  /\ spec = [c \in CRs |-> [exists |-> TRUE, sources |-> setup.sources, deleted |-> FALSE, scaled |-> FALSE]]
  /\ map = [owners |-> {}, on |-> FALSE, refCount |-> 0]
  /\ crmap = [c \in CRs |-> "none"]
  /\ saved = [c \in CRs |-> NoContext] /\ st = saved
  /\ run = [c \in CRs |-> Idle]
  /\ pods = [c \in CRs |-> [a \in Apps |-> 0]]
  /\ queue = CRs /\ timer = {} /\ unseen = {} /\ events = 0

\* ValidateAppFrameworkSpec; without an interval the updates are manual.
PollInterval ==
  CASE setup.interval = 0 -> 0
    [] setup.interval \in 1 .. MinInterval -> MinInterval
    [] setup.interval > MaxInterval -> MaxInterval
    [] OTHER -> setup.interval
Polling == PollInterval # 0

Happens(e) == e \in setup.events /\ events < MaxEvents /\ events' = events + 1

----------------------------------------------------------------------------
(* The object store                                                         *)

\* The objects at the location of a source.
Stored(source) == {a \in Apps : SourceOf[a] = source /\ repo[a].now # 0}
FirstPage(objects) == {a \in objects : Cardinality({b \in objects : b < a}) < PageSize}

\* GetAppsList: the clients of S3 and of Google Cloud take the first page of a
\* listing, the clients of Azure and Minio all of it.
AwsAppsList(source) == FirstPage(Stored(source))
GcsAppsList(source) == FirstPage(Stored(source))
AzureAppsList(source) == Stored(source)
MinioAppsList(source) == Stored(source)

Listing(source) ==
  CASE setup.provider = "aws" -> AwsAppsList(source)
    [] setup.provider = "gcp" -> GcsAppsList(source)
    [] setup.provider = "azure" -> AzureAppsList(source)
    [] setup.provider = "minio" -> MinioAppsList(source)

IfMatch(a, hash) == IF repo[a].now = hash THEN hash ELSE 0

\* DownloadApp, 0 when it fails: the clients of S3 and Minio ask for the
\* version of the listing, the other ones take the object as it is now.
AwsDownload(a, hash) == IfMatch(a, hash)
MinioDownload(a, hash) == IfMatch(a, hash)
GcsDownload(a, hash) == repo[a].now
AzureDownload(a, hash) == repo[a].now

Download(a, hash) ==
  CASE setup.provider = "aws" -> AwsDownload(a, hash)
    [] setup.provider = "gcp" -> GcsDownload(a, hash)
    [] setup.provider = "azure" -> AzureDownload(a, hash)
    [] setup.provider = "minio" -> MinioDownload(a, hash)

----------------------------------------------------------------------------
(* What a listing does to the status                                        *)

\* checkIfAnAppIsActiveOnRemoteStore compares the end of the object's key.
ActiveOnRemoteStore(a, listed) == \E b \in listed : b = a \/ <<a, b>> \in EndsWith

\* Mutant: an app that comes back is not marked Active.
MarkStaysDeleted(info, hash) ==
  IF info.hash # hash \/ info.state = "none"
  THEN [hash |-> hash, state |-> "Active", phase |-> "pending"] ELSE info

\* AddOrUpdateAppSrcDeploymentInfoList, for one object of the listing.
AddOrUpdate(info, hash) ==
  IF info.hash # hash \/ info.state # "Active"
  THEN [hash |-> hash, state |-> "Active", phase |-> "pending"] ELSE info

Disable(info) == IF info.state = "Active" THEN [info EXCEPT !.state = "Deleted"] ELSE info

\* handleAppRepoChanges, for one app.
AppAfter(a, info, config) ==
  LET source == SourceOf[a] IN
  IF source \notin config THEN Disable(info)
  ELSE IF a \in Listing(source) THEN AddOrUpdate(info, repo[a].now)
  ELSE IF ActiveOnRemoteStore(a, Listing(source)) THEN info ELSE Disable(info)

AppsAfter(apps, config) == [a \in Apps |-> AppAfter(a, apps[a], config)]

\* Are there new cluster scoped apps, or versions of them.
BundleChanges(apps, config) ==
  \E a \in Apps : /\ SourceOf[a] \in config \cap ClusterScoped /\ a \in Listing(SourceOf[a])
                  /\ AddOrUpdate(apps[a], repo[a].now) # apps[a]

HandleAppRepoChanges(ctx, config) ==
  [ctx EXCEPT !.sources = @ \cup config, !.apps = AppsAfter(@, config), !.config = config,
              !.stage = IF BundleChanges(ctx.apps, config) THEN "Pending" ELSE @]

----------------------------------------------------------------------------
(* The ConfigMaps for manual updates                                        *)

\* createOrUpdateAppUpdateConfigMap, when the app context is initialised.
Joined(c) ==
  IF c \in map.owners THEN map
  ELSE [map EXCEPT !.owners = @ \cup {c}, !.refCount = Cardinality(map.owners) + 1]

\* Mutant: the count is not reset.
CountsOnly(turnOff) ==
  IF ~map.on THEN map
  ELSE [map EXCEPT !.on = ~turnOff, !.refCount = IF @ > 0 THEN @ - 1 ELSE 0]

\* updateManualAppUpdateConfigMapLocked.  No count below one ever leads back to
\* one, so they all stand as 0.
Updated(turnOff) ==
  IF turnOff THEN [map EXCEPT !.on = FALSE, !.refCount = Cardinality(map.owners)]
  ELSE IF map.on THEN [map EXCEPT !.refCount = IF @ > 0 THEN @ - 1 ELSE 0]
  ELSE map

\* UpdateOrRemoveEntryFromConfigMapLocked: the entry is removed, or gets the
\* number of the other owners. c is still an owner.
Left(c) ==
  IF map.owners = {c} THEN [map EXCEPT !.on = FALSE, !.refCount = 0]
  ELSE [map EXCEPT !.refCount = Cardinality(map.owners) - 1]

LiveOwners(m) == {c \in m.owners : spec[c].exists}

\* The controllers reconcile the owners of a ConfigMap when its data changes.
Notified(new) ==
  IF new.on # map.on \/ new.refCount # map.refCount THEN LiveOwners(new) ELSE {}

----------------------------------------------------------------------------
(* A reconcile                                                              *)

Reconciles(c, pc) == spec[c].exists /\ run[c].pc = pc
Goto(c, pc) == run' = [run EXCEPT ![c].pc = pc]

\* The app context is initialised when it knows no sources.
First(c) == saved[c].sources = {}

\* shouldCheckAppRepoStatus
ShouldCheck(c, m) == IF Polling THEN saved[c].due ELSE m.on

InProgress(c) == saved[c].busy

\* The first half of initAndCheckAppInfoStatus.  The manual update's refCount is
\* read here, and its update is done later.
Check(c) ==
  /\ Reconciles(c, "idle") /\ c \in queue
  /\ map' = IF First(c) THEN Joined(c) ELSE map
  /\ LET wanted == ShouldCheck(c, map') \/ crmap[c] = "on" \/ saved[c].config # spec[c].sources IN
     run' = [run EXCEPT ![c] =
              [pc |-> IF wanted /\ ~InProgress(c) THEN "list" ELSE "config",
               turnOff |-> ~Polling /\ map'.on /\ map'.refCount = 1,
               config |-> spec[c].sources, revisit |-> FALSE]]
  /\ queue' = (queue \ {c}) \cup Notified(map')
  /\ timer' = timer \ {c}
  /\ UNCHANGED <<setup, world, crmap, saved, st, unseen, events>>

\* The error path of the caller: the deployment is no more in progress.
Fail(c) ==
  /\ st' = [st EXCEPT ![c].busy = FALSE]
  /\ run' = [run EXCEPT ![c].pc = "save", ![c].revisit = TRUE]

\* createOrUpdateAppUpdateConfigMap fails.
CheckFails(c) ==
  /\ Reconciles(c, "idle") /\ c \in queue /\ First(c) /\ Happens("api")
  /\ Fail(c) /\ queue' = queue \ {c} /\ timer' = timer \ {c}
  /\ UNCHANGED <<setup, world, maps, saved, unseen>>

AfterList == IF Polling THEN "config" ELSE "map"

\* GetAppListFromRemoteBucket and what follows it.
List(c) ==
  /\ Reconciles(c, "list")
  /\ st' = [st EXCEPT ![c] = [HandleAppRepoChanges(@, run[c].config) EXCEPT !.busy = TRUE, !.due = FALSE]]
  /\ unseen' = unseen \ {c}
  /\ Goto(c, AfterList)
  /\ UNCHANGED <<setup, world, maps, saved, queue, timer, events>>

\* Some source cannot be listed: nothing is done before the next time.
ListFails(c) ==
  /\ Reconciles(c, "list") /\ Happens("list")
  /\ st' = [st EXCEPT ![c].busy = TRUE, ![c].due = FALSE]
  /\ Goto(c, AfterList)
  /\ UNCHANGED <<setup, world, maps, saved, queue, timer, unseen>>

UpdateMap(c) ==
  /\ Reconciles(c, "map")
  /\ \/ /\ map' = Updated(run[c].turnOff)
        /\ queue' = IF map.on THEN queue \cup LiveOwners(map) ELSE queue
        /\ Goto(c, "crmap") /\ UNCHANGED <<st, events>>
     \/ /\ Happens("api") /\ Fail(c) /\ UNCHANGED <<map, queue>>
  /\ UNCHANGED <<setup, world, crmap, saved, timer, unseen>>

\* updateCrSpecificManualAppUpdateConfigMap; the ConfigMap is created only
\* after the first listing.
UpdateCrMap(c) ==
  /\ Reconciles(c, "crmap")
  /\ \/ /\ crmap[c] # "none"
        /\ crmap' = [crmap EXCEPT ![c] = "off"]
        /\ queue' = IF crmap[c] = "on" THEN queue \cup {c} ELSE queue
        /\ Goto(c, "config") /\ UNCHANGED <<st, events>>
     \/ /\ crmap[c] = "none" /\ Fail(c) /\ UNCHANGED <<crmap, queue, events>>
     \/ /\ crmap[c] # "none" /\ Happens("api") /\ Fail(c) /\ UNCHANGED <<crmap, queue>>
  /\ UNCHANGED <<setup, world, map, saved, timer, unseen>>

\* ApplySplunkConfig (ReconcileCRSpecificConfigMap).
Configure(c) ==
  /\ Reconciles(c, "config")
  /\ crmap' = [crmap EXCEPT ![c] = IF @ = "none" THEN "off" ELSE @]
  /\ Goto(c, IF spec[c].deleted THEN "delete" ELSE "pods")
  /\ UNCHANGED <<setup, world, map, saved, st, queue, timer, unseen, events>>

\* The resource is reconciled again, after an error or because it waits.
Again(c) == run' = [run EXCEPT ![c].pc = "save", ![c].revisit = TRUE]

\* A deletion: the resource leaves the manual update.
Leave(c) ==
  /\ Reconciles(c, "delete")
  /\ \/ /\ map' = Left(c) /\ queue' = queue \cup Notified(map')
        /\ Goto(c, "finalize") /\ UNCHANGED events
     \/ Happens("api") /\ Again(c) /\ UNCHANGED <<map, queue>>
  /\ UNCHANGED <<setup, world, crmap, saved, st, timer, unseen>>

\* The rest of it: the finalizer is removed, unless other resources still refer
\* to this one (checkCmRemainingReferences).
Delete(c) ==
  /\ Reconciles(c, "finalize")
  /\ \/ /\ spec' = [spec EXCEPT ![c].exists = FALSE]
        /\ queue' = queue \ {c} /\ unseen' = unseen \ {c} /\ timer' = timer \ {c}
        /\ st' = [st EXCEPT ![c] = saved[c]] /\ run' = [run EXCEPT ![c] = Idle]
        /\ UNCHANGED events
     \/ Happens("refs") /\ Again(c) /\ UNCHANGED <<spec, queue, unseen, timer, st>>
  /\ UNCHANGED <<setup, repo, pods, maps, saved>>

\* The garbage collector removes an owner that is gone from the ConfigMap, or
\* the ConfigMap with its last owner.
Collect(c) ==
  /\ ~spec[c].exists /\ c \in map.owners
  /\ map' = IF map.owners = {c} THEN [owners |-> {}, on |-> FALSE, refCount |-> 0]
            ELSE [map EXCEPT !.owners = @ \ {c}]
  /\ UNCHANGED <<setup, world, crmap, saved, st, run, queue, timer, unseen, events>>

\* Mutant: a StatefulSet that grows does not bring its apps back to download.
ForgetsNewPods(ctx) == ctx

\* changePhaseInfo keeps the FailCount.
ScaledUp(ctx) ==
  [ctx EXCEPT !.busy = TRUE,
              !.apps = [a \in Apps |-> IF @[a].state = "Active" /\ @[a].phase = "done"
                                       THEN [@[a] EXCEPT !.phase = "pending"] ELSE @[a]]]

\* The StatefulSet: it may be scaled up, its pods may not be ready.
Pods(c) ==
  /\ Reconciles(c, "pods")
  /\ \/ /\ spec[c].scaled
        /\ spec' = [spec EXCEPT ![c].scaled = FALSE]
        /\ st' = [st EXCEPT ![c] = ScaledUp(@)]
        /\ pods' = [pods EXCEPT ![c] = [a \in Apps |-> 0]]
        /\ Again(c) /\ UNCHANGED events
     \/ ~spec[c].scaled /\ Happens("pod") /\ Again(c) /\ UNCHANGED <<spec, st, pods>>
     \/ /\ ~spec[c].scaled /\ Goto(c, "deploy") /\ UNCHANGED <<spec, st, pods, events>>
  /\ UNCHANGED <<setup, repo, maps, saved, queue, timer, unseen>>

----------------------------------------------------------------------------
(* An entry of the scheduler                                                *)

\* isPhaseInfoEligibleForSchedulerEntry, whatever the state of the app
Pending(ctx) == {a \in Apps : ctx.apps[a].phase = "pending"}

Succeeds(c, a) ==
  SourceOf[a] \in run[c].config /\ Download(a, st[c].apps[a].hash) # 0

\* Mutant: a push that runs does not count.
OnlyQueuedPushes(ctx) == ctx.stage = "Pending"

PendingClusterScopeWork(ctx) == ctx.stage \in {"Pending", "InProgress"}

\* A push that runs may have ended; one whose bundle has failed its validation
\* is an error at every look at it, and its stage stays as it is.
NextStages(ctx) ==
  CASE ctx.stage = "Pending" /\ Pending(ctx) = {} -> {"InProgress"}
    [] ctx.stage = "InProgress" -> {"InProgress", "Complete"}
    [] OTHER -> {ctx.stage}

\* handleAppFrameworkActivity: some of the apps with work left are done before
\* the scheduler yields.
Deploy(c) ==
  /\ Reconciles(c, "deploy")
  /\ \E tried \in SUBSET Pending(st[c]) : \E broken \in SUBSET tried :
       /\ tried = {} => Pending(st[c]) = {}
       /\ IF broken = {} THEN UNCHANGED events ELSE Happens("install")
       /\ LET good == {a \in tried \ broken : Succeeds(c, a)}
              apps == [a \in Apps |->
                        IF a \in tried
                        THEN [st[c].apps[a] EXCEPT !.phase = IF a \in good THEN "done" ELSE "failed"]
                        ELSE st[c].apps[a]]
              tmp == [st[c] EXCEPT !.apps = apps] IN
          /\ pods' = [pods EXCEPT ![c] = [a \in Apps |-> IF a \in good
                                          THEN Download(a, st[c].apps[a].hash) ELSE @[a]]]
          /\ \E stage \in NextStages(tmp) :
               LET ctx == [tmp EXCEPT !.stage = stage]
                   left == Pending(ctx) # {} \/ PendingClusterScopeWork(ctx) IN
               /\ st' = [st EXCEPT ![c] = [ctx EXCEPT !.busy = @ /\ left]]
               /\ run' = [run EXCEPT ![c].pc = "save", ![c].revisit = left]
  /\ UNCHANGED <<setup, repo, spec, maps, saved, queue, timer, unseen>>

\* The status is saved, and with polling the next listing is scheduled
\* (GetNextRequeueTime). When the interval ends in this very second the time
\* that is left is 0, which updateReconcileRequeueTime refuses.
Save(c) ==
  /\ Reconciles(c, "save")
  /\ run' = [run EXCEPT ![c] = Idle]
  /\ \/ /\ saved' = [saved EXCEPT ![c] = st[c]] /\ UNCHANGED <<st, events>>
        /\ timer' = IF run[c].revisit \/ (Polling /\ st[c].due) THEN timer \cup {c} ELSE timer \ {c}
     \/ /\ Polling /\ ~run[c].revisit /\ Happens("zero")
        /\ st' = [st EXCEPT ![c].due = TRUE] /\ saved' = [saved EXCEPT ![c] = st'[c]]
        /\ timer' = timer \ {c}
  /\ UNCHANGED <<setup, world, maps, queue, unseen>>

----------------------------------------------------------------------------
(* Time, the user, and a restart of the operator                            *)

\* The delay of RequeueAfter is over.
Wake(c) ==
  /\ c \in timer /\ timer' = timer \ {c} /\ queue' = queue \cup {c}
  /\ UNCHANGED <<setup, world, maps, saved, st, run, unseen, events>>

\* The poll interval is over.
Tick(c) ==
  /\ Polling /\ Reconciles(c, "idle") /\ ~saved[c].due
  /\ saved' = [saved EXCEPT ![c].due = TRUE] /\ st' = [st EXCEPT ![c] = saved'[c]]
  /\ queue' = queue \cup {c}
  /\ UNCHANGED <<setup, world, maps, run, timer, unseen, events>>

Upload(a) ==
  /\ Happens("put")
  /\ \/ /\ repo[a].last < MaxVersion
        /\ repo' = [repo EXCEPT ![a] = [now |-> @.last + 1, last |-> @.last + 1]]
     \/ repo[a].now = 0 /\ repo' = [repo EXCEPT ![a].now = repo[a].last]
  /\ UNCHANGED <<setup, spec, pods, maps, saved, st, run, queue, timer, unseen>>

RemoveApp(a) ==
  /\ Happens("remove") /\ repo[a].now # 0 /\ repo' = [repo EXCEPT ![a].now = 0]
  /\ UNCHANGED <<setup, spec, pods, maps, saved, st, run, queue, timer, unseen>>

\* The user edits the app sources, scales the resource up, or deletes it.
EditCR(c) ==
  /\ spec[c].exists /\ ~spec[c].deleted
  /\ \/ /\ Happens("sources")
        /\ \E s \in (SUBSET setup.sources) \ {{}, spec[c].sources} : spec' = [spec EXCEPT ![c].sources = s]
     \/ Happens("scale") /\ saved[c].sources # {} /\ spec' = [spec EXCEPT ![c].scaled = TRUE]
     \/ Happens("delete") /\ spec' = [spec EXCEPT ![c].deleted = TRUE]
  /\ queue' = queue \cup {c}
  /\ UNCHANGED <<setup, repo, pods, maps, saved, st, run, timer, unseen>>

\* The user switches the manual update of the namespace on.
Trigger ==
  /\ Happens("trigger") /\ map.refCount # 0 /\ ~map.on
  /\ map' = [map EXCEPT !.on = TRUE]
  /\ queue' = queue \cup Notified(map') /\ unseen' = LiveOwners(map)
  /\ UNCHANGED <<setup, world, crmap, saved, st, run, timer>>

TriggerCR(c) ==
  /\ Happens("triggerCR") /\ spec[c].exists /\ crmap[c] = "off"
  /\ crmap' = [crmap EXCEPT ![c] = "on"] /\ queue' = queue \cup {c}
  /\ UNCHANGED <<setup, world, map, saved, st, run, timer, unseen>>

Crash ==
  /\ Happens("crash") /\ st' = saved /\ run' = [c \in CRs |-> Idle]
  /\ queue' = {c \in CRs : spec[c].exists} /\ timer' = {}
  /\ UNCHANGED <<setup, world, maps, saved, unseen>>

Step(c) == \/ Check(c) \/ CheckFails(c) \/ List(c) \/ ListFails(c) \/ UpdateMap(c) \/ UpdateCrMap(c)
           \/ Configure(c) \/ Leave(c) \/ Delete(c) \/ Collect(c) \/ Pods(c) \/ Deploy(c)
           \/ Save(c) \/ Wake(c)

User == \/ \E a \in Apps : Upload(a) \/ RemoveApp(a)
        \/ \E c \in CRs : EditCR(c) \/ TriggerCR(c)
        \/ Trigger

Next == (\E c \in CRs : Step(c) \/ Tick(c)) \/ User \/ Crash

\* The controller works its queue off, and time passes.
Spec == Init /\ [][Next]_vars
             /\ \A c \in AllCRs : WF_vars(c \in CRs /\ Step(c)) /\ WF_vars(c \in CRs /\ Tick(c))

----------------------------------------------------------------------------
\* Every variable has its type.
TypeOK ==
  /\ setup \in Setups
  /\ repo \in [Apps -> [now : Versions, last : Versions]]
  /\ spec \in [CRs -> [exists : BOOLEAN, sources : SUBSET Sources, deleted : BOOLEAN, scaled : BOOLEAN]]
  /\ map \in [owners : SUBSET CRs, on : BOOLEAN, refCount : 0 .. Cardinality(CRs)]
  /\ crmap \in [CRs -> {"none", "off", "on"}]
  /\ saved \in [CRs -> Contexts] /\ st \in [CRs -> Contexts] /\ run \in [CRs -> Runs]
  /\ pods \in [CRs -> [Apps -> Versions]]
  /\ queue \subseteq CRs /\ timer \subseteq CRs /\ unseen \subseteq CRs /\ events \in 0 .. MaxEvents

\* Between two reconciles the status never says that a version of an Active
\* app is deployed while some pod lacks the app or holds an older version; and when the store serves
\* the listed version and no status is lost in a restart, the pods hold
\* exactly the version in the status.
DeployedIsTrue ==
  \A c \in CRs, a \in Apps :
    (run[c].pc = "idle" /\ saved[c].apps[a].state = "Active" /\ saved[c].apps[a].phase = "done") =>
      /\ pods[c][a] >= saved[c].apps[a].hash
      /\ (setup.provider \in {"aws", "minio"} /\ "crash" \notin setup.events) => pods[c][a] = saved[c].apps[a].hash

\* While polling, a listing never asks for a bundle push when one is running:
\* what is pushed is what the status says.
NoListingDuringPush ==
  [][\A c \in CRs : (Polling /\ saved[c].stage = "InProgress") => saved'[c].stage # "Pending"]_vars

\* While the switch is off, its reference count is no smaller than the number
\* of owners that are not being deleted, so that the next manual update does
\* not end before as many listings: whatever resources join, leave, are kept
\* from leaving or are gone and still owners, and whichever of them switched
\* the last one off.
Stays(owners) == {c \in owners : ~spec[c].deleted}
RefCountRestored == ~map.on => map.refCount >= Cardinality(Stays(map.owners))

\* A known limit, which no run checks: that the manual update is switched off
\* only after every resource of the kind has listed its sources since the user
\* switched it on. The count is read without the lock (README, Known limits).
ManualReachesAll == [][map.on /\ ~map'.on => unseen = {}]_vars

\* The pods run what is in the repository, except for apps that used up their
\* retries, and no app counts as Active that is gone, unless the name of
\* another one hides it.
Settled(c) ==
  \A a \in Apps :
    LET info == saved[c].apps[a]
        there == SourceOf[a] \in spec[c].sources /\ a \in Listing(SourceOf[a]) IN
    IF there THEN /\ info.state = "Active" /\ info.hash = repo[a].now
                  /\ info.phase = "failed" \/ pods[c][a] = repo[a].now
    ELSE info.state # "Active" \/ /\ SourceOf[a] \in spec[c].sources
                                  /\ ActiveOnRemoteStore(a, Listing(SourceOf[a]))

\* Nothing reconciles the resource any more, and its interval is over.
PollingStopped(c) == saved[c].due /\ run[c].pc = "idle" /\ c \notin queue \cup timer

\* While polling, whatever the user does to the repository and to the resource,
\* in the end its status and its pods follow the repository. There are two
\* ways out of it: the requeue that is refused when no time is left, and a
\* bundle push that never ends, after which the resource does not list again.
RepoConverges ==
  Polling => <>[](\A c \in CRs : spec[c].exists =>
                    \/ Settled(c) /\ ~PendingClusterScopeWork(saved[c])
                    \/ PollingStopped(c) \/ saved[c].stage = "InProgress")
=============================================================================
