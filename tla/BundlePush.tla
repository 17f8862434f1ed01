------------------------------ MODULE BundlePush ------------------------------
(***************************************************************************)
(* Cluster scoped apps (pkg/splunk/enterprise/afwscheduler.go).  Their     *)
(* packages are extracted in the apps directory of the cluster manager or  *)
(* of the deployer, and a bundle push sends that directory to the members  *)
(* of the cluster.  The install handler drives the push, after the phase   *)
(* managers stopped, through the stages of BundlePushStatus; on a search   *)
(* head cluster the goroutine that installs Enterprise Security asks for   *)
(* a push as well.                                                         *)
(*                                                                         *)
(* Download and pod copy, which AppPipeline models, are one action here.   *)
(***************************************************************************)
EXTENDS Naturals, FiniteSets

CONSTANTS
  ClusterApps,  \* apps of the cluster scoped app sources
  EsApps,       \* Enterprise Security on the deployer (premiumApps scope)
  Kinds,        \* the CRs: "SearchHeadCluster", "ClusterManager"
  FaultKinds,   \* the faults that may happen
  MaxFaults     \* bound: how often they happen

ASSUME BundleAssumption ==
  /\ ClusterApps \cap EsApps = {}
  /\ Kinds \subseteq {"SearchHeadCluster", "ClusterManager"}
  /\ FaultKinds \subseteq {"mkdir", "copy", "exec", "cleanup", "push", "second",
                            "crash"}
  /\ MaxFaults \in Nat

VARIABLES
  kind,        \* the CR: the deployer or the cluster manager; never changes
  info,        \* status: per app, "pending", "copied", "installed", "failed"
  stage,       \* status: BundlePushStage
  inProgress,  \* status: IsDeploymentInProgress
  saved,       \* the status held by the API server
  sched,       \* "idle", "working", "playbook" or "waiting" for goroutines
  revisit,     \* does the scheduler ask for another entry
  queue,       \* apps with a worker in the pipeline
  running,     \* copies still running when the managers have stopped
  es,          \* per ES app, where its install goroutine is
  pc,          \* where the cluster scoped playbook is
  clock,       \* the yield interval: "runs", "lastSecond" or "over"
  bundle,      \* apps in the directory that a push sends
  pushes,      \* what the pushes under way send
  members,     \* apps the members of the cluster have received
  file,        \* the deployer's status file of the push; on a cluster manager
               \* "error" while last_bundle_validation_status is failure
  faults       \* how many faults so far, and which of Limits were among them

status == <<info, stage, inProgress>>
entry == <<sched, queue, running, es, pc, clock>>
cluster == <<bundle, pushes, members, file>>
vars == <<kind, status, saved, entry, revisit, cluster, faults>>

Stages == {"Uninitialized", "Pending", "InProgress", "Complete"}

IsShc == kind = "SearchHeadCluster"
Apps == ClusterApps \cup (IF IsShc THEN EsApps ELSE {})

\* What the code does not recover from in every case: a directory that cannot
\* be created, the yield timer firing in the second in which the playbook still
\* finds time, and a restart while the deployer pushes.
Limits == {"mkdir", "second"} \cup (IF IsShc THEN {"crash"} ELSE {})

Fault(f) ==
  /\ f \in FaultKinds /\ faults.n < MaxFaults
  /\ faults' = [n |-> faults.n + 1, seen |-> faults.seen \cup ({f} \cap Limits)]

\* isPendingClusterScopeWork
OnlyPendingIsWork == stage = "Pending"
PendingClusterScopeWork == stage \notin {"Complete", "Uninitialized"}

\* isPhaseInfoEligibleForSchedulerEntry
EligibleForEntry(a) == info[a] = "pending"

\* handleAppRepoChanges: a listing with cluster scoped apps asks for a push.
Init ==
  /\ kind \in Kinds
  /\ info = [a \in Apps |-> "pending"]
  /\ stage = IF ClusterApps = {} THEN "Uninitialized" ELSE "Pending"
  /\ inProgress = TRUE
  /\ saved = [info |-> info, stage |-> stage, inProgress |-> inProgress]
  /\ sched = "idle" /\ revisit = TRUE /\ queue = {} /\ running = {}
  /\ es = [a \in EsApps |-> "none"]
  /\ pc = "loop" /\ clock = "runs"
  /\ bundle = {} /\ pushes = {} /\ members = {} /\ file = "absent"
  /\ faults = [n |-> 0, seen |-> {}]

-----------------------------------------------------------------------------
(* An entry of the scheduler.                                              *)

\* afwSchedulerEntry; without its directory on the pod an app source, and
\* all that follow it, get no workers.
SchedulerEntry ==
  /\ sched = "idle"
  /\ LET pending == {a \in Apps : EligibleForEntry(a)} IN
       \E picked \in SUBSET pending :
         /\ queue' = picked
         /\ \/ picked = pending /\ UNCHANGED faults
            \/ picked # pending /\ Fault("mkdir")
  /\ sched' = "working" /\ clock' = "runs" /\ pc' = "loop"
  /\ UNCHANGED <<kind, status, saved, revisit, running, es, cluster>>

\* Download and runPodCopyWorker, which extracts the package; a copy that
\* fails is tried again until its retries are used up.
Copy(a) ==
  /\ \/ sched = "working" /\ a \in queue /\ UNCHANGED running
     \/ a \in running /\ running' = running \ {a}
  /\ \E outcome \in {"copied", "pending", "failed"} :
       /\ info' = [info EXCEPT ![a] = outcome]
       /\ bundle' = IF outcome = "copied" THEN bundle \cup {a} ELSE bundle
       /\ \/ outcome = "copied" /\ UNCHANGED faults
          \/ outcome # "copied" /\ Fault("copy")
       /\ queue' = IF sched = "working" /\ outcome # "pending"
                   THEN queue \ {a} ELSE queue
  /\ UNCHANGED <<kind, stage, inProgress, saved, sched, es, pc, clock, revisit,
                 pushes, members, file>>

\* afwYieldWatcher: the queues are empty, or the yield interval has passed.
Yield ==
  /\ sched = "working"
  /\ sched' = "playbook"
  /\ \/ queue = {} /\ running' = {} /\ UNCHANGED <<clock, faults>>
     \/ /\ queue # {}
        /\ running' \in SUBSET (queue \cap ClusterApps)
        /\ \/ clock' = "over" /\ UNCHANGED faults
           \/ clock' = "lastSecond" /\ Fault("second")
  /\ UNCHANGED <<kind, status, saved, queue, es, pc, revisit, cluster>>

\* The end of afwSchedulerEntry and of the reconcile.
SchedulerExit ==
  /\ sched = "waiting" /\ running = {} /\ \A a \in EsApps : es[a] = "none"
  /\ inProgress' = (inProgress /\ (queue # {} \/ PendingClusterScopeWork))
  /\ revisit' = (queue # {} \/ inProgress' \/ PendingClusterScopeWork)
  /\ saved' = [info |-> info, stage |-> stage, inProgress |-> inProgress']
  /\ sched' = "idle" /\ queue' = {}
  /\ UNCHANGED <<kind, info, stage, running, es, pc, clock, cluster, faults>>

-----------------------------------------------------------------------------
(* The premium playbook on the deployer.                                   *)

EsStart(a) ==
  /\ sched = "working" /\ a \in queue /\ es[a] = "none" /\ info[a] = "pending"
  /\ es' = [es EXCEPT ![a] = "run"]
  /\ UNCHANGED <<kind, status, saved, sched, queue, running, pc, clock, revisit,
                 cluster, faults>>

\* installApp and handleEsappPostinstall, whose essinstall puts the content
\* for the search heads in the directory that is pushed.
EsInstall(a) ==
  /\ sched # "idle" /\ es[a] = "run"
  /\ \/ /\ es' = [es EXCEPT ![a] = "cleanup"]
        /\ info' = [info EXCEPT ![a] = "installed"]
        /\ bundle' = bundle \cup {a}
        /\ UNCHANGED faults
     \/ /\ Fault("exec")
        /\ es' = [es EXCEPT ![a] = "none"]
        /\ UNCHANGED <<info, bundle>>
  /\ UNCHANGED <<kind, stage, inProgress, saved, sched, queue, running, pc,
                 clock, revisit, pushes, members, file>>

\* cleanupApp: its error ends the playbook.
EsCleanup(a) ==
  /\ sched # "idle" /\ es[a] = "cleanup"
  /\ \/ es' = [es EXCEPT ![a] = "flag"] /\ UNCHANGED faults
     \/ es' = [es EXCEPT ![a] = "none"] /\ Fault("cleanup")
  /\ UNCHANGED <<kind, status, saved, sched, queue, running, pc, clock, revisit,
                 cluster>>

\* The last statement of the playbook asks for a bundle push.
AskForPush == stage' = "Pending"

EsFlag(a) ==
  /\ sched # "idle" /\ es[a] = "flag"
  /\ es' = [es EXCEPT ![a] = "none"]
  /\ AskForPush
  /\ UNCHANGED <<kind, info, inProgress, saved, sched, queue, running, pc,
                 clock, revisit, cluster, faults>>

\* The install manager drops the worker of an installed app.
EsDrop(a) ==
  /\ sched = "working" /\ a \in queue /\ info[a] = "installed"
  /\ queue' = queue \ {a}
  /\ UNCHANGED <<kind, status, saved, sched, running, es, pc, clock, revisit,
                 cluster, faults>>

-----------------------------------------------------------------------------
(* The cluster scoped playbook, run by the install handler in a loop that  *)
(* sleeps for a second after each round.                                   *)

InPlaybook(at, next) ==
  /\ sched = "playbook" /\ pc = at /\ pc' = next
  /\ clock' = IF clock = "lastSecond" /\ next = "loop" THEN "over" ELSE clock
  /\ UNCHANGED <<kind, inProgress, saved, sched, queue, running, es, revisit>>

\* needToRunClusterScopedPlaybook
NeedToRun == PendingClusterScopeWork /\ clock # "over"

TimePasses ==
  /\ sched = "playbook" /\ clock = "runs" /\ clock' = "over"
  /\ UNCHANGED <<kind, status, saved, sched, queue, running, es, pc, revisit, cluster,
                 faults>>

PlaybookEnds ==
  /\ sched = "playbook" /\ pc = "loop" /\ ~NeedToRun
  /\ sched' = "waiting"
  /\ UNCHANGED <<kind, status, saved, queue, running, es, pc, clock, revisit, cluster,
                 faults>>

TriggersWith(content) == pushes' = pushes \cup {content}

\* BundlePushPending: triggerBundlePush.  An error leaves the stage alone;
\* a cluster manager, which applies one bundle at a time, answers with one
\* while it is busy.
TriggerBundlePush ==
  /\ NeedToRun /\ stage = "Pending"
  /\ \/ /\ IsShc \/ pushes = {}
        /\ InPlaybook("loop", "started")
        /\ TriggersWith(bundle)
        /\ file' = IF IsShc THEN "empty" ELSE file
        /\ UNCHANGED faults
     \/ /\ InPlaybook("loop", "loop")
        /\ Fault("exec") /\ UNCHANGED <<pushes, file>>
  /\ UNCHANGED <<info, stage, bundle, members>>

BundlePushStarted ==
  /\ InPlaybook("started", "loop")
  /\ stage' = "InProgress"
  /\ UNCHANGED <<info, cluster, faults>>

\* isBundlePushComplete of the indexer cluster: cluster_status=None, and the
\* last validation has not failed.  A bundle whose validation has failed is
\* taken for one that is still in progress, at every check.
IdxcIdleIsDone == pushes = {}
IdxcPushDone == pushes = {} /\ file # "error"

IdxcCheck ==
  /\ NeedToRun /\ stage = "InProgress" /\ ~IsShc
  /\ IdxcPushDone
  /\ InPlaybook("loop", "complete")
  /\ UNCHANGED <<info, stage, cluster, faults>>

\* isBundlePushComplete of the search head cluster: a status file that
\* cannot be read, or that holds an error, leads to another push.
ShcPushSucceeded == file = "success"

NoRetryStage == "InProgress"
RetryStage == "Pending"

ShcCheck ==
  /\ NeedToRun /\ stage = "InProgress" /\ IsShc
  /\ \/ /\ ShcPushSucceeded
        /\ InPlaybook("loop", "remove")
        /\ UNCHANGED <<stage, file, faults>>
     \/ /\ \/ file \in {"absent", "error"} /\ UNCHANGED faults
           \/ Fault("exec")
        /\ InPlaybook("loop", "loop")
        /\ stage' = RetryStage /\ file' = "absent"
  /\ UNCHANGED <<info, bundle, pushes, members>>

\* removeSHCBundlePushStatusFile
ShcRemoveFile ==
  /\ \/ /\ InPlaybook("remove", "complete")
        /\ file' = "absent" /\ UNCHANGED <<stage, faults>>
     \/ /\ InPlaybook("remove", "loop")
        /\ Fault("exec") /\ stage' = "InProgress" /\ UNCHANGED file
  /\ UNCHANGED <<info, bundle, pushes, members>>

\* setBundlePushState and setInstallStateForClusterScopedApps
BundlePushDone ==
  /\ InPlaybook("complete", "loop")
  /\ stage' = "Complete"
  /\ info' = [a \in Apps |-> IF a \in ClusterApps /\ info[a] = "copied"
                             THEN "installed" ELSE info[a]]
  /\ UNCHANGED <<cluster, faults>>

-----------------------------------------------------------------------------
(* Splunk and the operator process.                                        *)

\* A push ends; on the deployer its output is the status file's content, and
\* the cluster manager keeps the result of the last validation.
PushEnds ==
  \E content \in pushes :
    /\ pushes' = pushes \ {content}
    /\ \/ /\ members' = members \cup content
          /\ file' = IF IsShc /\ file # "absent" THEN "success" ELSE "absent"
          /\ UNCHANGED faults
       \/ /\ Fault("push")
          /\ file' = IF IsShc /\ file = "absent" THEN file ELSE "error"
          /\ UNCHANGED members
    /\ UNCHANGED <<kind, status, saved, entry, revisit, bundle>>

\* The operator restarts and reads the status back.
Crash ==
  /\ Fault("crash")
  /\ info' = saved.info /\ stage' = saved.stage /\ inProgress' = saved.inProgress
  /\ sched' = "idle" /\ revisit' = TRUE /\ queue' = {} /\ running' = {}
  /\ es' = [a \in EsApps |-> "none"] /\ pc' = "loop" /\ clock' = "runs"
  /\ UNCHANGED <<kind, saved, cluster>>

Playbook == PlaybookEnds \/ TriggerBundlePush \/ BundlePushStarted
            \/ IdxcCheck \/ ShcCheck \/ ShcRemoveFile \/ BundlePushDone
Es(a) == EsStart(a) \/ EsInstall(a) \/ EsCleanup(a) \/ EsFlag(a) \/ EsDrop(a)

Next ==
  \/ SchedulerEntry \/ Yield \/ SchedulerExit \/ TimePasses
  \/ \E a \in ClusterApps : Copy(a)
  \/ \E a \in EsApps : Es(a)
  \/ Playbook \/ PushEnds \/ Crash

Spec == Init /\ [][Next]_vars

\* The goroutines run, a requested reconcile comes and a push ends.  From
\* some time on the yield interval, of 30 s at least, only ends while the
\* playbook polls and nothing changes, and no copy outlasts it.
Fairness ==
  /\ WF_vars(revisit /\ SchedulerEntry) /\ WF_vars(Yield)
  /\ WF_vars(SchedulerExit) /\ WF_vars(TimePasses)
  /\ \A a \in ClusterApps : WF_vars(Copy(a))
  /\ \A a \in EsApps : WF_vars(Es(a))
  /\ WF_vars(Playbook) /\ WF_vars(PushEnds)
FairSpec ==
  /\ Spec /\ Fairness
  /\ <>[][/\ TimePasses => ~ENABLED <<Playbook>>_vars
          /\ Yield => queue = {}]_vars

-----------------------------------------------------------------------------
(* Properties.                                                             *)

\* Every variable has its type.
TypeOK ==
  /\ kind \in Kinds
  /\ info \in [Apps -> {"pending", "copied", "installed", "failed"}]
  /\ stage \in Stages /\ inProgress \in BOOLEAN
  /\ saved \in [info : [Apps -> {"pending", "copied", "installed", "failed"}],
                stage : Stages, inProgress : BOOLEAN]
  /\ sched \in {"idle", "working", "playbook", "waiting"}
  /\ revisit \in BOOLEAN /\ clock \in {"runs", "lastSecond", "over"}
  /\ queue \subseteq Apps /\ running \subseteq ClusterApps
  /\ es \in [EsApps -> {"none", "run", "cleanup", "flag"}]
  /\ pc \in {"loop", "started", "remove", "complete"}
  /\ bundle \subseteq Apps /\ members \subseteq Apps
  /\ pushes \subseteq SUBSET Apps
  /\ file \in {"absent", "empty", "success", "error"}
  /\ faults \in [n : 0 .. MaxFaults, seen : SUBSET Limits]

\* None of Limits has happened.
Recoverable == faults.seen = {}

\* A cluster scoped app is marked as installed only when the members of the
\* cluster have received it (setInstallStateForClusterScopedApps), whatever
\* fails but for Limits.
InstalledIsPushed ==
  Recoverable => \A a \in ClusterApps : info[a] = "installed" \/ saved.info[a] = "installed"
                                       => a \in members

\* The peers have refused the bundle: its validation failed on the cluster
\* manager.  isBundlePushComplete never returns true then and nothing triggers
\* another push, so the stage stays InProgress (a known limit).
Refused == ~IsShc /\ file = "error"

\* Every cluster scoped app reaches the members, unless its retries are
\* used up or the bundle is Refused, and so does Enterprise Security, whatever
\* fails but for Limits.
EventuallyPushed ==
  /\ \A a \in ClusterApps :
       <>(~Recoverable \/ Refused \/ a \in members \/ info[a] = "failed")
  /\ \A a \in EsApps : <>(~Recoverable \/ ~IsShc \/ a \in members)

\* Whatever fails, the stages of the bundle push lead to an end, and the app
\* framework comes to rest with nothing in progress, unless the bundle stays
\* Refused: a failed command, copy, push of a deployer, cleanup or entry, a
\* restart and a race with the yield timer do not keep it busy for ever.
ComesToRest == <>[](Refused \/ (~revisit /\ ~inProgress))
=============================================================================
