----------------------------- MODULE AppPipeline -----------------------------
(***************************************************************************)
(* The app framework scheduler of one custom resource                      *)
(* (pkg/splunk/enterprise/afwscheduler.go).  A reconcile enters            *)
(* afwSchedulerEntry, which starts three phase managers (download, pod     *)
(* copy, install).  A manager polls its queue of workers and hands the     *)
(* eligible ones to its handler over a channel; the handler starts one     *)
(* goroutine per worker.  A yield watcher ends the entry, the status of    *)
(* the CR is written back, and a later reconcile enters again.             *)
(*                                                                         *)
(* Local and premium scoped apps are modelled here; the cluster scoped     *)
(* ones, which end in a bundle push, are in BundlePush.                    *)
(***************************************************************************)
EXTENDS Naturals, FiniteSets

CONSTANTS
  Apps,           \* app packages of the CR's app sources
  PremiumApps,    \* the ones of a premiumApps source (Enterprise Security)
  Replicas,       \* pods of the statefulset
  FanOut,         \* TRUE for Standalone and IngestorCluster
  MaxRetries,     \* phaseMaxRetries of the spec
  MaxConcurrent,  \* maxConcurrentAppDownloads: run pool of two of the phases
  PromptExit,     \* TRUE: a goroutine that set its final status runs its
                  \* deferred function before a manager visits its worker
  FaultKinds,     \* the faults no FailCount records that may happen
  MaxFaults,      \* bound: how often they happen
  MaxCrashes      \* bound: operator restarts

ASSUME PipelineAssumption ==
  /\ PremiumApps \subseteq Apps
  /\ Replicas \in Nat \ {0}
  /\ FanOut \in BOOLEAN
  /\ ~FanOut => Replicas = 1
  /\ MaxRetries \in Nat
  /\ MaxConcurrent \in Nat \ {0}
  /\ PromptExit \in BOOLEAN
  /\ FaultKinds \subseteq {"mkdir", "storage", "exec", "operatorPkg", "podPkg"}
  /\ MaxFaults \in Nat
  /\ MaxCrashes \in Nat

Pods == 0 .. Replicas - 1
Phases == {"download", "podCopy", "install"}

\* PipelineWorker: fanOut marks the seed a fan-out CR downloads with.
Workers == [app : Apps, pod : Pods, fanOut : BOOLEAN]

Statuses ==
  {"None", "DownloadPending", "DownloadInProgress", "DownloadComplete",
   "DownloadError", "PodCopyPending", "PodCopyComplete",
   "MissingFromOperator", "PodCopyError", "InstallPending",
   "InstallComplete", "MissingOnPodError", "InstallError"}

PhaseInfo == [phase : Phases \cup {"none"}, status : Statuses, fail : Nat]

\* An AuxPhaseInfo that was not allocated yet.
NoInfo == [phase |-> "none", status |-> "None", fail |-> 0]

VARIABLES
  main,        \* status: PhaseInfo of each app
  aux,         \* status: AuxPhaseInfo of each app, one entry per pod
  inProgress,  \* status: IsDeploymentInProgress
  saved,       \* the status held by the API server
  opPkg,       \* is the package on the operator's volume
  podPkg,      \* is the package in the staging directory of the pod
  installed,   \* is the app installed in the pod's Splunk
  sched,       \* the reconcile: "idle", "running" or "panicked"
  revisit,     \* does the scheduler ask for another entry
  sigTerm,     \* has the yield watcher closed the termination channel
  q,           \* per phase, the workers in its queue
  chan,        \* per phase, the workers in msgChannel
  mgr,         \* per phase, "loop", "stopped" or "done"
  sent,        \* per phase, workers sent but not yet marked active
  isActive,    \* per worker
  waiter,      \* per worker, the phase whose WaitGroup it will call, or "nil"
  wg,          \* per phase, the workerWaiter counter
  gor,         \* per phase and worker, where its goroutine is
  slots,       \* pods whose install slot is taken
  faults,      \* faults so far
  crashes      \* restarts so far

status == <<main, aux, inProgress>>
world == <<opPkg, podPkg, installed>>
pipeline == <<q, chan, mgr, sent, isActive, waiter, wg, gor, slots>>
control == <<sched, revisit, sigTerm>>
budget == <<faults, crashes>>
vars == <<status, saved, world, pipeline, control, budget>>

-----------------------------------------------------------------------------
(* Phase information.                                                      *)

CompleteOf == [download |-> "DownloadComplete", podCopy |-> "PodCopyComplete",
               install |-> "InstallComplete", none |-> "None"]
PendingOf == [download |-> "DownloadPending", podCopy |-> "PodCopyPending",
              install |-> "InstallPending", none |-> "None"]

\* setContextForNewPhase
NewPhase(ph) == [phase |-> ph, status |-> PendingOf[ph], fail |-> 0]

\* setPhaseStatusToPending
ToPending(info) == [info EXCEPT !.status = PendingOf[info.phase]]

\* The ways a manager, a handler or a goroutine records an outcome.
WithStatus(info, st) == [info EXCEPT !.status = st]
Succeeded(info, st) == [info EXCEPT !.status = st, !.fail = 0]
FailedOnceDown(info) == [info EXCEPT !.fail = @ - 1]
FailedOnce(info) == [info EXCEPT !.fail = @ + 1]
InstallAs(info, st) == [info EXCEPT !.phase = "install", !.status = st]

MaxRetriesReachedLate(info) == info.fail > MaxRetries + 1
MaxRetriesReached(info) == info.fail > MaxRetries

StatusComplete(info) == info.status = CompleteOf[info.phase]

\* isPhaseInfoEligibleForSchedulerEntry
EligibleForEntry(info) ==
  /\ ~MaxRetriesReached(info)
  /\ ~(info.phase = "install" /\ info.status = "InstallComplete")

HasAux(a) == aux[a][0].phase # "none"

\* getPhaseInfoByPhaseType: the entry of the pod, except while downloading.
Info(w, ph) == IF FanOut /\ ph # "download" THEN aux[w.app][w.pod]
                                            ELSE main[w.app]

SetInfo(w, ph, info) ==
  IF FanOut /\ ph # "download"
  THEN /\ aux' = [aux EXCEPT ![w.app][w.pod] = info]
       /\ UNCHANGED main
  ELSE /\ main' = [main EXCEPT ![w.app] = info]
       /\ UNCHANGED aux

InstalledOnSomeReplica(auxOfApp) ==
  \E p \in Pods : auxOfApp[p].status = "InstallComplete"
InstalledOnAllReplicas(auxOfApp) ==
  \A p \in Pods : auxOfApp[p].phase = "install"
                  /\ auxOfApp[p].status = "InstallComplete"

PipelineEmptyButPodCopy == q["download"] = {} /\ q["install"] = {}
PipelineEmpty == \A ph \in Phases : q[ph] = {}

-----------------------------------------------------------------------------
(* Init: the app repository was just listed and every app waits for its    *)
(* download (handleAppRepoChanges).                                        *)

Init ==
  /\ main = [a \in Apps |-> NewPhase("download")]
  /\ aux = [a \in Apps |-> [p \in Pods |-> NoInfo]]
  /\ inProgress = TRUE
  /\ saved = [main |-> main, aux |-> aux, inProgress |-> inProgress]
  /\ opPkg = [a \in Apps |-> FALSE]
  /\ podPkg = [a \in Apps |-> [p \in Pods |-> FALSE]]
  /\ installed = [a \in Apps |-> [p \in Pods |-> FALSE]]
  /\ sched = "idle" /\ revisit = TRUE /\ sigTerm = FALSE
  /\ q = [ph \in Phases |-> {}]
  /\ chan = [ph \in Phases |-> {}] /\ sent = [ph \in Phases |-> {}]
  /\ mgr = [ph \in Phases |-> "done"]
  /\ isActive = [w \in Workers |-> FALSE]
  /\ waiter = [w \in Workers |-> "nil"]
  /\ wg = [ph \in Phases |-> 0]
  /\ gor = [ph \in Phases |-> [w \in Workers |-> "none"]]
  /\ slots = {}
  /\ faults = 0 /\ crashes = 0

-----------------------------------------------------------------------------
(* The scheduler: entry, yield, shutdown, exit.                            *)

\* An error of the environment that no FailCount records.
Fault(kind) == /\ kind \in FaultKinds /\ faults < MaxFaults
               /\ faults' = faults + 1 /\ UNCHANGED crashes

\* The pipeline of an entry is gone, goroutines excepted: initAppInstallPipeline
\* builds a new one on the next entry.
DropPipeline ==
  /\ q' = [ph \in Phases |-> {}]
  /\ chan' = [ph \in Phases |-> {}] /\ sent' = [ph \in Phases |-> {}]
  /\ mgr' = [ph \in Phases |-> "done"]
  /\ isActive' = [w \in Workers |-> FALSE]
  /\ waiter' = [w \in Workers |-> "nil"]
  /\ wg' = [ph \in Phases |-> 0] /\ slots' = {}

\* The worker createAndAddPipelineWorker makes: the applicable pod is pod 0.
EntryWorker(a) == [app |-> a, pod |-> 0, fanOut |-> FanOut]

\* afwSchedulerEntry: a fresh pipeline, running managers and a worker for
\* every app with pending work.  When a directory cannot be created on a
\* pod, the loop over the app sources ends early.
SchedulerEntry ==
  /\ sched = "idle"
  /\ LET pending == {a \in Apps : EligibleForEntry(main[a])} IN
     \E picked \in SUBSET pending :
        /\ \/ picked = pending /\ UNCHANGED budget
           \/ picked # pending /\ Fault("mkdir")
        /\ q' = [ph \in Phases |->
                   {EntryWorker(a) : a \in {b \in picked : main[b].phase = ph}}]
  /\ mgr' = [ph \in Phases |-> "loop"]
  /\ sched' = "running" /\ sigTerm' = FALSE
  /\ UNCHANGED <<status, saved, world, revisit, chan, sent, isActive, waiter,
                 wg, gor, slots>>

\* afwYieldWatcher: the yield timer may fire at any time, and the watcher
\* ends the entry as soon as it sees every queue empty.
YieldWatcher ==
  /\ sched = "running" /\ ~sigTerm
  /\ sigTerm' = TRUE
  /\ UNCHANGED <<status, saved, world, pipeline, sched, revisit, budget>>

\* The labelled break leaves the loop of the manager, not only the select.
BreakSelect(ph) == UNCHANGED mgr
BreakLoop(ph) == mgr' = [mgr EXCEPT ![ph] = "stopped"]

\* A manager that sees sigTerm leaves its loop and closes its channel.
ManagerStop(ph) ==
  /\ sched = "running" /\ sigTerm /\ mgr[ph] = "loop" /\ sent[ph] = {}
  /\ BreakLoop(ph)
  /\ UNCHANGED <<status, saved, world, q, chan, sent, isActive, waiter, wg,
                 gor, slots, control, budget>>

WorkersIgnored(ph) == ph \in Phases
WorkersFinished(ph) == wg[ph] = 0

\* The handler drained the closed channel and workerWaiter.Wait returned;
\* shutdownPipelinePhase marks the phase as done.
PhaseDone(ph) ==
  /\ sched = "running" /\ mgr[ph] = "stopped" /\ chan[ph] = {}
  /\ WorkersFinished(ph)
  /\ mgr' = [mgr EXCEPT ![ph] = "done"]
  /\ UNCHANGED <<status, saved, world, q, chan, sent, isActive, waiter, wg,
                 gor, slots, control, budget>>

\* End of afwSchedulerEntry (checkAndUpdateAppFrameworkProgressFlag and
\* needToRevisitAppFramework) and of the reconcile, whose deferred
\* updateCRStatus writes the status.
SchedulerExit ==
  /\ sched = "running" /\ sigTerm /\ \A ph \in Phases : mgr[ph] = "done"
  /\ inProgress' = (inProgress /\ ~PipelineEmpty)
  /\ revisit' = (~PipelineEmpty \/ inProgress')
  /\ saved' = [main |-> main, aux |-> aux, inProgress |-> inProgress']
  /\ sched' = "idle"
  /\ DropPipeline
  /\ UNCHANGED <<main, aux, world, sigTerm, gor, budget>>

-----------------------------------------------------------------------------
(* The phase managers.                                                     *)

\* A manager looks at one worker of its queue.
Visits(ph, w) ==
  /\ sched = "running" /\ mgr[ph] = "loop" /\ sent[ph] = {} /\ w \in q[ph]

\* The deferred function of the worker's goroutine has run.
Settled(w) == PromptExit => \A ph \in Phases : gor[ph][w] # "exit"

\* Retries exhausted: record the error and drop the worker.  The worker is
\* looked for in the queue of the phase recorded in its phase info.
GiveUp(ph, w) ==
  /\ Visits(ph, w) /\ Settled(w)
  /\ MaxRetriesReached(Info(w, ph))
  /\ \/ /\ ph \in {"download", "podCopy"}
        /\ main' = [main EXCEPT ![w.app] =
                      WithStatus(@, IF ph = "download" THEN "DownloadError"
                                                       ELSE "PodCopyError")]
        /\ UNCHANGED aux
     \/ /\ ph = "install" /\ FanOut
        /\ aux' = [aux EXCEPT ![w.app][w.pod] = WithStatus(@, "InstallError")]
        /\ main' = [main EXCEPT ![w.app] = InstallAs(@, "InstallError")]
     \/ /\ ph = "install" /\ ~FanOut
        /\ main' = [main EXCEPT ![w.app] = WithStatus(@, "InstallError")]
        /\ UNCHANGED aux
  /\ q' = [q EXCEPT ![Info(w, ph).phase] = @ \ {w}]
  /\ UNCHANGED <<inProgress, saved, world, chan, mgr, sent, isActive, waiter,
                 wg, gor, slots, control, budget>>

\* createFanOutWorker
FanOutWorker(w, p) == [w EXCEPT !.pod = p, !.fanOut = FALSE]

\* The pods whose work an earlier entry left unfinished.
InstallsNotResumed(a) ==
  {p \in Pods : EligibleForEntry(aux[a][p]) /\ aux[a][p].phase # "install"}
ReplicasToResume(a) == {p \in Pods : EligibleForEntry(aux[a][p])}

\* transitionWorkerPhase for the seed of a fan-out CR leaving download.
FanOutFromDownload(w) ==
  /\ UNCHANGED main
  /\ IF ~HasAux(w.app)
     THEN /\ aux' = [aux EXCEPT ![w.app] =
                       [p \in Pods |-> NewPhase("podCopy")]]
          /\ q' = [q EXCEPT !["podCopy"] =
                              @ \cup {FanOutWorker(w, p) : p \in Pods},
                            !["download"] = @ \ {w}]
     ELSE LET todo == ReplicasToResume(w.app)
              In(ph) == {FanOutWorker(w, p) :
                           p \in {r \in todo : aux[w.app][r].phase = ph}}
          IN /\ aux' = [aux EXCEPT ![w.app] =
                          [p \in Pods |-> IF p \in todo
                                          THEN ToPending(aux[w.app][p])
                                          ELSE aux[w.app][p]]]
             /\ q' = [q EXCEPT !["podCopy"] = @ \cup In("podCopy"),
                               !["install"] = @ \cup In("install"),
                               !["download"] = @ \ {w}]

\* transitionWorkerPhase
TransitionWorker(w, current, next) ==
  /\ isActive' = [isActive EXCEPT ![w] = FALSE]
  /\ waiter' = [waiter EXCEPT ![w] = "nil"]
  /\ \/ w.fanOut /\ current = "download" /\ FanOutFromDownload(w)
     \/ /\ w.fanOut /\ current # "download"       \* only logged
        /\ q' = [q EXCEPT ![current] = @ \ {w}]
        /\ UNCHANGED <<main, aux>>
     \/ /\ ~w.fanOut
        /\ IF FanOut
           THEN /\ aux' = [aux EXCEPT ![w.app][w.pod] = NewPhase(next)]
                /\ UNCHANGED main
           ELSE /\ main' = [main EXCEPT ![w.app] = NewPhase(next)]
                /\ UNCHANGED aux
        /\ q' = [q EXCEPT ![next] = @ \cup {w}, ![current] = @ \ {w}]

\* The phase is complete: move on, or drop an installed worker.
Advance(ph, w) ==
  /\ Visits(ph, w) /\ Settled(w)
  /\ ~MaxRetriesReached(Info(w, ph)) /\ StatusComplete(Info(w, ph))
  /\ \/ ph = "download" /\ TransitionWorker(w, "download", "podCopy")
     \/ ph = "podCopy" /\ TransitionWorker(w, "podCopy", "install")
     \/ /\ ph = "install"
        /\ q' = [q EXCEPT ![Info(w, ph).phase] = @ \ {w}]
        /\ UNCHANGED <<main, aux, isActive, waiter>>
  /\ UNCHANGED <<inProgress, saved, world, chan, mgr, sent, wg, gor, slots,
                 control, budget>>

\* The package is not where the phase needs it: go back one phase.
MoveBack(ph, w) ==
  /\ Visits(ph, w) /\ Settled(w)
  /\ ~MaxRetriesReached(Info(w, ph))
  /\ \/ /\ ph = "podCopy" /\ Info(w, ph).status = "MissingFromOperator"
        /\ TransitionWorker(w, "podCopy", "download")
     \/ /\ ph = "install" /\ Info(w, ph).status = "MissingOnPodError"
        /\ TransitionWorker(w, "install", "podCopy")
  /\ UNCHANGED <<inProgress, saved, world, chan, mgr, sent, wg, gor, slots,
                 control, budget>>

\* Statuses the manager acts on before it considers running the worker.
HandledFirst == [download |-> {}, podCopy |-> {"MissingFromOperator"},
                 install |-> {"MissingOnPodError"}]

\* checkIfWorkerIsEligibleForRun, but for the retries and the status
ActiveIgnored(w) == w \in Workers
NotActive(w) == ~isActive[w]

\* getInstallSlotForPod
SlotIgnored(w) == w.pod \in Pods
SlotFree(w) == w.pod \notin slots

SetWaiter(w, ph) == waiter' = [waiter EXCEPT ![w] = ph]

ChannelSize(ph) == IF ph = "install" THEN Replicas ELSE 1

\* Hand an eligible worker to the handler; an install worker also needs the
\* install slot of its pod.  The worker is marked active after the send.
Dispatch(ph, w) ==
  /\ Visits(ph, w)
  /\ LET info == Info(w, ph) IN
       /\ ~MaxRetriesReached(info) /\ ~StatusComplete(info)
       /\ info.status \notin HandledFirst[ph] \cup {CompleteOf[ph]}
  /\ NotActive(w)
  /\ Cardinality(chan[ph]) < ChannelSize(ph)
  /\ \/ ph = "install" /\ SlotFree(w) /\ slots' = slots \cup {w.pod}
     \/ ph # "install" /\ UNCHANGED slots
  /\ SetWaiter(w, ph)
  /\ chan' = [chan EXCEPT ![ph] = @ \cup {w}]
  /\ sent' = [sent EXCEPT ![ph] = {w}]
  /\ UNCHANGED <<status, saved, world, q, mgr, isActive, wg, gor, control,
                 budget>>

MarkActive(ph) ==
  /\ sched = "running"
  /\ \E w \in sent[ph] :
       /\ isActive' = [isActive EXCEPT ![w] = TRUE]
       /\ sent' = [sent EXCEPT ![ph] = {}]
  /\ UNCHANGED <<status, saved, world, q, chan, mgr, waiter, wg, gor, slots,
                 control, budget>>

-----------------------------------------------------------------------------
(* The worker handlers.                                                    *)

Running(ph) == {w \in Workers : gor[ph][w] # "none"}

\* The handler takes a worker out of the channel; download and pod copy
\* first take a place in the run pool.
Receives(ph, w) ==
  /\ sched = "running" /\ w \in chan[ph] /\ gor[ph][w] = "none"
  /\ ph # "install" => Cardinality(Running(ph)) < MaxConcurrent
  /\ chan' = [chan EXCEPT ![ph] = @ \ {w}]

\* waiter.Add(1) and the go statement.  Calling Add through a nil waiter
\* ends the operator process.
StartGoroutine(ph, w) ==
  IF waiter[w] = "nil"
  THEN sched' = "panicked" /\ UNCHANGED <<wg, gor>>
  ELSE /\ wg' = [wg EXCEPT ![waiter[w]] = @ + 1]
       /\ gor' = [gor EXCEPT ![ph][w] = "run"]
       /\ UNCHANGED sched

\* downloadWorkerHandler.  Of its early exits only the failed storage
\* reservation marks the worker as not active again.
HandleDownload(w) ==
  /\ Receives("download", w)
  /\ \/ /\ opPkg[w.app]                                 \* already downloaded
        /\ main' = [main EXCEPT ![w.app] = Succeeded(@, "DownloadComplete")]
        /\ UNCHANGED <<isActive, wg, gor, sched, budget>>
     \/ /\ ~opPkg[w.app] /\ Fault("storage")                       \* no storage
        /\ isActive' = [isActive EXCEPT ![w] = FALSE]
        /\ UNCHANGED <<main, wg, gor, sched>>
     \/ /\ ~opPkg[w.app]          \* no directory, or no remote data client
        /\ \E st \in {"DownloadPending", "DownloadError"} :
             main' = [main EXCEPT ![w.app] = WithStatus(FailedOnce(@), st)]
        /\ UNCHANGED <<isActive, wg, gor, sched, budget>>
     \/ /\ ~opPkg[w.app]
        /\ main' = [main EXCEPT ![w.app] = WithStatus(@, "DownloadInProgress")]
        /\ StartGoroutine("download", w)
        /\ UNCHANGED <<isActive, budget>>
  /\ UNCHANGED <<aux, inProgress, saved, world, q, mgr, sent, waiter, slots,
                 revisit, sigTerm>>

\* podCopyWorkerHandler and installWorkerHandler
HandleOther(ph, w) ==
  /\ ph # "download"
  /\ Receives(ph, w)
  /\ StartGoroutine(ph, w)
  /\ UNCHANGED <<status, saved, world, q, mgr, sent, isActive, waiter, slots,
                 revisit, sigTerm, budget>>

-----------------------------------------------------------------------------
(* The worker goroutines.                                                  *)

Works(ph, w, at, next) ==
  /\ sched = "running" /\ gor[ph][w] = at
  /\ gor' = [gor EXCEPT ![ph][w] = next]
  /\ UNCHANGED <<inProgress, saved, q, chan, mgr, sent, isActive, waiter, wg,
                 slots, control>>

\* (downloadWorker).download; a failed download removes the local file.
Download(w) ==
  /\ Works("download", w, "run", "exit")
  /\ \E ok \in BOOLEAN :
       /\ opPkg' = [opPkg EXCEPT ![w.app] = ok]
       /\ main' = [main EXCEPT ![w.app] =
                     IF ok THEN Succeeded(@, "DownloadComplete")
                           ELSE WithStatus(FailedOnce(@), "DownloadPending")]
  /\ UNCHANGED <<aux, podPkg, installed, budget>>

\* runPodCopyWorker
PodCopy(w) ==
  /\ Works("podCopy", w, "run", "exit")
  /\ LET info == Info(w, "podCopy") IN
     \/ /\ ~opPkg[w.app]
        /\ SetInfo(w, "podCopy", WithStatus(info, "MissingFromOperator"))
        /\ UNCHANGED podPkg
     \/ /\ opPkg[w.app]
        /\ SetInfo(w, "podCopy", FailedOnce(info))
        /\ UNCHANGED podPkg
     \/ /\ opPkg[w.app]
        /\ podPkg' = [podPkg EXCEPT ![w.app][w.pod] = TRUE]
        /\ SetInfo(w, "podCopy", WithStatus(info, "PodCopyComplete"))
  /\ UNCHANGED <<opPkg, installed, budget>>

\* markWorkerPhaseInstallationComplete
MarkInstallComplete(w) ==
  LET done == Succeeded(Info(w, "install"), "InstallComplete")
      auxOfApp == [aux[w.app] EXCEPT ![w.pod] = done]
  IN IF FanOut
     THEN /\ aux' = [aux EXCEPT ![w.app] = auxOfApp]
          /\ main' = IF InstalledOnAllReplicas(auxOfApp)
                     THEN [main EXCEPT ![w.app] =
                                         InstallAs(@, "InstallComplete")]
                     ELSE main
     ELSE main' = [main EXCEPT ![w.app] = done] /\ UNCHANGED aux

\* The package is not in the staging directory of the pod.
MissingIsInstalled(info) == WithStatus(info, "InstallComplete")
MissingOnPod(info) == WithStatus(info, "MissingOnPodError")

\* installApp with a result that is not success.
InstallFails(w) ==
  /\ Works("install", w, "run", "exit")
  /\ LET info == Info(w, "install") IN
     \/ /\ ~podPkg[w.app][w.pod]
        /\ SetInfo(w, "install", MissingOnPod(info))
        /\ UNCHANGED budget
     \/ /\ podPkg[w.app][w.pod]                 \* the install command failed
        /\ SetInfo(w, "install", FailedOnce(info))
        /\ UNCHANGED budget
     \/ /\ podPkg[w.app][w.pod] /\ Fault("exec")  \* a query before it failed
        /\ UNCHANGED <<main, aux>>
  /\ UNCHANGED world

\* installApp succeeds, or finds the app installed already.
InstallSucceeds(w) ==
  /\ podPkg[w.app][w.pod]
  /\ installed' = [installed EXCEPT ![w.app][w.pod] = TRUE]
  /\ \/ /\ w.app \notin PremiumApps
        /\ Works("install", w, "run", "cleanup")
        /\ MarkInstallComplete(w)
     \/ /\ w.app \in PremiumApps
        /\ Works("install", w, "run", "post")
        /\ UNCHANGED <<main, aux>>
  /\ UNCHANGED <<opPkg, podPkg, budget>>

\* handleEsappPostinstall
PostInstall(w) ==
  /\ \/ /\ Works("install", w, "post", "cleanup")
        /\ MarkInstallComplete(w)
     \/ /\ Works("install", w, "post", "exit")
        /\ SetInfo(w, "install", FailedOnce(Info(w, "install")))
  /\ UNCHANGED <<world, budget>>

CleanupAlways(a) == a \in Apps
CleanupAllowed(a) == ~FanOut \/ InstalledOnAllReplicas(aux[a])

\* cleanupApp and tryAppPkgCleanupFromOperatorPod
Cleanup(w) ==
  /\ Works("install", w, "cleanup", "exit")
  /\ \/ Fault("exec") /\ UNCHANGED <<opPkg, podPkg>>
     \/ /\ podPkg' = [podPkg EXCEPT ![w.app][w.pod] = FALSE]
        /\ opPkg' = [opPkg EXCEPT ![w.app] =
                              @ /\ ~CleanupAllowed(w.app)]
        /\ UNCHANGED budget
  /\ UNCHANGED <<main, aux, installed>>

\* The deferred function: give the slot back, clear isActive and call
\* waiter.Done.  A nil waiter or a counter below zero ends the process.
Exit(ph, w) ==
  /\ sched = "running" /\ gor[ph][w] = "exit"
  /\ gor' = [gor EXCEPT ![ph][w] = "none"]
  /\ isActive' = [isActive EXCEPT ![w] = FALSE]
  /\ slots' = IF ph = "install" THEN slots \ {w.pod} ELSE slots
  /\ IF waiter[w] = "nil" \/ wg[waiter[w]] = 0
     THEN sched' = "panicked" /\ UNCHANGED wg
     ELSE wg' = [wg EXCEPT ![waiter[w]] = @ - 1] /\ UNCHANGED sched
  /\ UNCHANGED <<status, saved, world, q, chan, mgr, sent, waiter, revisit,
                 sigTerm, budget>>

-----------------------------------------------------------------------------
(* The environment.                                                        *)

\* A package vanishes from the operator's volume or from a pod.
LosePackage ==
  /\ \E a \in Apps :
     \/ /\ Fault("operatorPkg") /\ opPkg[a]
        /\ opPkg' = [opPkg EXCEPT ![a] = FALSE]
        /\ UNCHANGED podPkg
     \/ /\ Fault("podPkg")
        /\ \E p \in Pods : /\ podPkg[a][p]
                           /\ podPkg' = [podPkg EXCEPT ![a][p] = FALSE]
        /\ UNCHANGED opPkg
  /\ UNCHANGED <<status, saved, installed, pipeline, control>>

\* The operator restarts: only the saved status, the packages and the
\* pods survive, and the CR is reconciled again.
Crash ==
  /\ crashes < MaxCrashes /\ crashes' = crashes + 1
  /\ main' = saved.main /\ aux' = saved.aux /\ inProgress' = saved.inProgress
  /\ sched' = "idle" /\ revisit' = TRUE /\ sigTerm' = FALSE
  /\ DropPipeline /\ gor' = [ph \in Phases |-> [w \in Workers |-> "none"]]
  /\ UNCHANGED <<saved, world, faults>>

-----------------------------------------------------------------------------
Manage(ph, w) == GiveUp(ph, w) \/ Advance(ph, w) \/ MoveBack(ph, w)
                 \/ Dispatch(ph, w)
Handle(ph, w) == (ph = "download" /\ HandleDownload(w)) \/ HandleOther(ph, w)
Work(w) == Download(w) \/ PodCopy(w) \/ InstallFails(w) \/ InstallSucceeds(w)
           \/ PostInstall(w) \/ Cleanup(w)

Next ==
  \/ SchedulerEntry \/ YieldWatcher \/ SchedulerExit
  \/ \E ph \in Phases : ManagerStop(ph) \/ PhaseDone(ph) \/ MarkActive(ph)
  \/ \E ph \in Phases, w \in Workers : Manage(ph, w) \/ Handle(ph, w)
                                       \/ Exit(ph, w)
  \/ \E w \in Workers : Work(w)
  \/ LosePackage \/ Crash

Spec == Init /\ [][Next]_vars

-----------------------------------------------------------------------------
(* Fairness: the goroutines keep running and a requested reconcile comes.  *)
(* A manager polls every 200 ms and the yield interval is 30 s at least,   *)
(* so from some time on the timer finds every due visit of a worker made;  *)
(* the downloads, copies and installs may take longer than the interval.   *)

Fairness ==
  /\ WF_vars(revisit /\ SchedulerEntry) /\ WF_vars(YieldWatcher)
  /\ WF_vars(SchedulerExit)
  /\ \A ph \in Phases : /\ WF_vars(ManagerStop(ph)) /\ WF_vars(PhaseDone(ph))
                        /\ WF_vars(MarkActive(ph))
  /\ \A ph \in Phases, w \in Workers : /\ WF_vars(Manage(ph, w))
                                       /\ WF_vars(Handle(ph, w))
                                       /\ WF_vars(Exit(ph, w))
  /\ \A w \in Workers : WF_vars(Work(w))

VisitDue == \E ph \in Phases, w \in Workers : ENABLED <<Manage(ph, w)>>_vars

FairSpec == Spec /\ Fairness /\ <>[][YieldWatcher => ~VisitDue]_vars

\* The work of a phase, too, ends within the yield interval.
Quiet == /\ ~VisitDue
         /\ \A ph \in Phases : chan[ph] = {} /\ sent[ph] = {} /\ Running(ph) = {}
QuickSpec == Spec /\ Fairness /\ <>[][YieldWatcher => Quiet]_vars

-----------------------------------------------------------------------------
(* Properties.                                                             *)

\* Every variable has its type.
TypeOK ==
  /\ main \in [Apps -> PhaseInfo]
  /\ aux \in [Apps -> [Pods -> PhaseInfo]]
  /\ inProgress \in BOOLEAN
  /\ saved \in [main : [Apps -> PhaseInfo], aux : [Apps -> [Pods -> PhaseInfo]],
                inProgress : BOOLEAN]
  /\ opPkg \in [Apps -> BOOLEAN]
  /\ podPkg \in [Apps -> [Pods -> BOOLEAN]]
  /\ installed \in [Apps -> [Pods -> BOOLEAN]]
  /\ sched \in {"idle", "running", "panicked"}
  /\ revisit \in BOOLEAN /\ sigTerm \in BOOLEAN
  /\ q \in [Phases -> SUBSET Workers]
  /\ chan \in [Phases -> SUBSET Workers]
  /\ sent \in [Phases -> SUBSET Workers]
  /\ mgr \in [Phases -> {"loop", "stopped", "done"}]
  /\ isActive \in [Workers -> BOOLEAN]
  /\ waiter \in [Workers -> Phases \cup {"nil"}]
  /\ wg \in [Phases -> Nat]
  /\ gor \in [Phases -> [Workers -> {"none", "run", "post", "cleanup", "exit"}]]
  /\ slots \subseteq Pods
  /\ faults \in Nat /\ crashes \in Nat

\* At most one install runs on a pod at any time, whatever the number of
\* apps waiting for it (maxParallelInstallsPerPod = 1; "semaphore to track
\* only one app install at any time for a given replicaset pod").
InstallSlotExclusive ==
  \A v, w \in Workers :
    gor["install"][v] # "none" /\ gor["install"][w] # "none" /\ v.pod = w.pod
      => v = w

\* A worker that is running is not in the channel again, and no app is
\* copied to and installed on the same pod by two goroutines at once:
\* isActive prevents "running the same playbook multiple times".
NoDoubleRun ==
  /\ \A ph \in Phases, w \in Workers : w \in chan[ph] => gor[ph][w] = "none"
  /\ \A ph1, ph2 \in Phases \ {"download"}, v, w \in Workers :
       gor[ph1][v] # "none" /\ gor[ph2][w] # "none" /\ v.app = w.app
         /\ v.pod = w.pod => ph1 = ph2 /\ v = w

\* An app whose status says it is installed, in memory or as stored by the
\* API server, is installed on that pod, and on every pod when the status
\* of the whole app says so.
CompleteMeansInstalled ==
  \A a \in Apps :
    /\ \A p \in Pods : \/ aux[a][p].status = "InstallComplete"
                       \/ saved.aux[a][p].status = "InstallComplete"
                       => installed[a][p]
    /\ \/ main[a].status = "InstallComplete"
       \/ saved.main[a].status = "InstallComplete"
       => \A p \in Pods : installed[a][p]

\* When a reconcile is over, none of the goroutines it started is left
\* to write to its status (phaseWaiter, handlerWaiter, workerWaiter).
NoOrphanWorker ==
  sched = "idle" => \A ph \in Phases, w \in Workers : gor[ph][w] = "none"

\* The retries of a phase are bounded by phaseMaxRetries.
RetriesBounded ==
  \A a \in Apps : /\ main[a].fail <= MaxRetries + 1
                  /\ \A p \in Pods : aux[a][p].fail <= MaxRetries + 1

\* No goroutine calls its WaitGroup through a nil waiter, or brings the
\* counter below zero; either would end the operator process.  Only the 200 ms
\* between two visits of a manager see to this: it fails without PromptExit.
NoPanic == sched # "panicked"

\* The app still has to reach the pod: neither installed nor out of retries.
Outstanding(a, p) == IF FanOut /\ HasAux(a) THEN EligibleForEntry(aux[a][p])
                                           ELSE EligibleForEntry(main[a])

\* A scheduler that asks for no other entry has nothing left to do.
NoLostWork ==
  sched = "idle" /\ ~revisit
    => \A a \in Apps, p \in Pods : ~Outstanding(a, p)

\* A pod of a fan-out CR that has used up its install retries.
SomePodGaveUp(a) ==
  FanOut /\ \E p \in Pods : aux[a][p].phase = "install" /\ MaxRetriesReached(aux[a][p])

\* The same for fan-out CRs, as long as no pod ran out of install retries.
NoLostReplica ==
  sched = "idle" /\ ~revisit
    => \A a \in Apps, p \in Pods : Outstanding(a, p) => SomePodGaveUp(a)

\* What PackageKeptWhileNeeded says of a step.  (A lost volume counts as a
\* fault, a failed download removes what it left behind.)
DeletesOnlyInstalled ==
  \A a \in Apps :
    opPkg[a] /\ ~opPkg'[a] /\ faults' = faults
    /\ (\A w \in Workers : gor["download"][w] = "none")
      => \A p \in Pods : installed[a][p]

\* The operator's copy of a package is only deleted by a cleanup that
\* finds the app installed on every pod; a pod still waiting for its copy
\* would have to download it again.
PackageKeptWhileNeeded == [][DeletesOnlyInstalled]_vars

\* An entry of the scheduler always ends: the yield stops the managers, and
\* no phase waits for a worker that never finishes.
EntryEnds == sched = "running" ~> sched # "running"

\* Every app is eventually settled on every pod, installed or given up
\* after its retries, whatever yields, restarts and lost packages occur.
EventuallySettled == \A a \in Apps, p \in Pods : <>[]~Outstanding(a, p)

\* The same for fan-out CRs, as long as no pod ran out of install retries.
ReplicasEventuallySettled ==
  \A a \in Apps, p \in Pods : <>[](Outstanding(a, p) => SomePodGaveUp(a))

\* What the reader of a status sees: the statuses as the API server holds them.
Delivery == INSTANCE AppDelivery WITH
  has <- [a \in Apps |-> {p \in Pods : installed[a][p]}],
  reported <- {a \in Apps : saved.main[a].status = "InstallComplete"}

\* The scheduler implements AppDelivery: apps are reported as installed when
\* every pod has them, and neither a yield, a retry nor a restart ever takes a
\* report back.
ImplementsDelivery == Delivery!Spec
=============================================================================
