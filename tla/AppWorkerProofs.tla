--------------------------- MODULE AppWorkerProofs ---------------------------
(***************************************************************************)
(* The life of a pipeline worker: no goroutine outlives its reconcile, runs *)
(* twice, shares an install slot, or calls a WaitGroup it no longer has.    *)
(* First for CRs with one pod (the search head deployer, the cluster        *)
(* manager, the license manager, the monitoring console and a standalone    *)
(* with one replica), then for the CRs that fan out to any number of pods;  *)
(* the number of apps is arbitrary in both.                                 *)
(***************************************************************************)
EXTENDS AppPipelineProofs, FiniteSetTheorems

\* One pod, and deferred functions that run before the next visit.
SinglePod == Replicas = 1 /\ PromptExit

\* The worker was handed to the handler of the phase, and is not back yet.
Busy(ph, w) == w \in chan[ph] \/ gor[ph][w] # "none"

At(ph, w) == w \in q[ph] \/ Busy(ph, w)

\* The manager of the phase would move a worker with this info elsewhere.
Due(ph, info) ==
  info.status \in HandledFirst[ph] \/ (ph # "install" /\ StatusComplete(info))

\* A busy worker has the WaitGroup of its phase, and is marked as active
\* unless the manager is still between the send and the mark.
Claimed ==
  \A ph \in Phases, w \in Workers :
    Busy(ph, w) => waiter[w] = ph /\ (isActive[w] \/ sent[ph] = {w})

NotResent ==
  \A ph \in Phases, w \in Workers : w \in chan[ph] => gor[ph][w] = "none"

\* An app is the business of one worker for each pod, in one phase, and of one
\* worker only as long as it is downloaded.
OneWorkerPerPod ==
  \A ph1, ph2 \in Phases, v, w \in Workers :
    At(ph1, v) /\ At(ph2, w) /\ v.app = w.app /\ (v.pod = w.pod \/ ph1 = "download")
      => ph1 = ph2 /\ v = w

BusyIsNotDue ==
  \A ph \in Phases, w \in Workers :
    Busy(ph, w) /\ gor[ph][w] # "exit" => ~Due(ph, Info(w, ph))

\* workerWaiter counts the goroutines of its phase.
Counted ==
  \A ph \in Phases : /\ IsFiniteSet(Running(ph))
                     /\ wg[ph] = Cardinality(Running(ph))

DoneIsQuiet ==
  \A ph \in Phases, w \in Workers : mgr[ph] = "done" => ~Busy(ph, w)

IdleIsDone ==
  sched = "idle" => \A ph \in Phases : mgr[ph] = "done" /\ q[ph] = {}

\* A busy install worker holds the slot of its pod, and nobody else does.
SlotHeld ==
  /\ \A w \in Workers : Busy("install", w) => w.pod \in slots
  /\ \A v, w \in Workers :
       Busy("install", v) /\ Busy("install", w) /\ v.pod = w.pod => v = w

\* A copy finds its package on the operator's volume.  (Where it does not, the
\* worker goes back to the download, which it shares with those of other pods.)
PackageFound ==
  Replicas # 1 => \A a \in Apps, p \in Pods : aux[a][p].status # "MissingFromOperator"

WorkerInv ==
  /\ TypeOK /\ NoPanic /\ Claimed /\ NotResent /\ OneWorkerPerPod
  /\ BusyIsNotDue /\ Counted /\ DoneIsQuiet /\ IdleIsDone /\ SlotHeld

-----------------------------------------------------------------------------
(* What every step of a worker leaves alone.                               *)

\* Only the status of the worker's own app changes.
OthersKept(w) ==
  \A a \in Apps : a # w.app => main'[a] = main[a] /\ aux'[a] = aux[a]

\* Storing a phase info is about one app.
LEMMA SetInfoOthers ==
  ASSUME TypeOK, NEW w \in Workers, NEW ph, NEW info, SetInfo(w, ph, info)
  PROVE  OthersKept(w)
<1>1. \/ aux' = [aux EXCEPT ![w.app][w.pod] = info] /\ main' = main
      \/ main' = [main EXCEPT ![w.app] = info] /\ aux' = aux
  BY Zenon DEF SetInfo
<1> QED
  BY <1>1 DEF OthersKept, TypeOK

\* A transition to another phase is about one app.
LEMMA TransitionOthers ==
  ASSUME TypeOK, NEW w \in Workers, NEW current, NEW next,
         TransitionWorker(w, current, next)
  PROVE  OthersKept(w)
<1>1. CASE FanOutFromDownload(w)
  <2>1. main' = main /\ \E new : aux' = [aux EXCEPT ![w.app] = new]
    BY <1>1, Zenon DEF FanOutFromDownload
  <2> QED
    BY <2>1 DEF OthersKept, TypeOK
<1>2. CASE UNCHANGED <<main, aux>>
  BY <1>2 DEF OthersKept
<1>3. CASE \/ /\ aux' = [aux EXCEPT ![w.app][w.pod] = NewPhase(next)]
              /\ main' = main
           \/ /\ main' = [main EXCEPT ![w.app] = NewPhase(next)]
              /\ aux' = aux
  BY <1>3 DEF OthersKept, TypeOK
<1> QED
  BY <1>1, <1>2, <1>3, Zenon DEF TransitionWorker

\* The managers, handlers and goroutines change the status of one app.
LEMMA StepOthers ==
  ASSUME TypeOK, NEW ph \in Phases, NEW w \in Workers,
         Manage(ph, w) \/ Handle(ph, w) \/ Exit(ph, w) \/ Work(w)
  PROVE  OthersKept(w)
<1> USE DEF status
<1>1. CASE GiveUp(ph, w)
  <2>1. /\ \E info : main' = [main EXCEPT ![w.app] = info]
        /\ \/ aux' = aux
           \/ \E info : aux' = [aux EXCEPT ![w.app][w.pod] = info]
    BY <1>1 DEF GiveUp
  <2> QED
    BY <2>1 DEF OthersKept, TypeOK
<1>2. CASE Advance(ph, w) \/ MoveBack(ph, w)
  <2>1. \/ UNCHANGED <<main, aux>>
        \/ \E current, next \in Phases : TransitionWorker(w, current, next)
    BY <1>2 DEF Advance, MoveBack, Phases
  <2> QED
    BY <2>1, TransitionOthers DEF OthersKept
<1>3. CASE Dispatch(ph, w) \/ HandleOther(ph, w) \/ Exit(ph, w)
  BY <1>3 DEF Dispatch, HandleOther, Exit, OthersKept
<1>4. CASE HandleDownload(w) \/ Download(w)
  <2>1. /\ aux' = aux
        /\ main' = main \/ \E info : main' = [main EXCEPT ![w.app] = info]
    BY <1>4 DEF HandleDownload, Download
  <2> QED
    BY <2>1 DEF OthersKept, TypeOK
<1>5. CASE PodCopy(w) \/ InstallFails(w) \/ Cleanup(w)
  <2>1. UNCHANGED <<main, aux>> \/ \E phase, info : SetInfo(w, phase, info)
    BY <1>5 DEF PodCopy, InstallFails, Cleanup
  <2> QED
    BY <2>1, SetInfoOthers DEF OthersKept
<1>6. CASE InstallSucceeds(w) \/ PostInstall(w)
  <2>1. \/ UNCHANGED <<main, aux>> \/ MarkInstallComplete(w)
        \/ \E phase, info : SetInfo(w, phase, info)
    BY <1>6 DEF InstallSucceeds, PostInstall
  <2>2. ASSUME MarkInstallComplete(w)
        PROVE  /\ aux' = aux \/ \E new : aux' = [aux EXCEPT ![w.app] = new]
               /\ main' = main \/ \E info : main' = [main EXCEPT ![w.app] = info]
    BY <2>2 DEF MarkInstallComplete
  <2>3. ASSUME MarkInstallComplete(w) PROVE OthersKept(w)
    BY <2>2, <2>3 DEF OthersKept, TypeOK
  <2> QED
    BY <2>1, <2>3, SetInfoOthers DEF OthersKept
<1> QED
  BY <1>1, <1>2, <1>3, <1>4, <1>5, <1>6 DEF Manage, Handle, Work

\* Of the status of the worker's own app, the other pods' part stays.
SiblingsKept(w) ==
  \A p \in Pods : p # w.pod => aux'[w.app][p] = aux[w.app][p]

\* The ways a step may change the status of a pod.
LEMMA PodChange ==
  ASSUME TypeOK, NEW w \in Workers, NEW info,
         \/ aux' = aux \/ aux' = [aux EXCEPT ![w.app][w.pod] = info]
         \/ aux' = [aux EXCEPT ![w.app] = [aux[w.app] EXCEPT ![w.pod] = info]]
  PROVE  SiblingsKept(w)
<1>1. w.app \in Apps /\ w.pod \in Pods /\ aux \in [Apps -> [Pods -> PhaseInfo]]
  BY DEF Workers, TypeOK
<1> QED
  BY <1>1 DEF SiblingsKept

\* Every step but the fan-out of a seed changes the status of one pod.
LEMMA StepSiblings ==
  ASSUME TypeOK, NEW ph \in Phases, NEW w \in Workers,
         \/ Manage(ph, w) /\ ph # "download"
         \/ Handle(ph, w) \/ Exit(ph, w) \/ Work(w)
  PROVE  SiblingsKept(w)
<1> USE DEF status
<1>1. ASSUME NEW phase, NEW info, SetInfo(w, phase, info)
      PROVE  SiblingsKept(w)
  <2>1. aux' = aux \/ aux' = [aux EXCEPT ![w.app][w.pod] = info]
    BY <1>1, Zenon DEF SetInfo
  <2> QED
    BY <2>1, PodChange
<1>2. CASE GiveUp(ph, w) /\ ph # "download"
  <2>1. \/ aux' = aux
        \/ aux' = [aux EXCEPT ![w.app][w.pod] = WithStatus(@, "InstallError")]
    BY <1>2 DEF GiveUp
  <2> QED
    BY <2>1, PodChange
<1>3. CASE (Advance(ph, w) \/ MoveBack(ph, w)) /\ ph # "download"
  <2>1. aux' = aux \/ \E next \in Phases : TransitionWorker(w, ph, next)
    BY <1>3 DEF Advance, MoveBack, Phases
  <2>2. ASSUME NEW next, TransitionWorker(w, ph, next)
        PROVE  aux' = aux \/ aux' = [aux EXCEPT ![w.app][w.pod] = NewPhase(next)]
    BY <1>3, <2>2, Zenon DEF TransitionWorker
  <2> QED
    BY <2>1, <2>2, PodChange
<1>4. CASE Dispatch(ph, w) \/ Handle(ph, w) \/ Exit(ph, w) \/ Download(w) \/ Cleanup(w)
  <2>1. aux' = aux
    BY <1>4 DEF Dispatch, Handle, HandleDownload, HandleOther, Exit, Download, Cleanup
  <2> QED
    BY <2>1, PodChange
<1>5. CASE PodCopy(w) \/ InstallFails(w)
  <2>1. aux' = aux \/ \E phase, info : SetInfo(w, phase, info)
    BY <1>5 DEF PodCopy, InstallFails
  <2> QED
    BY <1>1, <2>1, PodChange
<1>6. CASE InstallSucceeds(w) \/ PostInstall(w)
  <2>1. \/ aux' = aux \/ MarkInstallComplete(w)
        \/ \E phase, info : SetInfo(w, phase, info)
    BY <1>6 DEF InstallSucceeds, PostInstall
  <2>2. ASSUME MarkInstallComplete(w)
        PROVE  \/ aux' = aux
               \/ aux' = [aux EXCEPT ![w.app] = [aux[w.app] EXCEPT ![w.pod] =
                            Succeeded(Info(w, "install"), "InstallComplete")]]
    BY <2>2 DEF MarkInstallComplete
  <2> QED
    BY <1>1, <2>1, <2>2, PodChange
<1> QED
  BY <1>2, <1>3, <1>4, <1>5, <1>6 DEF Manage, Work

\* Two workers of the same app are there for different pods, after the download.
LEMMA WorkersDiffer ==
  ASSUME WorkerInv, NEW ph \in Phases, NEW w \in Workers, At(ph, w),
         NEW phase \in Phases, NEW u \in Workers, At(phase, u), u.app = w.app,
         ~(phase = ph /\ u = w)
  PROVE  /\ u.pod # w.pod /\ ph # "download" /\ phase # "download"
         /\ FanOut /\ Replicas # 1
<1>1. u.pod # w.pod /\ ph # "download" /\ phase # "download"
  BY DEF WorkerInv, OneWorkerPerPod
<1>2. Replicas # 1
  <2>1. Replicas = 1 => Pods = {0}
    BY DEF Pods
  <2>2. u.pod \in Pods /\ w.pod \in Pods
    BY DEF Workers
  <2> QED
    BY <1>1, <2>1, <2>2
<1> QED
  BY <1>1, <1>2, PipelineAssumption

\* So a step of one of them leaves the info of the others alone.
LEMMA InfoKept ==
  ASSUME WorkerInv, NEW ph \in Phases, NEW w \in Workers, At(ph, w), OthersKept(w),
         ph # "download" => SiblingsKept(w),
         NEW phase \in Phases, NEW u \in Workers, At(phase, u),
         ~(phase = ph /\ u = w)
  PROVE  u # w /\ Info(u, phase)' = Info(u, phase)
<1>1. CASE u.app # w.app
  BY <1>1 DEF OthersKept, Info, Workers
<1>2. CASE u.app = w.app
  <2>1. u.pod # w.pod /\ ph # "download" /\ phase # "download" /\ FanOut /\ u.pod \in Pods
    BY <1>2, WorkersDiffer DEF Workers
  <2> QED
    BY <1>2, <2>1 DEF SiblingsKept, Info
<1> QED
  BY <1>1, <1>2

-----------------------------------------------------------------------------
(* The scheduler.                                                          *)

\* No worker, no goroutine and no running manager.
Fresh ==
  /\ sched = "idle"
  /\ q = [ph \in Phases |-> {}] /\ chan = [ph \in Phases |-> {}]
  /\ mgr = [ph \in Phases |-> "done"] /\ wg = [ph \in Phases |-> 0]
  /\ gor = [ph \in Phases |-> [w \in Workers |-> "none"]]

\* Between two entries of the scheduler there is nothing to go wrong.
LEMMA FreshWorkers == TypeOK /\ Fresh => WorkerInv
<1> SUFFICES ASSUME TypeOK, Fresh PROVE WorkerInv
  OBVIOUS
<1>1. ASSUME NEW ph \in Phases, NEW w \in Workers
      PROVE  ~At(ph, w) /\ ~Busy(ph, w) /\ gor[ph][w] = "none" /\ w \notin chan[ph]
  BY DEF Fresh, At, Busy
<1>2. NoPanic /\ IdleIsDone
  BY DEF Fresh, NoPanic, IdleIsDone
<1>3. Counted
  <2>1. ASSUME NEW ph \in Phases PROVE Running(ph) = {} /\ wg[ph] = 0
    BY DEF Fresh, Running
  <2> QED
    BY <2>1, FS_EmptySet DEF Counted
<1>4. SlotHeld
  BY <1>1 DEF SlotHeld, Phases
<1>5. Claimed /\ NotResent /\ OneWorkerPerPod /\ BusyIsNotDue /\ DoneIsQuiet
  BY <1>1 DEF Claimed, NotResent, OneWorkerPerPod, BusyIsNotDue, DoneIsQuiet
<1> QED
  BY <1>2, <1>3, <1>4, <1>5 DEF WorkerInv

\* The same of the state after a step.
LEMMA FreshWorkersNext == (TypeOK /\ Fresh)' => WorkerInv'
BY FreshWorkers, PTL

\* Steps that touch neither the pipeline nor the status keep the invariant.
LEMMA WorkerQuietStep ==
  ASSUME WorkerInv, TypeOK', sched' = sched,
         UNCHANGED <<main, aux>>, UNCHANGED pipeline
  PROVE  WorkerInv'
BY DEF WorkerInv, NoPanic, Claimed, NotResent, OneWorkerPerPod, BusyIsNotDue,
       Counted, DoneIsQuiet, IdleIsDone, SlotHeld, Busy, At, Running, pipeline,
       Info

\* The queues of an entry hold the entry worker of an app.
LEMMA EntryQueues ==
  ASSUME TypeOK, SchedulerEntry, NEW ph \in Phases, NEW w \in q'[ph]
  PROVE  /\ w = EntryWorker(w.app) /\ w.app \in Apps
         /\ main[w.app].phase = ph /\ EligibleForEntry(main[w.app])
<1>1. PICK picked \in SUBSET {a \in Apps : EligibleForEntry(main[a])} :
        q' = [phase \in Phases |->
                {EntryWorker(a) : a \in {b \in picked : main[b].phase = phase}}]
  BY DEF SchedulerEntry
<1>2. PICK a \in picked : main[a].phase = ph /\ w = EntryWorker(a)
  BY <1>1
<1> QED
  BY <1>2 DEF EntryWorker

\* The scheduler keeps the worker invariant.
LEMMA WorkerSchedule ==
  ASSUME WorkerInv, TypeOK',
         \/ SchedulerEntry \/ YieldWatcher \/ SchedulerExit
         \/ \E ph \in Phases : ManagerStop(ph) \/ PhaseDone(ph) \/ MarkActive(ph)
  PROVE  WorkerInv'
<1>1. CASE SchedulerEntry
  <2> USE DEF status, world, pipeline, control, budget
  <2>1. /\ sched = "idle" /\ sched' = "running"
        /\ UNCHANGED <<main, aux, chan, sent, isActive, waiter, wg, gor, slots>>
        /\ mgr' = [ph \in Phases |-> "loop"]
    BY <1>1 DEF SchedulerEntry
  <2>2. ASSUME NEW ph \in Phases, NEW w \in Workers
        PROVE  ~Busy(ph, w)' /\ w \notin chan'[ph] /\ gor'[ph][w] = "none"
    BY <2>1 DEF WorkerInv, IdleIsDone, DoneIsQuiet, Busy
  <2>3. OneWorkerPerPod'
    <3>1. ASSUME NEW ph1 \in Phases, NEW ph2 \in Phases, NEW v \in Workers,
                 NEW w \in Workers, At(ph1, v)', At(ph2, w)', v.app = w.app
          PROVE  ph1 = ph2 /\ v = w
      <4>1. v \in q'[ph1] /\ w \in q'[ph2]
        BY <2>2, <3>1 DEF At
      <4> QED
        BY <1>1, <3>1, <4>1, EntryQueues DEF WorkerInv
    <3> QED
      BY <3>1 DEF OneWorkerPerPod
  <2>4. Counted'
    BY <2>1 DEF WorkerInv, Counted, Running
  <2>5. NoPanic' /\ IdleIsDone'
    BY <2>1 DEF NoPanic, IdleIsDone
  <2>6. SlotHeld'
    BY <2>2 DEF SlotHeld, Phases
  <2>7. Claimed' /\ NotResent' /\ BusyIsNotDue' /\ DoneIsQuiet'
    BY <2>2 DEF Claimed, NotResent, BusyIsNotDue, DoneIsQuiet
  <2> QED
    BY <2>3, <2>4, <2>5, <2>6, <2>7 DEF WorkerInv
<1>2. CASE YieldWatcher
  BY <1>2, WorkerQuietStep DEF YieldWatcher, status
<1>3. CASE SchedulerExit
  <2>1. \A ph \in Phases, w \in Workers : gor[ph][w] = "none"
    BY <1>3 DEF SchedulerExit, WorkerInv, DoneIsQuiet, Busy
  <2>2. gor' = [ph \in Phases |-> [w \in Workers |-> "none"]]
    BY <1>3, <2>1 DEF SchedulerExit, WorkerInv, TypeOK
  <2>3. Fresh'
    BY <1>3, <2>2 DEF SchedulerExit, Fresh, DropPipeline
  <2> QED
    BY <2>3, FreshWorkersNext
<1>4. ASSUME NEW ph \in Phases, ManagerStop(ph) \/ PhaseDone(ph)
      PROVE  WorkerInv'
  <2>1. /\ sched = "running" /\ sched' = sched
        /\ UNCHANGED <<main, aux, q, chan, sent, isActive, waiter, wg, gor, slots>>
    BY <1>4 DEF ManagerStop, PhaseDone, status, control
  <2>2. DoneIsQuiet'
    <3>1. CASE ManagerStop(ph)
      BY <2>1, <3>1 DEF ManagerStop, BreakLoop, WorkerInv, DoneIsQuiet, Busy, TypeOK
    <3>2. CASE PhaseDone(ph)
      <4>1. Running(ph) = {} /\ chan[ph] = {}
        BY <3>2, FS_EmptySet DEF PhaseDone, WorkersFinished, WorkerInv, Counted
      <4>2. mgr' = [mgr EXCEPT ![ph] = "done"]
        BY <3>2 DEF PhaseDone
      <4>3. \A w \in Workers : ~Busy(ph, w)
        BY <4>1 DEF Running, Busy
      <4> QED
        BY <2>1, <4>2, <4>3 DEF WorkerInv, DoneIsQuiet, Busy, TypeOK
    <3> QED
      BY <1>4, <3>1, <3>2
  <2>3. NoPanic' /\ IdleIsDone'
    BY <2>1 DEF NoPanic, IdleIsDone
  <2>4. Claimed' /\ NotResent' /\ OneWorkerPerPod'
    BY <2>1 DEF WorkerInv, Claimed, NotResent, OneWorkerPerPod, Busy, At
  <2>5. BusyIsNotDue' /\ Counted' /\ SlotHeld'
    BY <2>1 DEF WorkerInv, BusyIsNotDue, Counted, SlotHeld, Busy, Running, Info
  <2> QED
    BY <2>2, <2>3, <2>4, <2>5 DEF WorkerInv
<1>5. ASSUME NEW ph \in Phases, MarkActive(ph)
      PROVE  WorkerInv'
  <2>1. /\ sched = "running" /\ sched' = sched
        /\ UNCHANGED <<main, aux, q, chan, mgr, waiter, wg, gor, slots>>
    BY <1>5 DEF MarkActive, status, control
  <2>2. PICK u \in sent[ph] : /\ isActive' = [isActive EXCEPT ![u] = TRUE]
                              /\ sent' = [sent EXCEPT ![ph] = {}]
    BY <1>5 DEF MarkActive
  <2>3. Claimed'
    <3>1. ASSUME NEW phase \in Phases, NEW w \in Workers, Busy(phase, w)
          PROVE  isActive'[w] \/ sent'[phase] = {w}
      <4>1. isActive[w] \/ sent[phase] = {w}
        BY <3>1 DEF WorkerInv, Claimed
      <4> QED
        BY <2>2, <4>1 DEF WorkerInv, TypeOK
    <3> QED
      BY <2>1, <3>1 DEF WorkerInv, Claimed, Busy
  <2>4. NoPanic' /\ IdleIsDone'
    BY <2>1 DEF NoPanic, IdleIsDone
  <2>5. NotResent' /\ OneWorkerPerPod' /\ BusyIsNotDue' /\ Counted'
        /\ SlotHeld' /\ DoneIsQuiet'
    BY <2>1 DEF WorkerInv, NotResent, OneWorkerPerPod, BusyIsNotDue, DoneIsQuiet,
                Counted, SlotHeld, Busy, At, Running, Info
  <2> QED
    BY <2>3, <2>4, <2>5 DEF WorkerInv
<1> QED
  BY <1>1, <1>2, <1>3, <1>4, <1>5

-----------------------------------------------------------------------------
(* The phase managers.                                                     *)

\* A worker whose status calls for another phase is not busy any more: its
\* goroutine has recorded its outcome and its deferred function has run.
LEMMA DueIsIdle ==
  ASSUME WorkerInv, PromptExit, NEW ph \in Phases, NEW w \in Workers,
         w \in q[ph], Settled(w), Due(ph, Info(w, ph))
  PROVE  \A phase \in Phases : ~Busy(phase, w)
<1> SUFFICES ASSUME NEW phase \in Phases, Busy(phase, w) PROVE FALSE
  OBVIOUS
<1>1. phase = ph
  BY DEF WorkerInv, OneWorkerPerPod, At
<1>2. gor[ph][w] # "exit"
  BY DEF Settled
<1> QED
  BY <1>1, <1>2 DEF WorkerInv, BusyIsNotDue

\* Where a worker of the pod is put by the fan-out of the seed.
ResumesAt(a, p) == IF HasAux(a) THEN aux[a][p].phase ELSE "podCopy"

\* A worker leaves its queue, and enters another one, or is followed by a worker
\* for each pod.
LEMMA TransitionQueues ==
  ASSUME TypeOK, NEW w \in Workers, NEW current \in Phases,
         NEW next \in Phases, current # next, TransitionWorker(w, current, next),
         \A ph \in Phases : w \in q[ph] => ph = current,
         NEW ph \in Phases, NEW u \in q'[ph]
  PROVE  \/ u \in q[ph] /\ u # w
         \/ ~w.fanOut /\ u = w /\ ph = next
         \/ /\ w.fanOut /\ current = "download"
            /\ \E p \in Pods : u = FanOutWorker(w, p) /\ ph = ResumesAt(w.app, p)
            /\ ph # "download"
<1>1. CASE w.fanOut /\ current = "download" /\ FanOutFromDownload(w)
  <2> SUFFICES ASSUME ~(u \in q[ph] /\ u # w)
               PROVE  /\ \E p \in Pods : u = FanOutWorker(w, p) /\ ph = ResumesAt(w.app, p)
                      /\ ph # "download"
    BY <1>1
  <2>1. CASE ~HasAux(w.app)
    <3> DEFINE all == {FanOutWorker(w, p) : p \in Pods}
    <3>1. q' = [q EXCEPT !["podCopy"] = @ \cup all, !["download"] = @ \ {w}]
      BY <1>1, <2>1 DEF FanOutFromDownload
    <3> HIDE DEF all
    <3>2. u \in all /\ ph = "podCopy"
      BY <1>1, <3>1 DEF TypeOK, Phases
    <3> QED
      BY <2>1, <3>2 DEF all, ResumesAt
  <2>2. CASE HasAux(w.app)
    <3> DEFINE In(phase) == {FanOutWorker(w, p) :
                               p \in {r \in ReplicasToResume(w.app) :
                                        aux[w.app][r].phase = phase}}
    <3>1. q' = [q EXCEPT !["podCopy"] = @ \cup In("podCopy"),
                         !["install"] = @ \cup In("install"),
                         !["download"] = @ \ {w}]
      BY <1>1, <2>2 DEF FanOutFromDownload
    <3>2. \A phase : \A v \in In(phase) :
            \E p \in Pods : v = FanOutWorker(w, p) /\ phase = aux[w.app][p].phase
      BY DEF ReplicasToResume
    <3> HIDE DEF In
    <3>3. u \in In(ph) /\ ph # "download"
      BY <1>1, <3>1 DEF TypeOK, Phases
    <3> QED
      BY <2>2, <3>2, <3>3 DEF ResumesAt
  <2> QED
    BY <2>1, <2>2
<1>2. CASE q' = [q EXCEPT ![current] = @ \ {w}]
  BY <1>2 DEF TypeOK
<1>3. CASE ~w.fanOut /\ q' = [q EXCEPT ![next] = @ \cup {w}, ![current] = @ \ {w}]
  BY <1>3 DEF TypeOK
<1> QED
  BY <1>1, <1>2, <1>3 DEF TransitionWorker

\* transitionWorkerPhase of a worker that is not busy.  A worker of a CR with
\* several pods does not return to the download.
LEMMA WorkerTransition ==
  ASSUME WorkerInv, TypeOK', NEW w \in Workers,
         NEW current \in Phases, NEW next \in Phases, current # next,
         next # "download" \/ Replicas = 1,
         TransitionWorker(w, current, next), w \in q[current],
         \A ph \in Phases : ~Busy(ph, w), sched = "running", sched' = sched,
         OthersKept(w), current # "download" => SiblingsKept(w),
         UNCHANGED <<chan, mgr, sent, wg, gor, slots>>
  PROVE  WorkerInv'
<1>1. TypeOK /\ At(current, w) /\ \A ph \in Phases : At(ph, w) => ph = current
  BY DEF WorkerInv, OneWorkerPerPod, At
<1>2. \A ph \in Phases, u \in Workers : Busy(ph, u)' <=> Busy(ph, u)
  BY DEF Busy
<1>3. ASSUME NEW ph \in Phases, NEW u \in Workers, At(ph, u)'
      PROVE  \/ At(ph, u) /\ u # w
             \/ ~w.fanOut /\ u = w /\ ph = next
             \/ /\ w.fanOut /\ current = "download"
                /\ \E p \in Pods : u = FanOutWorker(w, p) /\ ph = ResumesAt(w.app, p)
                /\ ph # "download"
  <2>1. \A phase \in Phases : w \in q[phase] => phase = current
    BY <1>1 DEF At
  <2>2. CASE Busy(ph, u)
    BY <2>2 DEF At
  <2>3. CASE u \in q'[ph]
    BY <1>1, <2>1, <2>3, TransitionQueues DEF At
  <2> QED
    BY <1>2, <1>3, <2>2, <2>3 DEF At
<1>4. OneWorkerPerPod'
  <2> SUFFICES ASSUME NEW ph1 \in Phases, NEW ph2 \in Phases, NEW v \in Workers, NEW u \in Workers,
                      At(ph1, v)', At(ph2, u)', v.app = u.app, v.pod = u.pod \/ ph1 = "download"
               PROVE  ph1 = ph2 /\ v = u
    BY DEF OneWorkerPerPod
  <2>1. ASSUME NEW ph \in Phases, NEW x \in Workers, At(ph, x), x # w, x.app = w.app
        PROVE  current # "download" /\ ph # "download" /\ x.pod # w.pod /\ Replicas # 1
    BY <1>1, <2>1, WorkersDiffer
  <2>2. CASE w.fanOut /\ current = "download"
    <3>1. \A p \in Pods : FanOutWorker(w, p).app = w.app /\ FanOutWorker(w, p).pod = p
      BY DEF FanOutWorker, Workers
    <3>2. \/ At(ph1, v) /\ v # w /\ v.app # w.app
          \/ \E p \in Pods : v = FanOutWorker(w, p) /\ ph1 = ResumesAt(w.app, p) /\ ph1 # "download"
      BY <1>3, <2>1, <2>2
    <3>3. \/ At(ph2, u) /\ u # w /\ u.app # w.app
          \/ \E p \in Pods : u = FanOutWorker(w, p) /\ ph2 = ResumesAt(w.app, p)
      BY <1>3, <2>1, <2>2
    <3>4. CASE At(ph1, v) /\ At(ph2, u)
      BY <3>4 DEF WorkerInv, OneWorkerPerPod
    <3> QED
      BY <3>1, <3>2, <3>3, <3>4
  <2>3. CASE ~(w.fanOut /\ current = "download")
    <3>1. (At(ph1, v) /\ v # w) \/ (v = w /\ ph1 = next)
      BY <1>3, <2>3
    <3>2. (At(ph2, u) /\ u # w) \/ (u = w /\ ph2 = next)
      BY <1>3, <2>3
    <3>3. CASE At(ph1, v) /\ At(ph2, u)
      BY <3>3 DEF WorkerInv, OneWorkerPerPod
    <3> QED
      BY <2>1, <3>1, <3>2, <3>3
  <2> QED
    BY <2>2, <2>3
<1>5. BusyIsNotDue'
  <2>1. ASSUME NEW ph \in Phases, NEW u \in Workers, Busy(ph, u)
        PROVE  Info(u, ph)' = Info(u, ph)
    <3>1. At(ph, u) /\ u # w
      BY <2>1 DEF At
    <3> QED
      BY <1>1, <3>1, InfoKept
  <2> QED
    BY <1>2, <2>1 DEF WorkerInv, BusyIsNotDue
<1>6. Claimed'
  <2>1. /\ isActive' = [isActive EXCEPT ![w] = FALSE]
        /\ waiter' = [waiter EXCEPT ![w] = "nil"]
    BY DEF TransitionWorker
  <2>2. \A u \in Workers : u # w => isActive'[u] = isActive[u]
                                    /\ waiter'[u] = waiter[u]
    BY <1>1, <2>1 DEF TypeOK
  <2> QED
    BY <1>2, <2>2 DEF WorkerInv, Claimed
<1>7. NoPanic' /\ IdleIsDone'
  BY DEF NoPanic, IdleIsDone
<1>8. NotResent' /\ Counted' /\ DoneIsQuiet' /\ SlotHeld'
  BY <1>2 DEF WorkerInv, NotResent, Counted, Running, DoneIsQuiet, SlotHeld, Phases
<1> QED
  BY <1>4, <1>5, <1>6, <1>7, <1>8 DEF WorkerInv

\* A status that records an error or a download under way asks for no other
\* phase.
LEMMA ErrorIsNotDue ==
  ASSUME NEW info \in PhaseInfo, NEW ph \in Phases,
         info.status \in {"DownloadError", "PodCopyError", "InstallError",
                          "DownloadInProgress"}
  PROVE  ~Due(ph, info)
BY DEF Due, HandledFirst, StatusComplete, CompleteOf, PhaseInfo, Phases

\* Giving up drops a worker from a queue and records an error.
LEMMA WorkerGivesUp ==
  ASSUME WorkerInv, TypeOK', NEW ph \in Phases, NEW w \in Workers,
         GiveUp(ph, w)
  PROVE  WorkerInv'
<1>1. /\ sched = "running" /\ sched' = sched /\ w \in q[ph]
      /\ UNCHANGED <<chan, mgr, sent, isActive, waiter, wg, gor, slots>>
  BY DEF GiveUp, Visits, control
<1>2. TypeOK /\ w.app \in Apps /\ w.pod \in Pods
  BY DEF WorkerInv, Workers
<1>3. \A phase \in Phases, u \in Workers :
        /\ Busy(phase, u)' <=> Busy(phase, u)
        /\ At(phase, u)' => At(phase, u)
  <2>1. q' = [q EXCEPT ![Info(w, ph).phase] = @ \ {w}]
    BY DEF GiveUp
  <2>2. \A phase \in Phases : q'[phase] \subseteq q[phase]
    BY <1>2, <2>1 DEF TypeOK
  <2> QED
    BY <1>1, <2>2 DEF Busy, At
<1>4. BusyIsNotDue'
  <2>1. ASSUME NEW phase \in Phases, NEW u \in Workers, Busy(phase, u),
               gor[phase][u] # "exit", ~(phase = ph /\ u = w)
        PROVE  ~Due(phase, Info(u, phase)')
    <3>1. OthersKept(w) /\ (ph # "download" => SiblingsKept(w))
      BY <1>2, StepOthers, StepSiblings DEF Manage
    <3>2. Info(u, phase)' = Info(u, phase)
      BY <1>1, <2>1, <3>1, InfoKept DEF At
    <3> QED
      BY <2>1, <3>2 DEF WorkerInv, BusyIsNotDue
  <2>2. ASSUME Busy(ph, w), gor[ph][w] # "exit"
        PROVE  ~Due(ph, Info(w, ph)')
    <3>1. \/ Info(w, ph)' = Info(w, ph)
          \/ Info(w, ph)'.status \in {"DownloadError", "PodCopyError",
                                      "InstallError"}
      <4> USE <1>2
      <4>1. main[w.app] \in PhaseInfo /\ aux[w.app][w.pod] \in PhaseInfo
        BY DEF TypeOK
      <4>2. CASE ph \in {"download", "podCopy"}
        <5>1. /\ \E st \in {"DownloadError", "PodCopyError"} :
                   main' = [main EXCEPT ![w.app] = WithStatus(@, st)]
              /\ aux' = aux
          BY <4>2 DEF GiveUp
        <5>2. main'[w.app].status \in {"DownloadError", "PodCopyError"}
          BY <4>1, <5>1, StatusFields DEF TypeOK, Statuses
        <5> QED
          BY <5>1, <5>2 DEF Info
      <4>3. CASE ph = "install" /\ FanOut
        <5>1. aux' = [aux EXCEPT ![w.app][w.pod] = WithStatus(@, "InstallError")]
          BY <4>3 DEF GiveUp
        <5>2. aux'[w.app][w.pod] = WithStatus(aux[w.app][w.pod], "InstallError")
          BY <5>1 DEF TypeOK
        <5>3. WithStatus(aux[w.app][w.pod], "InstallError").status = "InstallError"
          BY <4>1, StatusFields DEF Statuses
        <5> QED
          BY <4>3, <5>2, <5>3 DEF Info
      <4>4. CASE ph = "install" /\ ~FanOut
        <5>1. main' = [main EXCEPT ![w.app] = WithStatus(@, "InstallError")]
          BY <4>4 DEF GiveUp
        <5>2. main'[w.app] = WithStatus(main[w.app], "InstallError")
          BY <5>1 DEF TypeOK
        <5>3. WithStatus(main[w.app], "InstallError").status = "InstallError"
          BY <4>1, StatusFields DEF Statuses
        <5> QED
          BY <4>4, <5>2, <5>3 DEF Info
      <4> QED
        BY <4>2, <4>3, <4>4 DEF Phases
    <3>2. Info(w, ph)' \in PhaseInfo
      BY <1>2 DEF Info, TypeOK
    <3> QED
      BY <2>2, <3>1, <3>2, ErrorIsNotDue DEF WorkerInv, BusyIsNotDue
  <2> QED
    BY <1>1, <1>3, <2>1, <2>2 DEF BusyIsNotDue
<1>5. NoPanic' /\ IdleIsDone'
  BY <1>1 DEF NoPanic, IdleIsDone
<1>6. OneWorkerPerPod' /\ Claimed'
  BY <1>1, <1>3 DEF WorkerInv, OneWorkerPerPod, Claimed
<1>7. NotResent' /\ Counted' /\ DoneIsQuiet' /\ SlotHeld'
  BY <1>1, <1>3 DEF WorkerInv, NotResent, Counted, Running, DoneIsQuiet, SlotHeld,
                    Phases
<1> QED
  BY <1>4, <1>5, <1>6, <1>7 DEF WorkerInv

\* A worker that is dispatched is not busy yet: it holds no slot, waits in no
\* channel and has no goroutine.
LEMMA WorkerDispatch ==
  ASSUME WorkerInv, TypeOK', NEW ph \in Phases, NEW w \in Workers,
         Dispatch(ph, w)
  PROVE  WorkerInv'
<1>1. /\ sched = "running" /\ sched' = sched /\ w \in q[ph]
      /\ mgr[ph] = "loop" /\ sent[ph] = {} /\ ~isActive[w]
      /\ waiter' = [waiter EXCEPT ![w] = ph]
      /\ chan' = [chan EXCEPT ![ph] = @ \cup {w}]
      /\ sent' = [sent EXCEPT ![ph] = {w}]
      /\ UNCHANGED <<main, aux, q, mgr, isActive, wg, gor>>
  BY DEF Dispatch, Visits, control, status, NotActive, SetWaiter
<1>2. TypeOK /\ w.pod \in Pods
  BY DEF WorkerInv, Workers
<1>3. \A phase \in Phases : ~Busy(phase, w)
  BY <1>1 DEF WorkerInv, OneWorkerPerPod, At, Claimed
<1>4. \A phase \in Phases, u \in Workers :
        Busy(phase, u)' <=> Busy(phase, u) \/ (phase = ph /\ u = w)
  BY <1>1, <1>2 DEF Busy, TypeOK
<1>5. \A phase \in Phases, u \in Workers : At(phase, u)' <=> At(phase, u)
  BY <1>1, <1>4 DEF At
<1>6. BusyIsNotDue'
  <2>1. ~Due(ph, Info(w, ph))
    BY DEF Dispatch, Due
  <2>2. \A phase \in Phases, u \in Workers : Info(u, phase)' = Info(u, phase)
    BY <1>1 DEF Info
  <2> QED
    BY <1>1, <1>4, <2>1, <2>2 DEF WorkerInv, BusyIsNotDue
<1>7. Claimed'
  <2>1. ASSUME NEW phase \in Phases, NEW u \in Workers, u # w, Busy(phase, u)
        PROVE  /\ waiter'[u] = phase
               /\ isActive'[u] \/ sent'[phase] = {u}
    <3>1. waiter[u] = phase /\ (isActive[u] \/ sent[phase] = {u})
      BY <2>1 DEF WorkerInv, Claimed
    <3>2. waiter'[u] = waiter[u] /\ isActive'[u] = isActive[u]
      BY <1>1, <1>2, <2>1 DEF TypeOK
    <3>3. sent[phase] = {u} => sent'[phase] = {u}
      <4>1. sent[phase] = {u} => phase # ph
        BY <1>1
      <4>2. phase # ph => sent'[phase] = sent[phase]
        BY <1>1, <1>2 DEF TypeOK
      <4> QED
        BY <4>1, <4>2
    <3> QED
      BY <3>1, <3>2, <3>3
  <2>2. waiter'[w] = ph /\ sent'[ph] = {w}
    BY <1>1, <1>2 DEF TypeOK
  <2> QED
    BY <1>3, <1>4, <2>1, <2>2 DEF Claimed
<1>8. SlotHeld'
  <2>1. CASE ph = "install"
    <3>1. w.pod \notin slots /\ slots' = slots \cup {w.pod}
      BY <2>1 DEF Dispatch, SlotFree
    <3> QED
      BY <1>4, <2>1, <3>1 DEF WorkerInv, SlotHeld, Phases
  <2>2. CASE ph # "install"
    <3>1. slots' = slots
      BY <2>2 DEF Dispatch
    <3> QED
      BY <1>4, <2>2, <3>1 DEF WorkerInv, SlotHeld, Phases
  <2> QED
    BY <2>1, <2>2
<1>9. NotResent'
  BY <1>1, <1>2, <1>3 DEF WorkerInv, NotResent, Busy, TypeOK
<1>10. DoneIsQuiet'
  BY <1>1, <1>4 DEF WorkerInv, DoneIsQuiet
<1>11. NoPanic' /\ IdleIsDone' /\ Counted' /\ OneWorkerPerPod'
  BY <1>1, <1>5 DEF WorkerInv, NoPanic, IdleIsDone, Counted, Running,
                    OneWorkerPerPod
<1> QED
  BY <1>6, <1>7, <1>8, <1>9, <1>10, <1>11 DEF WorkerInv

\* A visit of a phase manager keeps the worker invariant.
LEMMA WorkerManage ==
  ASSUME WorkerInv, TypeOK', PromptExit, PackageFound, NEW ph \in Phases,
         NEW w \in Workers, Manage(ph, w)
  PROVE  WorkerInv'
<1>1. CASE GiveUp(ph, w)
  BY <1>1, WorkerGivesUp
<1>2. CASE Dispatch(ph, w)
  BY <1>2, WorkerDispatch
<1>3. CASE Advance(ph, w) /\ ph = "install"
  <2>1. /\ sched = "running" /\ sched' = sched
        /\ UNCHANGED <<main, aux, chan, mgr, sent, isActive, waiter, wg, gor, slots>>
        /\ q' = [q EXCEPT ![Info(w, ph).phase] = @ \ {w}]
    BY <1>3 DEF Advance, Visits, control
  <2>2. \A phase \in Phases, u \in Workers :
          /\ Busy(phase, u)' <=> Busy(phase, u)
          /\ At(phase, u)' => At(phase, u)
          /\ Info(u, phase)' = Info(u, phase)
    BY <2>1 DEF Busy, At, Info, WorkerInv, TypeOK
  <2>3. NoPanic' /\ IdleIsDone'
    BY <2>1 DEF NoPanic, IdleIsDone
  <2>4. OneWorkerPerPod' /\ Claimed' /\ BusyIsNotDue'
    BY <2>1, <2>2 DEF WorkerInv, OneWorkerPerPod, Claimed, BusyIsNotDue
  <2>5. NotResent' /\ Counted' /\ DoneIsQuiet' /\ SlotHeld'
    BY <2>1, <2>2 DEF WorkerInv, NotResent, Counted, Running, DoneIsQuiet, SlotHeld,
                      Phases
  <2> QED
    BY <2>3, <2>4, <2>5 DEF WorkerInv
<1>4. CASE (Advance(ph, w) /\ ph # "install") \/ MoveBack(ph, w)
  <2>1. /\ sched = "running" /\ sched' = sched
        /\ UNCHANGED <<chan, mgr, sent, wg, gor, slots>>
        /\ w \in q[ph] /\ Settled(w)
    BY <1>4 DEF Advance, MoveBack, Visits, control
  <2>2. Due(ph, Info(w, ph))
    BY <1>4 DEF Advance, MoveBack, Due, HandledFirst
  <2>3. \A phase \in Phases : ~Busy(phase, w)
    BY <2>1, <2>2, DueIsIdle
  <2>4. \E next \in Phases : /\ next # ph /\ TransitionWorker(w, ph, next)
                             /\ next # "download" \/ Replicas = 1
    <3>1. ph = "podCopy" /\ MoveBack(ph, w) => Replicas = 1
      <4>1. w.app \in Apps /\ w.pod \in Pods
        BY DEF Workers
      <4> QED
        BY <4>1, PipelineAssumption DEF MoveBack, Info, PackageFound
    <3> QED
      BY <1>4, <3>1 DEF Advance, MoveBack, Phases
  <2>5. OthersKept(w) /\ (ph # "download" => SiblingsKept(w))
    BY StepOthers, StepSiblings DEF WorkerInv
  <2> QED
    BY <2>1, <2>3, <2>4, <2>5, WorkerTransition
<1> QED
  BY <1>1, <1>2, <1>3, <1>4 DEF Manage

-----------------------------------------------------------------------------
(* The handlers and the goroutines.                                        *)

\* A handler that ends without a goroutine has only its worker to forget.
LEMMA WorkerLeaves ==
  ASSUME WorkerInv, TypeOK', NEW ph \in Phases, NEW w \in Workers,
         Receives(ph, w), OthersKept(w), SiblingsKept(w),
         UNCHANGED <<q, mgr, sent, waiter, wg, gor, slots>>,
         sched' = sched,
         isActive' = isActive \/ isActive' = [isActive EXCEPT ![w] = FALSE]
  PROVE  WorkerInv'
<1>1. /\ sched = "running" /\ w \in chan[ph] /\ gor[ph][w] = "none"
      /\ chan' = [chan EXCEPT ![ph] = @ \ {w}]
  BY DEF Receives
<1>2. TypeOK
  BY DEF WorkerInv
<1>3. \A phase \in Phases, u \in Workers :
        /\ Busy(phase, u)' <=> Busy(phase, u) /\ ~(phase = ph /\ u = w)
        /\ At(phase, u)' => At(phase, u)
  BY <1>1, <1>2 DEF Busy, At, TypeOK
<1>4. \A phase \in Phases, u \in Workers :
        Busy(phase, u)' => u # w /\ Info(u, phase)' = Info(u, phase)
  <2>1. At(ph, w)
    BY <1>1 DEF At, Busy
  <2>2. \A phase \in Phases, u \in Workers : Busy(phase, u) => At(phase, u)
    BY DEF At
  <2> QED
    BY <1>3, <2>1, <2>2, InfoKept
<1>5. BusyIsNotDue'
  BY <1>3, <1>4 DEF WorkerInv, BusyIsNotDue
<1>6. Claimed'
  <2>1. \A u \in Workers : u # w => isActive'[u] = isActive[u]
    BY <1>2 DEF TypeOK
  <2> QED
    BY <1>3, <1>4, <2>1 DEF WorkerInv, Claimed
<1>7. OneWorkerPerPod' /\ DoneIsQuiet'
  BY <1>3 DEF WorkerInv, OneWorkerPerPod, DoneIsQuiet
<1>8. NotResent'
  BY <1>1, <1>2 DEF WorkerInv, NotResent, TypeOK
<1>9. NoPanic' /\ IdleIsDone' /\ Counted'
  BY <1>1 DEF NoPanic, IdleIsDone, WorkerInv, Counted, Running
<1>10. SlotHeld'
  BY <1>3 DEF WorkerInv, SlotHeld, Phases
<1> QED
  BY <1>5, <1>6, <1>7, <1>8, <1>9, <1>10 DEF WorkerInv

\* A handler that starts a goroutine finds the WaitGroup of its own phase.
LEMMA WorkerStarts ==
  ASSUME WorkerInv, TypeOK', NEW ph \in Phases, NEW w \in Workers,
         Receives(ph, w), StartGoroutine(ph, w), OthersKept(w), SiblingsKept(w),
         ~Due(ph, Info(w, ph)'),
         UNCHANGED <<q, mgr, sent, waiter, isActive, slots>>
  PROVE  WorkerInv'
<1>1. /\ sched = "running" /\ w \in chan[ph] /\ gor[ph][w] = "none"
      /\ chan' = [chan EXCEPT ![ph] = @ \ {w}]
  BY DEF Receives
<1>2. TypeOK
  BY DEF WorkerInv
<1>3. waiter[w] = ph /\ ph # "nil"
  BY <1>1 DEF WorkerInv, Claimed, Busy, Phases
<1>4. /\ wg' = [wg EXCEPT ![ph] = @ + 1] /\ sched' = sched
      /\ gor' = [gor EXCEPT ![ph][w] = "run"]
  BY <1>3 DEF StartGoroutine
<1>5. \A phase \in Phases, u \in Workers :
        gor'[phase][u] = IF phase = ph /\ u = w THEN "run" ELSE gor[phase][u]
  BY <1>2, <1>4 DEF TypeOK
<1>6. \A phase \in Phases, u \in Workers :
        /\ Busy(phase, u)' <=> Busy(phase, u)
        /\ At(phase, u)' <=> At(phase, u)
  <2>1. \A phase \in Phases, u \in Workers : Busy(phase, u)' <=> Busy(phase, u)
    BY <1>1, <1>2, <1>5 DEF Busy, TypeOK
  <2> QED
    BY <2>1 DEF At
<1>7. BusyIsNotDue'
  <2>1. ASSUME NEW phase \in Phases, NEW u \in Workers, Busy(phase, u)
        PROVE  \/ phase = ph /\ u = w
               \/ Info(u, phase)' = Info(u, phase) /\ u # w
    <3>1. At(phase, u) /\ At(ph, w)
      BY <1>1, <2>1 DEF At, Busy
    <3> QED
      BY <3>1, InfoKept
  <2> QED
    BY <1>5, <1>6, <2>1 DEF WorkerInv, BusyIsNotDue
<1>8. Claimed' /\ OneWorkerPerPod' /\ DoneIsQuiet'
  BY <1>6 DEF WorkerInv, Claimed, OneWorkerPerPod, DoneIsQuiet
<1>9. NotResent'
  BY <1>1, <1>2, <1>5 DEF WorkerInv, NotResent, TypeOK
<1>10. Counted'
  <2>1. ASSUME NEW phase \in Phases
        PROVE  IsFiniteSet(Running(phase)') /\ wg'[phase] = Cardinality(Running(phase)')
    <3>1. IsFiniteSet(Running(phase)) /\ wg[phase] = Cardinality(Running(phase))
      BY DEF WorkerInv, Counted
    <3>2. CASE phase = ph
      <4>1. Running(ph)' = Running(ph) \cup {w} /\ w \notin Running(ph)
        BY <1>1, <1>5 DEF Running
      <4>2. wg'[ph] = wg[ph] + 1
        BY <1>2, <1>4 DEF TypeOK
      <4> QED
        BY <3>1, <3>2, <4>1, <4>2, FS_AddElement
    <3>3. CASE phase # ph
      <4>1. Running(phase)' = Running(phase) /\ wg'[phase] = wg[phase]
        BY <1>2, <1>4, <1>5, <3>3 DEF Running, TypeOK
      <4> QED
        BY <3>1, <4>1
    <3> QED
      BY <3>2, <3>3
  <2> QED
    BY <2>1 DEF Counted
<1>11. NoPanic' /\ IdleIsDone'
  BY <1>1, <1>4 DEF NoPanic, IdleIsDone
<1>12. SlotHeld'
  BY <1>6 DEF WorkerInv, SlotHeld, Phases
<1> QED
  BY <1>7, <1>8, <1>9, <1>10, <1>11, <1>12 DEF WorkerInv

\* The handlers keep the worker invariant.
LEMMA WorkerHandle ==
  ASSUME WorkerInv, TypeOK', NEW ph \in Phases, NEW w \in Workers, Handle(ph, w)
  PROVE  WorkerInv'
<1>1. TypeOK /\ OthersKept(w) /\ SiblingsKept(w) /\ w.app \in Apps
  BY StepOthers, StepSiblings DEF WorkerInv, Workers
<1>2. CASE HandleOther(ph, w)
  <2>1. /\ Receives(ph, w) /\ StartGoroutine(ph, w)
        /\ UNCHANGED <<main, aux, q, mgr, sent, waiter, isActive, slots>>
    BY <1>2 DEF HandleOther, status
  <2>2. ~Due(ph, Info(w, ph)')
    <3>1. Busy(ph, w) /\ gor[ph][w] # "exit"
      BY <2>1 DEF Receives, Busy
    <3>2. Info(w, ph)' = Info(w, ph)
      BY <2>1 DEF Info
    <3> QED
      BY <3>1, <3>2 DEF WorkerInv, BusyIsNotDue
  <2> QED
    BY <1>1, <2>1, <2>2, WorkerStarts
<1>3. CASE ph = "download" /\ HandleDownload(w)
  <2>1. /\ Receives(ph, w) /\ UNCHANGED <<q, mgr, sent, waiter, slots>>
    BY <1>3 DEF HandleDownload
  <2>2. CASE /\ UNCHANGED <<wg, gor>> /\ sched' = sched
             /\ \/ isActive' = isActive
                \/ isActive' = [isActive EXCEPT ![w] = FALSE]
    BY <1>1, <2>1, <2>2, WorkerLeaves
  <2>3. CASE /\ main' = [main EXCEPT ![w.app] = WithStatus(@, "DownloadInProgress")]
             /\ StartGoroutine("download", w)
             /\ UNCHANGED isActive
    <3>1. Info(w, ph)' = main'[w.app]
      BY <1>3 DEF Info
    <3>2. main'[w.app] \in PhaseInfo /\ main[w.app] \in PhaseInfo
      BY <1>1 DEF TypeOK
    <3>3. main'[w.app] = WithStatus(main[w.app], "DownloadInProgress")
      BY <1>1, <2>3 DEF TypeOK
    <3>4. main'[w.app].status = "DownloadInProgress"
      BY <3>2, <3>3, StatusFields DEF Statuses
    <3>5. ~Due(ph, Info(w, ph)')
      BY <3>1, <3>2, <3>4, ErrorIsNotDue
    <3> QED
      BY <1>1, <1>3, <2>1, <2>3, <3>5, WorkerStarts
  <2> QED
    BY <1>3, <2>2, <2>3 DEF HandleDownload
<1> QED
  BY <1>2, <1>3 DEF Handle

\* After its install was recorded the worker is installed.
LEMMA MarkedInfo ==
  ASSUME TypeOK, NEW w \in Workers, MarkInstallComplete(w)
  PROVE  Info(w, "install")' = Succeeded(Info(w, "install"), "InstallComplete")
<1>1. w.app \in Apps /\ w.pod \in Pods
  BY DEF Workers
<1> DEFINE done == Succeeded(Info(w, "install"), "InstallComplete")
<1>2. CASE FanOut
  <2>1. aux' = [aux EXCEPT ![w.app] = [aux[w.app] EXCEPT ![w.pod] = done]]
    BY <1>2 DEF MarkInstallComplete
  <2> HIDE DEF done
  <2>2. aux'[w.app][w.pod] = done
    BY <1>1, <2>1 DEF TypeOK
  <2> QED
    BY <1>2, <2>2 DEF Info, done
<1>3. CASE ~FanOut
  <2>1. main' = [main EXCEPT ![w.app] = done]
    BY <1>3 DEF MarkInstallComplete
  <2> HIDE DEF done
  <2>2. main'[w.app] = done
    BY <1>1, <2>1 DEF TypeOK
  <2> QED
    BY <1>3, <2>2 DEF Info, done
<1> QED
  BY <1>2, <1>3

\* A step of a goroutine: it moves on, or it ends in its deferred function.
LEMMA WorkerWork ==
  ASSUME WorkerInv, TypeOK', NEW w \in Workers, Work(w)
  PROVE  WorkerInv'
<1>1. PICK ph \in Phases, next \in {"post", "cleanup", "exit"} :
        /\ sched = "running" /\ sched' = sched /\ gor[ph][w] # "none"
        /\ gor' = [gor EXCEPT ![ph][w] = next]
        /\ UNCHANGED <<q, chan, mgr, sent, isActive, waiter, wg, slots>>
        /\ next # "exit" => /\ ph = "install"
                            /\ gor[ph][w] \in {"run", "post"}
                            /\ UNCHANGED <<main, aux>> \/ MarkInstallComplete(w)
  BY DEF Work, Download, PodCopy, InstallFails, InstallSucceeds, PostInstall, Cleanup,
         Works, Phases, control
<1>2. TypeOK /\ OthersKept(w) /\ SiblingsKept(w)
  BY <1>1, StepOthers, StepSiblings DEF WorkerInv
<1>3. \A phase \in Phases, u \in Workers :
        gor'[phase][u] = IF phase = ph /\ u = w THEN next ELSE gor[phase][u]
  BY <1>1, <1>2 DEF TypeOK
<1>4. \A phase \in Phases, u \in Workers :
        /\ Busy(phase, u)' <=> Busy(phase, u)
        /\ At(phase, u)' <=> At(phase, u)
  BY <1>1, <1>3 DEF Busy, At
<1>5. BusyIsNotDue'
  <2>1. ASSUME NEW phase \in Phases, NEW u \in Workers, Busy(phase, u)
        PROVE  \/ phase = ph /\ u = w
               \/ Info(u, phase)' = Info(u, phase) /\ u # w
    <3>1. At(phase, u) /\ At(ph, w)
      BY <1>1, <2>1 DEF At, Busy
    <3> QED
      BY <1>2, <3>1, InfoKept
  <2>2. ASSUME next # "exit"
        PROVE  ~Due(ph, Info(w, ph)')
    <3>1. CASE UNCHANGED <<main, aux>>
      <4>1. Busy(ph, w) /\ gor[ph][w] # "exit"
        BY <1>1, <2>2 DEF Busy
      <4> QED
        BY <3>1, <4>1 DEF WorkerInv, BusyIsNotDue, Info
    <3>2. CASE MarkInstallComplete(w)
      <4>1. Info(w, "install")'.status = "InstallComplete"
        <5>1. Info(w, "install") \in PhaseInfo
          BY <1>2, InfoType
        <5> QED
          BY <1>2, <3>2, <5>1, MarkedInfo, StatusFields DEF Statuses
      <4> QED
        BY <1>1, <2>2, <4>1 DEF Due, HandledFirst
    <3> QED
      BY <1>1, <2>2, <3>1, <3>2
  <2> QED
    BY <1>3, <1>4, <2>1, <2>2 DEF WorkerInv, BusyIsNotDue
<1>6. Claimed' /\ OneWorkerPerPod' /\ DoneIsQuiet'
  BY <1>1, <1>4 DEF WorkerInv, Claimed, OneWorkerPerPod, DoneIsQuiet
<1>7. NotResent'
  BY <1>1, <1>3 DEF WorkerInv, NotResent
<1>8. Counted'
  <2>1. \A phase \in Phases : Running(phase)' = Running(phase)
    BY <1>1, <1>3 DEF Running
  <2> QED
    BY <1>1, <2>1 DEF WorkerInv, Counted
<1>9. NoPanic' /\ IdleIsDone'
  BY <1>1 DEF NoPanic, IdleIsDone
<1>10. SlotHeld'
  BY <1>1, <1>4 DEF WorkerInv, SlotHeld, Phases
<1> QED
  BY <1>5, <1>6, <1>7, <1>8, <1>9, <1>10 DEF WorkerInv

\* The deferred function finds its WaitGroup, with its own count in it.
LEMMA WorkerExit ==
  ASSUME WorkerInv, TypeOK', NEW ph \in Phases, NEW w \in Workers, Exit(ph, w)
  PROVE  WorkerInv'
<1>1. /\ sched = "running" /\ gor[ph][w] = "exit"
      /\ gor' = [gor EXCEPT ![ph][w] = "none"]
      /\ isActive' = [isActive EXCEPT ![w] = FALSE]
      /\ slots' = IF ph = "install" THEN slots \ {w.pod} ELSE slots
      /\ UNCHANGED <<main, aux, q, chan, mgr, sent, waiter>>
  BY DEF Exit, status
<1>2. TypeOK
  BY DEF WorkerInv
<1>3. Busy(ph, w) /\ w \notin chan[ph]
  BY <1>1 DEF Busy, WorkerInv, NotResent
<1>4. waiter[w] = ph /\ ph # "nil"
  BY <1>3 DEF WorkerInv, Claimed, Phases
<1>5. wg[ph] # 0
  <2>1. w \in Running(ph)
    BY <1>1 DEF Running
  <2> QED
    BY <2>1, FS_EmptySet DEF WorkerInv, Counted
<1>6. sched' = sched /\ wg' = [wg EXCEPT ![ph] = @ - 1]
  BY <1>4, <1>5 DEF Exit
<1>7. \A phase \in Phases, u \in Workers :
        gor'[phase][u] = IF phase = ph /\ u = w THEN "none" ELSE gor[phase][u]
  BY <1>1, <1>2 DEF TypeOK
<1>8. \A phase \in Phases, u \in Workers :
        /\ Busy(phase, u)' <=> Busy(phase, u) /\ ~(phase = ph /\ u = w)
        /\ At(phase, u)' => At(phase, u)
  BY <1>1, <1>3, <1>7 DEF Busy, At
<1>9. \A phase \in Phases, u \in Workers : Busy(phase, u)' => u # w
  <2>1. At(ph, w)
    BY <1>3 DEF At
  <2>2. \A phase \in Phases, u \in Workers : Busy(phase, u) => At(phase, u)
    BY DEF At
  <2> QED
    BY <1>8, <2>1, <2>2 DEF WorkerInv, OneWorkerPerPod
<1>10. BusyIsNotDue'
  <2>1. \A phase \in Phases, u \in Workers : Info(u, phase)' = Info(u, phase)
    BY <1>1 DEF Info
  <2> QED
    BY <1>7, <1>8, <2>1 DEF WorkerInv, BusyIsNotDue
<1>11. Claimed'
  <2>1. \A u \in Workers : u # w => isActive'[u] = isActive[u]
    BY <1>1, <1>2 DEF TypeOK
  <2> QED
    BY <1>1, <1>8, <1>9, <2>1 DEF WorkerInv, Claimed
<1>12. OneWorkerPerPod' /\ DoneIsQuiet'
  BY <1>1, <1>8 DEF WorkerInv, OneWorkerPerPod, DoneIsQuiet
<1>13. NotResent'
  BY <1>1, <1>7 DEF WorkerInv, NotResent
<1>14. Counted'
  <2>1. ASSUME NEW phase \in Phases
        PROVE  IsFiniteSet(Running(phase)') /\ wg'[phase] = Cardinality(Running(phase)')
    <3>1. IsFiniteSet(Running(phase)) /\ wg[phase] = Cardinality(Running(phase))
      BY DEF WorkerInv, Counted
    <3>2. CASE phase = ph
      <4>1. Running(ph)' = Running(ph) \ {w} /\ w \in Running(ph)
        BY <1>1, <1>7 DEF Running
      <4>2. wg'[ph] = wg[ph] - 1
        BY <1>2, <1>6 DEF TypeOK
      <4> QED
        BY <3>1, <3>2, <4>1, <4>2, FS_RemoveElement
    <3>3. CASE phase # ph
      <4>1. Running(phase)' = Running(phase) /\ wg'[phase] = wg[phase]
        BY <1>2, <1>6, <1>7, <3>3 DEF Running, TypeOK
      <4> QED
        BY <3>1, <4>1
    <3> QED
      BY <3>2, <3>3
  <2> QED
    BY <2>1 DEF Counted
<1>15. NoPanic' /\ IdleIsDone'
  BY <1>1, <1>6 DEF NoPanic, IdleIsDone
<1>16. SlotHeld'
  <2>1. CASE ph = "install"
    <3>1. \A u \in Workers : Busy("install", u)' => Busy("install", u) /\ u # w
      BY <1>8, <1>9 DEF Phases
    <3>2. Busy("install", w) /\ slots' = slots \ {w.pod}
      BY <1>1, <1>3, <2>1
    <3> QED
      BY <3>1, <3>2 DEF WorkerInv, SlotHeld
  <2>2. CASE ph # "install"
    BY <1>1, <1>8, <2>2 DEF WorkerInv, SlotHeld, Phases
  <2> QED
    BY <2>1, <2>2
<1> QED
  BY <1>10, <1>11, <1>12, <1>13, <1>14, <1>15, <1>16 DEF WorkerInv

-----------------------------------------------------------------------------
(* The invariant, and what follows from it.                                *)

\* The first entry has not begun yet.
LEMMA WorkerInit == Init => WorkerInv
<1> SUFFICES ASSUME Init PROVE WorkerInv
  OBVIOUS
<1>1. TypeOK /\ Fresh
  BY TypeInit DEF Init, Fresh
<1> QED
  BY <1>1, FreshWorkers

\* Every step keeps the worker invariant.
LEMMA WorkerNext == ASSUME PromptExit
                    PROVE  WorkerInv /\ PackageFound /\ [Next]_vars => WorkerInv'
<1> SUFFICES ASSUME WorkerInv, PackageFound, [Next]_vars PROVE WorkerInv'
  OBVIOUS
<1>1. TypeOK'
  BY TypeNext DEF WorkerInv
<1>2. CASE UNCHANGED vars
  BY <1>1, <1>2, WorkerQuietStep DEF vars, status, control
<1>3. CASE LosePackage
  BY <1>1, <1>3, WorkerQuietStep DEF LosePackage, status, control
<1>4. CASE Crash
  <2>1. Fresh'
    BY <1>4 DEF Crash, DropPipeline, Fresh
  <2> QED
    BY <1>1, <2>1, FreshWorkersNext
<1>5. ASSUME NEW ph \in Phases, NEW w \in Workers,
             Manage(ph, w) \/ Handle(ph, w) \/ Exit(ph, w)
      PROVE  WorkerInv'
  BY <1>1, <1>5, WorkerManage, WorkerHandle, WorkerExit
<1>6. ASSUME NEW w \in Workers, Work(w)
      PROVE  WorkerInv'
  BY <1>1, <1>6, WorkerWork
<1>7. ASSUME \/ SchedulerEntry \/ YieldWatcher \/ SchedulerExit
             \/ \E ph \in Phases : ManagerStop(ph) \/ PhaseDone(ph) \/ MarkActive(ph)
      PROVE  WorkerInv'
  BY <1>1, <1>7, WorkerSchedule
<1> QED
  BY <1>2, <1>3, <1>4, <1>5, <1>6, <1>7 DEF Next

\* In every reachable state of a CR with one pod the worker invariant holds.
LEMMA WorkerInvariance == ASSUME SinglePod PROVE Spec => []WorkerInv
<1>1. Init => WorkerInv
  BY WorkerInit
<1>2. WorkerInv /\ [Next]_vars => WorkerInv'
  BY WorkerNext DEF SinglePod, PackageFound
<1> QED
  BY <1>1, <1>2, PTL DEF Spec

\* A reconcile of a CR with one pod returns only after all the goroutines it
\* started have: workerWaiter counts exactly the goroutines of its phase.
THEOREM WorkersAreJoined == ASSUME SinglePod PROVE Spec => []NoOrphanWorker
<1>1. WorkerInv => NoOrphanWorker
  BY DEF WorkerInv, NoOrphanWorker, IdleIsDone, DoneIsQuiet, Busy
<1> QED
  BY <1>1, WorkerInvariance, PTL

\* Of any number of apps, at most one is being installed on the pod.
THEOREM InstallsAreSerial == ASSUME SinglePod PROVE Spec => []InstallSlotExclusive
<1>1. WorkerInv => InstallSlotExclusive
  BY DEF WorkerInv, InstallSlotExclusive, SlotHeld, Busy
<1> QED
  BY <1>1, WorkerInvariance, PTL

\* A running worker is never sent to a handler again, and no app is copied
\* and installed at the same time.
THEOREM WorkersRunOnce == ASSUME SinglePod PROVE Spec => []NoDoubleRun
<1>1. WorkerInv => NoDoubleRun
  BY DEF WorkerInv, NoDoubleRun, NotResent, OneWorkerPerPod, At, Busy
<1> QED
  BY <1>1, WorkerInvariance, PTL

-----------------------------------------------------------------------------
(* Retries are bounded.                                                    *)

\* A goroutine that may still fail.
MayFail(ph, w) == Busy(ph, w) /\ gor[ph][w] \notin {"cleanup", "exit"}

\* A worker is only handed out while its phase has retries left.
BusyHasRetries ==
  \A ph \in Phases, w \in Workers : MayFail(ph, w) => Info(w, ph).fail <= MaxRetries

\* RetriesBounded, of the status in the API server.
SavedBounded ==
  \A a \in Apps : /\ saved.main[a].fail <= MaxRetries + 1
                  /\ \A p \in Pods : saved.aux[a][p].fail <= MaxRetries + 1

RetryInv == WorkerInv /\ RetriesBounded /\ SavedBounded /\ BusyHasRetries

\* No FailCount grows.
NoNewFailure ==
  \A a \in Apps : /\ main'[a].fail <= main[a].fail
                  /\ \A p \in Pods : aux'[a][p].fail <= aux[a][p].fail

\* A step after which nothing but what could already fail may fail.
NoNewRisk ==
  \A ph \in Phases, w \in Workers : MayFail(ph, w)' => MayFail(ph, w)

\* Every FailCount is a natural number.
LEMMA FailIsNat ==
  ASSUME TypeOK
  PROVE  /\ \A a \in Apps : main[a].fail \in Nat /\ saved.main[a].fail \in Nat
         /\ \A a \in Apps, p \in Pods : aux[a][p].fail \in Nat
                                        /\ saved.aux[a][p].fail \in Nat
BY DEF TypeOK, PhaseInfo

\* Steps that record no failure keep the retry invariant.
LEMMA RetryQuietStep ==
  ASSUME RetryInv, WorkerInv', NoNewFailure, NoNewRisk,
         saved' = saved
         \/ saved' = [main |-> main, aux |-> aux, inProgress |-> inProgress']
  PROVE  RetryInv'
<1>1. TypeOK /\ TypeOK' /\ MaxRetries \in Nat
  BY PipelineAssumption DEF RetryInv, WorkerInv
<1>2. /\ \A a \in Apps : main[a].fail \in Nat /\ main'[a].fail \in Nat
      /\ \A a \in Apps, p \in Pods : aux[a][p].fail \in Nat /\ aux'[a][p].fail \in Nat
  BY <1>1 DEF TypeOK, PhaseInfo
<1>3. RetriesBounded'
  BY <1>1, <1>2 DEF RetryInv, RetriesBounded, NoNewFailure
<1>4. SavedBounded'
  BY DEF RetryInv, RetriesBounded, SavedBounded
<1>5. BusyHasRetries'
  <2>1. ASSUME NEW ph \in Phases, NEW w \in Workers, MayFail(ph, w)'
        PROVE  Info(w, ph)'.fail <= MaxRetries
    <3>1. Info(w, ph).fail <= MaxRetries
      BY <2>1 DEF NoNewRisk, RetryInv, BusyHasRetries
    <3>2. Info(w, ph)'.fail <= Info(w, ph).fail
      BY DEF NoNewFailure, Info, Workers
    <3>3. Info(w, ph).fail \in Nat /\ Info(w, ph)'.fail \in Nat
      BY <1>2 DEF Info, Workers
    <3> QED
      BY <1>1, <3>1, <3>2, <3>3
  <2> QED
    BY <2>1 DEF BusyHasRetries
<1> QED
  BY <1>3, <1>4, <1>5 DEF RetryInv

\* A worker with retries left fails once, and is no longer at risk.
LEMMA RetryFailure ==
  ASSUME RetryInv, WorkerInv', NEW ph \in Phases, NEW w \in Workers,
         MayFail(ph, w), ~MayFail(ph, w)', NoNewRisk,
         NEW info \in PhaseInfo, SetInfo(w, ph, info),
         info.fail <= Info(w, ph).fail + 1, saved' = saved
  PROVE  RetryInv'
<1>1. TypeOK /\ TypeOK' /\ MaxRetries \in Nat /\ w.app \in Apps /\ w.pod \in Pods
  BY PipelineAssumption DEF RetryInv, WorkerInv, Workers
<1>2. Info(w, ph).fail \in Nat /\ info.fail \in Nat
  BY <1>1, InfoType DEF PhaseInfo
<1>3. info.fail <= MaxRetries + 1
  BY <1>1, <1>2 DEF RetryInv, BusyHasRetries
<1>4. RetriesBounded'
  <2>1. CASE aux' = [aux EXCEPT ![w.app][w.pod] = info] /\ main' = main
    <3>1. \A a \in Apps, p \in Pods : aux'[a][p] = info \/ aux'[a][p] = aux[a][p]
      BY <1>1, <2>1 DEF TypeOK
    <3> QED
      BY <1>3, <2>1, <3>1 DEF RetryInv, RetriesBounded
  <2>2. CASE main' = [main EXCEPT ![w.app] = info] /\ aux' = aux
    <3>1. \A a \in Apps : main'[a] = info \/ main'[a] = main[a]
      BY <1>1, <2>2 DEF TypeOK
    <3> QED
      BY <1>3, <2>2, <3>1 DEF RetryInv, RetriesBounded
  <2> QED
    BY <2>1, <2>2, Zenon DEF SetInfo
<1>5. SavedBounded'
  BY DEF RetryInv, SavedBounded
<1>6. BusyHasRetries'
  <2>1. OthersKept(w)
    BY <1>1, SetInfoOthers
  <2>3. SiblingsKept(w)
    <3>1. aux' = aux \/ aux' = [aux EXCEPT ![w.app][w.pod] = info]
      BY Zenon DEF SetInfo
    <3> QED
      BY <1>1, <3>1, PodChange
  <2>2. ASSUME NEW phase \in Phases, NEW u \in Workers, MayFail(phase, u)'
        PROVE  Info(u, phase)'.fail <= MaxRetries
    <3>1. MayFail(phase, u) /\ ~(phase = ph /\ u = w)
      BY <2>2 DEF NoNewRisk
    <3>2. At(phase, u) /\ At(ph, w)
      BY <3>1 DEF MayFail, At
    <3>3. Info(u, phase)' = Info(u, phase)
      BY <2>1, <2>3, <3>1, <3>2, InfoKept DEF RetryInv
    <3> QED
      BY <3>1, <3>3 DEF RetryInv, BusyHasRetries
  <2> QED
    BY <2>2 DEF BusyHasRetries
<1> QED
  BY <1>4, <1>5, <1>6 DEF RetryInv

\* What the ways to record an outcome do to the FailCount.
LEMMA FailFields ==
  ASSUME NEW info \in PhaseInfo
  PROVE  /\ \A st \in Statuses : /\ WithStatus(info, st).fail = info.fail
                                 /\ Succeeded(info, st).fail = 0
                                 /\ InstallAs(info, st).fail = info.fail
         /\ FailedOnce(info).fail = info.fail + 1
         /\ ToPending(info).fail = info.fail
         /\ \A ph \in Phases : NewPhase(ph).fail = 0
BY DEF PhaseInfo, WithStatus, Succeeded, InstallAs, FailedOnce, ToPending, NewPhase

\* Storing a phase info that has not failed more often.
LEMMA SetInfoFails ==
  ASSUME TypeOK, NEW w \in Workers, NEW ph, NEW info \in PhaseInfo,
         SetInfo(w, ph, info), info.fail <= Info(w, ph).fail
  PROVE  NoNewFailure
<1>1. w.app \in Apps /\ w.pod \in Pods
  BY DEF Workers
<1>2. /\ \A a \in Apps : main[a].fail <= main[a].fail
      /\ \A a \in Apps, p \in Pods : aux[a][p].fail <= aux[a][p].fail
  BY FailIsNat
<1>3. CASE FanOut /\ ph # "download"
  <2>1. aux' = [aux EXCEPT ![w.app][w.pod] = info] /\ main' = main
    BY <1>3 DEF SetInfo
  <2>2. Info(w, ph) = aux[w.app][w.pod]
    BY <1>3 DEF Info
  <2>3. ASSUME NEW a \in Apps, NEW p \in Pods
        PROVE  aux'[a][p] = IF a = w.app /\ p = w.pod THEN info ELSE aux[a][p]
    BY <1>1, <2>1 DEF TypeOK
  <2> QED
    BY <1>2, <2>1, <2>2, <2>3 DEF NoNewFailure
<1>4. CASE ~(FanOut /\ ph # "download")
  <2>1. main' = [main EXCEPT ![w.app] = info] /\ aux' = aux
    BY <1>4, Zenon DEF SetInfo
  <2>2. Info(w, ph) = main[w.app]
    BY <1>4, Zenon DEF Info
  <2>3. \A a \in Apps : main'[a] = IF a = w.app THEN info ELSE main[a]
    BY <1>1, <2>1 DEF TypeOK
  <2> QED
    BY <1>2, <2>1, <2>2, <2>3 DEF NoNewFailure
<1> QED
  BY <1>3, <1>4

\* A phase manager records no failure of its own.
LEMMA ManageFails ==
  ASSUME TypeOK, NEW ph \in Phases, NEW w \in Workers, Manage(ph, w)
  PROVE  NoNewFailure
<1>1. w.app \in Apps /\ w.pod \in Pods
  BY DEF Workers
<1>2. main[w.app] \in PhaseInfo /\ \A p \in Pods : aux[w.app][p] \in PhaseInfo
  BY <1>1 DEF TypeOK
<1>3. /\ \A a \in Apps : main[a].fail <= main[a].fail
      /\ \A a \in Apps, p \in Pods : aux[a][p].fail <= aux[a][p].fail
  BY FailIsNat
<1>4. \A phase \in Phases : /\ NewPhase(phase).fail <= main[w.app].fail
                            /\ \A p \in Pods : NewPhase(phase).fail <= aux[w.app][p].fail
  BY <1>1, <1>2, FailFields, FailIsNat
<1>5. ASSUME NEW current \in Phases, NEW next \in Phases,
             TransitionWorker(w, current, next)
      PROVE  NoNewFailure
  <2>1. CASE FanOutFromDownload(w)
    <3>1. main' = main
      BY <2>1 DEF FanOutFromDownload
    <3>2. CASE ~HasAux(w.app)
      <4>1. aux' = [aux EXCEPT ![w.app] = [p \in Pods |-> NewPhase("podCopy")]]
        BY <2>1, <3>2 DEF FanOutFromDownload
      <4>2. \A a \in Apps, p \in Pods :
              aux'[a][p] = IF a = w.app THEN NewPhase("podCopy") ELSE aux[a][p]
        BY <1>1, <4>1 DEF TypeOK
      <4> QED
        BY <1>3, <1>4, <3>1, <4>2 DEF NoNewFailure, Phases
    <3>3. CASE HasAux(w.app)
      <4>1. aux' = [aux EXCEPT ![w.app] =
                      [p \in Pods |-> IF p \in ReplicasToResume(w.app)
                                      THEN ToPending(aux[w.app][p])
                                      ELSE aux[w.app][p]]]
        BY <2>1, <3>3 DEF FanOutFromDownload
      <4>2. \A a \in Apps, p \in Pods :
              \/ aux'[a][p] = aux[a][p]
              \/ a = w.app /\ aux'[a][p] = ToPending(aux[w.app][p])
        BY <1>1, <4>1 DEF TypeOK
      <4>3. \A p \in Pods : ToPending(aux[w.app][p]).fail = aux[w.app][p].fail
        BY <1>2, FailFields
      <4> QED
        BY <1>3, <3>1, <4>2, <4>3 DEF NoNewFailure
    <3> QED
      BY <3>2, <3>3
  <2>2. CASE UNCHANGED <<main, aux>>
    BY <1>3, <2>2 DEF NoNewFailure
  <2>3. CASE aux' = [aux EXCEPT ![w.app][w.pod] = NewPhase(next)] /\ main' = main
    <3>1. \A a \in Apps, p \in Pods :
            aux'[a][p] = IF a = w.app /\ p = w.pod THEN NewPhase(next) ELSE aux[a][p]
      BY <1>1, <2>3 DEF TypeOK
    <3> QED
      BY <1>3, <1>4, <2>3, <3>1 DEF NoNewFailure
  <2>4. CASE main' = [main EXCEPT ![w.app] = NewPhase(next)] /\ aux' = aux
    <3>1. \A a \in Apps :
            main'[a] = IF a = w.app THEN NewPhase(next) ELSE main[a]
      BY <1>1, <2>4 DEF TypeOK
    <3> QED
      BY <1>3, <1>4, <2>4, <3>1 DEF NoNewFailure
  <2> QED
    BY <1>5, <2>1, <2>2, <2>3, <2>4, Zenon DEF TransitionWorker
<1>6. CASE GiveUp(ph, w)
  <2>1. /\ \E st \in {"DownloadError", "PodCopyError", "InstallError"} :
             \/ main' = [main EXCEPT ![w.app] = WithStatus(@, st)]
             \/ main' = [main EXCEPT ![w.app] = InstallAs(@, st)]
        /\ \/ aux' = aux
           \/ aux' = [aux EXCEPT ![w.app][w.pod] = WithStatus(@, "InstallError")]
    BY <1>6 DEF GiveUp
  <2>2. \A st \in {"DownloadError", "PodCopyError", "InstallError"} :
          /\ WithStatus(main[w.app], st).fail = main[w.app].fail
          /\ InstallAs(main[w.app], st).fail = main[w.app].fail
          /\ WithStatus(aux[w.app][w.pod], st).fail = aux[w.app][w.pod].fail
    BY <1>1, <1>2, FailFields DEF Statuses
  <2>3. \A a \in Apps : main'[a].fail = main[a].fail
    BY <1>1, <2>1, <2>2 DEF TypeOK
  <2>4. \A a \in Apps, p \in Pods : aux'[a][p].fail = aux[a][p].fail
    <3>1. CASE aux' = [aux EXCEPT ![w.app][w.pod] = WithStatus(@, "InstallError")]
      <4>1. \A a \in Apps, p \in Pods :
              aux'[a][p] = IF a = w.app /\ p = w.pod
                           THEN WithStatus(aux[w.app][w.pod], "InstallError")
                           ELSE aux[a][p]
        BY <1>1, <3>1 DEF TypeOK
      <4> QED
        BY <2>2, <4>1
    <3> QED
      BY <2>1, <3>1
  <2> QED
    BY <1>3, <2>3, <2>4 DEF NoNewFailure
<1>7. CASE Advance(ph, w) \/ MoveBack(ph, w)
  <2>1. \/ UNCHANGED <<main, aux>>
        \/ \E current, next \in Phases : TransitionWorker(w, current, next)
    BY <1>7 DEF Advance, MoveBack, Phases
  <2> QED
    BY <1>3, <1>5, <2>1 DEF NoNewFailure
<1>8. CASE Dispatch(ph, w)
  BY <1>3, <1>8 DEF Dispatch, status, NoNewFailure
<1> QED
  BY <1>6, <1>7, <1>8 DEF Manage

\* A manager hands out no worker that is out of retries.
LEMMA RetryManage ==
  ASSUME RetryInv, WorkerInv', NEW ph \in Phases, NEW w \in Workers, Manage(ph, w)
  PROVE  RetryInv'
<1>1. TypeOK /\ TypeOK'
  BY DEF RetryInv, WorkerInv
<1>2. NoNewFailure
  BY <1>1, ManageFails
<1>3. saved' = saved /\ gor' = gor
  BY DEF Manage, GiveUp, Advance, MoveBack, Dispatch
<1>4. CASE ~Dispatch(ph, w)
  <2>1. chan' = chan
    BY <1>4 DEF Manage, GiveUp, Advance, MoveBack
  <2>2. NoNewRisk
    BY <1>3, <2>1 DEF NoNewRisk, MayFail, Busy
  <2> QED
    BY <1>2, <1>3, <2>2, RetryQuietStep
<1>5. CASE Dispatch(ph, w)
  <2>1. /\ chan' = [chan EXCEPT ![ph] = @ \cup {w}]
        /\ UNCHANGED <<main, aux>>
        /\ ~MaxRetriesReached(Info(w, ph))
    BY <1>5 DEF Dispatch, status
  <2>2. Info(w, ph).fail <= MaxRetries
    <3>1. Info(w, ph).fail \in Nat /\ MaxRetries \in Nat
      BY <1>1, InfoType, PipelineAssumption DEF PhaseInfo
    <3> QED
      BY <2>1, <3>1 DEF MaxRetriesReached
  <2>3. \A phase \in Phases, u \in Workers :
          MayFail(phase, u)' => MayFail(phase, u) \/ (phase = ph /\ u = w)
    BY <1>1, <1>3, <2>1 DEF MayFail, Busy, TypeOK
  <2>4. \A phase \in Phases, u \in Workers : Info(u, phase)' = Info(u, phase)
    BY <2>1 DEF Info
  <2>5. BusyHasRetries'
    BY <2>2, <2>3, <2>4 DEF RetryInv, BusyHasRetries
  <2> QED
    BY <1>3, <2>1, <2>5 DEF RetryInv, RetriesBounded, SavedBounded
<1> QED
  BY <1>4, <1>5

\* The handlers fail a worker only while it has retries left.
LEMMA RetryHandle ==
  ASSUME RetryInv, WorkerInv', NEW ph \in Phases, NEW w \in Workers,
         Handle(ph, w) \/ Exit(ph, w)
  PROVE  RetryInv'
<1>1. TypeOK /\ TypeOK' /\ w.app \in Apps
  BY DEF RetryInv, WorkerInv, Workers
<1>2. /\ \A a \in Apps : main[a].fail <= main[a].fail
      /\ \A a \in Apps, p \in Pods : aux[a][p].fail <= aux[a][p].fail
  BY <1>1, FailIsNat
<1>3. saved' = saved
  BY DEF Handle, HandleDownload, HandleOther, Exit
<1>4. NoNewRisk
  <2>1. CASE Exit(ph, w)
    <3>1. gor' = [gor EXCEPT ![ph][w] = "none"] /\ chan' = chan
      BY <2>1 DEF Exit
    <3>2. w \notin chan[ph]
      BY <2>1 DEF Exit, RetryInv, WorkerInv, NotResent
    <3> QED
      BY <1>1, <3>1, <3>2 DEF NoNewRisk, MayFail, Busy, TypeOK
  <2>2. CASE Handle(ph, w)
    <3>1. /\ w \in chan[ph] /\ gor[ph][w] = "none"
          /\ chan' = [chan EXCEPT ![ph] = @ \ {w}]
          /\ gor' = gor \/ gor' = [gor EXCEPT ![ph][w] = "run"]
      BY <2>2 DEF Handle, HandleDownload, HandleOther, Receives, StartGoroutine
    <3> QED
      BY <1>1, <3>1 DEF NoNewRisk, MayFail, Busy, TypeOK
  <2> QED
    BY <2>1, <2>2
<1>5. CASE HandleOther(ph, w) \/ Exit(ph, w)
  <2>1. NoNewFailure
    BY <1>2, <1>5 DEF HandleOther, Exit, status, NoNewFailure
  <2> QED
    BY <1>3, <1>4, <2>1, RetryQuietStep
<1>6. CASE ph = "download" /\ HandleDownload(w)
  <2>1. main[w.app] \in PhaseInfo /\ Info(w, ph) = main[w.app] /\ aux' = aux
    BY <1>1, <1>6 DEF TypeOK, Info, HandleDownload
  <2>2. CASE \/ main' = main
             \/ main' = [main EXCEPT ![w.app] = Succeeded(@, "DownloadComplete")]
             \/ main' = [main EXCEPT ![w.app] = WithStatus(@, "DownloadInProgress")]
    <3>1. /\ Succeeded(main[w.app], "DownloadComplete").fail <= main[w.app].fail
          /\ WithStatus(main[w.app], "DownloadInProgress").fail <= main[w.app].fail
      BY <1>1, <1>2, <2>1, FailFields, FailIsNat DEF Statuses
    <3>2. NoNewFailure
      BY <1>1, <1>2, <2>1, <2>2, <3>1 DEF NoNewFailure, TypeOK
    <3> QED
      BY <1>3, <1>4, <3>2, RetryQuietStep
  <2>3. CASE /\ \E st \in {"DownloadPending", "DownloadError"} :
                  main' = [main EXCEPT ![w.app] = WithStatus(FailedOnce(@), st)]
             /\ UNCHANGED gor
    <3>1. PICK st \in {"DownloadPending", "DownloadError"} :
            main' = [main EXCEPT ![w.app] = WithStatus(FailedOnce(@), st)]
      BY <2>3
    <3> DEFINE info == WithStatus(FailedOnce(main[w.app]), st)
    <3>2. FailedOnce(main[w.app]) \in PhaseInfo /\ st \in Statuses
      BY <2>1, PhaseInfoTypes DEF Statuses
    <3>3. info \in PhaseInfo /\ info.fail = main[w.app].fail + 1
      BY <2>1, <3>2, PhaseInfoTypes, FailFields
    <3>4. SetInfo(w, ph, info)
      BY <1>6, <2>1, <3>1 DEF SetInfo
    <3>5. MayFail(ph, w) /\ ~MayFail(ph, w)'
      <4>1. /\ w \in chan[ph] /\ gor[ph][w] = "none"
            /\ chan' = [chan EXCEPT ![ph] = @ \ {w}]
        BY <1>6 DEF HandleDownload, Receives
      <4> QED
        BY <1>1, <2>3, <4>1 DEF MayFail, Busy, TypeOK
    <3>6. info.fail <= Info(w, ph).fail + 1
      BY <1>1, <2>1, <3>3, FailIsNat
    <3> HIDE DEF info
    <3> QED
      BY <1>3, <1>4, <3>3, <3>4, <3>5, <3>6, RetryFailure
  <2> QED
    BY <1>6, <2>2, <2>3 DEF HandleDownload
<1> QED
  BY <1>5, <1>6 DEF Handle

\* An install that is recorded takes no FailCount up.
LEMMA MarkedFails ==
  ASSUME TypeOK, NEW w \in Workers, MarkInstallComplete(w)
  PROVE  NoNewFailure
<1>1. w.app \in Apps /\ w.pod \in Pods
  BY DEF Workers
<1>2. /\ \A a \in Apps : main[a].fail <= main[a].fail
      /\ \A a \in Apps, p \in Pods : aux[a][p].fail <= aux[a][p].fail
  BY FailIsNat
<1> DEFINE done == Succeeded(Info(w, "install"), "InstallComplete")
<1>3. done.fail = 0
  BY InfoType, FailFields DEF Statuses
<1>4. InstallAs(main[w.app], "InstallComplete").fail = main[w.app].fail
  BY <1>1, FailFields DEF TypeOK, Statuses
<1>5. CASE FanOut
  <2>1. /\ aux' = [aux EXCEPT ![w.app] = [aux[w.app] EXCEPT ![w.pod] = done]]
        /\ \/ main' = main
           \/ main' = [main EXCEPT ![w.app] = InstallAs(@, "InstallComplete")]
    BY <1>5 DEF MarkInstallComplete
  <2> HIDE DEF done
  <2>2. \A a \in Apps, p \in Pods :
          aux'[a][p] = IF a = w.app /\ p = w.pod THEN done ELSE aux[a][p]
    BY <1>1, <2>1 DEF TypeOK
  <2>3. \A a \in Apps : main'[a].fail = main[a].fail
    BY <1>1, <1>4, <2>1 DEF TypeOK
  <2> QED
    BY <1>1, <1>2, <1>3, <2>2, <2>3, FailIsNat DEF NoNewFailure
<1>6. CASE ~FanOut
  <2>1. main' = [main EXCEPT ![w.app] = done] /\ aux' = aux
    BY <1>6 DEF MarkInstallComplete
  <2> HIDE DEF done
  <2>2. \A a \in Apps : main'[a] = IF a = w.app THEN done ELSE main[a]
    BY <1>1, <2>1 DEF TypeOK
  <2> QED
    BY <1>1, <1>2, <1>3, <2>1, <2>2, FailIsNat DEF NoNewFailure
<1> QED
  BY <1>5, <1>6

\* A step of a goroutine records at most one failure, with retries left,
\* and then the goroutine has nothing left to fail.
WorkOutcome(w) ==
  \/ NoNewFailure
  \/ \E ph \in Phases, info \in PhaseInfo :
       /\ gor[ph][w] \in {"run", "post"} /\ gor'[ph][w] = "exit"
       /\ SetInfo(w, ph, info) /\ info.fail <= Info(w, ph).fail + 1

\* Every step of a goroutine has such an outcome.
LEMMA WorkOutcomes ==
  ASSUME TypeOK, NEW w \in Workers, Work(w)
  PROVE  WorkOutcome(w)
<1>1. w.app \in Apps /\ main[w.app] \in PhaseInfo
  BY DEF Workers, TypeOK
<1>2. /\ \A a \in Apps : main[a].fail <= main[a].fail
      /\ \A a \in Apps, p \in Pods : aux[a][p].fail <= aux[a][p].fail
  BY FailIsNat
<1>3. ASSUME UNCHANGED <<main, aux>> PROVE NoNewFailure
  BY <1>2, <1>3 DEF NoNewFailure
<1>4. ASSUME NEW ph \in Phases, SetInfo(w, ph, FailedOnce(Info(w, ph))),
             gor[ph][w] \in {"run", "post"}, gor'[ph][w] = "exit"
      PROVE  WorkOutcome(w)
  <2>1. Info(w, ph) \in PhaseInfo
    BY InfoType
  <2>2. FailedOnce(Info(w, ph)) \in PhaseInfo
    BY <2>1, PhaseInfoTypes
  <2>3. FailedOnce(Info(w, ph)).fail <= Info(w, ph).fail + 1
    BY <2>1, FailFields DEF PhaseInfo
  <2> QED
    BY <1>4, <2>2, <2>3 DEF WorkOutcome
<1>5. ASSUME NEW ph \in Phases, NEW st \in Statuses,
             SetInfo(w, ph, WithStatus(Info(w, ph), st))
      PROVE  NoNewFailure
  <2>1. Info(w, ph) \in PhaseInfo
    BY InfoType
  <2>2. WithStatus(Info(w, ph), st) \in PhaseInfo
    BY <2>1, PhaseInfoTypes
  <2>3. WithStatus(Info(w, ph), st).fail <= Info(w, ph).fail
    BY <2>1, FailFields DEF PhaseInfo
  <2> QED
    BY <1>5, <2>2, <2>3, SetInfoFails
<1>6. ASSUME NEW ph \in Phases, NEW at, Works(ph, w, at, "exit")
      PROVE  gor[ph][w] = at /\ gor'[ph][w] = "exit"
  BY <1>6 DEF Works, TypeOK
<1>7. CASE Download(w)
  <2>1. PICK ok \in BOOLEAN :
          main' = [main EXCEPT ![w.app] =
                     IF ok THEN Succeeded(@, "DownloadComplete")
                           ELSE WithStatus(FailedOnce(@), "DownloadPending")]
    BY <1>7 DEF Download
  <2>2. aux' = aux /\ Works("download", w, "run", "exit")
    BY <1>7 DEF Download
  <2>3. CASE ok
    <3>1. main' = [main EXCEPT ![w.app] = Succeeded(@, "DownloadComplete")]
      BY <2>1, <2>3
    <3>2. Succeeded(main[w.app], "DownloadComplete").fail <= main[w.app].fail
      BY <1>1, FailFields, FailIsNat DEF Statuses
    <3>3. NoNewFailure
      BY <1>1, <1>2, <2>2, <3>1, <3>2 DEF NoNewFailure, TypeOK
    <3> QED
      BY <3>3 DEF WorkOutcome
  <2>4. CASE ~ok
    <3> DEFINE info == WithStatus(FailedOnce(main[w.app]), "DownloadPending")
    <3>1. main' = [main EXCEPT ![w.app] = info]
      BY <2>1, <2>4
    <3>2. FailedOnce(main[w.app]) \in PhaseInfo
      BY <1>1, PhaseInfoTypes
    <3>3. info \in PhaseInfo /\ info.fail = main[w.app].fail + 1
      BY <1>1, <3>2, PhaseInfoTypes, FailFields DEF Statuses
    <3>4. Info(w, "download") = main[w.app]
      BY DEF Info
    <3> HIDE DEF info
    <3>5. SetInfo(w, "download", info)
      BY <2>2, <3>1 DEF SetInfo
    <3>6. info.fail <= Info(w, "download").fail + 1
      BY <1>1, <3>3, <3>4, FailIsNat
    <3>7. gor["download"][w] = "run" /\ gor'["download"][w] = "exit"
      BY <1>6, <2>2 DEF Phases
    <3> QED
      BY <3>3, <3>5, <3>6, <3>7 DEF WorkOutcome, Phases
  <2> QED
    BY <2>3, <2>4
<1>8. CASE PodCopy(w)
  <2>1. gor["podCopy"][w] = "run" /\ gor'["podCopy"][w] = "exit"
    BY <1>6, <1>8 DEF PodCopy, Phases
  <2>2. \/ SetInfo(w, "podCopy", FailedOnce(Info(w, "podCopy")))
        \/ \E st \in Statuses : SetInfo(w, "podCopy", WithStatus(Info(w, "podCopy"), st))
    BY <1>8 DEF PodCopy, Statuses
  <2> QED
    BY <1>4, <1>5, <2>1, <2>2 DEF WorkOutcome, Phases
<1>9. CASE InstallFails(w)
  <2>1. gor["install"][w] = "run" /\ gor'["install"][w] = "exit"
    BY <1>6, <1>9 DEF InstallFails, Phases
  <2>2. \/ SetInfo(w, "install", FailedOnce(Info(w, "install")))
        \/ \E st \in Statuses : SetInfo(w, "install", WithStatus(Info(w, "install"), st))
        \/ UNCHANGED <<main, aux>>
    BY <1>9 DEF InstallFails, MissingOnPod, Statuses
  <2> QED
    BY <1>3, <1>4, <1>5, <2>1, <2>2 DEF WorkOutcome, Phases
<1>10. CASE InstallSucceeds(w)
  BY <1>3, <1>10, MarkedFails DEF InstallSucceeds, WorkOutcome
<1>11. CASE PostInstall(w)
  <2>1. CASE MarkInstallComplete(w)
    BY <2>1, MarkedFails DEF WorkOutcome
  <2>2. CASE /\ Works("install", w, "post", "exit")
             /\ SetInfo(w, "install", FailedOnce(Info(w, "install")))
    <3>1. gor["install"][w] = "post" /\ gor'["install"][w] = "exit"
      BY <1>6, <2>2 DEF Phases
    <3> QED
      BY <1>4, <2>2, <3>1 DEF Phases
  <2> QED
    BY <1>11, <2>1, <2>2 DEF PostInstall
<1>12. CASE Cleanup(w)
  BY <1>3, <1>12 DEF Cleanup, WorkOutcome
<1> QED
  BY <1>7, <1>8, <1>9, <1>10, <1>11, <1>12 DEF Work

\* The goroutines keep the retry invariant.
LEMMA RetryWork ==
  ASSUME RetryInv, WorkerInv', NEW w \in Workers, Work(w)
  PROVE  RetryInv'
<1>1. TypeOK
  BY DEF RetryInv, WorkerInv
<1>2. PICK at \in Phases, next \in {"post", "cleanup", "exit"} :
        /\ gor' = [gor EXCEPT ![at][w] = next] /\ gor[at][w] # "none"
        /\ next = "post" => gor[at][w] = "run"
        /\ UNCHANGED <<saved, chan>>
  BY DEF Work, Download, PodCopy, InstallFails, InstallSucceeds, PostInstall, Cleanup,
         Works, Phases
<1>3. NoNewRisk
  BY <1>1, <1>2 DEF NoNewRisk, MayFail, Busy, TypeOK
<1>4. CASE NoNewFailure
  BY <1>2, <1>3, <1>4, RetryQuietStep
<1>5. ASSUME NEW ph \in Phases, NEW info \in PhaseInfo,
             gor[ph][w] \in {"run", "post"}, gor'[ph][w] = "exit",
             SetInfo(w, ph, info), info.fail <= Info(w, ph).fail + 1
      PROVE  RetryInv'
  <2>1. MayFail(ph, w) /\ ~MayFail(ph, w)'
    BY <1>5 DEF MayFail, Busy
  <2> QED
    BY <1>2, <1>3, <1>5, <2>1, RetryFailure
<1> QED
  BY <1>1, <1>4, <1>5, WorkOutcomes DEF WorkOutcome

\* Every step keeps the retry invariant.
LEMMA RetryNext == RetryInv /\ WorkerInv' /\ [Next]_vars => RetryInv'
<1> SUFFICES ASSUME RetryInv, WorkerInv', [Next]_vars PROVE RetryInv'
  OBVIOUS
<1>1. TypeOK
  BY DEF RetryInv, WorkerInv
<1>2. /\ \A a \in Apps : main[a].fail <= main[a].fail
      /\ \A a \in Apps, p \in Pods : aux[a][p].fail <= aux[a][p].fail
  BY <1>1, FailIsNat
<1>3. CASE UNCHANGED vars \/ LosePackage
  <2>1. UNCHANGED <<main, aux, saved, chan, gor>>
    BY <1>3 DEF vars, LosePackage, status, pipeline
  <2> QED
    BY <1>2, <2>1, RetryQuietStep DEF NoNewFailure, NoNewRisk, MayFail, Busy
<1>4. CASE \/ SchedulerEntry \/ YieldWatcher \/ SchedulerExit
           \/ \E ph \in Phases : ManagerStop(ph) \/ PhaseDone(ph) \/ MarkActive(ph)
  <2>1. /\ UNCHANGED <<main, aux, gor>>
        /\ chan' = chan \/ chan' = [ph \in Phases |-> {}]
    BY <1>4 DEF SchedulerEntry, YieldWatcher, SchedulerExit, DropPipeline, ManagerStop,
                PhaseDone, MarkActive, status, pipeline
  <2>2. \/ saved' = saved
        \/ saved' = [main |-> main, aux |-> aux, inProgress |-> inProgress']
    BY <1>4 DEF SchedulerEntry, YieldWatcher, SchedulerExit, ManagerStop, PhaseDone,
                MarkActive
  <2>3. NoNewFailure /\ NoNewRisk
    BY <1>2, <2>1 DEF NoNewFailure, NoNewRisk, MayFail, Busy
  <2> QED
    BY <2>2, <2>3, RetryQuietStep
<1>5. CASE Crash
  <2>1. RetriesBounded' /\ SavedBounded'
    BY <1>5 DEF Crash, RetryInv, RetriesBounded, SavedBounded
  <2>2. \A ph \in Phases, w \in Workers : ~MayFail(ph, w)'
    BY <1>5 DEF Crash, DropPipeline, MayFail, Busy
  <2> QED
    BY <2>1, <2>2 DEF RetryInv, BusyHasRetries
<1>6. ASSUME NEW ph \in Phases, NEW w \in Workers,
             Manage(ph, w) \/ Handle(ph, w) \/ Exit(ph, w)
      PROVE  RetryInv'
  BY <1>6, RetryManage, RetryHandle
<1>7. ASSUME NEW w \in Workers, Work(w)
      PROVE  RetryInv'
  BY <1>7, RetryWork
<1> QED
  BY <1>3, <1>4, <1>5, <1>6, <1>7 DEF Next

\* Initially nothing has failed.
LEMMA RetryInit == Init => RetryInv
<1> SUFFICES ASSUME Init PROVE RetryInv
  OBVIOUS
<1>1. WorkerInv
  BY WorkerInit
<1>2. /\ \A a \in Apps : main[a].fail = 0 /\ saved.main[a].fail = 0
      /\ \A a \in Apps, p \in Pods : aux[a][p].fail = 0 /\ saved.aux[a][p].fail = 0
  BY DEF Init, NewPhase, NoInfo
<1>3. RetriesBounded /\ SavedBounded
  BY <1>2, PipelineAssumption DEF RetriesBounded, SavedBounded
<1>4. \A ph \in Phases, w \in Workers : ~MayFail(ph, w)
  BY DEF Init, MayFail, Busy
<1> QED
  BY <1>1, <1>3, <1>4 DEF RetryInv, BusyHasRetries

\* In every reachable state of a CR with one pod the retry invariant holds.
LEMMA RetryInvariance == ASSUME SinglePod PROVE Spec => []RetryInv
<1>1. Init => RetryInv
  BY RetryInit
<1>2. RetryInv /\ [Next]_vars => RetryInv'
  BY RetryNext, WorkerNext DEF RetryInv, SinglePod, PackageFound
<1> QED
  BY <1>1, <1>2, PTL DEF Spec

\* No phase of an app on a CR with one pod fails more often than phaseMaxRetries
\* allows, across yields and restarts: a worker is handed out only while
\* retries are left, and a run of it counts at most one failure.
THEOREM RetriesStayBounded == ASSUME SinglePod PROVE Spec => []RetriesBounded
<1>1. RetryInv => RetriesBounded
  BY DEF RetryInv
<1> QED
  BY <1>1, RetryInvariance, PTL

-----------------------------------------------------------------------------
(* A stored report is never taken back.                                    *)

\* With one pod, an app is the business of one worker.
OneWorkerPerApp ==
  \A ph1, ph2 \in Phases, v, w \in Workers :
    At(ph1, v) /\ At(ph2, w) /\ v.app = w.app => ph1 = ph2 /\ v = w

LEMMA OneWorker == Replicas = 1 /\ WorkerInv => OneWorkerPerApp
<1> SUFFICES ASSUME Replicas = 1, WorkerInv PROVE OneWorkerPerApp
  OBVIOUS
<1>1. \A w \in Workers : w.pod = 0
  BY DEF Workers, Pods
<1> QED
  BY <1>1 DEF WorkerInv, OneWorkerPerPod, OneWorkerPerApp

LEMMA OneWorkerNext == Replicas = 1 /\ WorkerInv' => OneWorkerPerApp'
<1> SUFFICES ASSUME Replicas = 1, WorkerInv' PROVE OneWorkerPerApp'
  OBVIOUS
<1>1. \A w \in Workers : w.pod = 0
  BY DEF Workers, Pods
<1> QED
  BY <1>1 DEF WorkerInv, OneWorkerPerPod, OneWorkerPerApp

\* The queue of a worker is the one of the phase its app is in.  (The app of
\* a fan-out CR has a phase of its own for each pod.)
OwnPhase ==
  ~FanOut => \A ph \in Phases, w \in Workers :
               At(ph, w) => ~w.fanOut /\ main[w.app].phase = ph

IsFinal(info) ==
  info.phase = "install" /\ info.status = "InstallComplete" /\ info.fail = 0

\* An app that is marked as a whole is so for the pod, without a failure.
MarkedIsFinal(mainInfo, auxInfo) ==
  mainInfo.status = "InstallComplete"
    => mainInfo.phase = "install" /\ IsFinal(IF FanOut THEN auxInfo[0] ELSE mainInfo)

ReportedIsFinal ==
  \A a \in Apps : /\ MarkedIsFinal(main[a], aux[a])
                  /\ MarkedIsFinal(saved.main[a], saved.aux[a])
                  /\ saved.main[a].status = "InstallComplete"
                       => main[a].status = "InstallComplete"

\* The goroutine of a marked app has at most its cleanup left.
MarkedIsOver ==
  \A ph \in Phases, w \in Workers :
    main[w.app].status = "InstallComplete" /\ At(ph, w)
      => /\ ph = "install"
         /\ Busy(ph, w) => gor[ph][w] \in {"cleanup", "exit"}

DeliveryInv ==
  RetryInv /\ InstallInv /\ OwnPhase /\ ReportedIsFinal /\ MarkedIsOver

\* The steps by which a worker does not change its phase.
Stays(ph, w) ==
  \/ GiveUp(ph, w) \/ (Advance(ph, w) /\ ph = "install") \/ Dispatch(ph, w)
  \/ Handle(ph, w) \/ Exit(ph, w) \/ Work(w)

\* Such a step brings no worker to a new place.
LEMMA StaysAt ==
  ASSUME WorkerInv, NEW ph \in Phases, NEW w \in Workers, Stays(ph, w)
  PROVE  \A phase \in Phases, u \in Workers : At(phase, u)' => At(phase, u)
<1>1. TypeOK
  BY DEF WorkerInv
<1>2. CASE GiveUp(ph, w) \/ (Advance(ph, w) /\ ph = "install")
  <2>1. /\ UNCHANGED <<chan, gor>>
        /\ q' = [q EXCEPT ![Info(w, ph).phase] = @ \ {w}]
    BY <1>2 DEF GiveUp, Advance
  <2> QED
    BY <1>1, <2>1 DEF At, Busy, TypeOK
<1>3. CASE Dispatch(ph, w)
  <2>1. /\ UNCHANGED <<q, gor>> /\ w \in q[ph]
        /\ chan' = [chan EXCEPT ![ph] = @ \cup {w}]
    BY <1>3 DEF Dispatch, Visits
  <2> QED
    BY <1>1, <2>1 DEF At, Busy, TypeOK
<1>4. CASE Handle(ph, w)
  <2>1. /\ w \in chan[ph] /\ q' = q
        /\ chan' = [chan EXCEPT ![ph] = @ \ {w}]
        /\ gor' = gor \/ gor' = [gor EXCEPT ![ph][w] = "run"]
    BY <1>4 DEF Handle, HandleDownload, HandleOther, Receives, StartGoroutine
  <2> QED
    BY <1>1, <2>1 DEF At, Busy, TypeOK
<1>5. CASE Exit(ph, w)
  <2>1. UNCHANGED <<q, chan>> /\ gor' = [gor EXCEPT ![ph][w] = "none"]
    BY <1>5 DEF Exit
  <2> QED
    BY <1>1, <2>1 DEF At, Busy, TypeOK
<1>6. CASE Work(w)
  <2>1. PICK phase \in Phases, next \in {"post", "cleanup", "exit"} :
          /\ gor[phase][w] # "none" /\ UNCHANGED <<q, chan>>
          /\ gor' = [gor EXCEPT ![phase][w] = next]
    BY <1>6 DEF Work, Download, PodCopy, InstallFails, InstallSucceeds, PostInstall,
                Cleanup, Works, Phases
  <2> QED
    BY <1>1, <2>1 DEF At, Busy, TypeOK
<1> QED
  BY <1>2, <1>3, <1>4, <1>5, <1>6 DEF Stays

\* The ways to record an outcome keep the phase.
LEMMA PhaseFields ==
  ASSUME NEW info \in PhaseInfo
  PROVE  /\ \A st \in Statuses : /\ WithStatus(info, st).phase = info.phase
                                 /\ Succeeded(info, st).phase = info.phase
                                 /\ InstallAs(info, st).phase = "install"
         /\ FailedOnce(info).phase = info.phase
         /\ \A ph \in Phases : NewPhase(ph).phase = ph
BY DEF PhaseInfo, WithStatus, Succeeded, InstallAs, FailedOnce, NewPhase

\* Without a fan-out, only a transition changes the phase of an app.
LEMMA StaysInPhase ==
  ASSUME TypeOK, ~FanOut, NEW ph \in Phases, NEW w \in Workers, Stays(ph, w)
  PROVE  \A a \in Apps : main'[a].phase = main[a].phase
<1>1. w.app \in Apps /\ main[w.app] \in PhaseInfo
  BY DEF Workers, TypeOK
<1>2. \A phase : Info(w, phase) = main[w.app]
  BY DEF Info
<1>3. ASSUME NEW info, main' = [main EXCEPT ![w.app] = info],
             info.phase = main[w.app].phase
      PROVE  \A a \in Apps : main'[a].phase = main[a].phase
  BY <1>1, <1>3 DEF TypeOK
<1>4. ASSUME NEW phase, NEW info, SetInfo(w, phase, info),
             info.phase = main[w.app].phase
      PROVE  \A a \in Apps : main'[a].phase = main[a].phase
  BY <1>3, <1>4 DEF SetInfo
<1>5. FailedOnce(main[w.app]).phase = main[w.app].phase
  BY <1>1, PhaseFields
<1>6. \A st \in Statuses : /\ WithStatus(main[w.app], st).phase = main[w.app].phase
                           /\ Succeeded(main[w.app], st).phase = main[w.app].phase
                           /\ WithStatus(FailedOnce(main[w.app]), st).phase
                                = main[w.app].phase
  <2>1. FailedOnce(main[w.app]) \in PhaseInfo
    BY <1>1, PhaseInfoTypes
  <2> QED
    BY <1>1, <1>5, <2>1, PhaseFields
<1>7. CASE GiveUp(ph, w)
  <2>1. \E st \in Statuses : main' = [main EXCEPT ![w.app] = WithStatus(@, st)]
    BY <1>7 DEF GiveUp, Statuses
  <2> QED
    BY <1>3, <1>6, <2>1
<1>8. CASE (Advance(ph, w) /\ ph = "install") \/ Dispatch(ph, w)
           \/ HandleOther(ph, w) \/ Exit(ph, w)
  <2>1. main' = main
    BY <1>8 DEF Advance, Dispatch, HandleOther, Exit, status
  <2> QED
    BY <2>1
<1>9. CASE HandleDownload(w) \/ Download(w)
  <2>1. \/ main' = main
        \/ \E st \in Statuses :
             \/ main' = [main EXCEPT ![w.app] = WithStatus(@, st)]
             \/ main' = [main EXCEPT ![w.app] = Succeeded(@, st)]
             \/ main' = [main EXCEPT ![w.app] = WithStatus(FailedOnce(@), st)]
    BY <1>9 DEF HandleDownload, Download, Statuses
  <2> QED
    BY <1>3, <1>6, <2>1
<1>10. CASE PodCopy(w) \/ InstallFails(w) \/ Cleanup(w)
  <2>1. \/ main' = main
        \/ \E phase : \/ SetInfo(w, phase, FailedOnce(main[w.app]))
                      \/ \E st \in Statuses :
                           SetInfo(w, phase, WithStatus(main[w.app], st))
    BY <1>2, <1>10 DEF PodCopy, InstallFails, MissingOnPod, Cleanup, Statuses
  <2> QED
    BY <1>4, <1>5, <1>6, <2>1
<1>11. CASE InstallSucceeds(w) \/ PostInstall(w)
  <2>1. \/ main' = main \/ MarkInstallComplete(w)
        \/ SetInfo(w, "install", FailedOnce(main[w.app]))
    BY <1>2, <1>11 DEF InstallSucceeds, PostInstall
  <2>2. ASSUME MarkInstallComplete(w)
        PROVE  main' = [main EXCEPT ![w.app] = Succeeded(main[w.app], "InstallComplete")]
    BY <1>2, <2>2 DEF MarkInstallComplete
  <2> QED
    BY <1>3, <1>4, <1>5, <1>6, <2>1, <2>2 DEF Statuses
<1> QED
  BY <1>7, <1>8, <1>9, <1>10, <1>11 DEF Stays, Handle, Work

\* The other steps of a worker take it from one phase to another.
LEMMA StaysOrMoves ==
  ASSUME NEW ph \in Phases, NEW w \in Workers,
         Manage(ph, w) \/ Handle(ph, w) \/ Exit(ph, w) \/ Work(w)
  PROVE  \/ Stays(ph, w)
         \/ /\ Due(ph, Info(w, ph)) /\ w \in q[ph] /\ Settled(w)
            /\ UNCHANGED <<saved, chan, gor>>
            /\ \E next \in Phases : next # ph /\ TransitionWorker(w, ph, next)
<1>1. CASE (Advance(ph, w) /\ ph # "install") \/ MoveBack(ph, w)
  BY <1>1 DEF Advance, MoveBack, Visits, Due, HandledFirst, Phases
<1> QED
  BY <1>1 DEF Stays, Manage

\* A worker step keeps every worker in the queue of its app's phase.
LEMMA OwnPhaseStep ==
  ASSUME WorkerInv, WorkerInv', OwnPhase, NEW ph \in Phases, NEW w \in Workers,
         Manage(ph, w) \/ Handle(ph, w) \/ Exit(ph, w) \/ Work(w)
  PROVE  OwnPhase'
<1> SUFFICES ASSUME ~FanOut, NEW phase \in Phases, NEW u \in Workers, At(phase, u)'
             PROVE  ~u.fanOut /\ main'[u.app].phase = phase
  BY DEF OwnPhase
<1>1. TypeOK /\ u.app \in Apps /\ w.app \in Apps
  BY DEF WorkerInv, Workers
<1>2. CASE Stays(ph, w)
  BY <1>1, <1>2, StaysAt, StaysInPhase DEF OwnPhase
<1>3. ASSUME NEW next \in Phases, next # ph, TransitionWorker(w, ph, next), w \in q[ph],
             UNCHANGED <<chan, gor>>
      PROVE  ~u.fanOut /\ main'[u.app].phase = phase
  <2>1. ~w.fanOut
    BY <1>3 DEF OwnPhase, At
  <2>2. /\ q' = [q EXCEPT ![next] = @ \cup {w}, ![ph] = @ \ {w}]
        /\ main' = [main EXCEPT ![w.app] = NewPhase(next)]
    BY <1>3, <2>1 DEF TransitionWorker
  <2>3. At(next, w)'
    BY <1>1, <1>3, <2>2 DEF At, TypeOK
  <2>4. CASE u.app = w.app
    <3>1. u = w /\ phase = next
      BY <2>3, <2>4, OneWorkerNext, PipelineAssumption DEF OneWorkerPerApp
    <3>2. main'[w.app] = NewPhase(next)
      BY <1>1, <2>2 DEF TypeOK
    <3> QED
      BY <2>1, <3>1, <3>2, PhaseFields DEF NewPhase
  <2>5. CASE u.app # w.app
    <3>1. At(phase, u) /\ main'[u.app] = main[u.app]
      BY <1>1, <1>3, <2>2, <2>5 DEF At, Busy, TypeOK
    <3> QED
      BY <3>1 DEF OwnPhase
  <2> QED
    BY <2>4, <2>5
<1> QED
  BY <1>2, <1>3, StaysOrMoves

\* A worker of a marked app only cleans up and leaves.
LEMMA MarkedIsLeftAlone ==
  ASSUME DeliveryInv, SinglePod, NEW ph \in Phases, NEW w \in Workers,
         Manage(ph, w) \/ Handle(ph, w) \/ Exit(ph, w) \/ Work(w),
         main[w.app].status = "InstallComplete"
  PROVE  /\ UNCHANGED <<main, aux>>
         /\ \A phase \in Phases, u \in Workers : At(phase, u)' => At(phase, u)
         /\ \A phase \in Phases, u \in Workers :
              Busy(phase, u)' /\ gor[phase][u] \in {"cleanup", "exit"}
                => gor'[phase][u] \in {"cleanup", "exit"}
         /\ \A phase \in Phases, u \in Workers : Busy(phase, u)' => Busy(phase, u)
<1>1. /\ WorkerInv /\ TypeOK /\ w.app \in Apps /\ w.pod = 0 /\ MaxRetries \in Nat
  BY PipelineAssumption DEF DeliveryInv, RetryInv, WorkerInv, Workers, SinglePod, Pods
<1>2. IsFinal(Info(w, "install"))
  BY <1>1 DEF DeliveryInv, ReportedIsFinal, MarkedIsFinal, Info
<1>3. \A phase \in Phases : At(phase, w) => phase = "install"
  BY DEF DeliveryInv, MarkedIsOver
<1>4. \A phase \in Phases : gor[phase][w] # "none"
        => phase = "install" /\ gor[phase][w] \in {"cleanup", "exit"}
  BY DEF DeliveryInv, MarkedIsOver, At, Busy
<1>5. \A phase \in Phases : w \notin chan[phase]
  <2>1. \A phase \in Phases : w \in chan[phase] => gor[phase][w] = "none"
    BY <1>1 DEF WorkerInv, NotResent
  <2>2. \A phase \in Phases : w \in chan[phase] => gor[phase][w] \in {"cleanup", "exit"}
    BY DEF DeliveryInv, MarkedIsOver, At, Busy
  <2> QED
    BY <2>1, <2>2
<1>6. CASE Manage(ph, w)
  <2>1. ph = "install" /\ w \in q[ph]
    BY <1>3, <1>6 DEF Manage, GiveUp, Advance, MoveBack, Dispatch, Visits, At
  <2>2. ~GiveUp(ph, w) /\ ~MoveBack(ph, w) /\ ~Dispatch(ph, w)
    BY <1>1, <1>2, <2>1 DEF GiveUp, MoveBack, Dispatch, IsFinal, MaxRetriesReached,
                            StatusComplete, CompleteOf
  <2>3. Advance(ph, w)
    BY <1>6, <2>2 DEF Manage
  <2>4. UNCHANGED <<main, aux, chan, gor>> /\ Stays(ph, w)
    BY <2>1, <2>3 DEF Advance, Stays
  <2> QED
    BY <1>1, <2>4, StaysAt DEF Busy
<1>7. CASE Handle(ph, w)
  BY <1>5, <1>7 DEF Handle, HandleDownload, HandleOther, Receives
<1>8. CASE Exit(ph, w)
  <2>1. /\ UNCHANGED <<main, aux, chan>> /\ gor' = [gor EXCEPT ![ph][w] = "none"]
        /\ w \notin chan[ph] /\ gor[ph][w] = "exit"
    BY <1>5, <1>8 DEF Exit, status
  <2>2. \A phase \in Phases, u \in Workers :
          gor'[phase][u] = IF phase = ph /\ u = w THEN "none" ELSE gor[phase][u]
    BY <1>1, <2>1 DEF TypeOK
  <2>3. \A phase \in Phases, u \in Workers : At(phase, u)' => At(phase, u)
    BY <1>1, <1>8, StaysAt DEF Stays
  <2> QED
    BY <2>1, <2>2, <2>3 DEF Busy
<1>9. CASE Work(w)
  <2>1. Cleanup(w)
    BY <1>4, <1>9 DEF Work, Download, PodCopy, InstallFails, InstallSucceeds, PostInstall,
                      Works, Phases
  <2>2. /\ UNCHANGED <<main, aux, chan>> /\ gor["install"][w] = "cleanup"
        /\ gor' = [gor EXCEPT !["install"][w] = "exit"]
    BY <2>1 DEF Cleanup, Works
  <2>3. \A phase \in Phases, u \in Workers :
          gor'[phase][u] = IF phase = "install" /\ u = w THEN "exit" ELSE gor[phase][u]
    BY <1>1, <2>2 DEF TypeOK, Phases
  <2>4. \A phase \in Phases, u \in Workers : At(phase, u)' => At(phase, u)
    BY <1>1, <1>9, StaysAt DEF Stays
  <2> QED
    BY <2>2, <2>3, <2>4 DEF Busy
<1> QED
  BY <1>6, <1>7, <1>8, <1>9

\* Marking an app as a whole makes it final.
LEMMA MarkIsFinal ==
  ASSUME TypeOK, SinglePod, NEW w \in Workers, MarkInstallComplete(w),
         main[w.app].status # "InstallComplete",
         main'[w.app].status = "InstallComplete",
         ~FanOut => main[w.app].phase = "install"
  PROVE  MarkedIsFinal(main'[w.app], aux'[w.app])
<1>1. w.app \in Apps /\ w.pod = 0 /\ Pods = {0} /\ main[w.app] \in PhaseInfo
  BY DEF Workers, SinglePod, Pods, TypeOK
<1> DEFINE done == Succeeded(Info(w, "install"), "InstallComplete")
<1>2. Info(w, "install") \in PhaseInfo
  BY InfoType
<1>3. /\ done.status = "InstallComplete" /\ done.fail = 0
      /\ done.phase = Info(w, "install").phase
  BY <1>2, StatusFields, FailFields, PhaseFields DEF Statuses
<1>4. CASE FanOut
  <2> DEFINE auxOfApp == [aux[w.app] EXCEPT ![w.pod] = done]
  <2>1. /\ aux' = [aux EXCEPT ![w.app] = auxOfApp]
        /\ InstalledOnAllReplicas(auxOfApp)
        /\ main' = [main EXCEPT ![w.app] = InstallAs(@, "InstallComplete")]
    BY <1>4 DEF MarkInstallComplete
  <2> HIDE DEF done
  <2>2. auxOfApp[0] = done
    BY <1>1 DEF TypeOK
  <2>3. auxOfApp[0].phase = "install"
    BY <1>1, <2>1 DEF InstalledOnAllReplicas
  <2> HIDE DEF auxOfApp
  <2>4. aux'[w.app][0] = done
    BY <1>1, <2>1, <2>2 DEF TypeOK
  <2>5. main'[w.app] = InstallAs(main[w.app], "InstallComplete")
    BY <1>1, <2>1 DEF TypeOK
  <2>6. main'[w.app].phase = "install"
    BY <1>1, <2>5, PhaseFields DEF Statuses
  <2> QED
    BY <1>3, <1>4, <2>2, <2>3, <2>4, <2>6 DEF MarkedIsFinal, IsFinal
<1>5. CASE ~FanOut
  <2>1. main' = [main EXCEPT ![w.app] = done]
    BY <1>5 DEF MarkInstallComplete
  <2> HIDE DEF done
  <2>2. main'[w.app] = done /\ Info(w, "install") = main[w.app]
    BY <1>1, <1>5, <2>1 DEF TypeOK, Info
  <2> QED
    BY <1>3, <1>5, <2>2 DEF MarkedIsFinal, IsFinal
<1> QED
  BY <1>4, <1>5

\* A step of a worker moves no goroutine of another one.
LEMMA OthersBusy ==
  ASSUME TypeOK, NEW ph \in Phases, NEW w \in Workers,
         Manage(ph, w) \/ Handle(ph, w) \/ Exit(ph, w) \/ Work(w),
         NEW phase \in Phases, NEW u \in Workers, u # w
  PROVE  /\ Busy(phase, u)' <=> Busy(phase, u)
         /\ gor'[phase][u] = gor[phase][u]
<1>1. /\ chan' = chan \/ \E at \in Phases : \/ chan' = [chan EXCEPT ![at] = @ \cup {w}]
                                           \/ chan' = [chan EXCEPT ![at] = @ \ {w}]
      /\ gor' = gor \/ \E at \in Phases : \E place : gor' = [gor EXCEPT ![at][w] = place]
  <2>1. CASE Manage(ph, w)
    BY <2>1 DEF Manage, GiveUp, Advance, MoveBack, Dispatch
  <2>2. CASE Handle(ph, w)
    BY <2>2 DEF Handle, HandleDownload, HandleOther, Receives, StartGoroutine
  <2>3. CASE Exit(ph, w)
    BY <2>3 DEF Exit
  <2>4. CASE Work(w)
    BY <2>4 DEF Work, Download, PodCopy, InstallFails, InstallSucceeds, PostInstall,
                Cleanup, Works, Phases
  <2> QED
    BY <2>1, <2>2, <2>3, <2>4
<1>2. u \in chan'[phase] <=> u \in chan[phase]
  <2>1. ASSUME NEW at \in Phases, \/ chan' = [chan EXCEPT ![at] = @ \cup {w}]
                                  \/ chan' = [chan EXCEPT ![at] = @ \ {w}]
        PROVE  u \in chan'[phase] <=> u \in chan[phase]
    <3>1. chan \in [Phases -> SUBSET Workers]
      BY DEF TypeOK
    <3> QED
      BY <2>1, <3>1
  <2> QED
    BY <1>1, <2>1
<1>3. gor'[phase][u] = gor[phase][u]
  <2>1. ASSUME NEW at \in Phases, NEW place, gor' = [gor EXCEPT ![at][w] = place]
        PROVE  gor'[phase][u] = gor[phase][u]
    BY <2>1 DEF TypeOK
  <2> QED
    BY <1>1, <2>1
<1> QED
  BY <1>2, <1>3 DEF Busy

\* A step of a worker moves no worker of another app.
LEMMA OthersStay ==
  ASSUME WorkerInv, SinglePod, NEW ph \in Phases, NEW w \in Workers,
         Manage(ph, w) \/ Handle(ph, w) \/ Exit(ph, w) \/ Work(w),
         NEW phase \in Phases, NEW u \in Workers, u.app # w.app
  PROVE  /\ At(phase, u)' => At(phase, u)
         /\ Busy(phase, u)' => Busy(phase, u)
         /\ gor'[phase][u] = gor[phase][u]
<1>1. TypeOK /\ \A at \in Phases : w \in q[ph] /\ w \in q[at] => at = ph
  BY OneWorker DEF WorkerInv, SinglePod, OneWorkerPerApp, At
<1>2. u # w
  OBVIOUS
<1>3. (Busy(phase, u)' <=> Busy(phase, u)) /\ gor'[phase][u] = gor[phase][u]
  BY <1>1, <1>2, OthersBusy
<1>4. CASE Stays(ph, w)
  BY <1>3, <1>4, StaysAt
<1>5. ASSUME NEW next \in Phases, next # ph, TransitionWorker(w, ph, next), w \in q[ph]
      PROVE  At(phase, u)' => At(phase, u)
  <2>1. \A p : FanOutWorker(w, p).app = w.app
    BY DEF FanOutWorker, Workers
  <2>2. u \in q'[phase] => u \in q[phase]
    BY <1>1, <1>5, <2>1, TransitionQueues
  <2> QED
    BY <1>3, <2>2 DEF At
<1> QED
  BY <1>3, <1>4, <1>5, StaysOrMoves

\* The steps of the workers keep the delivery invariant.
LEMMA DeliveryWorker ==
  ASSUME DeliveryInv, RetryInv', InstallInv', SinglePod,
         NEW ph \in Phases, NEW w \in Workers,
         Manage(ph, w) \/ Handle(ph, w) \/ Exit(ph, w) \/ Work(w)
  PROVE  DeliveryInv'
<1>1. WorkerInv /\ WorkerInv' /\ TypeOK /\ w.app \in Apps
  BY DEF DeliveryInv, RetryInv, WorkerInv, Workers
<1>2. OthersKept(w)
  BY <1>1, StepOthers
<1>3. OwnPhase'
  BY <1>1, OwnPhaseStep DEF DeliveryInv
<1>4. saved' = saved
  <2>1. CASE Manage(ph, w)
    BY <2>1 DEF Manage, GiveUp, Advance, MoveBack, Dispatch
  <2>2. CASE Handle(ph, w) \/ Exit(ph, w)
    BY <2>2 DEF Handle, HandleDownload, HandleOther, Exit
  <2>3. CASE Work(w)
    BY <2>3 DEF Work, Download, PodCopy, InstallFails, InstallSucceeds, PostInstall,
                Cleanup, Works
  <2> QED
    BY <2>1, <2>2, <2>3
<1>5. ASSUME main[w.app].status # "InstallComplete",
             main'[w.app].status = "InstallComplete"
      PROVE  /\ Work(w) /\ MarkInstallComplete(w) /\ gor["install"][w] # "none"
             /\ gor' = [gor EXCEPT !["install"][w] = "cleanup"]
  <2>1. ~NoNewComplete
    BY <1>1, <1>5 DEF NoNewComplete
  <2>2. Work(w)
    BY <1>1, <2>1, ManageMarksNothing, HandleMarksNothing
  <2> QED
    BY <1>1, <2>1, <2>2, WorkMarks
<1>6. ReportedIsFinal'
  <2>1. ASSUME NEW a \in Apps
        PROVE  /\ MarkedIsFinal(main'[a], aux'[a])
               /\ saved.main[a].status = "InstallComplete"
                    => main'[a].status = "InstallComplete"
    <3>1. CASE a # w.app
      BY <1>2, <3>1 DEF OthersKept, DeliveryInv, ReportedIsFinal
    <3>2. CASE a = w.app /\ main[a].status = "InstallComplete"
      <4>1. UNCHANGED <<main, aux>>
        BY <3>2, MarkedIsLeftAlone
      <4> QED
        BY <4>1 DEF DeliveryInv, ReportedIsFinal
    <3>3. CASE a = w.app /\ main[a].status # "InstallComplete"
      <4>1. saved.main[a].status # "InstallComplete"
        BY <3>3 DEF DeliveryInv, ReportedIsFinal
      <4>2. CASE main'[a].status # "InstallComplete"
        BY <4>1, <4>2 DEF MarkedIsFinal
      <4>3. CASE main'[a].status = "InstallComplete"
        <5>1. MarkInstallComplete(w) /\ At("install", w)
          BY <1>5, <3>3, <4>3 DEF At, Busy
        <5>2. ~FanOut => main[w.app].phase = "install"
          BY <5>1 DEF DeliveryInv, OwnPhase, Phases
        <5> QED
          BY <1>1, <3>3, <4>1, <4>3, <5>1, <5>2, MarkIsFinal
      <4> QED
        BY <4>2, <4>3
    <3> QED
      BY <3>1, <3>2, <3>3
  <2> QED
    BY <1>4, <2>1 DEF DeliveryInv, ReportedIsFinal
<1>7. MarkedIsOver'
  <2> SUFFICES ASSUME NEW phase \in Phases, NEW u \in Workers,
                      main'[u.app].status = "InstallComplete", At(phase, u)'
               PROVE  /\ phase = "install"
                      /\ Busy(phase, u)' => gor'[phase][u] \in {"cleanup", "exit"}
    BY DEF MarkedIsOver
  <2>1. CASE u.app # w.app
    <3>1. main[u.app].status = "InstallComplete"
      BY <1>2, <2>1 DEF OthersKept, Workers
    <3> QED
      BY <1>1, <2>1, <3>1, OthersStay DEF DeliveryInv, MarkedIsOver
  <2>2. CASE u.app = w.app /\ main[w.app].status = "InstallComplete"
    <3>1. At(phase, u) /\ (Busy(phase, u)' => Busy(phase, u))
      BY <2>2, MarkedIsLeftAlone
    <3>2. phase = "install" /\ (Busy(phase, u) => gor[phase][u] \in {"cleanup", "exit"})
      BY <2>2, <3>1 DEF DeliveryInv, MarkedIsOver
    <3> QED
      BY <2>2, <3>1, <3>2, MarkedIsLeftAlone
  <2>3. CASE u.app = w.app /\ main[w.app].status # "InstallComplete"
    <3>1. /\ Work(w) /\ gor["install"][w] # "none"
          /\ gor' = [gor EXCEPT !["install"][w] = "cleanup"]
      BY <1>5, <2>3
    <3>2. At(phase, u) /\ At("install", w)
      BY <1>1, <3>1, StaysAt DEF Stays, At, Busy
    <3>3. u = w /\ phase = "install"
      BY <1>1, <2>3, <3>2, OneWorker DEF SinglePod, OneWorkerPerApp, Phases
    <3>4. gor'["install"][w] = "cleanup"
      BY <1>1, <3>1 DEF TypeOK, Phases
    <3> QED
      BY <3>3, <3>4
  <2> QED
    BY <2>1, <2>2, <2>3
<1> QED
  BY <1>3, <1>6, <1>7 DEF DeliveryInv

\* Nothing is marked before the first entry.
LEMMA DeliveryInit == Init => DeliveryInv
<1> SUFFICES ASSUME Init PROVE DeliveryInv
  OBVIOUS
<1>1. RetryInv /\ InstallInv
  BY RetryInit, InstallInit
<1>2. \A a \in Apps : main[a].status # "InstallComplete"
                      /\ saved.main[a].status # "InstallComplete"
  BY DEF Init, NewPhase, PendingOf
<1>3. ReportedIsFinal
  BY <1>2 DEF ReportedIsFinal, MarkedIsFinal
<1>4. \A ph \in Phases, w \in Workers : ~At(ph, w)
  BY DEF Init, At, Busy
<1> QED
  BY <1>1, <1>3, <1>4 DEF DeliveryInv, OwnPhase, MarkedIsOver

\* Every step keeps the delivery invariant.
LEMMA DeliveryNext ==
  ASSUME SinglePod PROVE DeliveryInv /\ [Next]_vars => DeliveryInv'
<1> SUFFICES ASSUME DeliveryInv, [Next]_vars PROVE DeliveryInv'
  OBVIOUS
<1>1. RetryInv' /\ InstallInv'
  BY RetryNext, WorkerNext, InstallNext DEF DeliveryInv, RetryInv, SinglePod, PackageFound
<1>2. TypeOK /\ WorkerInv
  BY DEF DeliveryInv, RetryInv, WorkerInv
<1>3. ASSUME UNCHANGED <<main, aux, saved, q, chan, gor>> PROVE DeliveryInv'
  BY <1>1, <1>3 DEF DeliveryInv, OwnPhase, ReportedIsFinal, MarkedIsOver, At, Busy
<1>4. ASSUME \A ph \in Phases, w \in Workers : ~At(ph, w)', ReportedIsFinal'
      PROVE  DeliveryInv'
  BY <1>1, <1>4 DEF DeliveryInv, OwnPhase, MarkedIsOver
<1>5. CASE UNCHANGED vars \/ LosePackage \/ YieldWatcher
  BY <1>3, <1>5 DEF vars, LosePackage, YieldWatcher, status, pipeline
<1>6. ASSUME NEW ph \in Phases, ManagerStop(ph) \/ PhaseDone(ph) \/ MarkActive(ph)
      PROVE  DeliveryInv'
  BY <1>3, <1>6 DEF ManagerStop, PhaseDone, MarkActive, status
<1>7. CASE SchedulerEntry
  <2>1. sched = "idle" /\ UNCHANGED <<main, aux, saved, chan, gor>>
    BY <1>7 DEF SchedulerEntry, status
  <2>2. \A ph \in Phases, w \in Workers : ~Busy(ph, w)'
    BY <1>2, <2>1 DEF WorkerInv, IdleIsDone, DoneIsQuiet, Busy
  <2>3. ASSUME NEW ph \in Phases, NEW w \in Workers, At(ph, w)'
        PROVE  /\ w.fanOut = FanOut /\ main'[w.app].phase = ph
               /\ main'[w.app].status # "InstallComplete"
    <3>1. w \in q'[ph]
      BY <2>2, <2>3 DEF At
    <3>2. /\ w = EntryWorker(w.app) /\ w.app \in Apps
          /\ main[w.app].phase = ph /\ EligibleForEntry(main[w.app])
      BY <1>2, <1>7, <3>1, EntryQueues
    <3>3. w.fanOut = FanOut
      BY <3>2 DEF EntryWorker
    <3>4. MarkedIsFinal(main[w.app], aux[w.app])
      BY <3>2 DEF DeliveryInv, ReportedIsFinal
    <3> QED
      BY <2>1, <3>2, <3>3, <3>4 DEF EligibleForEntry, MarkedIsFinal
  <2>4. ReportedIsFinal'
    BY <2>1 DEF DeliveryInv, ReportedIsFinal
  <2> QED
    BY <1>1, <2>3, <2>4 DEF DeliveryInv, OwnPhase, MarkedIsOver
<1>8. CASE SchedulerExit
  <2>1. /\ \A ph \in Phases : mgr[ph] = "done"
        /\ saved' = [main |-> main, aux |-> aux, inProgress |-> inProgress']
        /\ UNCHANGED <<main, aux, gor>>
        /\ q' = [ph \in Phases |-> {}] /\ chan' = [ph \in Phases |-> {}]
    BY <1>8 DEF SchedulerExit, DropPipeline
  <2>2. \A ph \in Phases, w \in Workers : ~At(ph, w)'
    BY <1>2, <2>1 DEF WorkerInv, DoneIsQuiet, At, Busy
  <2>3. ReportedIsFinal'
    BY <2>1 DEF DeliveryInv, ReportedIsFinal
  <2> QED
    BY <1>4, <2>2, <2>3
<1>9. CASE Crash
  <2>1. \A ph \in Phases, w \in Workers : ~At(ph, w)'
    BY <1>9 DEF Crash, DropPipeline, At, Busy
  <2>2. ReportedIsFinal'
    BY <1>9 DEF Crash, DeliveryInv, ReportedIsFinal
  <2> QED
    BY <1>4, <2>1, <2>2
<1>10. ASSUME NEW ph \in Phases, NEW w \in Workers,
              Manage(ph, w) \/ Handle(ph, w) \/ Exit(ph, w) \/ Work(w)
       PROVE  DeliveryInv'
  BY <1>1, <1>10, DeliveryWorker
<1>11. ASSUME NEW w \in Workers, Work(w) PROVE DeliveryInv'
  BY <1>10, <1>11 DEF Phases
<1> QED
  BY <1>5, <1>6, <1>7, <1>8, <1>9, <1>10, <1>11 DEF Next

\* The status in memory has every install that the API server was told of.
ReportsKept ==
  \A a \in Apps : saved.main[a].status = "InstallComplete"
                    => main[a].status = "InstallComplete"

\* A step of the scheduler is one of AppDelivery, or none: an app is
\* installed, or the status is stored.
LEMMA DeliveryStep ==
  InstallInv /\ ReportsKept /\ [Next]_vars => [Delivery!Next]_(Delivery!vars)
<1> DEFINE has == [a \in Apps |-> {p \in Pods : installed[a][p]}]
           reported == {a \in Apps : saved.main[a].status = "InstallComplete"}
<1> SUFFICES ASSUME InstallInv, ReportsKept, [Next]_vars
             PROVE  \/ has' = has /\ reported' = reported
                    \/ \E a \in Apps, p \in Pods : Delivery!Install(a, p)
                    \/ \E done \in SUBSET (Apps \ reported) : Delivery!Report(done)
  BY DEF Delivery!Next, Delivery!vars
<1>1. TypeOK
  BY DEF InstallInv
<1>2. ASSUME UNCHANGED <<installed, saved>>
      PROVE  has' = has /\ reported' = reported
  BY <1>2
<1>3. CASE SchedulerExit
  <2>1. /\ installed' = installed
        /\ saved' = [main |-> main, aux |-> aux, inProgress |-> inProgress']
    BY <1>3 DEF SchedulerExit, world
  <2>2. reported \subseteq reported'
    BY <2>1 DEF ReportsKept
  <2>3. has' = has
    BY <2>1
  <2>4. PICK fresh \in SUBSET (Apps \ reported) : fresh = reported' \ reported
    OBVIOUS
  <2>5. reported' = reported \cup fresh
    BY <2>2, <2>4
  <2>6. CASE fresh = {}
    BY <2>3, <2>5, <2>6
  <2>7. CASE fresh # {}
    <3>1. ASSUME NEW a \in fresh PROVE has[a] = Pods
      BY <2>1, <2>4 DEF InstallInv, CompleteMeansInstalled
    <3>2. Delivery!Report(fresh)
      BY <2>3, <2>5, <2>7, <3>1 DEF Delivery!Report
    <3> QED
      BY <3>2
  <2> QED
    BY <2>6, <2>7
<1>4. ASSUME NEW w \in Workers, InstallSucceeds(w)
      PROVE  \/ has' = has /\ reported' = reported
             \/ \E a \in Apps, p \in Pods : Delivery!Install(a, p)
  <2>1. w.app \in Apps /\ w.pod \in Pods
    BY DEF Workers
  <2>2. installed' = [installed EXCEPT ![w.app][w.pod] = TRUE] /\ saved' = saved
    BY <1>4 DEF InstallSucceeds, Works
  <2>3. ASSUME NEW a \in Apps, NEW p \in Pods
        PROVE  installed'[a][p] <=> installed[a][p] \/ (a = w.app /\ p = w.pod)
    BY <1>1, <2>1, <2>2 DEF TypeOK
  <2>4. reported' = reported
    BY <2>2
  <2>5. CASE installed[w.app][w.pod]
    <3>1. \A a \in Apps, p \in Pods : installed'[a][p] <=> installed[a][p]
      BY <2>3, <2>5
    <3>2. has' = has
      BY <3>1
    <3> QED
      BY <2>4, <3>2
  <2>6. CASE ~installed[w.app][w.pod]
    <3>1. w.pod \notin has[w.app]
      BY <2>1, <2>6
    <3>2. ASSUME NEW a \in Apps
          PROVE  has'[a] = IF a = w.app THEN has[a] \cup {w.pod} ELSE has[a]
      BY <2>1, <2>3
    <3>4. has' = [has EXCEPT ![w.app] = @ \cup {w.pod}]
      BY <2>1, <3>2
    <3>3. Delivery!Install(w.app, w.pod)
      BY <2>4, <3>1, <3>4 DEF Delivery!Install
    <3> QED
      BY <2>1, <3>3
  <2> QED
    BY <2>5, <2>6
<1>5. CASE UNCHANGED vars
  BY <1>2, <1>5 DEF vars, world
<1>6. CASE SchedulerEntry \/ YieldWatcher \/ LosePackage \/ Crash
  BY <1>2, <1>6 DEF SchedulerEntry, YieldWatcher, LosePackage, Crash, world
<1>7. ASSUME NEW ph \in Phases, ManagerStop(ph) \/ PhaseDone(ph) \/ MarkActive(ph)
      PROVE  UNCHANGED <<installed, saved>>
  BY <1>7 DEF ManagerStop, PhaseDone, MarkActive, world
<1>8. ASSUME NEW ph \in Phases, NEW w \in Workers,
             Manage(ph, w) \/ Handle(ph, w) \/ Exit(ph, w)
      PROVE  UNCHANGED <<installed, saved>>
  BY <1>8 DEF Manage, GiveUp, Advance, MoveBack, Dispatch, Handle, HandleDownload,
              HandleOther, Exit, world
<1>9. ASSUME NEW w \in Workers, Work(w), ~InstallSucceeds(w)
      PROVE  UNCHANGED <<installed, saved>>
  BY <1>9 DEF Work, Download, PodCopy, InstallFails, PostInstall, Cleanup, Works, world
<1> QED
  BY <1>2, <1>3, <1>4, <1>5, <1>6, <1>7, <1>8, <1>9 DEF Next

\* The scheduler of a CR with one pod implements AppDelivery for any number
\* of apps: what the API server reports as installed is installed, and no
\* yield, retry, lost package or restart takes a report back.
THEOREM SchedulerDelivers == ASSUME SinglePod PROVE Spec => ImplementsDelivery
<1>1. Init => DeliveryInv
  BY DeliveryInit
<1>2. DeliveryInv /\ [Next]_vars => DeliveryInv'
  BY DeliveryNext
<1>3. Init => Delivery!Init
  BY DEF Init, Delivery!Init, NewPhase, PendingOf
<1>4. DeliveryInv /\ [Next]_vars => [Delivery!Next]_(Delivery!vars)
  BY DeliveryStep DEF DeliveryInv, ReportedIsFinal, ReportsKept
<1> QED
  BY <1>1, <1>2, <1>3, <1>4, PTL DEF Spec, ImplementsDelivery, Delivery!Spec

-----------------------------------------------------------------------------
(* No app with work left is forgotten.                                     *)

\* What NoLostWork is about: one pod, without a fan-out, and no error that
\* ends the loop over the app sources early.
PlainPod == SinglePod /\ ~FanOut /\ "mkdir" \notin FaultKinds

HasPhase == \A a \in Apps : main[a].phase \in Phases /\ saved.main[a].phase \in Phases

\* While an entry runs, every app with work left has a worker in a queue.
EligibleIsQueued ==
  sched = "running"
    => \A a \in Apps : EligibleForEntry(main[a]) => EntryWorker(a) \in q[main[a].phase]

NothingEligible == \A a \in Apps : ~EligibleForEntry(main[a])

WorkInv ==
  /\ DeliveryInv /\ HasPhase /\ EligibleIsQueued
  /\ sched = "idle" /\ ~revisit => NothingEligible

\* An app does not become eligible by what a busy worker records.
LEMMA NoNewEligible ==
  ASSUME DeliveryInv, PlainPod, NEW ph \in Phases, NEW w \in Workers,
         Dispatch(ph, w) \/ Handle(ph, w) \/ Exit(ph, w) \/ Work(w)
  PROVE  \A a \in Apps : EligibleForEntry(main'[a]) => EligibleForEntry(main[a])
<1>1. /\ WorkerInv /\ TypeOK /\ SinglePod /\ ~FanOut /\ w.app \in Apps
      /\ MaxRetries \in Nat
  BY PipelineAssumption DEF DeliveryInv, RetryInv, WorkerInv, PlainPod, Workers
<1>2. OthersKept(w)
  BY <1>1, StepOthers DEF Manage
<1>3. CASE main[w.app].status = "InstallComplete"
  <2>1. main' = main
    BY <1>1, <1>3, MarkedIsLeftAlone DEF Manage
  <2> QED
    BY <2>1
<1>4. CASE main[w.app].status # "InstallComplete"
  <2>1. ASSUME NEW phase \in Phases, MayFail(phase, w)
        PROVE  EligibleForEntry(main[w.app])
    <3>1. main[w.app].fail <= MaxRetries /\ main[w.app].fail \in Nat
      BY <1>1, <2>1, FailIsNat DEF DeliveryInv, RetryInv, BusyHasRetries, Info
    <3> QED
      BY <1>1, <1>4, <3>1 DEF EligibleForEntry, MaxRetriesReached
  <2>2. CASE Dispatch(ph, w) \/ Exit(ph, w) \/ Cleanup(w)
    BY <2>2 DEF Dispatch, Exit, Cleanup, status
  <2>3. CASE Handle(ph, w)
    <3>1. w \in chan[ph] /\ gor[ph][w] = "none"
      BY <2>3 DEF Handle, HandleDownload, HandleOther, Receives
    <3> QED
      BY <1>1, <1>2, <2>1, <3>1 DEF MayFail, Busy, OthersKept
  <2>4. CASE Work(w) /\ ~Cleanup(w)
    <3>1. \E phase \in Phases : gor[phase][w] \in {"run", "post"}
      BY <2>4 DEF Work, Download, PodCopy, InstallFails, InstallSucceeds, PostInstall,
                  Works, Phases
    <3> QED
      BY <1>1, <1>2, <2>1, <3>1 DEF MayFail, Busy, OthersKept
  <2> QED
    BY <2>2, <2>3, <2>4
<1> QED
  BY <1>3, <1>4

\* The steps of a worker leave every eligible app in its queue.
LEMMA QueuedStep ==
  ASSUME WorkInv, PlainPod, NEW ph \in Phases, NEW w \in Workers, sched = "running",
         Manage(ph, w) \/ Handle(ph, w) \/ Exit(ph, w) \/ Work(w)
  PROVE  /\ \A a \in Apps : main'[a].phase \in Phases
         /\ \A a \in Apps : EligibleForEntry(main'[a])
                              => EntryWorker(a) \in q'[main'[a].phase]
<1>1. /\ DeliveryInv /\ WorkerInv /\ TypeOK /\ SinglePod /\ ~FanOut /\ w.app \in Apps
      /\ main[w.app] \in PhaseInfo /\ \A phase : Info(w, phase) = main[w.app]
  BY DEF WorkInv, DeliveryInv, RetryInv, WorkerInv, PlainPod, Workers, TypeOK, Info
<1>2. /\ \A a \in Apps : main[a].phase \in Phases
      /\ \A a \in Apps : EligibleForEntry(main[a]) => EntryWorker(a) \in q[main[a].phase]
  BY DEF WorkInv, HasPhase, EligibleIsQueued
<1>3. CASE Dispatch(ph, w) \/ Handle(ph, w) \/ Exit(ph, w) \/ Work(w)
  <2>1. q' = q
    <3>1. CASE Dispatch(ph, w) \/ Handle(ph, w) \/ Exit(ph, w)
      BY <3>1 DEF Dispatch, Handle, HandleDownload, HandleOther, Exit
    <3>2. CASE Work(w)
      BY <3>2 DEF Work, Download, PodCopy, InstallFails, InstallSucceeds, PostInstall,
                  Cleanup, Works
    <3> QED
      BY <1>3, <3>1, <3>2
  <2>2. \A a \in Apps : main'[a].phase = main[a].phase
    BY <1>1, <1>3, StaysInPhase DEF Stays
  <2>3. \A a \in Apps : EligibleForEntry(main'[a]) => EligibleForEntry(main[a])
    BY <1>1, <1>3, NoNewEligible
  <2> QED
    BY <1>2, <2>1, <2>2, <2>3
<1>4. ASSUME q' = [q EXCEPT ![main[w.app].phase] = @ \ {w}], OthersKept(w),
             ~EligibleForEntry(main'[w.app]), main'[w.app].phase = main[w.app].phase
      PROVE  /\ \A a \in Apps : main'[a].phase \in Phases
             /\ \A a \in Apps : EligibleForEntry(main'[a])
                                  => EntryWorker(a) \in q'[main'[a].phase]
  <2>1. ASSUME NEW a \in Apps, EligibleForEntry(main'[a])
        PROVE  EntryWorker(a) \in q'[main'[a].phase]
    <3>1. a # w.app /\ main'[a] = main[a]
      BY <1>4, <2>1 DEF OthersKept
    <3>2. EntryWorker(a) # w
      BY <3>1 DEF EntryWorker
    <3> QED
      BY <1>1, <1>2, <1>4, <2>1, <3>1, <3>2 DEF TypeOK
  <2> QED
    BY <1>2, <1>4, <2>1 DEF OthersKept
<1>5. CASE GiveUp(ph, w)
  <2>1. PICK st \in Statuses : main' = [main EXCEPT ![w.app] = WithStatus(@, st)]
    BY <1>1, <1>5 DEF GiveUp, Statuses
  <2>2. main'[w.app] = WithStatus(main[w.app], st)
    BY <1>1, <2>1 DEF TypeOK
  <2>3. MaxRetriesReached(main[w.app])
        /\ q' = [q EXCEPT ![main[w.app].phase] = @ \ {w}]
    BY <1>1, <1>5 DEF GiveUp
  <2>4. OthersKept(w)
    BY <1>1, <1>5, StepOthers DEF Manage
  <2>5. ~EligibleForEntry(main'[w.app]) /\ main'[w.app].phase = main[w.app].phase
    BY <1>1, <2>2, <2>3, FailFields, PhaseFields DEF EligibleForEntry, MaxRetriesReached
  <2> QED
    BY <1>4, <2>3, <2>4, <2>5
<1>6. CASE Advance(ph, w) /\ ph = "install"
  <2>1. /\ main' = main /\ q' = [q EXCEPT ![main[w.app].phase] = @ \ {w}]
        /\ StatusComplete(main[w.app]) /\ w \in q[ph]
    BY <1>1, <1>6 DEF Advance, Visits
  <2>2. main[w.app].phase = "install"
    BY <1>1, <1>6, <2>1 DEF DeliveryInv, OwnPhase, At
  <2>3. ~EligibleForEntry(main[w.app])
    BY <2>1, <2>2 DEF EligibleForEntry, StatusComplete, CompleteOf
  <2>4. OthersKept(w)
    BY <2>1, <1>1, <1>6, StepOthers DEF Manage
  <2> QED
    BY <1>4, <2>1, <2>3, <2>4
<1>7. ASSUME NEW next \in Phases, next # ph, TransitionWorker(w, ph, next), w \in q[ph],
             OthersKept(w)
      PROVE  /\ \A a \in Apps : main'[a].phase \in Phases
             /\ \A a \in Apps : EligibleForEntry(main'[a])
                                  => EntryWorker(a) \in q'[main'[a].phase]
  <2>1. ~w.fanOut
    BY <1>1, <1>7 DEF DeliveryInv, OwnPhase, At
  <2>2. /\ q' = [q EXCEPT ![next] = @ \cup {w}, ![ph] = @ \ {w}]
        /\ main' = [main EXCEPT ![w.app] = NewPhase(next)]
    BY <1>1, <1>7, <2>1 DEF TransitionWorker
  <2>3. main'[w.app] = NewPhase(next) /\ main'[w.app].phase = next
    BY <1>1, <2>2 DEF TypeOK, NewPhase
  <2>4. w = EntryWorker(w.app)
    <3>1. w.pod = 0 /\ w.fanOut = FALSE /\ FanOut = FALSE
      BY <1>1, <2>1, PipelineAssumption DEF Workers, SinglePod, Pods
    <3>2. w = [app |-> w.app, pod |-> w.pod, fanOut |-> w.fanOut]
      BY DEF Workers
    <3> QED
      BY <3>1, <3>2 DEF EntryWorker
  <2>5. w \in q'[next]
    BY <1>1, <1>7, <2>2 DEF TypeOK
  <2>6. ASSUME NEW a \in Apps, a # w.app, EligibleForEntry(main'[a])
        PROVE  EntryWorker(a) \in q'[main'[a].phase]
    <3>1. main'[a] = main[a] /\ EntryWorker(a) # w
      BY <1>7, <2>6 DEF OthersKept, EntryWorker
    <3>2. EntryWorker(a) \in q[main[a].phase] /\ main[a].phase \in Phases
      BY <1>2, <2>6, <3>1
    <3>3. \A phase \in Phases : q[phase] \ {w} \subseteq q'[phase]
      BY <1>1, <1>7, <2>2 DEF TypeOK
    <3> QED
      BY <3>1, <3>2, <3>3
  <2> QED
    BY <1>2, <1>7, <2>3, <2>4, <2>5, <2>6 DEF OthersKept
<1>8. OthersKept(w)
  BY <1>1, StepOthers
<1> QED
  BY <1>3, <1>5, <1>6, <1>7, <1>8, StaysOrMoves DEF Stays

LEMMA WorkInit == Init => WorkInv
<1> SUFFICES ASSUME Init PROVE WorkInv
  OBVIOUS
<1>1. DeliveryInv
  BY DeliveryInit
<1>2. sched = "idle" /\ revisit /\ \A a \in Apps : main[a].phase = "download"
      /\ saved.main = main
  BY DEF Init, NewPhase
<1> QED
  BY <1>1, <1>2 DEF WorkInv, HasPhase, EligibleIsQueued, Phases

LEMMA WorkNext == ASSUME PlainPod PROVE WorkInv /\ [Next]_vars => WorkInv'
<1> SUFFICES ASSUME WorkInv, [Next]_vars PROVE WorkInv'
  OBVIOUS
<1>1. DeliveryInv'
  BY DeliveryNext DEF WorkInv, PlainPod
<1>2. TypeOK /\ TypeOK' /\ NoPanic
  BY <1>1 DEF WorkInv, DeliveryInv, RetryInv, WorkerInv
<1>3. ASSUME UNCHANGED <<main, saved, sched, revisit, q>> PROVE WorkInv'
  BY <1>1, <1>3 DEF WorkInv, HasPhase, EligibleIsQueued, NothingEligible
<1>4. CASE UNCHANGED vars \/ LosePackage \/ YieldWatcher
  BY <1>3, <1>4 DEF vars, LosePackage, YieldWatcher, status, pipeline, control
<1>5. ASSUME NEW ph \in Phases, ManagerStop(ph) \/ PhaseDone(ph) \/ MarkActive(ph)
      PROVE  WorkInv'
  BY <1>3, <1>5 DEF ManagerStop, PhaseDone, MarkActive, status, control
<1>6. CASE SchedulerEntry
  <2>1. UNCHANGED <<main, saved>> /\ sched' = "running"
    BY <1>6 DEF SchedulerEntry, status
  <2>2. q' = [ph \in Phases |->
                {EntryWorker(a) : a \in {b \in {c \in Apps : EligibleForEntry(main[c])} :
                                           main[b].phase = ph}}]
    BY <1>6 DEF SchedulerEntry, Fault, PlainPod
  <2>3. ASSUME NEW a \in Apps, EligibleForEntry(main[a])
        PROVE  EntryWorker(a) \in q'[main[a].phase]
    <3>1. main[a].phase \in Phases
      BY DEF WorkInv, HasPhase
    <3> QED
      BY <2>2, <2>3, <3>1
  <2> QED
    BY <1>1, <2>1, <2>3 DEF WorkInv, HasPhase, EligibleIsQueued
<1>7. CASE SchedulerExit
  <2>1. /\ sched = "running" /\ sched' = "idle" /\ main' = main
        /\ saved' = [main |-> main, aux |-> aux, inProgress |-> inProgress']
        /\ ~revisit' => PipelineEmpty
    BY <1>7 DEF SchedulerExit
  <2>2. HasPhase'
    BY <2>1 DEF WorkInv, HasPhase
  <2>3. ~revisit' => NothingEligible
    BY <2>1 DEF WorkInv, HasPhase, EligibleIsQueued, PipelineEmpty, NothingEligible
  <2> QED
    BY <1>1, <2>1, <2>2, <2>3 DEF WorkInv, EligibleIsQueued, NothingEligible
<1>8. CASE Crash
  <2>1. sched' = "idle" /\ revisit' /\ main' = saved.main /\ saved' = saved
    BY <1>8 DEF Crash
  <2> QED
    BY <1>1, <2>1 DEF WorkInv, HasPhase, EligibleIsQueued
<1>9. ASSUME NEW ph \in Phases, NEW w \in Workers,
             Manage(ph, w) \/ Handle(ph, w) \/ Exit(ph, w) \/ Work(w)
      PROVE  WorkInv'
  <2>1. sched = "running" /\ saved' = saved
    <3>1. CASE Manage(ph, w)
      BY <3>1 DEF Manage, GiveUp, Advance, MoveBack, Dispatch, Visits
    <3>2. CASE Handle(ph, w) \/ Exit(ph, w)
      BY <3>2 DEF Handle, HandleDownload, HandleOther, Exit, Receives
    <3>3. CASE Work(w)
      BY <3>3 DEF Work, Download, PodCopy, InstallFails, InstallSucceeds, PostInstall,
                  Cleanup, Works
    <3> QED
      BY <1>9, <3>1, <3>2, <3>3
  <2>2. /\ \A a \in Apps : main'[a].phase \in Phases
        /\ \A a \in Apps : EligibleForEntry(main'[a])
                             => EntryWorker(a) \in q'[main'[a].phase]
    BY <1>9, <2>1, QueuedStep
  <2>3. sched' # "idle"
    <3>1. CASE Manage(ph, w)
      BY <2>1, <3>1 DEF Manage, GiveUp, Advance, MoveBack, Dispatch, control
    <3>2. CASE Handle(ph, w) \/ Exit(ph, w)
      BY <2>1, <3>2 DEF Handle, HandleDownload, HandleOther, StartGoroutine, Exit
    <3>3. CASE Work(w)
      BY <2>1, <3>3 DEF Work, Download, PodCopy, InstallFails, InstallSucceeds, PostInstall,
                  Cleanup, Works, control
    <3> QED
      BY <1>9, <3>1, <3>2, <3>3
  <2> QED
    BY <1>1, <2>1, <2>2, <2>3 DEF WorkInv, HasPhase, EligibleIsQueued
<1>10. ASSUME NEW w \in Workers, Work(w) PROVE WorkInv'
  BY <1>9, <1>10 DEF Phases
<1> QED
  BY <1>4, <1>5, <1>6, <1>7, <1>8, <1>9, <1>10 DEF Next

\* A scheduler of a CR with one pod that asks for no other entry has installed
\* every app or used up its retries: a yield or a restart forgets no app.  (A
\* directory that cannot be created ends the loop over the app sources, and
\* may leave an app behind.)
THEOREM NoAppIsForgotten == ASSUME PlainPod PROVE Spec => []NoLostWork
<1>1. WorkInv => NoLostWork
  BY DEF PlainPod, WorkInv, NothingEligible, NoLostWork, Outstanding
<1> QED
  BY <1>1, WorkInit, WorkNext, PTL DEF Spec

-----------------------------------------------------------------------------
(* CRs that fan out, with any number of pods.                              *)

\* What the claims about fan-out CRs rest on.  A worker that does not find the
\* package of the operator goes back to the download, which it then shares with
\* the workers of the other pods; so the operator's volume loses no package.
SteadyFanOut == FanOut /\ PromptExit /\ "operatorPkg" \notin FaultKinds

\* A pod of the app has used up its install retries, every pod has the app.
Failed(x) == \E p \in Pods : x[p].phase = "install" /\ MaxRetriesReached(x[p])
AllFinal(x) == \A p \in Pods : IsFinal(x[p])

\* The phase info of a pod that is not installed says why.
PodOK(x, p) ==
  /\ x[p].phase \in {"none", "podCopy", "install"}
  /\ x[p].phase = "none" <=> x[0].phase = "none"
  /\ x[p].status # "MissingFromOperator"
  /\ x[p].status = "InstallComplete" => x[p].fail = 0

\* How the phase info m of an app, those of its pods and the package on the
\* operator's volume fit together.
AppOK(m, x, pkg) ==
  /\ m.phase \in {"download", "install"}
  /\ m.phase = "install" => AllFinal(x) \/ Failed(x)
  /\ \A p \in Pods : PodOK(x, p)
  /\ m.status = "DownloadComplete" \/ x[0].phase # "none"
       => m.fail = 0 /\ (pkg \/ AllFinal(x))
  /\ m.status = "InstallComplete" <=> AllFinal(x)
  /\ AllFinal(x) => m.phase = "install"

\* A change of the status of an app that keeps this, and takes back neither an
\* exhausted pod, the phase infos of the pods nor a completed app.
AppStep(m, x, m2, x2, pkg2) ==
  /\ AppOK(m2, x2, pkg2)
  /\ Failed(x) => Failed(x2)
  /\ x[0].phase # "none" => x2[0].phase # "none"
  /\ m.status = "InstallComplete" => m2.status = "InstallComplete"

\* There is a first pod.
LEMMA FirstPod == 0 \in Pods /\ MaxRetries \in Nat
BY PipelineAssumption DEF Pods

\* A pod records an outcome other than its install.
LEMMA PodRecords ==
  ASSUME NEW m \in PhaseInfo, NEW x \in [Pods -> PhaseInfo], NEW pkg, AppOK(m, x, pkg),
         NEW p \in Pods, NEW info \in PhaseInfo, x[p].phase # "none",
         info.phase \in {"podCopy", "install"},
         info.status \notin {"MissingFromOperator", "InstallComplete"},
         x[p].status # "InstallComplete",
         \/ x[p].fail <= MaxRetries
         \/ info.phase = x[p].phase /\ info.fail = x[p].fail
  PROVE  AppStep(m, x, m, [x EXCEPT ![p] = info], pkg)
<1> DEFINE y == [x EXCEPT ![p] = info]
<1>1. \A r \in Pods : y[r] = IF r = p THEN info ELSE x[r]
  OBVIOUS
<1>2. y \in [Pods -> PhaseInfo]
  OBVIOUS
<1> HIDE DEF y
<1>3. ~AllFinal(x) /\ ~AllFinal(y)
  BY <1>1 DEF AllFinal, IsFinal
<1>4. Failed(x) => Failed(y)
  <2>1. x[p].fail \in Nat /\ MaxRetries \in Nat
    BY FirstPod DEF PhaseInfo
  <2>2. x[p].phase = "install" /\ MaxRetriesReached(x[p])
          => y[p].phase = "install" /\ MaxRetriesReached(y[p])
    BY <1>1, <2>1 DEF MaxRetriesReached
  <2>3. \A r \in Pods : r # p => y[r] = x[r]
    BY <1>1
  <2> QED
    BY <2>2, <2>3 DEF Failed
<1>5. \A r \in Pods : PodOK(x, r)
  BY DEF AppOK
<1>6. x[0].phase # "none" /\ y[0].phase # "none"
  BY <1>1, <1>5, FirstPod DEF PodOK
<1>7. \A r \in Pods : PodOK(y, r)
  BY <1>1, <1>5, <1>6 DEF PodOK
<1>8. AppOK(m, y, pkg)
  BY <1>3, <1>4, <1>6, <1>7 DEF AppOK
<1> QED
  BY <1>4, <1>6, <1>8 DEF AppStep, y

\* A pod has the app; it is complete when all of them have it.
LEMMA PodMarks ==
  ASSUME NEW m \in PhaseInfo, NEW x \in [Pods -> PhaseInfo], NEW pkg, AppOK(m, x, pkg),
         NEW p \in Pods, NEW info \in PhaseInfo, x[p].phase # "none",
         info.phase = x[p].phase, info.status = "InstallComplete", info.fail = 0,
         x[p].status # "InstallComplete", x[p].fail <= MaxRetries,
         NEW n, n = IF InstalledOnAllReplicas([x EXCEPT ![p] = info])
                    THEN InstallAs(m, "InstallComplete") ELSE m
  PROVE  AppStep(m, x, n, [x EXCEPT ![p] = info], pkg)
<1> DEFINE y == [x EXCEPT ![p] = info]
<1>1. \A r \in Pods : y[r] = IF r = p THEN info ELSE x[r]
  OBVIOUS
<1>2. y \in [Pods -> PhaseInfo]
  OBVIOUS
<1>3. n = IF InstalledOnAllReplicas(y) THEN InstallAs(m, "InstallComplete") ELSE m
  OBVIOUS
<1> HIDE DEF y
<1>4. ~AllFinal(x) /\ m.status # "InstallComplete"
  BY DEF AllFinal, IsFinal, AppOK
<1>5. Failed(x) => Failed(y)
  <2>1. x[p].fail \in Nat /\ MaxRetries \in Nat
    BY FirstPod DEF PhaseInfo
  <2>2. ~MaxRetriesReached(x[p])
    BY <2>1 DEF MaxRetriesReached
  <2> QED
    BY <1>1, <2>2 DEF Failed
<1>6. \A r \in Pods : PodOK(x, r)
  BY DEF AppOK
<1>7. x[0].phase # "none" /\ y[0].phase # "none"
  BY <1>1, <1>6, FirstPod DEF PodOK
<1>8. \A r \in Pods : PodOK(y, r)
  BY <1>1, <1>6, <1>7 DEF PodOK
<1>9. AllFinal(y) <=> InstalledOnAllReplicas(y)
  BY <1>8 DEF AllFinal, IsFinal, InstalledOnAllReplicas, PodOK
<1>10. /\ InstallAs(m, "InstallComplete").phase = "install"
       /\ InstallAs(m, "InstallComplete").status = "InstallComplete"
       /\ InstallAs(m, "InstallComplete").fail = m.fail
  BY PhaseFields, StatusFields, FailFields DEF Statuses
<1>11. m.fail = 0 /\ pkg
  BY <1>4, <1>7 DEF AppOK
<1>12. CASE AllFinal(y)
  <2>1. n = InstallAs(m, "InstallComplete")
    BY <1>3, <1>9, <1>12
  <2>2. AppOK(n, y, pkg)
    BY <1>8, <1>10, <1>11, <1>12, <2>1 DEF AppOK
  <2> QED
    BY <1>4, <1>5, <1>7, <2>2 DEF AppStep, y
<1>13. CASE ~AllFinal(y)
  <2>1. n = m
    BY <1>3, <1>9, <1>13
  <2>2. AppOK(m, y, pkg)
    BY <1>4, <1>5, <1>8, <1>11, <1>13 DEF AppOK
  <2> QED
    BY <1>4, <1>5, <1>7, <2>1, <2>2 DEF AppStep, y
<1> QED
  BY <1>12, <1>13

\* The app as a whole records the failure of one of its pods.
LEMMA AppGivesUp ==
  ASSUME NEW m \in PhaseInfo, NEW x, NEW pkg, AppOK(m, x, pkg), ~AllFinal(x),
         NEW st \in Statuses \ {"DownloadComplete", "InstallComplete"},
         NEW n, n = WithStatus(m, st) \/ (n = InstallAs(m, st) /\ Failed(x))
  PROVE  AppStep(m, x, n, x, pkg)
<1>1. /\ n.status = st /\ n.fail = m.fail
      /\ n.phase = m.phase \/ (n.phase = "install" /\ Failed(x))
  BY PhaseFields, StatusFields, FailFields
<1>2. AppOK(n, x, pkg)
  BY <1>1 DEF AppOK
<1> QED
  BY <1>2 DEF AppStep, AppOK

\* The app is downloaded, or is not yet.
LEMMA AppDownloads ==
  ASSUME NEW m \in PhaseInfo, NEW x, NEW pkg, AppOK(m, x, pkg), m.phase = "download",
         NEW n \in PhaseInfo, n.phase = "download", n.status # "InstallComplete",
         NEW pkg2,
         \/ n.status = "DownloadComplete" /\ n.fail = 0 /\ pkg2
         \/ n.status # "DownloadComplete" /\ x[0].phase = "none"
  PROVE  AppStep(m, x, n, x, pkg2)
<1>1. ~AllFinal(x) /\ m.status # "InstallComplete"
  BY DEF AppOK
<1>2. AppOK(n, x, pkg2)
  BY <1>1 DEF AppOK
<1> QED
  BY <1>1, <1>2 DEF AppStep

\* The package is there, and each pod gets, or goes on with, its own phase.
LEMMA AppFansOut ==
  ASSUME NEW m \in PhaseInfo, NEW x \in [Pods -> PhaseInfo], NEW pkg, AppOK(m, x, pkg),
         m.phase = "download", m.status = "DownloadComplete", NEW y,
         \/ x[0].phase = "none" /\ y = [p \in Pods |-> NewPhase("podCopy")]
         \/ /\ x[0].phase # "none"
            /\ y = [p \in Pods |-> IF EligibleForEntry(x[p]) THEN ToPending(x[p]) ELSE x[p]]
  PROVE  /\ AppStep(m, x, m, y, pkg)
         /\ \A p \in Pods : /\ y[p].phase = IF x[0].phase = "none" THEN "podCopy"
                                                                  ELSE x[p].phase
                            /\ y[p].status = "InstallComplete" => y[p].phase = "install"
<1>1. ~AllFinal(x) /\ \A p \in Pods : PodOK(x, p)
  BY DEF AppOK
<1>2. m.fail = 0 /\ pkg
  BY <1>1 DEF AppOK
<1>3. CASE x[0].phase = "none"
  <2>1. \A p \in Pods : y[p] = [phase |-> "podCopy", status |-> "PodCopyPending", fail |-> 0]
    BY <1>3 DEF NewPhase, PendingOf
  <2>2. ~AllFinal(y) /\ \A p \in Pods : PodOK(y, p)
    BY <2>1, FirstPod DEF AllFinal, IsFinal, PodOK
  <2>3. ~Failed(x)
    BY <1>1, <1>3 DEF Failed, PodOK
  <2>4. AppOK(m, y, pkg)
    BY <1>1, <1>2, <2>2 DEF AppOK
  <2> QED
    BY <1>3, <2>1, <2>3, <2>4 DEF AppStep
<1>4. CASE x[0].phase # "none"
  <2>1. \A p \in Pods : y[p] = IF EligibleForEntry(x[p]) THEN ToPending(x[p]) ELSE x[p]
    BY <1>4
  <2>2. ASSUME NEW p \in Pods
        PROVE  /\ ToPending(x[p]).phase = x[p].phase
               /\ ToPending(x[p]).status \notin {"InstallComplete", "MissingFromOperator"}
               /\ ToPending(x[p]).fail = x[p].fail
    BY <1>1 DEF ToPending, PendingOf, PhaseInfo, PodOK
  <2>3. \A p \in Pods : y[p].phase = x[p].phase /\ y[p].fail = x[p].fail
    BY <2>1, <2>2
  <2>4. Failed(x) => Failed(y)
    BY <2>3 DEF Failed, MaxRetriesReached
  <2>5. \A p \in Pods : PodOK(y, p)
    BY <1>1, <2>1, <2>2, <2>3, FirstPod DEF PodOK
  <2>6. ~AllFinal(y)
    BY <1>1, <2>1, <2>2 DEF AllFinal, IsFinal
  <2>7. AppOK(m, y, pkg)
    BY <1>2, <2>5, <2>6 DEF AppOK
  <2>8. ASSUME NEW p \in Pods, y[p].status = "InstallComplete"
        PROVE  y[p].phase = "install"
    <3>1. y[p] = x[p] /\ ~EligibleForEntry(x[p]) /\ x[p].fail = 0
      BY <1>1, <2>1, <2>2, <2>8 DEF PodOK
    <3> QED
      BY <2>8, <3>1, FirstPod DEF EligibleForEntry, MaxRetriesReached
  <2> QED
    BY <1>4, <2>3, <2>4, <2>7, <2>8, FirstPod DEF AppStep
<1> QED
  BY <1>3, <1>4

AppsOK == \A a \in Apps : AppOK(main[a], aux[a], opPkg[a])

\* The seed of an app downloads, and is left when a pod gave up; the other
\* workers are where their pod is.  The worker of an installed pod has its
\* cleanup left.
WorkerOK(ph, w) ==
  IF ph = "download"
  THEN /\ w = EntryWorker(w.app) /\ main[w.app].phase = "download"
       /\ gor[ph][w] = "run" => ~HasAux(w.app)
  ELSE /\ IF w.fanOut THEN ph = "install" /\ Failed(aux[w.app])
                      ELSE aux[w.app][w.pod].phase = ph
       /\ aux[w.app][w.pod].status = "InstallComplete"
            => ph = "install" /\ (Busy(ph, w) => gor[ph][w] \in {"cleanup", "exit"})

WorkersOK == \A ph \in Phases, w \in Workers : At(ph, w) => WorkerOK(ph, w)

FanInv == RetryInv /\ InstallInv /\ AppsOK /\ WorkersOK /\ ReportsKept

\* The steps of the worker in a phase.
Acts(ph, w) ==
  Manage(ph, w) \/ Handle(ph, w) \/ Exit(ph, w) \/ (Work(w) /\ gor[ph][w] # "none")

\* A worker that acts is there, and its own app and package are all it changes
\* of the status and the operator's volume.
LEMMA ActsFrame ==
  ASSUME TypeOK, NEW ph \in Phases, NEW w \in Workers, Acts(ph, w)
  PROVE  /\ At(ph, w) /\ sched = "running" /\ saved' = saved
         /\ OthersKept(w) /\ (ph # "download" => SiblingsKept(w))
         /\ \A a \in Apps : a # w.app => opPkg'[a] = opPkg[a]
<1>1. OthersKept(w)
  BY StepOthers DEF Acts
<1>2. ph # "download" => SiblingsKept(w)
  BY StepSiblings DEF Acts
<1>3. CASE Manage(ph, w)
  BY <1>1, <1>2, <1>3 DEF Manage, GiveUp, Advance, MoveBack, Dispatch, Visits, world, At
<1>4. CASE Handle(ph, w)
  BY <1>1, <1>2, <1>4 DEF Handle, HandleDownload, HandleOther, Receives, world, At, Busy
<1>5. CASE Exit(ph, w)
  BY <1>1, <1>2, <1>5 DEF Exit, world, At, Busy
<1>6. CASE Work(w) /\ gor[ph][w] # "none"
  <2>1. sched = "running" /\ saved' = saved
    BY <1>6 DEF Work, Download, PodCopy, InstallFails, InstallSucceeds, PostInstall,
                Cleanup, Works
  <2>2. \/ opPkg' = opPkg \/ \E has : opPkg' = [opPkg EXCEPT ![w.app] = has]
    BY <1>6 DEF Work, Download, PodCopy, InstallFails, InstallSucceeds, PostInstall,
                Cleanup, world
  <2>3. \A a \in Apps : a # w.app => opPkg'[a] = opPkg[a]
    BY <2>2 DEF TypeOK
  <2> QED
    BY <1>1, <1>2, <1>6, <2>1, <2>3 DEF At, Busy
<1> QED
  BY <1>3, <1>4, <1>5, <1>6 DEF Acts

\* What a step of a worker does to the status of its own app.
OwnAppStep(w) ==
  AppStep(main[w.app], aux[w.app], main'[w.app], aux'[w.app], opPkg'[w.app])

\* What each step of a worker keeps.
FanKept(w) == FanInv' /\ OwnAppStep(w)

\* What there is to show for a step of a worker.
LEMMA FanStep ==
  ASSUME FanInv, RetryInv', InstallInv', NEW ph \in Phases, NEW w \in Workers,
         Acts(ph, w), OwnAppStep(w),
         \A phase \in Phases, u \in Workers :
           At(phase, u)' /\ (u = w \/ ~At(phase, u)) => WorkerOK(phase, u)'
  PROVE  FanKept(w)
<1>1. WorkerInv /\ TypeOK /\ w.app \in Apps
  BY DEF FanInv, RetryInv, WorkerInv, Workers
<1>2. /\ At(ph, w) /\ saved' = saved
      /\ OthersKept(w) /\ (ph # "download" => SiblingsKept(w))
      /\ \A a \in Apps : a # w.app => opPkg'[a] = opPkg[a]
  BY <1>1, ActsFrame
<1>3. AppsOK'
  BY <1>2 DEF FanInv, AppsOK, OwnAppStep, AppStep, OthersKept
<1>4. ReportsKept'
  BY <1>2 DEF FanInv, ReportsKept, OwnAppStep, AppStep, OthersKept
<1>5. ASSUME NEW phase \in Phases, NEW u \in Workers, At(phase, u), u # w
      PROVE  WorkerOK(phase, u)'
  <2>1. WorkerOK(phase, u) /\ u.app \in Apps /\ u.pod \in Pods
    BY <1>5 DEF FanInv, WorkersOK, Workers
  <2>2. (Busy(phase, u)' <=> Busy(phase, u)) /\ gor'[phase][u] = gor[phase][u]
    BY <1>1, <1>5, OthersBusy DEF Acts
  <2>3. CASE u.app # w.app
    <3>1. main'[u.app] = main[u.app] /\ aux'[u.app] = aux[u.app]
      BY <1>2, <2>1, <2>3 DEF OthersKept
    <3> QED
      BY <2>1, <2>2, <3>1 DEF WorkerOK, HasAux, EntryWorker
  <2>4. CASE u.app = w.app
    <3>1. u.pod # w.pod /\ ph # "download" /\ phase # "download"
      BY <1>1, <1>2, <1>5, <2>4, WorkersDiffer
    <3>2. aux'[u.app][u.pod] = aux[u.app][u.pod]
      BY <1>2, <2>1, <2>4, <3>1 DEF SiblingsKept
    <3>3. Failed(aux[u.app]) => Failed(aux'[u.app])
      BY <2>4 DEF OwnAppStep, AppStep
    <3>4. /\ IF u.fanOut THEN phase = "install" /\ Failed(aux[u.app])
                         ELSE aux[u.app][u.pod].phase = phase
          /\ aux[u.app][u.pod].status = "InstallComplete"
               => phase = "install" /\ (Busy(phase, u) => gor[phase][u] \in {"cleanup", "exit"})
      BY <2>1, <3>1 DEF WorkerOK
    <3>5. /\ IF u.fanOut THEN phase = "install" /\ Failed(aux'[u.app])
                         ELSE aux'[u.app][u.pod].phase = phase
          /\ aux'[u.app][u.pod].status = "InstallComplete"
               => phase = "install" /\ (Busy(phase, u)' => gor'[phase][u] \in {"cleanup", "exit"})
      BY <2>2, <3>2, <3>3, <3>4
    <3>6. Failed(aux[u.app])' <=> Failed(aux'[u.app])
      BY DEF Failed, MaxRetriesReached
    <3> QED
      BY <3>1, <3>5, <3>6 DEF WorkerOK
  <2> QED
    BY <2>3, <2>4
<1>6. WorkersOK'
  BY <1>5 DEF WorkersOK
<1> QED
  BY <1>3, <1>4, <1>6 DEF FanInv, FanKept

\* A worker that acts without a change of its phase.
LEMMA FanStays ==
  ASSUME FanInv, RetryInv', InstallInv', NEW ph \in Phases, NEW w \in Workers,
         Acts(ph, w), Stays(ph, w), OwnAppStep(w),
         \/ /\ ph = "download" /\ main'[w.app].phase = "download"
            /\ gor'[ph][w] = "run" => aux'[w.app][0].phase = "none"
         \/ /\ ph # "download"
            /\ aux'[w.app][w.pod].phase = aux[w.app][w.pod].phase
            /\ aux'[w.app][w.pod].status = "InstallComplete"
                 => ph = "install" /\ (Busy(ph, w)' => gor'[ph][w] \in {"cleanup", "exit"})
  PROVE  FanKept(w)
<1>1. WorkerInv /\ TypeOK /\ At(ph, w)
  BY ActsFrame DEF FanInv, RetryInv, WorkerInv
<1>2. \A phase \in Phases, u \in Workers : At(phase, u)' => At(phase, u)
  BY <1>1, StaysAt
<1>3. \A phase \in Phases : At(phase, w) => phase = ph
  BY <1>1 DEF WorkerInv, OneWorkerPerPod
<1>4. WorkerOK(ph, w)
  BY <1>1 DEF FanInv, WorkersOK
<1>5. WorkerOK(ph, w)'
  <2>1. CASE ph = "download"
    BY <1>4, <2>1 DEF WorkerOK, HasAux, EntryWorker
  <2>2. CASE ph # "download"
    <3>1. Failed(aux[w.app]) => Failed(aux'[w.app])
      BY DEF OwnAppStep, AppStep
    <3>2. IF w.fanOut THEN ph = "install" /\ Failed(aux[w.app])
                      ELSE aux[w.app][w.pod].phase = ph
      BY <1>4, <2>2 DEF WorkerOK
    <3>3. /\ IF w.fanOut THEN ph = "install" /\ Failed(aux'[w.app])
                         ELSE aux'[w.app][w.pod].phase = ph
          /\ aux'[w.app][w.pod].status = "InstallComplete"
               => ph = "install" /\ (Busy(ph, w)' => gor'[ph][w] \in {"cleanup", "exit"})
      BY <2>2, <3>1, <3>2
    <3>4. Failed(aux[w.app])' <=> Failed(aux'[w.app])
      BY DEF Failed, MaxRetriesReached
    <3> QED
      BY <2>2, <3>3, <3>4 DEF WorkerOK
  <2> QED
    BY <2>1, <2>2
<1> QED
  BY <1>2, <1>3, <1>5, FanStep

\* What the invariant says of a worker that is there.
LEMMA FanFacts ==
  ASSUME FanInv, SteadyFanOut, NEW ph \in Phases, NEW w \in Workers, At(ph, w)
  PROVE  /\ WorkerInv /\ TypeOK /\ w.app \in Apps /\ w.pod \in Pods /\ WorkerOK(ph, w)
         /\ main[w.app] \in PhaseInfo /\ aux[w.app] \in [Pods -> PhaseInfo]
         /\ aux[w.app][w.pod] \in PhaseInfo
         /\ AppOK(main[w.app], aux[w.app], opPkg[w.app])
         /\ MaxRetries \in Nat /\ main[w.app].fail \in Nat /\ aux[w.app][w.pod].fail \in Nat
         /\ Info(w, ph) = IF ph = "download" THEN main[w.app] ELSE aux[w.app][w.pod]
<1>1. WorkerInv /\ TypeOK /\ w.app \in Apps /\ w.pod \in Pods /\ WorkerOK(ph, w)
  BY DEF FanInv, RetryInv, WorkerInv, Workers, WorkersOK
<1>2. main[w.app] \in PhaseInfo /\ aux[w.app] \in [Pods -> PhaseInfo]
  BY <1>1 DEF TypeOK
<1>3. aux[w.app][w.pod] \in PhaseInfo
  BY <1>1, <1>2
<1>4. main[w.app].fail \in Nat /\ aux[w.app][w.pod].fail \in Nat
  BY <1>2, <1>3 DEF PhaseInfo
<1>5. Info(w, ph) = IF ph = "download" THEN main[w.app] ELSE aux[w.app][w.pod]
  BY DEF Info, SteadyFanOut
<1> QED
  BY <1>1, <1>2, <1>3, <1>4, <1>5, FirstPod DEF FanInv, AppsOK

\* After the download every pod of the app has its phase info, and the package
\* is there as long as one of them needs it.
LEMMA PastDownload ==
  ASSUME FanInv, SteadyFanOut, NEW ph \in Phases, NEW w \in Workers, At(ph, w),
         ph # "download"
  PROVE  /\ aux[w.app][w.pod].phase \in {"podCopy", "install"}
         /\ aux[w.app][w.pod].status # "MissingFromOperator"
         /\ aux[w.app][w.pod].status = "InstallComplete" => aux[w.app][w.pod].fail = 0
         /\ opPkg[w.app] \/ AllFinal(aux[w.app])
         /\ ph = "podCopy" => ~w.fanOut /\ ~AllFinal(aux[w.app])
<1>1. /\ WorkerOK(ph, w) /\ AppOK(main[w.app], aux[w.app], opPkg[w.app]) /\ w.pod \in Pods
  BY FanFacts
<1>2. /\ IF w.fanOut THEN ph = "install" /\ Failed(aux[w.app])
                     ELSE aux[w.app][w.pod].phase = ph
  BY <1>1 DEF WorkerOK
<1>3. \A p \in Pods : PodOK(aux[w.app], p)
  BY <1>1 DEF AppOK
<1>4. aux[w.app][0].phase # "none"
  <2>1. CASE w.fanOut
    BY <1>2, <1>3, <2>1 DEF Failed, PodOK
  <2>2. CASE ~w.fanOut
    BY <1>1, <1>2, <1>3, <2>2 DEF PodOK, Phases
  <2> QED
    BY <2>1, <2>2
<1>5. aux[w.app][w.pod].phase \in {"podCopy", "install"}
  BY <1>1, <1>3, <1>4 DEF PodOK
<1>6. ph = "podCopy" => ~w.fanOut /\ ~AllFinal(aux[w.app])
  BY <1>1, <1>2 DEF AllFinal, IsFinal
<1> QED
  BY <1>1, <1>3, <1>4, <1>5, <1>6 DEF PodOK, AppOK

\* Steps that leave the status and the packages alone.
LEMMA SameApp ==
  ASSUME NEW m, NEW x, NEW pkg, AppOK(m, x, pkg)
  PROVE  AppStep(m, x, m, x, pkg)
BY DEF AppStep

\* The ways a goroutine records an outcome, in one place.
LEMMA Recorded ==
  ASSUME NEW info \in PhaseInfo, NEW st \in Statuses
  PROVE  /\ WithStatus(info, st) \in PhaseInfo /\ WithStatus(info, st).status = st
         /\ WithStatus(info, st).phase = info.phase /\ WithStatus(info, st).fail = info.fail
         /\ Succeeded(info, st) \in PhaseInfo /\ Succeeded(info, st).status = st
         /\ Succeeded(info, st).phase = info.phase /\ Succeeded(info, st).fail = 0
         /\ FailedOnce(info) \in PhaseInfo /\ FailedOnce(info).status = info.status
         /\ FailedOnce(info).phase = info.phase /\ FailedOnce(info).fail = info.fail + 1
BY PhaseInfoTypes, PhaseFields, StatusFields, FailFields

\* Out of retries.
LEMMA FanGivesUp ==
  ASSUME FanInv, SteadyFanOut, RetryInv', InstallInv', NEW ph \in Phases,
         NEW w \in Workers, GiveUp(ph, w)
  PROVE  FanKept(w)
<1>1. Acts(ph, w) /\ Stays(ph, w) /\ At(ph, w) /\ gor' = gor /\ chan' = chan /\ opPkg' = opPkg
  BY DEF GiveUp, Acts, Manage, Stays, Visits, At, world
<1>2. /\ WorkerInv /\ TypeOK /\ w.app \in Apps /\ w.pod \in Pods /\ WorkerOK(ph, w)
      /\ main[w.app] \in PhaseInfo /\ aux[w.app] \in [Pods -> PhaseInfo]
      /\ aux[w.app][w.pod] \in PhaseInfo
      /\ AppOK(main[w.app], aux[w.app], opPkg[w.app])
      /\ MaxRetries \in Nat /\ main[w.app].fail \in Nat /\ aux[w.app][w.pod].fail \in Nat
      /\ Info(w, ph) = IF ph = "download" THEN main[w.app] ELSE aux[w.app][w.pod]
  BY <1>1, FanFacts
<1>3. MaxRetriesReached(Info(w, ph)) /\ Info(w, ph).fail # 0
  BY <1>2 DEF GiveUp, MaxRetriesReached
<1>4. CASE ph = "download"
  <2>1. main' = [main EXCEPT ![w.app] = WithStatus(@, "DownloadError")] /\ aux' = aux
    BY <1>4 DEF GiveUp
  <2>2. main'[w.app] = WithStatus(main[w.app], "DownloadError")
    BY <1>2, <2>1 DEF TypeOK
  <2>3. main[w.app].phase = "download" /\ aux[w.app][0].phase = "none"
    BY <1>2, <1>3, <1>4 DEF WorkerOK, AppOK
  <2>4. ~AllFinal(aux[w.app])
    BY <1>2, <2>3 DEF AppOK
  <2>5. AppStep(main[w.app], aux[w.app], main'[w.app], aux[w.app], opPkg[w.app])
    BY <1>2, <2>2, <2>4, AppGivesUp DEF Statuses
  <2>6. OwnAppStep(w)
    BY <1>1, <2>1, <2>5 DEF OwnAppStep
  <2>7. main'[w.app].phase = "download"
    BY <1>2, <2>2, <2>3, PhaseFields DEF Statuses
  <2> QED
    BY <1>1, <1>4, <2>1, <2>3, <2>6, <2>7, FanStays
<1>5. CASE ph = "podCopy"
  <2>1. main' = [main EXCEPT ![w.app] = WithStatus(@, "PodCopyError")] /\ aux' = aux
    BY <1>5 DEF GiveUp
  <2>2. main'[w.app] = WithStatus(main[w.app], "PodCopyError")
    BY <1>2, <2>1 DEF TypeOK
  <2>3. ~AllFinal(aux[w.app]) /\ aux[w.app][w.pod].status # "InstallComplete"
    BY <1>1, <1>2, <1>3, <1>5, PastDownload
  <2>5. AppStep(main[w.app], aux[w.app], main'[w.app], aux[w.app], opPkg[w.app])
    BY <1>2, <2>2, <2>3, AppGivesUp DEF Statuses
  <2>6. OwnAppStep(w)
    BY <1>1, <2>1, <2>5 DEF OwnAppStep
  <2> QED
    BY <1>1, <1>5, <2>1, <2>3, <2>6, FanStays
<1>6. CASE ph = "install"
  <2> DEFINE info == WithStatus(aux[w.app][w.pod], "InstallError")
             x == [aux[w.app] EXCEPT ![w.pod] = info]
  <2>1. /\ aux' = [aux EXCEPT ![w.app][w.pod] = WithStatus(@, "InstallError")]
        /\ main' = [main EXCEPT ![w.app] = InstallAs(@, "InstallError")]
    BY <1>6 DEF GiveUp, SteadyFanOut
  <2>2. main'[w.app] = InstallAs(main[w.app], "InstallError") /\ aux'[w.app] = x
    <3>1. main'[w.app] = InstallAs(main[w.app], "InstallError")
      BY <1>2, <2>1 DEF TypeOK
    <3>2. aux' = [aux EXCEPT ![w.app][w.pod] = info]
      BY <2>1
    <3> HIDE DEF info
    <3>3. aux'[w.app] = x
      BY <1>2, <3>2 DEF TypeOK
    <3> QED
      BY <3>1, <3>3
  <2>3. /\ info \in PhaseInfo /\ info.status = "InstallError"
        /\ info.phase = aux[w.app][w.pod].phase /\ info.fail = aux[w.app][w.pod].fail
    BY <1>2, Recorded DEF Statuses
  <2>4. /\ aux[w.app][w.pod].status # "InstallComplete"
        /\ aux[w.app][w.pod].phase \in {"podCopy", "install"}
    BY <1>1, <1>2, <1>3, <1>6, PastDownload
  <2>5. x[w.pod] = info
    BY <1>2
  <2> HIDE DEF info
  <2>6. AppStep(main[w.app], aux[w.app], main[w.app], x, opPkg[w.app])
    BY <1>2, <2>3, <2>4, PodRecords
  <2>7. Failed(x)
    <3>1. CASE w.fanOut
      BY <1>2, <1>6, <2>6, <3>1 DEF WorkerOK, AppStep
    <3>2. CASE ~w.fanOut
      <4>1. info.phase = "install" /\ MaxRetriesReached(info)
        BY <1>2, <1>3, <1>6, <2>3, <3>2 DEF WorkerOK, MaxRetriesReached
      <4> QED
        BY <1>2, <2>5, <4>1 DEF Failed
    <3> QED
      BY <3>1, <3>2
  <2> HIDE DEF x
  <2>8. ~AllFinal(x)
    BY <1>2, <2>3, <2>5 DEF AllFinal, IsFinal
  <2>9. AppStep(main[w.app], x, main'[w.app], x, opPkg[w.app])
    BY <1>2, <2>2, <2>6, <2>7, <2>8, AppGivesUp DEF Statuses, AppStep
  <2>10. OwnAppStep(w)
    BY <1>1, <2>2, <2>6, <2>9 DEF OwnAppStep, AppStep
  <2>11. aux'[w.app][w.pod] = info
    BY <2>2, <2>5
  <2> QED
    BY <1>1, <1>6, <2>3, <2>10, <2>11, FanStays
<1> QED
  BY <1>4, <1>5, <1>6 DEF Phases

\* A manager hands a worker out, or drops the one of an installed pod; a
\* handler starts a goroutine, a goroutine ends.
LEMMA FanQuietWorker ==
  ASSUME FanInv, SteadyFanOut, RetryInv', InstallInv', NEW ph \in Phases,
         NEW w \in Workers,
         \/ Dispatch(ph, w) \/ (Advance(ph, w) /\ ph = "install")
         \/ HandleOther(ph, w) \/ Exit(ph, w) \/ (Cleanup(w) /\ ph = "install")
  PROVE  FanKept(w)
<1>1. Acts(ph, w) /\ Stays(ph, w) /\ At(ph, w) /\ main' = main /\ aux' = aux
  BY DEF Dispatch, Advance, HandleOther, Exit, Cleanup, Works, Acts, Manage, Handle, Work, Stays,
         Visits, Receives, At, Busy, status
<1>2. /\ WorkerInv /\ TypeOK /\ w.app \in Apps /\ w.pod \in Pods /\ WorkerOK(ph, w)
      /\ AppOK(main[w.app], aux[w.app], opPkg[w.app])
      /\ Info(w, ph) = IF ph = "download" THEN main[w.app] ELSE aux[w.app][w.pod]
  BY <1>1, FanFacts
<1>3. OwnAppStep(w)
  <2>1. CASE opPkg'[w.app] = opPkg[w.app]
    BY <1>1, <1>2, <2>1, SameApp DEF OwnAppStep
  <2>2. CASE opPkg'[w.app] # opPkg[w.app]
    <3>1. /\ Cleanup(w) /\ ph = "install"
          /\ opPkg' = [opPkg EXCEPT ![w.app] = @ /\ ~CleanupAllowed(w.app)]
      BY <2>2 DEF Dispatch, Advance, HandleOther, Exit, Cleanup, world
    <3>2. CleanupAllowed(w.app)
      BY <1>2, <2>2, <3>1 DEF TypeOK
    <3>3. InstalledOnAllReplicas(aux[w.app])
      BY <3>2 DEF CleanupAllowed, SteadyFanOut
    <3>4. \A p \in Pods : PodOK(aux[w.app], p)
      BY <1>2 DEF AppOK
    <3>5. AllFinal(aux[w.app])
      BY <3>3, <3>4 DEF InstalledOnAllReplicas, AllFinal, IsFinal, PodOK
    <3> QED
      BY <1>1, <1>2, <3>5 DEF OwnAppStep, AppStep, AppOK
  <2> QED
    BY <2>1, <2>2
<1>4. gor'[ph][w] = "run" => gor[ph][w] = "run" \/ ph # "download"
  <2>1. gor' = gor \/ ph # "download" \/ gor' = [gor EXCEPT ![ph][w] = "none"]
    BY DEF Dispatch, Advance, HandleOther, Exit
  <2> QED
    BY <1>2, <2>1 DEF TypeOK
<1>5. ASSUME ph # "download", aux[w.app][w.pod].status = "InstallComplete"
      PROVE  ph = "install" /\ (Busy(ph, w)' => gor'[ph][w] \in {"cleanup", "exit"})
  <2>1. ph = "install" /\ (Busy(ph, w) => gor[ph][w] \in {"cleanup", "exit"})
    BY <1>2, <1>5 DEF WorkerOK
  <2>2. w \notin chan[ph]
    BY <1>2, <2>1 DEF WorkerInv, NotResent, Busy
  <2>3. CASE Dispatch(ph, w)
    BY <1>2, <1>5, <2>1, <2>3 DEF Dispatch, CompleteOf
  <2>4. CASE Advance(ph, w)
    BY <2>1, <2>4 DEF Advance, Busy
  <2>5. CASE HandleOther(ph, w)
    BY <2>2, <2>5 DEF HandleOther, Receives
  <2>6. CASE Exit(ph, w)
    BY <1>2, <2>1, <2>2, <2>6 DEF Exit, Busy, TypeOK
  <2>7. CASE Cleanup(w)
    BY <1>2, <2>1, <2>7 DEF Cleanup, Works, TypeOK
  <2> QED
    BY <2>1, <2>3, <2>4, <2>5, <2>6, <2>7
<1>6. CASE ph = "download"
  BY <1>1, <1>2, <1>3, <1>4, <1>6, FanStays DEF WorkerOK, HasAux
<1>7. CASE ph # "download"
  BY <1>1, <1>3, <1>5, <1>7, FanStays
<1> QED
  BY <1>6, <1>7

\* A worker of a pod that may still fail records an outcome.
LEMMA FanRecords ==
  ASSUME FanInv, SteadyFanOut, RetryInv', InstallInv', NEW ph \in Phases \ {"download"},
         NEW w \in Workers, Work(w), gor[ph][w] \in {"run", "post"}, Stays(ph, w),
         NEW info \in PhaseInfo, SetInfo(w, ph, info), opPkg' = opPkg,
         info.phase = aux[w.app][w.pod].phase,
         info.status \notin {"MissingFromOperator", "InstallComplete"}
  PROVE  FanKept(w)
<1>1. Acts(ph, w) /\ Busy(ph, w) /\ At(ph, w) /\ MayFail(ph, w)
  BY DEF Acts, At, Busy, MayFail
<1>2. /\ TypeOK /\ w.app \in Apps /\ w.pod \in Pods /\ WorkerOK(ph, w)
      /\ main[w.app] \in PhaseInfo /\ aux[w.app] \in [Pods -> PhaseInfo]
      /\ AppOK(main[w.app], aux[w.app], opPkg[w.app])
      /\ Info(w, ph) = aux[w.app][w.pod]
  BY <1>1, FanFacts
<1>3. aux' = [aux EXCEPT ![w.app][w.pod] = info] /\ main' = main
  BY DEF SetInfo, SteadyFanOut
<1>4. aux'[w.app] = [aux[w.app] EXCEPT ![w.pod] = info] /\ aux'[w.app][w.pod] = info
  BY <1>2, <1>3 DEF TypeOK
<1>5. aux[w.app][w.pod].phase \in {"podCopy", "install"}
  BY <1>1, PastDownload
<1>6. aux[w.app][w.pod].status # "InstallComplete"
  BY <1>1, <1>2 DEF WorkerOK
<1>7. aux[w.app][w.pod].fail <= MaxRetries
  BY <1>1, <1>2 DEF FanInv, RetryInv, BusyHasRetries
<1>8. AppStep(main[w.app], aux[w.app], main[w.app],
              [aux[w.app] EXCEPT ![w.pod] = info], opPkg[w.app])
  BY <1>2, <1>5, <1>6, <1>7, PodRecords
<1>9. OwnAppStep(w)
  BY <1>3, <1>4, <1>8 DEF OwnAppStep
<1> QED
  BY <1>1, <1>4, <1>9, FanStays

\* runPodCopyWorker finds the package.
LEMMA FanCopies ==
  ASSUME FanInv, SteadyFanOut, RetryInv', InstallInv', NEW w \in Workers, PodCopy(w)
  PROVE  FanKept(w)
<1>1. /\ gor["podCopy"][w] = "run" /\ Work(w) /\ Stays("podCopy", w) /\ opPkg' = opPkg
      /\ Busy("podCopy", w) /\ At("podCopy", w) /\ "podCopy" \in Phases \ {"download"}
  BY DEF PodCopy, Works, Work, Stays, Busy, At, Phases
<1>2. opPkg[w.app]
  BY <1>1, PastDownload
<1>3. /\ Info(w, "podCopy") = aux[w.app][w.pod] /\ aux[w.app][w.pod] \in PhaseInfo
      /\ WorkerOK("podCopy", w)
  BY <1>1, FanFacts
<1>4. aux[w.app][w.pod].status \notin {"MissingFromOperator", "InstallComplete"}
  BY <1>1, <1>3, PastDownload DEF WorkerOK
<1> DEFINE old == aux[w.app][w.pod]
<1>5. \E info \in {FailedOnce(old), WithStatus(old, "PodCopyComplete")} :
        SetInfo(w, "podCopy", info)
  BY <1>2, <1>3 DEF PodCopy
<1>6. "PodCopyComplete" \in Statuses
  BY DEF Statuses
<1>7. ASSUME NEW info \in {FailedOnce(old), WithStatus(old, "PodCopyComplete")}
      PROVE  /\ info \in PhaseInfo /\ info.phase = old.phase
             /\ info.status \notin {"MissingFromOperator", "InstallComplete"}
  <2>1. CASE info = FailedOnce(old)
    BY <1>3, <1>4, <1>6, <2>1, Recorded
  <2>2. CASE info = WithStatus(old, "PodCopyComplete")
    BY <1>3, <1>6, <2>2, Recorded
  <2> QED
    BY <2>1, <2>2
<1> HIDE DEF old
<1>8. PICK info \in {FailedOnce(old), WithStatus(old, "PodCopyComplete")} :
        SetInfo(w, "podCopy", info)
  BY <1>5
<1>9. /\ info \in PhaseInfo /\ info.phase = aux[w.app][w.pod].phase
      /\ info.status \notin {"MissingFromOperator", "InstallComplete"}
  BY <1>7 DEF old
<1> QED
  BY <1>1, <1>8, <1>9, FanRecords

\* An install that does not succeed.
LEMMA FanInstallFails ==
  ASSUME FanInv, SteadyFanOut, RetryInv', InstallInv', NEW w \in Workers,
         NEW info, Work(w), gor["install"][w] \in {"run", "post"}, opPkg' = opPkg,
         info \in {FailedOnce(Info(w, "install")), MissingOnPod(Info(w, "install"))},
         SetInfo(w, "install", info)
  PROVE  FanKept(w)
<1>1. /\ Stays("install", w) /\ Busy("install", w) /\ At("install", w)
      /\ "install" \in Phases \ {"download"}
  BY DEF Stays, Busy, At, Phases
<1>2. /\ Info(w, "install") = aux[w.app][w.pod] /\ aux[w.app][w.pod] \in PhaseInfo
      /\ WorkerOK("install", w)
  BY <1>1, FanFacts
<1>3. aux[w.app][w.pod].status \notin {"MissingFromOperator", "InstallComplete"}
  BY <1>1, <1>2, PastDownload DEF WorkerOK
<1>4. "MissingOnPodError" \in Statuses
  BY DEF Statuses
<1>5. /\ info \in PhaseInfo /\ info.phase = aux[w.app][w.pod].phase
      /\ info.status \notin {"MissingFromOperator", "InstallComplete"}
  <2>1. CASE info = FailedOnce(Info(w, "install"))
    BY <1>2, <1>3, <1>4, <2>1, Recorded
  <2>2. CASE info = MissingOnPod(Info(w, "install"))
    BY <1>2, <1>4, <2>2, Recorded DEF MissingOnPod
  <2> QED
    BY <2>1, <2>2
<1> QED
  BY <1>1, <1>5, FanRecords

\* An install that is recorded, for the pod or for all of them.
LEMMA FanMarks ==
  ASSUME FanInv, SteadyFanOut, RetryInv', InstallInv', NEW w \in Workers,
         Work(w), gor["install"][w] \in {"run", "post"}, opPkg' = opPkg,
         MarkInstallComplete(w), gor' = [gor EXCEPT !["install"][w] = "cleanup"]
  PROVE  FanKept(w)
<1>1. /\ Stays("install", w) /\ Acts("install", w) /\ MayFail("install", w)
      /\ Busy("install", w) /\ At("install", w) /\ "install" \in Phases
  BY DEF Stays, Acts, MayFail, Busy, At, Phases
<1>2. /\ TypeOK /\ w.app \in Apps /\ w.pod \in Pods /\ WorkerOK("install", w)
      /\ main[w.app] \in PhaseInfo /\ aux[w.app] \in [Pods -> PhaseInfo]
      /\ aux[w.app][w.pod] \in PhaseInfo
      /\ AppOK(main[w.app], aux[w.app], opPkg[w.app])
      /\ Info(w, "install") = aux[w.app][w.pod]
  BY <1>1, FanFacts
<1>3. /\ aux[w.app][w.pod].status # "InstallComplete"
      /\ aux[w.app][w.pod].phase \in {"podCopy", "install"}
      /\ aux[w.app][w.pod].fail <= MaxRetries
  BY <1>1, <1>2, PastDownload DEF WorkerOK, FanInv, RetryInv, BusyHasRetries
<1> DEFINE done == Succeeded(aux[w.app][w.pod], "InstallComplete")
           x == [aux[w.app] EXCEPT ![w.pod] = done]
<1>4. /\ done \in PhaseInfo /\ done.status = "InstallComplete" /\ done.fail = 0
      /\ done.phase = aux[w.app][w.pod].phase
  BY <1>2, Recorded DEF Statuses
<1>5. /\ aux' = [aux EXCEPT ![w.app] = x]
      /\ main' = IF InstalledOnAllReplicas(x)
                 THEN [main EXCEPT ![w.app] = InstallAs(@, "InstallComplete")]
                 ELSE main
  BY <1>2 DEF MarkInstallComplete, SteadyFanOut
<1> HIDE DEF done
<1>6. x[w.pod] = done /\ aux'[w.app] = x
  BY <1>2, <1>5 DEF TypeOK
<1>7. main'[w.app] = IF InstalledOnAllReplicas(x)
                     THEN InstallAs(main[w.app], "InstallComplete") ELSE main[w.app]
  BY <1>2, <1>5 DEF TypeOK
<1>8. AppStep(main[w.app], aux[w.app], main'[w.app], x, opPkg[w.app])
  BY <1>2, <1>3, <1>4, <1>7, PodMarks
<1> HIDE DEF x
<1>9. OwnAppStep(w)
  BY <1>6, <1>8 DEF OwnAppStep
<1>10. gor'["install"][w] = "cleanup" /\ aux'[w.app][w.pod] = done
  BY <1>1, <1>2, <1>6 DEF TypeOK
<1> QED
  BY <1>1, <1>4, <1>9, <1>10, FanStays

\* The seed of an app downloads it, or finds it downloaded.
LEMMA FanDownloads ==
  ASSUME FanInv, SteadyFanOut, RetryInv', InstallInv', NEW w \in Workers,
         Download(w) \/ HandleDownload(w)
  PROVE  FanKept(w)
<1>1. /\ Acts("download", w) /\ Stays("download", w) /\ At("download", w) /\ aux' = aux
      /\ "download" \in Phases
  BY DEF Download, HandleDownload, Works, Receives, Acts, Work, Handle, Stays, At, Busy, Phases
<1>2. /\ TypeOK /\ w.app \in Apps /\ WorkerOK("download", w)
      /\ main[w.app] \in PhaseInfo /\ AppOK(main[w.app], aux[w.app], opPkg[w.app])
  BY <1>1, FanFacts
<1>3. main[w.app].phase = "download" /\ ~AllFinal(aux[w.app])
  BY <1>2 DEF WorkerOK, AppOK
<1>4. ASSUME NEW n \in PhaseInfo, main'[w.app] = n, n.phase = "download",
             n.status # "InstallComplete",
             \/ n.status = "DownloadComplete" /\ n.fail = 0 /\ opPkg'[w.app]
             \/ n.status # "DownloadComplete" /\ aux[w.app][0].phase = "none",
             gor'["download"][w] = "run" => aux[w.app][0].phase = "none"
      PROVE  FanKept(w)
  <2>1. AppStep(main[w.app], aux[w.app], n, aux[w.app], opPkg'[w.app])
    BY <1>2, <1>3, <1>4, AppDownloads
  <2>2. OwnAppStep(w)
    BY <1>1, <1>4, <2>1 DEF OwnAppStep
  <2> QED
    BY <1>1, <1>4, <2>2, FanStays
<1>5. /\ "DownloadComplete" \in Statuses /\ "DownloadPending" \in Statuses
      /\ "DownloadError" \in Statuses /\ "DownloadInProgress" \in Statuses
  BY DEF Statuses
<1>6. /\ FailedOnce(main[w.app]) \in PhaseInfo
      /\ FailedOnce(main[w.app]).phase = "download"
  BY <1>2, <1>3, <1>5, Recorded
<1>7. CASE Download(w)
  <2>1. PICK ok \in BOOLEAN :
          /\ opPkg' = [opPkg EXCEPT ![w.app] = ok]
          /\ main' = [main EXCEPT ![w.app] =
                        IF ok THEN Succeeded(@, "DownloadComplete")
                              ELSE WithStatus(FailedOnce(@), "DownloadPending")]
    BY <1>7 DEF Download
  <2>2. opPkg'[w.app] = ok
    BY <1>2, <2>1 DEF TypeOK
  <2>3. main'[w.app] = IF ok THEN Succeeded(main[w.app], "DownloadComplete")
                             ELSE WithStatus(FailedOnce(main[w.app]), "DownloadPending")
    BY <1>2, <2>1 DEF TypeOK
  <2>4. aux[w.app][0].phase = "none"
    BY <1>2, <1>7 DEF Download, Works, WorkerOK, HasAux
  <2>5. CASE ok
    BY <1>2, <1>3, <1>4, <1>5, <2>2, <2>3, <2>4, <2>5, Recorded
  <2>6. CASE ~ok
    BY <1>4, <1>5, <1>6, <2>3, <2>4, <2>6, Recorded
  <2> QED
    BY <2>5, <2>6
<1>8. CASE HandleDownload(w)
  <2>1. opPkg' = opPkg /\ gor["download"][w] = "none"
    BY <1>8 DEF HandleDownload, Receives, world
  <2>2. CASE /\ opPkg[w.app] /\ gor' = gor
             /\ main' = [main EXCEPT ![w.app] = Succeeded(@, "DownloadComplete")]
    <3>1. main'[w.app] = Succeeded(main[w.app], "DownloadComplete")
      BY <1>2, <2>2 DEF TypeOK
    <3>2. /\ main'[w.app] \in PhaseInfo /\ main'[w.app].phase = "download"
          /\ main'[w.app].status = "DownloadComplete" /\ main'[w.app].fail = 0
      <4> DEFINE n == Succeeded(main[w.app], "DownloadComplete")
      <4>1. /\ n \in PhaseInfo /\ n.phase = main[w.app].phase
            /\ n.status = "DownloadComplete" /\ n.fail = 0
        BY <1>2, <1>5, Recorded
      <4> HIDE DEF n
      <4>2. main'[w.app] = n
        BY <3>1 DEF n
      <4> QED
        BY <1>3, <4>1, <4>2
    <3>3. opPkg'[w.app] /\ gor'["download"][w] # "run"
      BY <2>1, <2>2
    <3> QED
      BY <1>4, <3>2, <3>3
  <2>3. CASE ~opPkg[w.app]
    <3>1. aux[w.app][0].phase = "none" /\ main[w.app].status # "DownloadComplete"
      BY <1>2, <1>3, <2>3 DEF AppOK
    <3>2. main[w.app].status # "InstallComplete"
      BY <1>2, <1>3 DEF AppOK
    <3>3. CASE main' = main
      BY <1>2, <1>3, <1>4, <3>1, <3>2, <3>3
    <3>4. ASSUME NEW st \in {"DownloadPending", "DownloadError", "DownloadInProgress"},
                 NEW info \in {main[w.app], FailedOnce(main[w.app])},
                 main' = [main EXCEPT ![w.app] = WithStatus(info, st)]
          PROVE  FanKept(w)
      <4>1. info \in PhaseInfo /\ info.phase = "download" /\ st \in Statuses
        BY <1>2, <1>3, <1>5, <1>6
      <4>2. main'[w.app] = WithStatus(info, st)
        BY <1>2, <3>4 DEF TypeOK
      <4>3. /\ main'[w.app] \in PhaseInfo /\ main'[w.app].phase = "download"
            /\ main'[w.app].status = st
        <5> DEFINE n == WithStatus(info, st)
        <5>1. n \in PhaseInfo /\ n.phase = info.phase /\ n.status = st
          BY <4>1, Recorded
        <5> HIDE DEF n
        <5>2. main'[w.app] = n
          BY <4>2 DEF n
        <5> QED
          BY <4>1, <5>1, <5>2
      <4> QED
        BY <1>4, <3>1, <4>3
    <3>5. \/ main' = main
          \/ \E st \in {"DownloadPending", "DownloadError"} :
               main' = [main EXCEPT ![w.app] = WithStatus(FailedOnce(main[w.app]), st)]
          \/ main' = [main EXCEPT ![w.app] = WithStatus(main[w.app], "DownloadInProgress")]
      BY <1>8, <2>3 DEF HandleDownload
    <3> QED
      BY <3>3, <3>4, <3>5
  <2> QED
    BY <1>8, <2>2, <2>3 DEF HandleDownload
<1> QED
  BY <1>7, <1>8

\* The seed is followed by a worker for each pod that is not done.
LEMMA FanOutStep ==
  ASSUME FanInv, SteadyFanOut, RetryInv', InstallInv', NEW w \in Workers,
         Advance("download", w)
  PROVE  FanKept(w)
<1>1. /\ Acts("download", w) /\ At("download", w) /\ "download" \in Phases
      /\ opPkg' = opPkg /\ chan' = chan /\ gor' = gor
      /\ TransitionWorker(w, "download", "podCopy")
      /\ StatusComplete(Info(w, "download"))
  BY DEF Advance, Visits, Acts, Manage, At, Phases, world
<1>2. /\ WorkerInv /\ TypeOK /\ w.app \in Apps /\ w.pod \in Pods /\ WorkerOK("download", w)
      /\ main[w.app] \in PhaseInfo /\ aux[w.app] \in [Pods -> PhaseInfo]
      /\ AppOK(main[w.app], aux[w.app], opPkg[w.app])
      /\ Info(w, "download") = main[w.app]
  BY <1>1, FanFacts
<1>3. main[w.app].phase = "download" /\ main[w.app].status = "DownloadComplete"
  BY <1>1, <1>2 DEF WorkerOK, StatusComplete, CompleteOf
<1>4. w.fanOut
  BY <1>2 DEF WorkerOK, EntryWorker, SteadyFanOut
<1>5. FanOutFromDownload(w)
  BY <1>1, <1>4 DEF TransitionWorker
<1> DEFINE x == aux[w.app]
<1>6. /\ main' = main
      /\ \/ /\ x[0].phase = "none"
            /\ aux' = [aux EXCEPT ![w.app] = [p \in Pods |-> NewPhase("podCopy")]]
         \/ /\ x[0].phase # "none"
            /\ aux' = [aux EXCEPT ![w.app] =
                         [p \in Pods |-> IF p \in ReplicasToResume(w.app)
                                         THEN ToPending(aux[w.app][p])
                                         ELSE aux[w.app][p]]]
  BY <1>5 DEF FanOutFromDownload, HasAux
<1>7. \/ x[0].phase = "none" /\ aux'[w.app] = [p \in Pods |-> NewPhase("podCopy")]
      \/ /\ x[0].phase # "none"
         /\ aux'[w.app] = [p \in Pods |-> IF p \in ReplicasToResume(w.app)
                                          THEN ToPending(aux[w.app][p])
                                          ELSE aux[w.app][p]]
  BY <1>2, <1>6 DEF TypeOK
<1>8. \/ x[0].phase = "none" /\ aux'[w.app] = [p \in Pods |-> NewPhase("podCopy")]
      \/ /\ x[0].phase # "none"
         /\ aux'[w.app] = [p \in Pods |-> IF EligibleForEntry(x[p]) THEN ToPending(x[p])
                                                                   ELSE x[p]]
  BY <1>7 DEF ReplicasToResume
<1>9. /\ AppStep(main[w.app], x, main[w.app], aux'[w.app], opPkg[w.app])
      /\ \A p \in Pods : /\ aux'[w.app][p].phase = IF x[0].phase = "none" THEN "podCopy"
                                                                      ELSE x[p].phase
                         /\ aux'[w.app][p].status = "InstallComplete"
                              => aux'[w.app][p].phase = "install"
  BY <1>2, <1>3, <1>8, AppFansOut
<1>10. OwnAppStep(w)
  BY <1>1, <1>6, <1>9 DEF OwnAppStep
<1>11. ASSUME NEW phase \in Phases, NEW u \in Workers, At(phase, u)', u = w \/ ~At(phase, u)
       PROVE  WorkerOK(phase, u)'
  <2>1. \A ph \in Phases : ~Busy(ph, w)
    BY <1>1, <1>2, <1>3, DueIsIdle DEF Advance, Visits, Due, SteadyFanOut
  <2>2. u \in q'[phase] /\ ~(u \in q[phase] /\ u # w)
    BY <1>1, <1>11, <2>1 DEF At, Busy
  <2>3. \A ph \in Phases : w \in q[ph] => ph = "download"
    BY <1>1, <1>2 DEF WorkerInv, OneWorkerPerPod, At
  <2>4. /\ \E p \in Pods : u = FanOutWorker(w, p) /\ phase = ResumesAt(w.app, p)
        /\ phase # "download"
    BY <1>1, <1>2, <1>4, <2>2, <2>3, TransitionQueues DEF Phases
  <2>5. PICK p \in Pods : u = FanOutWorker(w, p) /\ phase = ResumesAt(w.app, p)
    BY <2>4
  <2>6. u.app = w.app /\ u.pod = p /\ u.fanOut = FALSE
    BY <2>5 DEF FanOutWorker, Workers
  <2>7. aux'[w.app][p].phase = phase
    BY <1>9, <2>5 DEF ResumesAt, HasAux
  <2>8. ~Busy(phase, u)'
    <3>1. ~Busy(phase, u)
      BY <1>1, <1>2, <2>4, <2>6 DEF WorkerInv, OneWorkerPerPod, At
    <3> QED
      BY <1>1, <3>1 DEF Busy
  <2> QED
    BY <1>9, <2>4, <2>6, <2>7, <2>8 DEF WorkerOK
<1> QED
  BY <1>1, <1>10, <1>11, FanStep

\* A worker of a pod goes on to its install, or back to its copy.
LEMMA FanMoves ==
  ASSUME FanInv, SteadyFanOut, RetryInv', InstallInv', NEW ph \in Phases,
         NEW w \in Workers, ph # "download",
         (Advance(ph, w) /\ ph # "install") \/ MoveBack(ph, w)
  PROVE  FanKept(w)
<1>1. /\ Acts(ph, w) /\ At(ph, w) /\ w \in q[ph] /\ Settled(w)
      /\ opPkg' = opPkg /\ chan' = chan /\ gor' = gor
      /\ ~MaxRetriesReached(Info(w, ph)) /\ Due(ph, Info(w, ph))
  BY DEF Advance, MoveBack, Visits, Acts, Manage, At, world, Due, HandledFirst
<1>2. /\ WorkerInv /\ TypeOK /\ w.app \in Apps /\ w.pod \in Pods /\ WorkerOK(ph, w)
      /\ main[w.app] \in PhaseInfo /\ aux[w.app] \in [Pods -> PhaseInfo]
      /\ AppOK(main[w.app], aux[w.app], opPkg[w.app])
      /\ Info(w, ph) = aux[w.app][w.pod]
      /\ aux[w.app][w.pod].fail \in Nat /\ MaxRetries \in Nat
  BY <1>1, FanFacts
<1>3. /\ aux[w.app][w.pod].phase \in {"podCopy", "install"}
      /\ aux[w.app][w.pod].status # "MissingFromOperator"
      /\ ph = "podCopy" => ~w.fanOut
  BY <1>1, PastDownload
<1>4. PICK next \in {"podCopy", "install"} : next # ph /\ TransitionWorker(w, ph, next)
  BY <1>2, <1>3 DEF Advance, MoveBack
<1>5. /\ aux[w.app][w.pod].fail <= MaxRetries
      /\ aux[w.app][w.pod].status # "InstallComplete"
  <2>1. aux[w.app][w.pod].fail <= MaxRetries
    BY <1>1, <1>2 DEF MaxRetriesReached
  <2>2. aux[w.app][w.pod].status = "InstallComplete" => ph = "install"
    BY <1>2 DEF WorkerOK
  <2>3. ph = "install" => aux[w.app][w.pod].status = "MissingOnPodError"
    BY <1>2 DEF MoveBack
  <2> QED
    BY <2>1, <2>2, <2>3
<1>6. \A phase \in Phases : ~Busy(phase, w)
  BY <1>1, <1>2, DueIsIdle DEF SteadyFanOut
<1>7. ASSUME NEW phase \in Phases, NEW u \in Workers, At(phase, u)', u = w \/ ~At(phase, u)
      PROVE  ~w.fanOut /\ u = w /\ phase = next
  <2>1. u \in q'[phase] /\ ~(u \in q[phase] /\ u # w)
    BY <1>1, <1>6, <1>7 DEF At, Busy
  <2>2. \A at \in Phases : w \in q[at] => at = ph
    BY <1>1, <1>2 DEF WorkerInv, OneWorkerPerPod, At
  <2>3. next \in Phases
    BY DEF Phases
  <2> QED
    BY <1>2, <1>4, <2>1, <2>2, <2>3, TransitionQueues
<1>8. CASE w.fanOut
  <2>1. main' = main /\ aux' = aux
    BY <1>4, <1>8 DEF TransitionWorker
  <2>2. OwnAppStep(w)
    BY <1>1, <1>2, <2>1, SameApp DEF OwnAppStep
  <2> QED
    BY <1>1, <1>7, <1>8, <2>2, FanStep
<1>9. CASE ~w.fanOut
  <2> DEFINE info == NewPhase(next)
  <2>1. aux' = [aux EXCEPT ![w.app][w.pod] = info] /\ main' = main
    BY <1>4, <1>9 DEF TransitionWorker, SteadyFanOut
  <2>2. /\ info \in PhaseInfo /\ info.phase = next
        /\ info.status \notin {"MissingFromOperator", "InstallComplete"}
    BY PhaseInfoTypes DEF NewPhase, PendingOf, Phases
  <2> HIDE DEF info
  <2>3. aux'[w.app] = [aux[w.app] EXCEPT ![w.pod] = info] /\ aux'[w.app][w.pod] = info
    BY <1>2, <2>1 DEF TypeOK
  <2>4. AppStep(main[w.app], aux[w.app], main[w.app],
                [aux[w.app] EXCEPT ![w.pod] = info], opPkg[w.app])
    BY <1>2, <1>3, <1>5, <2>2, PodRecords
  <2>5. OwnAppStep(w)
    BY <1>1, <2>1, <2>3, <2>4 DEF OwnAppStep
  <2>6. WorkerOK(next, w)'
    BY <1>9, <2>2, <2>3 DEF WorkerOK
  <2> QED
    BY <1>1, <1>7, <2>5, <2>6, FanStep
<1> QED
  BY <1>8, <1>9

\* Every step of a worker keeps the invariant.
LEMMA FanWorker ==
  ASSUME FanInv, SteadyFanOut, RetryInv', InstallInv', NEW ph \in Phases,
         NEW w \in Workers, Manage(ph, w) \/ Handle(ph, w) \/ Exit(ph, w) \/ Work(w)
  PROVE  FanKept(w)
<1>1. CASE Manage(ph, w)
  BY <1>1, FanGivesUp, FanQuietWorker, FanOutStep, FanMoves DEF Manage, MoveBack
<1>2. CASE Handle(ph, w) \/ Exit(ph, w)
  BY <1>2, FanDownloads, FanQuietWorker DEF Handle
<1>3. CASE Download(w) \/ PodCopy(w) \/ Cleanup(w)
  BY <1>3, FanDownloads, FanCopies, FanQuietWorker DEF Phases
<1>4. CASE InstallFails(w)
  <2>1. gor["install"][w] = "run" /\ opPkg' = opPkg /\ Work(w)
    BY <1>4 DEF InstallFails, Works, world, Work
  <2>2. CASE UNCHANGED <<main, aux>>
    <3>1. /\ Acts("install", w) /\ Stays("install", w) /\ At("install", w)
          /\ "install" \in Phases /\ Works("install", w, "run", "exit")
      BY <1>4, <2>1 DEF Acts, Stays, At, Busy, Phases, InstallFails
    <3>2. /\ AppOK(main[w.app], aux[w.app], opPkg[w.app]) /\ TypeOK
      BY <3>1, FanFacts
    <3>3. OwnAppStep(w)
      BY <2>1, <2>2, <3>2, SameApp DEF OwnAppStep
    <3>4. gor'["install"][w] = "exit"
      BY <3>1, <3>2 DEF Works, TypeOK
    <3> QED
      BY <2>2, <3>1, <3>3, <3>4, FanStays
  <2>3. CASE \E info \in {FailedOnce(Info(w, "install")), MissingOnPod(Info(w, "install"))} :
               SetInfo(w, "install", info)
    BY <2>1, <2>3, FanInstallFails
  <2> QED
    BY <1>4, <2>2, <2>3 DEF InstallFails
<1>5. CASE InstallSucceeds(w) /\ w.app \notin PremiumApps
  BY <1>5, FanMarks DEF InstallSucceeds, Works, Work
<1>6. CASE InstallSucceeds(w) /\ w.app \in PremiumApps
  <2>1. /\ Acts("install", w) /\ Stays("install", w) /\ At("install", w)
        /\ "install" \in Phases /\ Works("install", w, "run", "post")
        /\ opPkg' = opPkg /\ UNCHANGED <<main, aux>>
    BY <1>6 DEF Acts, Work, Stays, At, Busy, Phases, InstallSucceeds, Works
  <2>2. /\ AppOK(main[w.app], aux[w.app], opPkg[w.app]) /\ TypeOK /\ WorkerOK("install", w)
    BY <2>1, FanFacts
  <2>3. OwnAppStep(w)
    BY <2>1, <2>2, SameApp DEF OwnAppStep
  <2>4. aux[w.app][w.pod].status # "InstallComplete"
    BY <2>1, <2>2 DEF WorkerOK, Works, Busy
  <2> QED
    BY <2>1, <2>3, <2>4, FanStays
<1>7. CASE PostInstall(w)
  <2>1. gor["install"][w] = "post" /\ opPkg' = opPkg /\ Work(w)
    BY <1>7 DEF PostInstall, Works, world, Work
  <2>2. CASE Works("install", w, "post", "cleanup") /\ MarkInstallComplete(w)
    BY <2>1, <2>2, FanMarks DEF Works
  <2>3. CASE SetInfo(w, "install", FailedOnce(Info(w, "install")))
    BY <2>1, <2>3, FanInstallFails
  <2> QED
    BY <1>7, <2>2, <2>3 DEF PostInstall
<1> QED
  BY <1>1, <1>2, <1>3, <1>4, <1>5, <1>6, <1>7 DEF Work

\* Initially every app waits for its download.
LEMMA FanInit == SteadyFanOut /\ Init => FanInv
<1> SUFFICES ASSUME SteadyFanOut, Init PROVE FanInv
  OBVIOUS
<1>1. RetryInv /\ InstallInv
  BY RetryInit, InstallInit
<1>2. ASSUME NEW a \in Apps PROVE AppOK(main[a], aux[a], opPkg[a])
  <2>1. /\ main[a] = [phase |-> "download", status |-> "DownloadPending", fail |-> 0]
        /\ \A p \in Pods : aux[a][p] = [phase |-> "none", status |-> "None", fail |-> 0]
    BY DEF Init, NewPhase, NoInfo, PendingOf
  <2>2. ~AllFinal(aux[a]) /\ \A p \in Pods : PodOK(aux[a], p)
    BY <2>1, FirstPod DEF AllFinal, IsFinal, PodOK
  <2> QED
    BY <2>1, <2>2, FirstPod DEF AppOK
<1>3. \A ph \in Phases, w \in Workers : ~At(ph, w)
  BY DEF Init, At, Busy
<1>4. ReportsKept
  BY DEF Init, ReportsKept
<1> QED
  BY <1>1, <1>2, <1>3, <1>4 DEF FanInv, AppsOK, WorkersOK

\* Every step but a restart keeps the invariant.
LEMMA FanNext ==
  ASSUME SteadyFanOut PROVE FanInv /\ [Next]_vars /\ ~Crash => FanInv'
<1> SUFFICES ASSUME FanInv, [Next]_vars, ~Crash PROVE FanInv'
  OBVIOUS
<1>1. TypeOK /\ WorkerInv /\ RetryInv
  BY DEF FanInv, RetryInv, WorkerInv
<1>2. PackageFound
  BY DEF FanInv, AppsOK, AppOK, PodOK, PackageFound
<1>3. RetryInv' /\ InstallInv'
  BY <1>1, <1>2, WorkerNext, RetryNext, InstallNext DEF FanInv, SteadyFanOut
<1>4. ASSUME UNCHANGED <<main, aux, opPkg, saved, q, chan, gor>> PROVE FanInv'
  <2>1. AppsOK' /\ ReportsKept'
    BY <1>4 DEF FanInv, AppsOK, ReportsKept
  <2>2. ASSUME NEW ph \in Phases, NEW w \in Workers, At(ph, w)'
        PROVE  WorkerOK(ph, w)'
    <3>1. WorkerOK(ph, w)
      BY <1>4, <2>2 DEF FanInv, WorkersOK, At, Busy
    <3> QED
      BY <1>4, <3>1 DEF WorkerOK, Busy, HasAux
  <2> QED
    BY <1>3, <2>1, <2>2 DEF FanInv, WorkersOK
<1>5. CASE UNCHANGED vars \/ LosePackage \/ YieldWatcher
  BY <1>4, <1>5 DEF vars, LosePackage, Fault, SteadyFanOut, YieldWatcher, status, world, pipeline
<1>6. ASSUME NEW ph \in Phases, ManagerStop(ph) \/ PhaseDone(ph) \/ MarkActive(ph)
      PROVE  FanInv'
  BY <1>4, <1>6 DEF ManagerStop, PhaseDone, MarkActive, status, world
<1>7. CASE SchedulerEntry
  <2>1. sched = "idle" /\ UNCHANGED <<main, aux, saved, opPkg, chan, gor>>
    BY <1>7 DEF SchedulerEntry, status, world
  <2>2. \A ph \in Phases, w \in Workers : ~Busy(ph, w)'
    BY <1>1, <2>1 DEF WorkerInv, IdleIsDone, DoneIsQuiet, Busy
  <2>3. ASSUME NEW ph \in Phases, NEW w \in Workers, At(ph, w)'
        PROVE  WorkerOK(ph, w)'
    <3>1. w \in q'[ph]
      BY <2>2, <2>3 DEF At
    <3>2. /\ w = EntryWorker(w.app) /\ w.app \in Apps
          /\ main[w.app].phase = ph /\ EligibleForEntry(main[w.app])
      BY <1>1, <1>7, <3>1, EntryQueues
    <3>3. AppOK(main[w.app], aux[w.app], opPkg[w.app])
      BY <3>2 DEF FanInv, AppsOK
    <3>4. CASE ph = "download"
      <4>1. gor'[ph][w] # "run"
        BY <2>2, <2>3 DEF Busy
      <4> QED
        BY <2>1, <3>2, <3>4, <4>1 DEF WorkerOK, EntryWorker
    <3>5. CASE ph # "download"
      <4>1. ph = "install" /\ w.fanOut
        BY <3>2, <3>3, <3>5 DEF AppOK, EntryWorker, SteadyFanOut
      <4>2. Failed(aux[w.app])
        BY <3>2, <3>3, <4>1 DEF AppOK, EligibleForEntry
      <4>3. Failed(aux[w.app])' <=> Failed(aux[w.app])
        BY <2>1 DEF Failed, MaxRetriesReached
      <4> QED
        BY <2>2, <2>3, <3>5, <4>1, <4>2, <4>3 DEF WorkerOK
    <3> QED
      BY <3>4, <3>5
  <2> QED
    BY <1>3, <2>1, <2>3 DEF FanInv, AppsOK, ReportsKept, WorkersOK
<1>8. CASE SchedulerExit
  <2>1. /\ \A ph \in Phases : mgr[ph] = "done"
        /\ saved' = [main |-> main, aux |-> aux, inProgress |-> inProgress']
        /\ UNCHANGED <<main, aux, gor, opPkg>>
        /\ q' = [ph \in Phases |-> {}] /\ chan' = [ph \in Phases |-> {}]
    BY <1>8 DEF SchedulerExit, DropPipeline, world
  <2>2. \A ph \in Phases, w \in Workers : ~At(ph, w)'
    BY <1>1, <2>1 DEF WorkerInv, DoneIsQuiet, At, Busy
  <2> QED
    BY <1>3, <2>1, <2>2 DEF FanInv, AppsOK, ReportsKept, WorkersOK
<1>9. ASSUME NEW ph \in Phases, NEW w \in Workers,
             Manage(ph, w) \/ Handle(ph, w) \/ Exit(ph, w) \/ Work(w)
      PROVE  FanInv'
  BY <1>3, <1>9, FanWorker DEF FanKept
<1>10. ASSUME NEW w \in Workers, Work(w) PROVE FanInv'
  BY <1>9, <1>10 DEF Phases
<1> QED
  BY <1>5, <1>6, <1>7, <1>8, <1>9, <1>10 DEF Next

\* A restart is counted, and nothing takes the count back.
LEMMA RestartsCount ==
  TypeOK /\ [Next]_vars /\ crashes' = 0 => crashes = 0 /\ ~Crash
<1> SUFFICES ASSUME TypeOK, [Next]_vars, crashes' = 0 PROVE crashes = 0 /\ ~Crash
  OBVIOUS
<1>1. ~Crash
  BY DEF Crash, TypeOK
<1>2. CASE UNCHANGED vars \/ SchedulerEntry \/ YieldWatcher \/ SchedulerExit \/ LosePackage
  BY <1>1, <1>2 DEF vars, SchedulerEntry, YieldWatcher, SchedulerExit, LosePackage, Fault, budget
<1>3. ASSUME NEW ph \in Phases, ManagerStop(ph) \/ PhaseDone(ph) \/ MarkActive(ph)
      PROVE  crashes' = crashes
  BY <1>3 DEF ManagerStop, PhaseDone, MarkActive, budget
<1>4. ASSUME NEW ph \in Phases, NEW w \in Workers,
             Manage(ph, w) \/ Handle(ph, w) \/ Exit(ph, w)
      PROVE  crashes' = crashes
  BY <1>4 DEF Manage, GiveUp, Advance, MoveBack, Dispatch, Handle, HandleDownload,
              HandleOther, Exit, Fault, budget
<1>5. ASSUME NEW w \in Workers, Work(w) PROVE crashes' = crashes
  BY <1>5 DEF Work, Download, PodCopy, InstallFails, InstallSucceeds, PostInstall,
              Cleanup, Fault, budget
<1> QED
  BY <1>1, <1>2, <1>3, <1>4, <1>5 DEF Next

LEMMA FanInvariance ==
  ASSUME SteadyFanOut PROVE Spec => [](crashes = 0 => FanInv)
<1>1. Init => FanInv
  BY FanInit
<1>2. TypeOK /\ (crashes = 0 => FanInv) /\ [Next]_vars => (crashes = 0 => FanInv)'
  BY FanNext, RestartsCount
<1> QED
  BY <1>1, <1>2, TypeCorrect, PTL DEF Spec

\* What holds of the workers of one pod holds of those of any number of pods:
\* a reconcile is only over when its goroutines are, a pod runs one install at a
\* time whatever the other pods and apps do, no worker runs twice, and the
\* retries of every pod are bounded.
THEOREM ReplicaWorkersAreSafe ==
  ASSUME SteadyFanOut
  PROVE  Spec => [](crashes = 0 => /\ NoOrphanWorker /\ InstallSlotExclusive
                                   /\ NoDoubleRun /\ RetriesBounded)
<1>1. FanInv => WorkerInv /\ RetriesBounded
  BY DEF FanInv, RetryInv
<1>2. WorkerInv => NoOrphanWorker
  BY DEF WorkerInv, NoOrphanWorker, IdleIsDone, DoneIsQuiet, Busy
<1>3. WorkerInv => InstallSlotExclusive
  BY DEF WorkerInv, InstallSlotExclusive, SlotHeld, Busy
<1>4. WorkerInv => NoDoubleRun
  BY DEF WorkerInv, NoDoubleRun, NotResent, OneWorkerPerPod, At, Busy
<1> QED
  BY <1>1, <1>2, <1>3, <1>4, FanInvariance, PTL

\* The scheduler of a fan-out CR with any number of pods implements AppDelivery
\* as long as the operator is not restarted: an app is reported when each pod
\* has it, and no yield, retry or pod that gives up takes the report back.
THEOREM ReplicasAreDelivered ==
  ASSUME SteadyFanOut, MaxCrashes = 0 PROVE Spec => ImplementsDelivery
<1>1. Init => FanInv /\ Delivery!Init
  BY FanInit DEF Init, Delivery!Init, NewPhase, PendingOf
<1>2. FanInv => TypeOK
  BY DEF FanInv, InstallInv
<1>3. TypeOK => ~Crash
  BY DEF TypeOK, Crash
<1>4. FanInv /\ [Next]_vars => FanInv'
  BY <1>2, <1>3, FanNext
<1>5. FanInv /\ [Next]_vars => [Delivery!Next]_(Delivery!vars)
  BY DeliveryStep DEF FanInv
<1> QED
  BY <1>1, <1>4, <1>5, PTL DEF Spec, ImplementsDelivery, Delivery!Spec

-----------------------------------------------------------------------------
(* No pod of a fan-out CR is forgotten.                                    *)

\* No error ends the loop over the app sources early.
FullEntries == SteadyFanOut /\ "mkdir" \notin FaultKinds

\* The worker that brings an app to a pod.
PodWorker(a, p) == FanOutWorker(EntryWorker(a), p)

\* The app still waits for its seed, or the pod for its own worker.
Queued(a, p) ==
  \/ Failed(aux[a]) \/ EntryWorker(a) \in q["download"]
  \/ \E ph \in Phases : PodWorker(a, p) \in q[ph]

\* While an entry runs, every pod with work left has a worker in a queue.
OutstandingIsQueued ==
  sched = "running" => \A a \in Apps, p \in Pods : Outstanding(a, p) => Queued(a, p)

NothingOutstanding ==
  \A a \in Apps, p \in Pods : Outstanding(a, p) => Failed(aux[a])

ReplicaInv ==
  FanInv /\ OutstandingIsQueued /\ (sched = "idle" /\ ~revisit => NothingOutstanding)

\* Seeds and workers of a pod.
LEMMA WorkerNames ==
  ASSUME SteadyFanOut, NEW a \in Apps, NEW p \in Pods
  PROVE  /\ EntryWorker(a) \in Workers /\ EntryWorker(a).app = a
         /\ EntryWorker(a).pod = 0 /\ EntryWorker(a).fanOut
         /\ PodWorker(a, p) \in Workers /\ PodWorker(a, p).app = a
         /\ PodWorker(a, p).pod = p /\ ~PodWorker(a, p).fanOut
<1>1. /\ EntryWorker(a) \in Workers /\ EntryWorker(a).app = a
      /\ EntryWorker(a).pod = 0 /\ EntryWorker(a).fanOut
  BY FirstPod, PipelineAssumption DEF SteadyFanOut, EntryWorker, Workers
<1> DEFINE w == EntryWorker(a)
<1>2. w \in Workers /\ w.app = a
  BY <1>1
<1> HIDE DEF w
<1>3. /\ FanOutWorker(w, p) \in Workers /\ FanOutWorker(w, p).app = a
      /\ FanOutWorker(w, p).pod = p /\ ~FanOutWorker(w, p).fanOut
  BY <1>2 DEF FanOutWorker, Workers
<1> QED
  BY <1>1, <1>3 DEF PodWorker, w

\* Each worker is one of them.
LEMMA WorkerIsNamed ==
  ASSUME SteadyFanOut, NEW w \in Workers, ~w.fanOut
  PROVE  w = PodWorker(w.app, w.pod)
<1> DEFINE v == PodWorker(w.app, w.pod)
<1>1. w.app \in Apps /\ w.pod \in Pods
  BY DEF Workers
<1>2. v \in Workers /\ v.app = w.app /\ v.pod = w.pod /\ ~v.fanOut
  BY <1>1, WorkerNames
<1> HIDE DEF v
<1>3. v.fanOut = w.fanOut
  BY <1>2, Zenon DEF Workers
<1>4. w = [app |-> w.app, pod |-> w.pod, fanOut |-> w.fanOut]
  BY DEF Workers
<1>5. v = [app |-> v.app, pod |-> v.pod, fanOut |-> v.fanOut]
  BY <1>2 DEF Workers
<1> QED
  BY <1>2, <1>3, <1>4, <1>5 DEF v

\* A step of a worker takes no other one out of a queue.
LEMMA QueuesKept ==
  ASSUME TypeOK, NEW ph \in Phases, NEW w \in Workers,
         Manage(ph, w) \/ Handle(ph, w) \/ Exit(ph, w) \/ Work(w),
         NEW phase \in Phases, NEW u \in q[phase], u # w
  PROVE  u \in q'[phase]
<1>1. q \in [Phases -> SUBSET Workers]
  BY DEF TypeOK
<1>2. CASE q' = q
  BY <1>2
<1>3. ASSUME NEW at, q' = [q EXCEPT ![at] = @ \ {w}] PROVE u \in q'[phase]
  BY <1>1, <1>3
<1>4. ASSUME NEW current \in Phases, NEW next \in Phases, TransitionWorker(w, current, next)
      PROVE  u \in q'[phase]
  <2>1. CASE w.fanOut /\ current = "download" /\ FanOutFromDownload(w)
    <3>1. PICK A, B : q' = [q EXCEPT !["podCopy"] = @ \cup A, !["install"] = @ \cup B,
                                     !["download"] = @ \ {w}]
      <4>1. CASE ~HasAux(w.app)
        <5> DEFINE all == {FanOutWorker(w, p) : p \in Pods}
        <5>1. q' = [q EXCEPT !["podCopy"] = @ \cup all, !["download"] = @ \ {w}]
          BY <2>1, <4>1 DEF FanOutFromDownload
        <5> HIDE DEF all
        <5>2. q' = [q EXCEPT !["podCopy"] = @ \cup all, !["install"] = @ \cup {},
                             !["download"] = @ \ {w}]
          BY <1>1, <5>1 DEF Phases
        <5> QED
          BY <5>2
      <4>2. CASE HasAux(w.app)
        BY <2>1, <4>2 DEF FanOutFromDownload
      <4> QED
        BY <4>1, <4>2
    <3> QED
      BY <1>1, <3>1
  <2>2. CASE q' = [q EXCEPT ![current] = @ \ {w}]
    BY <1>3, <2>2
  <2>3. CASE q' = [q EXCEPT ![next] = @ \cup {w}, ![current] = @ \ {w}]
    BY <1>1, <2>3
  <2> QED
    BY <1>4, <2>1, <2>2, <2>3 DEF TransitionWorker
<1>5. CASE Manage(ph, w)
  BY <1>2, <1>3, <1>4, <1>5 DEF Manage, GiveUp, Advance, MoveBack, Dispatch, Phases
<1>6. CASE Handle(ph, w) \/ Exit(ph, w)
  BY <1>2, <1>6 DEF Handle, HandleDownload, HandleOther, Exit
<1>7. CASE Work(w)
  BY <1>2, <1>7 DEF Work, Download, PodCopy, InstallFails, InstallSucceeds, PostInstall,
                    Cleanup, Works
<1> QED
  BY <1>5, <1>6, <1>7

\* A seed, or a worker of another pod, that is queued stays so.
LEMMA StaysQueued ==
  ASSUME SteadyFanOut, TypeOK, NEW ph \in Phases, NEW w \in Workers,
         Manage(ph, w) \/ Handle(ph, w) \/ Exit(ph, w) \/ Work(w),
         NEW a \in Apps, NEW p \in Pods, Queued(a, p),
         Failed(aux[a]) => Failed(aux'[a]),
         EntryWorker(a) # w, PodWorker(a, p) # w
  PROVE  Queued(a, p)'
<1>1. Failed(aux[a])' <=> Failed(aux'[a])
  BY DEF Failed, MaxRetriesReached
<1>2. CASE Failed(aux[a])
  BY <1>1, <1>2 DEF Queued
<1>3. CASE EntryWorker(a) \in q["download"]
  <2>1. EntryWorker(a) \in q'["download"]
    BY <1>3, QueuesKept DEF Phases
  <2> QED
    BY <2>1 DEF Queued, EntryWorker
<1>4. ASSUME NEW phase \in Phases, PodWorker(a, p) \in q[phase] PROVE Queued(a, p)'
  <2>1. PodWorker(a, p) \in q'[phase]
    BY <1>4, QueuesKept
  <2> QED
    BY <2>1 DEF Queued, PodWorker, FanOutWorker, EntryWorker
<1> QED
  BY <1>2, <1>3, <1>4 DEF Queued

\* The download of an app: its seed stays queued until the pods have their
\* workers, or the retries are used up.
LEMMA SeedStep ==
  ASSUME FanInv, SteadyFanOut, NEW w \in Workers, At("download", w), FanKept(w),
         \A p \in Pods : Outstanding(w.app, p) => Queued(w.app, p),
         Manage("download", w) \/ Handle("download", w) \/ Exit("download", w) \/ Download(w),
         NEW p \in Pods, Outstanding(w.app, p)'
  PROVE  Queued(w.app, p)'
<1> DEFINE a == w.app
<1>1. /\ TypeOK /\ a \in Apps /\ WorkerOK("download", w)
      /\ main[a] \in PhaseInfo /\ aux[a] \in [Pods -> PhaseInfo]
      /\ AppOK(main[a], aux[a], opPkg[a])
      /\ MaxRetries \in Nat /\ main[a].fail \in Nat
      /\ Info(w, "download") = main[a] /\ "download" \in Phases
  BY FanFacts DEF Phases
<1>2. w = EntryWorker(a) /\ main[a].phase = "download" /\ w.fanOut
  BY <1>1 DEF WorkerOK, EntryWorker, SteadyFanOut
<1>3. Failed(aux[a]) => Failed(aux'[a])
  BY DEF FanKept, OwnAppStep, AppStep
<1>4. ASSUME q' = q, Outstanding(a, p) PROVE Queued(a, p)'
  <2>1. Failed(aux[a])' <=> Failed(aux'[a])
    BY DEF Failed, MaxRetriesReached
  <2> QED
    BY <1>3, <1>4, <2>1 DEF Queued, PodWorker, FanOutWorker, EntryWorker
<1>5. CASE Dispatch("download", w) \/ Exit("download", w)
  <2>1. q' = q /\ main' = main /\ aux' = aux
    BY <1>5 DEF Dispatch, Exit, status
  <2>2. Outstanding(a, p)
    BY <2>1 DEF Outstanding, HasAux
  <2> QED
    BY <1>4, <2>1, <2>2
<1>6. CASE Handle("download", w) \/ Download(w)
  <2>1. q' = q /\ aux' = aux /\ MayFail("download", w)
    BY <1>6 DEF Handle, HandleDownload, HandleOther, Receives, Download, Works, MayFail, Busy
  <2>2. main[a].fail <= MaxRetries
    BY <1>1, <2>1 DEF FanInv, RetryInv, BusyHasRetries
  <2>3. EligibleForEntry(main[a])
    BY <1>1, <1>2, <2>2 DEF EligibleForEntry, MaxRetriesReached
  <2>4. Outstanding(a, p)
    BY <2>1, <2>3 DEF Outstanding, HasAux
  <2> QED
    BY <1>4, <2>1, <2>4
<1>7. CASE GiveUp("download", w)
  <2>1. /\ main' = [main EXCEPT ![a] = WithStatus(@, "DownloadError")] /\ aux' = aux
        /\ MaxRetriesReached(main[a])
    BY <1>1, <1>7 DEF GiveUp
  <2>2. main'[a] = WithStatus(main[a], "DownloadError")
    BY <1>1, <2>1 DEF TypeOK
  <2>3. main'[a].fail = main[a].fail
    BY <1>1, <2>2, Recorded DEF Statuses
  <2>4. aux[a][0].phase = "none"
    BY <1>1, <2>1 DEF MaxRetriesReached, AppOK
  <2>5. ~EligibleForEntry(main'[a])
    BY <2>1, <2>3 DEF EligibleForEntry, MaxRetriesReached
  <2>6. ~Outstanding(a, p)'
    BY <2>1, <2>4, <2>5 DEF Outstanding, HasAux, EligibleForEntry, MaxRetriesReached
  <2> QED
    BY <2>6
<1>8. CASE Advance("download", w)
  <2>1. FanOutFromDownload(w)
    BY <1>2, <1>8 DEF Advance, TransitionWorker
  <2>2. FanOutWorker(w, p) = PodWorker(a, p)
    BY <1>2 DEF PodWorker
  <2>3. PICK phase \in Phases : FanOutWorker(w, p) \in q'[phase]
    <3>1. CASE ~HasAux(a)
      <4> DEFINE all == {FanOutWorker(w, r) : r \in Pods}
      <4>1. q' = [q EXCEPT !["podCopy"] = @ \cup all, !["download"] = @ \ {w}]
        BY <2>1, <3>1 DEF FanOutFromDownload
      <4>2. FanOutWorker(w, p) \in all
        OBVIOUS
      <4> HIDE DEF all
      <4>3. all \subseteq q'["podCopy"]
        BY <1>1, <4>1 DEF TypeOK, Phases
      <4> QED
        BY <4>2, <4>3 DEF Phases
    <3>2. CASE HasAux(a)
      <4> DEFINE In(phase) == {FanOutWorker(w, r) :
                                 r \in {s \in ReplicasToResume(a) : aux[a][s].phase = phase}}
      <4>1. /\ q' = [q EXCEPT !["podCopy"] = @ \cup In("podCopy"),
                              !["install"] = @ \cup In("install"),
                              !["download"] = @ \ {w}]
            /\ aux' = [aux EXCEPT ![a] =
                         [r \in Pods |-> IF r \in ReplicasToResume(a)
                                         THEN ToPending(aux[a][r]) ELSE aux[a][r]]]
        BY <2>1, <3>2 DEF FanOutFromDownload
      <4>2. p \in ReplicasToResume(a)
        <5>1. aux'[a] = [r \in Pods |-> IF r \in ReplicasToResume(a)
                                        THEN ToPending(aux[a][r]) ELSE aux[a][r]]
          BY <1>1, <4>1 DEF TypeOK
        <5>2. aux'[a][p] = IF p \in ReplicasToResume(a) THEN ToPending(aux[a][p])
                                                       ELSE aux[a][p]
          BY <5>1
        <5>3. aux'[a][0].phase # "none"
          BY <3>2 DEF FanKept, OwnAppStep, AppStep, HasAux
        <5>4. EligibleForEntry(aux'[a][p])
          BY <5>3 DEF Outstanding, HasAux, SteadyFanOut, EligibleForEntry, MaxRetriesReached
        <5> QED
          BY <5>2, <5>4 DEF ReplicasToResume
      <4>3. aux[a][p].phase \in {"podCopy", "install"}
        BY <1>1, <3>2 DEF AppOK, PodOK, HasAux
      <4>4. FanOutWorker(w, p) \in In(aux[a][p].phase)
        BY <4>2
      <4> HIDE DEF In
      <4>5. /\ In("podCopy") \subseteq q'["podCopy"] /\ In("install") \subseteq q'["install"]
        BY <1>1, <4>1 DEF TypeOK, Phases
      <4> QED
        BY <4>3, <4>4, <4>5 DEF Phases
    <3> QED
      BY <3>1, <3>2
  <2> QED
    BY <2>2, <2>3 DEF Queued, PodWorker, FanOutWorker, EntryWorker
<1> QED
  BY <1>5, <1>6, <1>7, <1>8 DEF Manage, MoveBack

\* After the download: the worker of a pod stays queued until the pod has the
\* app or is out of retries.
LEMMA PodStep ==
  ASSUME FanInv, SteadyFanOut, NEW ph \in Phases, ph # "download", NEW w \in Workers,
         Acts(ph, w), FanKept(w),
         \A p \in Pods : Outstanding(w.app, p) => Queued(w.app, p),
         NEW p \in Pods, Outstanding(w.app, p)'
  PROVE  Queued(w.app, p)'
<1> DEFINE a == w.app
<1>1. TypeOK /\ At(ph, w) /\ SiblingsKept(w)
  <2>1. TypeOK
    BY DEF FanInv, InstallInv
  <2> QED
    BY <2>1, ActsFrame
<1>2. /\ a \in Apps /\ w.pod \in Pods /\ WorkerOK(ph, w)
      /\ aux[a] \in [Pods -> PhaseInfo] /\ aux[a][w.pod] \in PhaseInfo
      /\ AppOK(main[a], aux[a], opPkg[a])
      /\ MaxRetries \in Nat /\ aux[a][w.pod].fail \in Nat
      /\ Info(w, ph) = aux[a][w.pod]
  BY <1>1, FanFacts
<1>3. Failed(aux[a]) => Failed(aux'[a])
  BY DEF FanKept, OwnAppStep, AppStep
<1>4. aux[a][0].phase # "none" /\ aux'[a][0].phase # "none"
  <2>1. aux[a][w.pod].phase # "none" /\ PodOK(aux[a], w.pod)
    BY <1>1, <1>2, PastDownload DEF AppOK
  <2>2. aux[a][0].phase # "none"
    BY <2>1 DEF PodOK
  <2> QED
    BY <2>2 DEF FanKept, OwnAppStep, AppStep
<1>5. /\ \A r \in Pods : Outstanding(a, r) <=> EligibleForEntry(aux[a][r])
      /\ EligibleForEntry(aux'[a][p])
  BY <1>4 DEF Outstanding, HasAux, SteadyFanOut, EligibleForEntry, MaxRetriesReached
<1>6. Manage(ph, w) \/ Handle(ph, w) \/ Exit(ph, w) \/ Work(w)
  BY DEF Acts
<1>7. CASE Failed(aux[a])
  <2>1. Failed(aux[a])'
    BY <1>3, <1>7 DEF Failed, MaxRetriesReached
  <2> QED
    BY <2>1 DEF Queued
<1>8. CASE ~Failed(aux[a]) /\ p # w.pod
  <2>1. ~w.fanOut
    BY <1>2, <1>8 DEF WorkerOK
  <2>2. EntryWorker(a) # w /\ PodWorker(a, p) # w
    BY <1>2, <1>8, <2>1, WorkerNames
  <2>3. aux'[a][p] = aux[a][p]
    BY <1>1, <1>8 DEF SiblingsKept
  <2>4. Queued(a, p)
    BY <1>5, <2>3
  <2> QED
    BY <1>1, <1>2, <1>3, <1>6, <2>2, <2>4, StaysQueued
<1>9. CASE ~Failed(aux[a]) /\ p = w.pod
  <2>1. ~w.fanOut /\ aux[a][p].phase = ph
    BY <1>2, <1>9 DEF WorkerOK
  <2>2. w = PodWorker(a, p)
    BY <1>9, <2>1, WorkerIsNamed
  <2>3. ASSUME q' = q, EligibleForEntry(aux[a][p]) PROVE Queued(a, p)'
    <3>1. Queued(a, p)
      BY <1>5, <2>3
    <3> QED
      BY <1>9, <2>3, <3>1 DEF Queued, PodWorker, FanOutWorker, EntryWorker
  <2>4. CASE Dispatch(ph, w) \/ Exit(ph, w) \/ Cleanup(w)
    <3>1. q' = q /\ aux' = aux
      BY <2>4 DEF Dispatch, Exit, Cleanup, Works, status
    <3> QED
      BY <1>5, <2>3, <3>1
  <2>5. CASE Handle(ph, w)
    <3>1. q' = q /\ aux' = aux
      BY <2>5 DEF Handle, HandleDownload, HandleOther, status
    <3> QED
      BY <1>5, <2>3, <3>1
  <2>6. CASE Work(w) /\ gor[ph][w] # "none" /\ ~Cleanup(w)
    <3>1. PICK at \in Phases : gor[at][w] \in {"run", "post"}
      BY <2>6 DEF Work, Download, PodCopy, InstallFails, InstallSucceeds, PostInstall,
                  Works, Phases
    <3>2. At(at, w) /\ WorkerInv
      BY <3>1 DEF At, Busy, FanInv, RetryInv
    <3>3. at = ph
      BY <1>1, <3>2 DEF WorkerInv, OneWorkerPerPod
    <3>4. MayFail(ph, w) /\ Busy(ph, w)
      BY <3>1, <3>3 DEF MayFail, Busy
    <3>5. aux[a][p].fail <= MaxRetries /\ aux[a][p].status # "InstallComplete"
      BY <1>2, <1>9, <3>1, <3>3, <3>4 DEF FanInv, RetryInv, BusyHasRetries, WorkerOK
    <3>6. EligibleForEntry(aux[a][p])
      BY <1>2, <1>9, <3>5 DEF EligibleForEntry, MaxRetriesReached
    <3>7. q' = q
      BY <2>6 DEF Work, Download, PodCopy, InstallFails, InstallSucceeds, PostInstall, Works
    <3> QED
      BY <2>3, <3>6, <3>7
  <2>7. CASE GiveUp(ph, w)
    <3>1. MaxRetriesReached(aux[a][p]) /\ ph # "install"
      BY <1>2, <1>9, <2>1, <2>7 DEF GiveUp, Failed
    <3>2. aux' = aux
      BY <2>7, <3>1 DEF GiveUp
    <3> QED
      BY <1>5, <3>1, <3>2 DEF EligibleForEntry
  <2>8. CASE Advance(ph, w) /\ ph = "install"
    <3>1. aux' = aux /\ StatusComplete(aux[a][p])
      BY <1>2, <1>9, <2>8 DEF Advance
    <3> QED
      BY <1>5, <2>1, <2>8, <3>1 DEF EligibleForEntry, StatusComplete, CompleteOf
  <2>9. ASSUME NEW next \in Phases, TransitionWorker(w, ph, next), next # ph
        PROVE  Queued(a, p)'
    <3>1. q' = [q EXCEPT ![next] = @ \cup {w}, ![ph] = @ \ {w}]
      BY <2>1, <2>9 DEF TransitionWorker
    <3>2. PodWorker(a, p) \in q'[next]
      BY <1>1, <2>2, <2>9, <3>1 DEF TypeOK
    <3> QED
      BY <3>2 DEF Queued, PodWorker, FanOutWorker, EntryWorker
  <2> QED
    BY <2>4, <2>5, <2>6, <2>7, <2>8, <2>9
       DEF Acts, Manage, Advance, MoveBack, Phases
<1> QED
  BY <1>7, <1>8, <1>9

\* Every step of a worker leaves a worker queued for each pod with work left.
LEMMA ReplicaWorker ==
  ASSUME FanInv, SteadyFanOut, NEW ph \in Phases, NEW w \in Workers,
         Acts(ph, w), FanKept(w),
         \A a \in Apps, p \in Pods : Outstanding(a, p) => Queued(a, p)
  PROVE  \A a \in Apps, p \in Pods : Outstanding(a, p)' => Queued(a, p)'
<1>1. TypeOK /\ w.app \in Apps
  BY DEF FanInv, InstallInv, Workers
<1>2. OthersKept(w) /\ At(ph, w)
  BY <1>1, ActsFrame
<1>3. SUFFICES ASSUME NEW a \in Apps, NEW p \in Pods, Outstanding(a, p)'
               PROVE  Queued(a, p)'
  OBVIOUS
<1>4. CASE a # w.app
  <2>1. main'[a] = main[a] /\ aux'[a] = aux[a]
    BY <1>2, <1>4 DEF OthersKept
  <2>2. Outstanding(a, p)
    BY <1>3, <2>1 DEF Outstanding, HasAux, EligibleForEntry, MaxRetriesReached
  <2>3. EntryWorker(a) # w /\ PodWorker(a, p) # w
    BY <1>4, WorkerNames
  <2> QED
    BY <1>1, <2>1, <2>2, <2>3, StaysQueued DEF Acts
<1>5. CASE a = w.app /\ ph = "download"
  <2>1. Manage(ph, w) \/ Handle(ph, w) \/ Exit(ph, w) \/ Download(w)
    <3>1. WorkerInv
      BY DEF FanInv, RetryInv
    <3>2. ASSUME Work(w), ~Download(w) PROVE FALSE
      <4>1. gor["podCopy"][w] # "none" \/ gor["install"][w] # "none"
        BY <3>2 DEF Work, PodCopy, InstallFails, InstallSucceeds, PostInstall, Cleanup, Works
      <4> QED
        BY <1>2, <1>5, <3>1, <4>1 DEF WorkerInv, OneWorkerPerPod, At, Busy, Phases
    <3> QED
      BY <3>2 DEF Acts
  <2> QED
    BY <1>2, <1>3, <1>5, <2>1, SeedStep
<1>6. CASE a = w.app /\ ph # "download"
  BY <1>3, <1>6, PodStep
<1> QED
  BY <1>4, <1>5, <1>6

LEMMA ReplicaInit == SteadyFanOut /\ Init => ReplicaInv
<1> SUFFICES ASSUME SteadyFanOut, Init PROVE ReplicaInv
  OBVIOUS
<1>1. FanInv
  BY FanInit
<1>2. sched = "idle" /\ revisit
  BY DEF Init
<1> QED
  BY <1>1, <1>2 DEF ReplicaInv, OutstandingIsQueued

LEMMA ReplicaNext ==
  ASSUME FullEntries PROVE ReplicaInv /\ [Next]_vars /\ ~Crash => ReplicaInv'
<1> SUFFICES ASSUME ReplicaInv, [Next]_vars, ~Crash PROVE ReplicaInv'
  OBVIOUS
<1>1. FanInv /\ FanInv' /\ SteadyFanOut
  BY FanNext DEF ReplicaInv, FullEntries
<1>2. TypeOK /\ WorkerInv
  BY <1>1 DEF FanInv, RetryInv, InstallInv
<1>3. ASSUME UNCHANGED <<main, aux, sched, revisit, q>> PROVE ReplicaInv'
  BY <1>1, <1>3 DEF ReplicaInv, OutstandingIsQueued, NothingOutstanding, Outstanding, HasAux,
                    EligibleForEntry, MaxRetriesReached, Queued, Failed, PodWorker,
                    FanOutWorker, EntryWorker
<1>4. CASE UNCHANGED vars \/ LosePackage \/ YieldWatcher
  BY <1>3, <1>4 DEF vars, LosePackage, YieldWatcher, status, pipeline, control
<1>5. ASSUME NEW ph \in Phases, ManagerStop(ph) \/ PhaseDone(ph) \/ MarkActive(ph)
      PROVE  ReplicaInv'
  BY <1>3, <1>5 DEF ManagerStop, PhaseDone, MarkActive, status, control
<1>6. CASE SchedulerEntry
  <2>1. UNCHANGED <<main, aux>> /\ sched' = "running"
    BY <1>6 DEF SchedulerEntry, status
  <2>2. q' = [ph \in Phases |->
                {EntryWorker(a) : a \in {b \in {c \in Apps : EligibleForEntry(main[c])} :
                                           main[b].phase = ph}}]
    BY <1>6 DEF SchedulerEntry, Fault, FullEntries
  <2>3. ASSUME NEW a \in Apps, NEW p \in Pods, Outstanding(a, p)'
        PROVE  Queued(a, p)'
    <3>1. Outstanding(a, p)
      BY <2>1, <2>3 DEF Outstanding, HasAux, EligibleForEntry, MaxRetriesReached
    <3>2. AppOK(main[a], aux[a], opPkg[a])
      BY <1>1 DEF FanInv, AppsOK
    <3>3. CASE Failed(aux[a])
      BY <2>1, <3>3 DEF Queued, Failed, MaxRetriesReached
    <3>4. CASE ~Failed(aux[a])
      <4>1. ~AllFinal(aux[a])
        <5>1. CASE HasAux(a)
          BY <1>1, <3>1, <5>1 DEF Outstanding, SteadyFanOut, AllFinal, IsFinal, EligibleForEntry
        <5>2. CASE ~HasAux(a)
          BY <5>2, FirstPod DEF HasAux, AllFinal, IsFinal
        <5> QED
          BY <5>1, <5>2
      <4>2. main[a].phase = "download"
        BY <3>2, <3>4, <4>1 DEF AppOK
      <4>3. EligibleForEntry(main[a])
        <5>1. CASE HasAux(a)
          BY <3>2, <4>2, <5>1, FirstPod DEF AppOK, HasAux, EligibleForEntry, MaxRetriesReached
        <5>2. CASE ~HasAux(a)
          BY <3>1, <5>2 DEF Outstanding
        <5> QED
          BY <5>1, <5>2
      <4>4. EntryWorker(a) \in q'["download"]
        BY <2>2, <4>2, <4>3 DEF Phases
      <4> QED
        BY <4>4 DEF Queued, EntryWorker
    <3> QED
      BY <3>3, <3>4
  <2> QED
    BY <1>1, <2>1, <2>3 DEF ReplicaInv, OutstandingIsQueued
<1>7. CASE SchedulerExit
  <2>1. /\ sched = "running" /\ sched' = "idle" /\ UNCHANGED <<main, aux>>
        /\ ~revisit' => PipelineEmpty
    BY <1>7 DEF SchedulerExit
  <2>2. PipelineEmpty => NothingOutstanding
    BY <2>1 DEF PipelineEmpty, NothingOutstanding, ReplicaInv, OutstandingIsQueued, Queued,
                Phases
  <2>3. NothingOutstanding => NothingOutstanding'
    BY <2>1 DEF NothingOutstanding, Outstanding, HasAux, EligibleForEntry, MaxRetriesReached,
                Failed
  <2> QED
    BY <1>1, <2>1, <2>2, <2>3 DEF ReplicaInv, OutstandingIsQueued
<1>8. ASSUME NEW ph \in Phases, NEW w \in Workers, Acts(ph, w) PROVE ReplicaInv'
  <2>1. sched = "running"
    BY <1>2, <1>8, ActsFrame
  <2>2. FanKept(w)
    BY <1>1, <1>8, FanWorker DEF Acts, FanInv
  <2>3. \A a \in Apps, p \in Pods : Outstanding(a, p)' => Queued(a, p)'
    BY <1>1, <1>8, <2>1, <2>2, ReplicaWorker DEF ReplicaInv, OutstandingIsQueued
  <2>4. sched' # "idle"
    <3>1. CASE Manage(ph, w)
      BY <2>1, <3>1 DEF Manage, GiveUp, Advance, MoveBack, Dispatch, control
    <3>2. CASE Handle(ph, w) \/ Exit(ph, w)
      BY <2>1, <3>2 DEF Handle, HandleDownload, HandleOther, StartGoroutine, Exit
    <3>3. CASE Work(w)
      BY <2>1, <3>3 DEF Work, Download, PodCopy, InstallFails, InstallSucceeds, PostInstall,
                  Cleanup, Works, control
    <3> QED
      BY <1>8, <3>1, <3>2, <3>3 DEF Acts
  <2> QED
    BY <1>1, <2>3, <2>4 DEF ReplicaInv, OutstandingIsQueued
<1>9. ASSUME NEW w \in Workers, Work(w) PROVE ReplicaInv'
  <2>1. PICK ph \in Phases : gor[ph][w] # "none"
    BY <1>9 DEF Work, Download, PodCopy, InstallFails, InstallSucceeds, PostInstall, Cleanup,
                Works, Phases
  <2> QED
    BY <1>8, <1>9, <2>1 DEF Acts
<1> QED
  BY <1>4, <1>5, <1>6, <1>7, <1>8, <1>9 DEF Next, Acts

\* A scheduler of a fan-out CR that asks for no other entry has left no pod
\* behind, whatever the number of pods and apps: each has its app installed, or
\* has used up its retries, unless another pod of the app ran out of install
\* retries and took the whole app to its end.
THEOREM NoReplicaIsForgotten ==
  ASSUME FullEntries PROVE Spec => [](crashes = 0 => NoLostReplica)
<1>1. Init => ReplicaInv
  BY ReplicaInit DEF FullEntries
<1>2. TypeOK /\ (crashes = 0 => ReplicaInv) /\ [Next]_vars => (crashes = 0 => ReplicaInv)'
  BY ReplicaNext, RestartsCount
<1>3. ReplicaInv => NoLostReplica
  BY DEF ReplicaInv, NothingOutstanding, NoLostReplica, SomePodGaveUp, Failed, FullEntries,
         SteadyFanOut
<1> QED
  BY <1>1, <1>2, <1>3, TypeCorrect, PTL DEF Spec
=============================================================================
