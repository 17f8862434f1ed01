-------------------------- MODULE AppPipelineProofs --------------------------
(***************************************************************************)
(* What AppPipeline guarantees for every number of apps, pods, retries,    *)
(* faults and operator restarts.                                           *)
(***************************************************************************)
EXTENDS AppPipeline, TLAPS

\* A phase info that a worker may be given has its type.
LEMMA PhaseInfoTypes ==
  /\ NoInfo \in PhaseInfo
  /\ \A ph \in Phases : NewPhase(ph) \in PhaseInfo
  /\ \A info \in PhaseInfo :
       /\ ToPending(info) \in PhaseInfo
       /\ FailedOnce(info) \in PhaseInfo
       /\ \A st \in Statuses : /\ WithStatus(info, st) \in PhaseInfo
                                /\ Succeeded(info, st) \in PhaseInfo
                                /\ InstallAs(info, st) \in PhaseInfo
<1>1. NoInfo \in PhaseInfo
  BY DEF NoInfo, PhaseInfo, Statuses
<1>2. \A ph \in Phases \cup {"none"} : PendingOf[ph] \in Statuses
  BY DEF PendingOf, Phases, Statuses
<1>3. \A ph \in Phases : NewPhase(ph) \in PhaseInfo
  BY <1>2 DEF NewPhase, PhaseInfo
<1>4. \A info \in PhaseInfo : ToPending(info) \in PhaseInfo
  BY <1>2 DEF ToPending, PhaseInfo
<1>5. \A info \in PhaseInfo : FailedOnce(info) \in PhaseInfo
  BY DEF FailedOnce, PhaseInfo
<1>6. \A info \in PhaseInfo, st \in Statuses :
        /\ WithStatus(info, st) \in PhaseInfo
        /\ Succeeded(info, st) \in PhaseInfo
        /\ InstallAs(info, st) \in PhaseInfo
  BY DEF WithStatus, Succeeded, InstallAs, PhaseInfo, Phases
<1> QED
  BY <1>1, <1>3, <1>4, <1>5, <1>6

\* The phase info of a worker has its type, whichever place it is kept in.
LEMMA InfoType ==
  ASSUME TypeOK, NEW w \in Workers, NEW ph
  PROVE  Info(w, ph) \in PhaseInfo
BY DEF TypeOK, Info, Workers

\* Storing a phase info keeps the types of both places.
LEMMA SetInfoType ==
  ASSUME TypeOK, NEW w \in Workers, NEW ph, NEW info \in PhaseInfo,
         SetInfo(w, ph, info)
  PROVE  main' \in [Apps -> PhaseInfo] /\ aux' \in [Apps -> [Pods -> PhaseInfo]]
<1>1. w.app \in Apps /\ w.pod \in Pods
  BY DEF Workers
<1>2. CASE FanOut /\ ph # "download"
  <2>1. aux' = [aux EXCEPT ![w.app][w.pod] = info] /\ main' = main
    BY <1>2 DEF SetInfo
  <2> QED
    BY <1>1, <2>1 DEF TypeOK
<1>3. CASE ~(FanOut /\ ph # "download")
  <2>1. main' = [main EXCEPT ![w.app] = info] /\ aux' = aux
    BY <1>3, Zenon DEF SetInfo
  <2> QED
    BY <1>1, <2>1 DEF TypeOK
<1> QED
  BY <1>2, <1>3

\* A new pipeline has its types.
LEMMA DropPipelineType ==
  ASSUME DropPipeline
  PROVE  /\ q' \in [Phases -> SUBSET Workers]
         /\ chan' \in [Phases -> SUBSET Workers]
         /\ sent' \in [Phases -> SUBSET Workers]
         /\ mgr' \in [Phases -> {"loop", "stopped", "done"}]
         /\ isActive' \in [Workers -> BOOLEAN]
         /\ waiter' \in [Workers -> Phases \cup {"nil"}]
         /\ wg' \in [Phases -> Nat]
         /\ slots' \subseteq Pods
BY DEF DropPipeline

\* The state after the listing of the app repository has its types.
LEMMA TypeInit == Init => TypeOK
<1> SUFFICES ASSUME Init PROVE TypeOK
  OBVIOUS
<1>1. \A ph \in Phases : NewPhase(ph) \in PhaseInfo
  BY PhaseInfoTypes
<1>2. NoInfo \in PhaseInfo
  BY PhaseInfoTypes
<1>3. main \in [Apps -> PhaseInfo]
  BY <1>1 DEF Init, Phases
<1>4. aux \in [Apps -> [Pods -> PhaseInfo]]
  BY <1>2 DEF Init
<1>5. saved \in [main : [Apps -> PhaseInfo], aux : [Apps -> [Pods -> PhaseInfo]],
                 inProgress : BOOLEAN]
  BY <1>3, <1>4 DEF Init
<1> QED
  BY <1>3, <1>4, <1>5 DEF Init, TypeOK

-----------------------------------------------------------------------------
(* Steps keep the types.                                                   *)

\* afwSchedulerEntry, the yield watcher and the shutdown keep the types.
LEMMA TypeSchedule ==
  ASSUME TypeOK,
         \/ SchedulerEntry \/ YieldWatcher \/ SchedulerExit
         \/ \E ph \in Phases : ManagerStop(ph) \/ PhaseDone(ph) \/ MarkActive(ph)
  PROVE  TypeOK'
<1> USE DEF status, world, pipeline, control, budget
<1>1. CASE SchedulerEntry
  <2>1. 0 \in Pods
    BY PipelineAssumption DEF Pods
  <2>2. \A a \in Apps : EntryWorker(a) \in Workers
    BY <2>1, PipelineAssumption DEF EntryWorker, Workers
  <2>3. q' \in [Phases -> SUBSET Workers]
    <3>1. PICK picked \in SUBSET {a \in Apps : EligibleForEntry(main[a])} :
            q' = [ph \in Phases |->
                    {EntryWorker(a) : a \in {b \in picked : main[b].phase = ph}}]
      BY <1>1 DEF SchedulerEntry
    <3> QED
      BY <2>2, <3>1
  <2>4. faults' \in Nat /\ crashes' \in Nat
    BY <1>1 DEF SchedulerEntry, Fault, TypeOK
  <2> QED
    BY <1>1, <2>3, <2>4 DEF SchedulerEntry, TypeOK
<1>2. CASE YieldWatcher
  BY <1>2 DEF YieldWatcher, TypeOK
<1>3. CASE SchedulerExit
  <2>1. DropPipeline
    BY <1>3 DEF SchedulerExit
  <2>2. inProgress' \in BOOLEAN /\ revisit' \in BOOLEAN
    BY <1>3, Zenon DEF SchedulerExit
  <2>3. saved' \in [main : [Apps -> PhaseInfo],
                    aux : [Apps -> [Pods -> PhaseInfo]], inProgress : BOOLEAN]
    BY <1>3, <2>2 DEF SchedulerExit, TypeOK
  <2> QED
    BY <1>3, <2>1, <2>2, <2>3, DropPipelineType DEF SchedulerExit, TypeOK
<1>4. CASE \E ph \in Phases : ManagerStop(ph)
  BY <1>4 DEF ManagerStop, BreakLoop, TypeOK
<1>5. CASE \E ph \in Phases : PhaseDone(ph)
  BY <1>5 DEF PhaseDone, TypeOK
<1>6. CASE \E ph \in Phases : MarkActive(ph)
  BY <1>6 DEF MarkActive, TypeOK
<1> QED
  BY <1>1, <1>2, <1>3, <1>4, <1>5, <1>6

\* The worker handlers keep the types.
LEMMA TypeHandle ==
  ASSUME TypeOK, NEW ph \in Phases, NEW w \in Workers,
         Handle(ph, w) \/ Exit(ph, w)
  PROVE  TypeOK'
<1> USE DEF status, world, pipeline, control, budget
<1>1. w.app \in Apps /\ w.pod \in Pods
  BY DEF Workers
<1>2. ASSUME NEW phase \in Phases, StartGoroutine(phase, w)
      PROVE  /\ wg' \in [Phases -> Nat]
             /\ gor' \in [Phases -> [Workers ->
                            {"none", "run", "post", "cleanup", "exit"}]]
             /\ sched' \in {"idle", "running", "panicked"}
  <2>1. CASE waiter[w] = "nil"
    BY <1>2, <2>1 DEF StartGoroutine, TypeOK
  <2>2. CASE waiter[w] # "nil"
    <3>1. waiter[w] \in Phases
      BY <2>2 DEF TypeOK
    <3>2. wg' = [wg EXCEPT ![waiter[w]] = @ + 1] /\ sched' = sched
      BY <1>2, <2>2 DEF StartGoroutine
    <3>3. gor' = [gor EXCEPT ![phase][w] = "run"]
      BY <1>2, <2>2 DEF StartGoroutine
    <3>4. wg' \in [Phases -> Nat] /\ sched' \in {"idle", "running", "panicked"}
      BY <3>1, <3>2 DEF TypeOK
    <3>5. gor' \in [Phases -> [Workers ->
                     {"none", "run", "post", "cleanup", "exit"}]]
      BY <3>3 DEF TypeOK
    <3> QED
      BY <3>4, <3>5
  <2> QED
    BY <2>1, <2>2
<1>3. CASE ph = "download" /\ HandleDownload(w)
  <2>1. main' \in [Apps -> PhaseInfo]
    <3>1. main[w.app] \in PhaseInfo
      BY <1>1 DEF TypeOK
    <3>2. /\ Succeeded(main[w.app], "DownloadComplete") \in PhaseInfo
          /\ WithStatus(main[w.app], "DownloadInProgress") \in PhaseInfo
          /\ \A st \in {"DownloadPending", "DownloadError"} :
               WithStatus(FailedOnce(main[w.app]), st) \in PhaseInfo
      BY <3>1, PhaseInfoTypes DEF Statuses
    <3>3. \/ main' = main
          \/ \E info \in PhaseInfo : main' = [main EXCEPT ![w.app] = info]
      BY <1>3, <3>2 DEF HandleDownload
    <3> QED
      BY <1>1, <3>3 DEF TypeOK
  <2>2. /\ wg' \in [Phases -> Nat]
        /\ gor' \in [Phases -> [Workers ->
                       {"none", "run", "post", "cleanup", "exit"}]]
        /\ sched' \in {"idle", "running", "panicked"}
    BY <1>2, <1>3 DEF HandleDownload, TypeOK
  <2>3. isActive' \in [Workers -> BOOLEAN]
    <3>1. isActive' = isActive \/ isActive' = [isActive EXCEPT ![w] = FALSE]
      BY <1>3 DEF HandleDownload
    <3> QED
      BY <3>1 DEF TypeOK
  <2>4. faults' \in Nat /\ crashes' \in Nat
    <3>1. UNCHANGED budget \/ Fault("storage")
      BY <1>3 DEF HandleDownload
    <3> QED
      BY <3>1 DEF Fault, TypeOK
  <2>5. chan' \in [Phases -> SUBSET Workers]
    BY <1>3 DEF HandleDownload, Receives, TypeOK
  <2> QED
    BY <1>3, <2>1, <2>2, <2>3, <2>4, <2>5 DEF HandleDownload, TypeOK
<1>4. CASE HandleOther(ph, w)
  <2>1. chan' \in [Phases -> SUBSET Workers]
    BY <1>4 DEF HandleOther, Receives, TypeOK
  <2> QED
    BY <1>2, <1>4, <2>1 DEF HandleOther, TypeOK
<1>5. CASE Exit(ph, w)
  <2>1. wg' \in [Phases -> Nat]
    <3>1. CASE waiter[w] = "nil" \/ wg[waiter[w]] = 0
      BY <1>5, <3>1 DEF Exit, TypeOK
    <3>2. CASE ~(waiter[w] = "nil" \/ wg[waiter[w]] = 0)
      <4>1. waiter[w] \in Phases
        BY <3>2 DEF TypeOK
      <4>2. wg[waiter[w]] - 1 \in Nat
        BY <3>2, <4>1 DEF TypeOK
      <4>3. wg' = [wg EXCEPT ![waiter[w]] = @ - 1]
        BY <1>5, <3>2 DEF Exit
      <4> QED
        BY <4>1, <4>2, <4>3 DEF TypeOK
    <3> QED
      BY <3>1, <3>2
  <2>2. sched' \in {"idle", "running", "panicked"}
    BY <1>5 DEF Exit, TypeOK
  <2>3. gor' \in [Phases -> [Workers ->
                   {"none", "run", "post", "cleanup", "exit"}]]
    BY <1>5 DEF Exit, TypeOK
  <2> QED
    BY <1>5, <2>1, <2>2, <2>3 DEF Exit, TypeOK
<1> QED
  BY <1>3, <1>4, <1>5 DEF Handle

\* The download, copy and install goroutines keep the types.
LEMMA TypeWork ==
  ASSUME TypeOK, NEW w \in Workers, Work(w)
  PROVE  TypeOK'
<1> USE DEF status, world, pipeline, control, budget
<1> DEFINE Places == {"none", "run", "post", "cleanup", "exit"}
           Rest == <<inProgress, saved, q, chan, mgr, sent, isActive, waiter,
                     wg, slots, sched, revisit, sigTerm>>
<1>1. w.app \in Apps /\ w.pod \in Pods
  BY DEF Workers
<1>2. ASSUME NEW ph \in Phases, NEW at, NEW next \in Places,
             Works(ph, w, at, next)
      PROVE  gor' \in [Phases -> [Workers -> Places]] /\ UNCHANGED Rest
  BY <1>2 DEF Works, TypeOK
<1>3. ASSUME NEW kind, Fault(kind)
      PROVE  faults' \in Nat /\ crashes' \in Nat
  BY <1>3 DEF Fault, TypeOK
<1>4. ASSUME MarkInstallComplete(w)
      PROVE  main' \in [Apps -> PhaseInfo] /\ aux' \in [Apps -> [Pods -> PhaseInfo]]
  <2> DEFINE done == Succeeded(Info(w, "install"), "InstallComplete")
             auxOfApp == [aux[w.app] EXCEPT ![w.pod] = done]
  <2>1. done \in PhaseInfo /\ InstallAs(main[w.app], "InstallComplete") \in PhaseInfo
    BY <1>1, InfoType, PhaseInfoTypes DEF TypeOK, Statuses
  <2>2. auxOfApp \in [Pods -> PhaseInfo]
    BY <1>1, <2>1 DEF TypeOK
  <2>3. CASE FanOut
    <3>1. /\ aux' = [aux EXCEPT ![w.app] = auxOfApp]
          /\ \/ main' = [main EXCEPT ![w.app] = InstallAs(@, "InstallComplete")]
             \/ main' = main
      BY <1>4, <2>3 DEF MarkInstallComplete
    <3> HIDE DEF auxOfApp, done
    <3>2. aux' \in [Apps -> [Pods -> PhaseInfo]]
      BY <1>1, <2>2, <3>1 DEF TypeOK
    <3>3. main' \in [Apps -> PhaseInfo]
      BY <1>1, <2>1, <3>1 DEF TypeOK
    <3> QED
      BY <3>2, <3>3
  <2>4. CASE ~FanOut
    <3>1. main' = [main EXCEPT ![w.app] = done] /\ aux' = aux
      BY <1>4, <2>4 DEF MarkInstallComplete
    <3> HIDE DEF done
    <3> QED
      BY <1>1, <2>1, <3>1 DEF TypeOK
  <2> QED
    BY <2>3, <2>4
<1> HIDE DEF Places, Rest
<1>5. CASE Download(w)
  <2>1. gor' \in [Phases -> [Workers -> Places]] /\ UNCHANGED Rest
    BY <1>2, <1>5 DEF Download, Places, Phases
  <2>2. PICK ok \in BOOLEAN :
          /\ opPkg' = [opPkg EXCEPT ![w.app] = ok]
          /\ main' = [main EXCEPT ![w.app] =
                 IF ok THEN Succeeded(@, "DownloadComplete")
                       ELSE WithStatus(FailedOnce(@), "DownloadPending")]
    BY <1>5 DEF Download
  <2>3. /\ Succeeded(main[w.app], "DownloadComplete") \in PhaseInfo
        /\ WithStatus(FailedOnce(main[w.app]), "DownloadPending") \in PhaseInfo
    BY <1>1, PhaseInfoTypes DEF TypeOK, Statuses
  <2>4. main' \in [Apps -> PhaseInfo]
    BY <1>1, <2>2, <2>3 DEF TypeOK
  <2>5. opPkg' \in [Apps -> BOOLEAN]
    BY <1>1, <2>2 DEF TypeOK
  <2> QED
    BY <1>5, <2>1, <2>4, <2>5 DEF Download, TypeOK, Places, Rest
<1>6. CASE PodCopy(w)
  <2>1. gor' \in [Phases -> [Workers -> Places]] /\ UNCHANGED Rest
    BY <1>2, <1>6 DEF PodCopy, Places, Phases
  <2>2. main' \in [Apps -> PhaseInfo] /\ aux' \in [Apps -> [Pods -> PhaseInfo]]
    <3>1. PICK info \in PhaseInfo : SetInfo(w, "podCopy", info)
      BY <1>6, InfoType, PhaseInfoTypes DEF PodCopy, Statuses
    <3> QED
      BY <3>1, SetInfoType
  <2>3. podPkg' \in [Apps -> [Pods -> BOOLEAN]]
    <3>1. podPkg' = podPkg \/ podPkg' = [podPkg EXCEPT ![w.app][w.pod] = TRUE]
      BY <1>6 DEF PodCopy
    <3>2. CASE podPkg' = [podPkg EXCEPT ![w.app][w.pod] = TRUE]
      BY <1>1, <3>2 DEF TypeOK
    <3> QED
      BY <3>1, <3>2 DEF TypeOK
  <2> QED
    BY <1>6, <2>1, <2>2, <2>3 DEF PodCopy, TypeOK, Places, Rest
<1>7. CASE InstallFails(w)
  <2>1. gor' \in [Phases -> [Workers -> Places]] /\ UNCHANGED Rest
    BY <1>2, <1>7 DEF InstallFails, Places, Phases
  <2>2. main' \in [Apps -> PhaseInfo] /\ aux' \in [Apps -> [Pods -> PhaseInfo]]
    <3>1. \/ \E info \in PhaseInfo : SetInfo(w, "install", info)
          \/ UNCHANGED <<main, aux>>
      BY <1>7, InfoType, PhaseInfoTypes
      DEF InstallFails, MissingOnPod, Statuses
    <3> QED
      BY <3>1, SetInfoType DEF TypeOK
  <2>3. faults' \in Nat /\ crashes' \in Nat
    <3>1. UNCHANGED budget \/ Fault("exec")
      BY <1>7 DEF InstallFails
    <3> QED
      BY <1>3, <3>1 DEF TypeOK
  <2> QED
    BY <1>7, <2>1, <2>2, <2>3 DEF InstallFails, TypeOK, Places, Rest
<1>8. CASE InstallSucceeds(w)
  <2>1. gor' \in [Phases -> [Workers -> Places]] /\ UNCHANGED Rest
    BY <1>2, <1>8 DEF InstallSucceeds, Places, Phases
  <2>2. main' \in [Apps -> PhaseInfo] /\ aux' \in [Apps -> [Pods -> PhaseInfo]]
    <3>1. MarkInstallComplete(w) \/ UNCHANGED <<main, aux>>
      BY <1>8 DEF InstallSucceeds
    <3> QED
      BY <1>4, <3>1 DEF TypeOK
  <2>3. installed' \in [Apps -> [Pods -> BOOLEAN]]
    <3>1. installed' = [installed EXCEPT ![w.app][w.pod] = TRUE]
      BY <1>8 DEF InstallSucceeds
    <3> QED
      BY <1>1, <3>1 DEF TypeOK
  <2> QED
    BY <1>8, <2>1, <2>2, <2>3 DEF InstallSucceeds, TypeOK, Places, Rest
<1>9. CASE PostInstall(w)
  <2>1. gor' \in [Phases -> [Workers -> Places]] /\ UNCHANGED Rest
    BY <1>2, <1>9 DEF PostInstall, Places, Phases
  <2>2. main' \in [Apps -> PhaseInfo] /\ aux' \in [Apps -> [Pods -> PhaseInfo]]
    <3>1. \/ MarkInstallComplete(w)
          \/ SetInfo(w, "install", FailedOnce(Info(w, "install")))
      BY <1>9 DEF PostInstall
    <3>2. FailedOnce(Info(w, "install")) \in PhaseInfo
      BY InfoType, PhaseInfoTypes
    <3> QED
      BY <1>4, <3>1, <3>2, SetInfoType
  <2> QED
    BY <1>9, <2>1, <2>2 DEF PostInstall, TypeOK, Places, Rest
<1>10. CASE Cleanup(w)
  <2>1. gor' \in [Phases -> [Workers -> Places]] /\ UNCHANGED Rest
    BY <1>2, <1>10 DEF Cleanup, Places, Phases
  <2>2. CASE Fault("exec") /\ UNCHANGED <<opPkg, podPkg>>
    BY <1>3, <1>10, <2>1, <2>2 DEF Cleanup, TypeOK, Places, Rest
  <2>3. CASE /\ podPkg' = [podPkg EXCEPT ![w.app][w.pod] = FALSE]
             /\ opPkg' = [opPkg EXCEPT ![w.app] = @ /\ ~CleanupAllowed(w.app)]
             /\ UNCHANGED budget
    <3>1. podPkg' \in [Apps -> [Pods -> BOOLEAN]]
      BY <1>1, <2>3 DEF TypeOK
    <3>2. opPkg' \in [Apps -> BOOLEAN]
      BY <1>1, <2>3 DEF TypeOK
    <3> QED
      BY <1>10, <2>1, <2>3, <3>1, <3>2 DEF Cleanup, TypeOK, Places, Rest
  <2> QED
    BY <1>10, <2>2, <2>3 DEF Cleanup
<1> QED
  BY <1>5, <1>6, <1>7, <1>8, <1>9, <1>10 DEF Work

\* A visit of a phase manager keeps the types.
LEMMA TypeManage ==
  ASSUME TypeOK, NEW ph \in Phases, NEW w \in Workers, Manage(ph, w)
  PROVE  TypeOK'
<1> USE DEF status, world, pipeline, control, budget
<1>1. w.app \in Apps /\ w.pod \in Pods
  BY DEF Workers
<1>2. main[w.app] \in PhaseInfo /\ aux[w.app] \in [Pods -> PhaseInfo]
  BY <1>1 DEF TypeOK
<1>3. \A p \in Pods : FanOutWorker(w, p) \in Workers
  BY <1>1 DEF FanOutWorker, Workers
<1>4. ASSUME FanOutFromDownload(w)
      PROVE  /\ aux' \in [Apps -> [Pods -> PhaseInfo]]
             /\ q' \in [Phases -> SUBSET Workers]
  <2>1. CASE ~HasAux(w.app)
    <3>1. aux' \in [Apps -> [Pods -> PhaseInfo]]
      <4>1. NewPhase("podCopy") \in PhaseInfo
        BY PhaseInfoTypes DEF Phases
      <4>2. aux' = [aux EXCEPT ![w.app] = [p \in Pods |-> NewPhase("podCopy")]]
        BY <1>4, <2>1 DEF FanOutFromDownload
      <4> QED
        BY <4>1, <4>2 DEF TypeOK
    <3> DEFINE all == {FanOutWorker(w, p) : p \in Pods}
    <3>2. q' = [q EXCEPT !["podCopy"] = @ \cup all, !["download"] = @ \ {w}]
      BY <1>4, <2>1 DEF FanOutFromDownload
    <3>3. all \subseteq Workers
      BY <1>3
    <3> HIDE DEF all
    <3> QED
      BY <3>1, <3>2, <3>3 DEF TypeOK, Phases
  <2>2. CASE HasAux(w.app)
    <3> DEFINE todo == ReplicasToResume(w.app)
               In(phase) == {FanOutWorker(w, p) :
                               p \in {r \in todo : aux[w.app][r].phase = phase}}
    <3>1. todo \subseteq Pods
      BY DEF ReplicasToResume
    <3>2. \A phase : In(phase) \subseteq Workers
      BY <1>3, <3>1
    <3>3. aux' \in [Apps -> [Pods -> PhaseInfo]]
      <4>1. \A p \in Pods : ToPending(aux[w.app][p]) \in PhaseInfo
        BY <1>2, PhaseInfoTypes
      <4>2. aux' = [aux EXCEPT ![w.app] =
                      [p \in Pods |-> IF p \in todo
                                      THEN ToPending(aux[w.app][p])
                                      ELSE aux[w.app][p]]]
        BY <1>4, <2>2 DEF FanOutFromDownload
      <4> HIDE DEF todo
      <4> QED
        BY <1>2, <4>1, <4>2 DEF TypeOK
    <3>4. q' = [q EXCEPT !["podCopy"] = @ \cup In("podCopy"),
                         !["install"] = @ \cup In("install"),
                         !["download"] = @ \ {w}]
      BY <1>4, <2>2 DEF FanOutFromDownload
    <3> HIDE DEF In
    <3> QED
      BY <3>2, <3>3, <3>4 DEF TypeOK, Phases
  <2> QED
    BY <2>1, <2>2
<1>5. ASSUME NEW current \in Phases, NEW next \in Phases,
             TransitionWorker(w, current, next)
      PROVE  /\ main' \in [Apps -> PhaseInfo]
             /\ aux' \in [Apps -> [Pods -> PhaseInfo]]
             /\ q' \in [Phases -> SUBSET Workers]
             /\ isActive' \in [Workers -> BOOLEAN]
             /\ waiter' \in [Workers -> Phases \cup {"nil"}]
  <2>1. isActive' \in [Workers -> BOOLEAN]
    BY <1>5 DEF TransitionWorker, TypeOK
  <2>2. waiter' \in [Workers -> Phases \cup {"nil"}]
    BY <1>5 DEF TransitionWorker, TypeOK
  <2>3. CASE w.fanOut /\ current = "download" /\ FanOutFromDownload(w)
    BY <1>4, <2>1, <2>2, <2>3 DEF FanOutFromDownload, TypeOK
  <2>4. CASE /\ q' = [q EXCEPT ![current] = @ \ {w}]
             /\ UNCHANGED <<main, aux>>
    BY <2>1, <2>2, <2>4 DEF TypeOK
  <2>5. CASE /\ ~w.fanOut
             /\ IF FanOut
                THEN /\ aux' = [aux EXCEPT ![w.app][w.pod] = NewPhase(next)]
                     /\ UNCHANGED main
                ELSE /\ main' = [main EXCEPT ![w.app] = NewPhase(next)]
                     /\ UNCHANGED aux
             /\ q' = [q EXCEPT ![next] = @ \cup {w}, ![current] = @ \ {w}]
    <3>1. q' \in [Phases -> SUBSET Workers]
      BY <2>5 DEF TypeOK
    <3>2. NewPhase(next) \in PhaseInfo
      BY PhaseInfoTypes
    <3>3. CASE FanOut
      <4>1. aux' = [aux EXCEPT ![w.app][w.pod] = NewPhase(next)] /\ main' = main
        BY <2>5, <3>3
      <4>2. aux' \in [Apps -> [Pods -> PhaseInfo]] /\ main' \in [Apps -> PhaseInfo]
        BY <1>1, <3>2, <4>1 DEF TypeOK
      <4> QED
        BY <2>1, <2>2, <3>1, <4>2
    <3>4. CASE ~FanOut
      <4>1. main' = [main EXCEPT ![w.app] = NewPhase(next)] /\ aux' = aux
        BY <2>5, <3>4
      <4>2. aux' \in [Apps -> [Pods -> PhaseInfo]] /\ main' \in [Apps -> PhaseInfo]
        BY <1>1, <3>2, <4>1 DEF TypeOK
      <4> QED
        BY <2>1, <2>2, <3>1, <4>2
    <3> QED
      BY <3>3, <3>4
  <2> QED
    BY <1>5, <2>3, <2>4, <2>5 DEF TransitionWorker
<1>6. CASE GiveUp(ph, w)
  <2>1. \A st \in {"DownloadError", "PodCopyError", "InstallError"} :
          /\ WithStatus(main[w.app], st) \in PhaseInfo
          /\ WithStatus(aux[w.app][w.pod], st) \in PhaseInfo
          /\ InstallAs(main[w.app], st) \in PhaseInfo
    BY <1>1, <1>2, PhaseInfoTypes DEF Statuses
  <2>2. main' \in [Apps -> PhaseInfo]
    <3>1. \E info \in PhaseInfo : main' = [main EXCEPT ![w.app] = info]
      BY <1>6, <2>1 DEF GiveUp
    <3> QED
      BY <1>1, <3>1 DEF TypeOK
  <2>3. aux' \in [Apps -> [Pods -> PhaseInfo]]
    <3>1. \/ aux' = aux
          \/ \E info \in PhaseInfo : aux' = [aux EXCEPT ![w.app][w.pod] = info]
      BY <1>6, <2>1 DEF GiveUp
    <3>2. ASSUME NEW info \in PhaseInfo,
                 aux' = [aux EXCEPT ![w.app][w.pod] = info]
          PROVE  aux' \in [Apps -> [Pods -> PhaseInfo]]
      BY <1>1, <3>2 DEF TypeOK
    <3>3. CASE aux' = aux
      BY <3>3 DEF TypeOK
    <3> QED
      BY <3>1, <3>2, <3>3
  <2>4. q' \in [Phases -> SUBSET Workers]
    BY <1>6 DEF GiveUp, TypeOK
  <2> QED
    BY <1>6, <2>2, <2>3, <2>4 DEF GiveUp, TypeOK
<1>7. CASE Advance(ph, w)
  <2>1. CASE \/ TransitionWorker(w, "download", "podCopy")
             \/ TransitionWorker(w, "podCopy", "install")
    BY <1>5, <1>7, <2>1 DEF Advance, TypeOK, Phases
  <2>2. CASE /\ q' = [q EXCEPT ![Info(w, ph).phase] = @ \ {w}]
             /\ UNCHANGED <<main, aux, isActive, waiter>>
    BY <1>7, <2>2 DEF Advance, TypeOK
  <2> QED
    BY <1>7, <2>1, <2>2 DEF Advance
<1>8. CASE MoveBack(ph, w)
  <2>1. \/ TransitionWorker(w, "podCopy", "download")
        \/ TransitionWorker(w, "install", "podCopy")
    BY <1>8 DEF MoveBack
  <2> QED
    BY <1>5, <1>8, <2>1 DEF MoveBack, TypeOK, Phases
<1>9. CASE Dispatch(ph, w)
  <2>1. slots' \subseteq Pods
    BY <1>1, <1>9 DEF Dispatch, TypeOK
  <2>2. /\ waiter' = [waiter EXCEPT ![w] = ph]
        /\ chan' = [chan EXCEPT ![ph] = @ \cup {w}]
        /\ sent' = [sent EXCEPT ![ph] = {w}]
    BY <1>9 DEF Dispatch, SetWaiter
  <2> QED
    BY <1>9, <2>1, <2>2 DEF Dispatch, TypeOK
<1> QED
  BY <1>6, <1>7, <1>8, <1>9 DEF Manage

\* Lost packages and restarts of the operator keep the types.
LEMMA TypeEnvironment ==
  ASSUME TypeOK, LosePackage \/ Crash
  PROVE  TypeOK'
<1> USE DEF status, world, pipeline, control, budget
<1>1. CASE LosePackage
  <2>1. faults' \in Nat /\ crashes' \in Nat
    BY <1>1 DEF LosePackage, Fault, TypeOK
  <2>2. opPkg' \in [Apps -> BOOLEAN]
    BY <1>1 DEF LosePackage, TypeOK
  <2>3. podPkg' \in [Apps -> [Pods -> BOOLEAN]]
    <3>1. \/ podPkg' = podPkg
          \/ \E a \in Apps, p \in Pods : podPkg' = [podPkg EXCEPT ![a][p] = FALSE]
      BY <1>1 DEF LosePackage
    <3>2. ASSUME NEW a \in Apps, NEW p \in Pods,
                 podPkg' = [podPkg EXCEPT ![a][p] = FALSE]
          PROVE  podPkg' \in [Apps -> [Pods -> BOOLEAN]]
      BY <3>2 DEF TypeOK
    <3>3. CASE podPkg' = podPkg
      BY <3>3 DEF TypeOK
    <3> QED
      BY <3>1, <3>2, <3>3
  <2> QED
    BY <1>1, <2>1, <2>2, <2>3 DEF LosePackage, TypeOK
<1>2. CASE Crash
  <2>1. DropPipeline
    BY <1>2 DEF Crash
  <2>2. main' \in [Apps -> PhaseInfo] /\ aux' \in [Apps -> [Pods -> PhaseInfo]]
    BY <1>2 DEF Crash, TypeOK
  <2>3. inProgress' \in BOOLEAN /\ crashes' \in Nat
    BY <1>2 DEF Crash, TypeOK
  <2> QED
    BY <1>2, <2>1, <2>2, <2>3, DropPipelineType DEF Crash, TypeOK
<1> QED
  BY <1>1, <1>2

\* Every step keeps the types.
LEMMA TypeNext == TypeOK /\ [Next]_vars => TypeOK'
<1> SUFFICES ASSUME TypeOK, [Next]_vars PROVE TypeOK'
  OBVIOUS
<1>1. CASE UNCHANGED vars
  BY <1>1 DEF vars, status, world, pipeline, control, budget, TypeOK
<1>2. CASE Next
  BY <1>2, TypeSchedule, TypeManage, TypeHandle, TypeWork, TypeEnvironment
  DEF Next
<1> QED
  BY <1>1, <1>2

\* Every variable of the scheduler, the stored status included, keeps its
\* type: no worker leaves the pods of the CR, no counter of running workers
\* becomes negative and no phase info gets a status unknown to the API.
THEOREM TypeCorrect == Spec => []TypeOK
BY TypeInit, TypeNext, PTL DEF Spec

-----------------------------------------------------------------------------
(* A status that says InstallComplete tells the truth.                     *)

\* A goroutine past the install command leaves an installed app behind.
PastInstall ==
  \A w \in Workers : gor["install"][w] \in {"post", "cleanup"}
                       => installed[w.app][w.pod]

InstallInv == TypeOK /\ CompleteMeansInstalled /\ PastInstall

\* A step that marks no app or pod as installed.
NoNewComplete ==
  \A a \in Apps :
    /\ main'[a].status = "InstallComplete" => main[a].status = "InstallComplete"
    /\ \A p \in Pods : aux'[a][p].status = "InstallComplete"
                         => aux[a][p].status = "InstallComplete"

\* A goroutine reaches the steps after the install command only by a step
\* of its own.
NoNewPast ==
  \A w \in Workers : gor'["install"][w] \in {"post", "cleanup"}
                       => gor["install"][w] \in {"post", "cleanup"}

\* Steps that neither mark nor install anything keep the invariant.
LEMMA InstallQuietStep ==
  ASSUME InstallInv, TypeOK', NoNewComplete, NoNewPast, UNCHANGED installed,
         saved' = saved
         \/ saved' = [main |-> main, aux |-> aux, inProgress |-> inProgress']
  PROVE  InstallInv'
<1>1. PastInstall'
  BY DEF InstallInv, NoNewPast, PastInstall
<1>2. ASSUME NEW a \in Apps, NEW p \in Pods,
             \/ aux'[a][p].status = "InstallComplete"
             \/ saved'.aux[a][p].status = "InstallComplete"
      PROVE  installed'[a][p]
  BY <1>2 DEF InstallInv, CompleteMeansInstalled, NoNewComplete
<1>3. ASSUME NEW a \in Apps, NEW p \in Pods,
             \/ main'[a].status = "InstallComplete"
             \/ saved'.main[a].status = "InstallComplete"
      PROVE  installed'[a][p]
  BY <1>3 DEF InstallInv, CompleteMeansInstalled, NoNewComplete
<1>4. CompleteMeansInstalled'
  BY <1>2, <1>3 DEF CompleteMeansInstalled
<1> QED
  BY <1>1, <1>4 DEF InstallInv

\* Storing a phase info that is no newly completed one marks nothing.
LEMMA SetInfoQuiet ==
  ASSUME TypeOK, NEW w \in Workers, NEW ph, NEW info \in PhaseInfo,
         SetInfo(w, ph, info),
         info.status = "InstallComplete" => Info(w, ph).status = "InstallComplete"
  PROVE  NoNewComplete
<1>1. w.app \in Apps /\ w.pod \in Pods
  BY DEF Workers
<1>2. CASE FanOut /\ ph # "download"
  <2>1. aux' = [aux EXCEPT ![w.app][w.pod] = info] /\ main' = main
    BY <1>2 DEF SetInfo
  <2>2. Info(w, ph) = aux[w.app][w.pod]
    BY <1>2 DEF Info
  <2>3. ASSUME NEW a \in Apps, NEW p \in Pods
        PROVE  aux'[a][p] = IF a = w.app /\ p = w.pod THEN info ELSE aux[a][p]
    BY <1>1, <2>1 DEF TypeOK
  <2> QED
    BY <2>1, <2>2, <2>3 DEF NoNewComplete
<1>3. CASE ~(FanOut /\ ph # "download")
  <2>1. main' = [main EXCEPT ![w.app] = info] /\ aux' = aux
    BY <1>3, Zenon DEF SetInfo
  <2>2. Info(w, ph) = main[w.app]
    BY <1>3, Zenon DEF Info
  <2> QED
    BY <1>1, <2>1, <2>2 DEF NoNewComplete, TypeOK
<1> QED
  BY <1>2, <1>3

\* After the listing nothing is marked as installed.
LEMMA InstallInit == Init => InstallInv
<1> SUFFICES ASSUME Init PROVE InstallInv
  OBVIOUS
<1>1. TypeOK
  BY TypeInit
<1>2. CompleteMeansInstalled
  BY DEF Init, CompleteMeansInstalled, NewPhase, PendingOf, NoInfo
<1>3. PastInstall
  BY DEF Init, PastInstall, Phases
<1> QED
  BY <1>1, <1>2, <1>3 DEF InstallInv

\* The statuses other than InstallComplete that a step may record.
LEMMA StatusFields ==
  ASSUME NEW info \in PhaseInfo
  PROVE  /\ \A st \in Statuses : /\ WithStatus(info, st).status = st
                                 /\ Succeeded(info, st).status = st
                                 /\ InstallAs(info, st).status = st
         /\ FailedOnce(info).status = info.status
         /\ ToPending(info).status # "InstallComplete"
         /\ \A ph \in Phases : NewPhase(ph).status # "InstallComplete"
BY DEF PhaseInfo, Phases, PendingOf, WithStatus, Succeeded, InstallAs,
       FailedOnce, ToPending, NewPhase

\* The scheduler, which only saves the status, marks nothing.
LEMMA InstallSchedule ==
  ASSUME InstallInv, TypeOK',
         \/ SchedulerEntry \/ YieldWatcher \/ SchedulerExit
         \/ \E ph \in Phases : ManagerStop(ph) \/ PhaseDone(ph) \/ MarkActive(ph)
  PROVE  InstallInv'
<1>1. UNCHANGED <<main, aux, installed, gor>>
  BY DEF SchedulerEntry, YieldWatcher, SchedulerExit, ManagerStop, BreakLoop, PhaseDone,
         MarkActive, status, world, pipeline
<1>2. \/ saved' = saved
      \/ saved' = [main |-> main, aux |-> aux, inProgress |-> inProgress']
  BY DEF SchedulerEntry, YieldWatcher, SchedulerExit, ManagerStop, BreakLoop, PhaseDone,
         MarkActive
<1>3. NoNewComplete /\ NoNewPast
  BY <1>1 DEF NoNewComplete, NoNewPast
<1> QED
  BY <1>1, <1>2, <1>3, InstallQuietStep

\* The worker handlers mark nothing.
LEMMA HandleMarksNothing ==
  ASSUME TypeOK, NEW ph \in Phases, NEW w \in Workers, Handle(ph, w) \/ Exit(ph, w)
  PROVE  NoNewComplete
<1> USE DEF status, world, pipeline, control, budget
<1>1. TypeOK /\ w.app \in Apps
  BY DEF Workers
<1>2. UNCHANGED aux
  BY DEF Handle, HandleDownload, HandleOther, Exit
<1>3. CASE HandleDownload(w)
  <2>1. main[w.app] \in PhaseInfo /\ FailedOnce(main[w.app]) \in PhaseInfo
    BY <1>1, PhaseInfoTypes DEF TypeOK
  <2>2. \/ main' = main
        \/ \E info \in PhaseInfo : /\ main' = [main EXCEPT ![w.app] = info]
                                   /\ info.status # "InstallComplete"
    <3>1. ASSUME NEW st \in {"DownloadPending", "DownloadError"}
          PROVE  /\ WithStatus(FailedOnce(main[w.app]), st) \in PhaseInfo
                 /\ WithStatus(FailedOnce(main[w.app]), st).status
                      # "InstallComplete"
      <4>1. st \in Statuses /\ st # "InstallComplete"
        BY DEF Statuses
      <4> QED
        BY <2>1, <4>1, PhaseInfoTypes, StatusFields
    <3>2. ASSUME NEW st \in {"DownloadComplete", "DownloadInProgress"}
          PROVE  /\ Succeeded(main[w.app], st) \in PhaseInfo
                 /\ Succeeded(main[w.app], st).status # "InstallComplete"
                 /\ WithStatus(main[w.app], st) \in PhaseInfo
                 /\ WithStatus(main[w.app], st).status # "InstallComplete"
      <4>1. st \in Statuses /\ st # "InstallComplete"
        BY DEF Statuses
      <4> QED
        BY <2>1, <4>1, PhaseInfoTypes, StatusFields
    <3>3. \/ main' = [main EXCEPT ![w.app] = Succeeded(@, "DownloadComplete")]
          \/ main' = main
          \/ \E st \in {"DownloadPending", "DownloadError"} :
               main' = [main EXCEPT ![w.app] = WithStatus(FailedOnce(@), st)]
          \/ main' = [main EXCEPT ![w.app] = WithStatus(@, "DownloadInProgress")]
      BY <1>3 DEF HandleDownload
    <3> QED
      BY <3>1, <3>2, <3>3
  <2> QED
    BY <1>1, <1>2, <2>2 DEF NoNewComplete, TypeOK
<1>4. CASE HandleOther(ph, w) \/ Exit(ph, w)
  BY <1>2, <1>4 DEF HandleOther, Exit, NoNewComplete
<1> QED
  BY <1>3, <1>4 DEF Handle

\* The worker handlers keep the install invariant.
LEMMA InstallHandle ==
  ASSUME InstallInv, TypeOK', NEW ph \in Phases, NEW w \in Workers,
         Handle(ph, w) \/ Exit(ph, w)
  PROVE  InstallInv'
<1> USE DEF status, world, pipeline, control, budget
<1>1. TypeOK /\ w.app \in Apps
  BY DEF InstallInv, Workers
<1>2. UNCHANGED <<aux, saved, installed>>
  BY DEF Handle, HandleDownload, HandleOther, Exit
<1>3. NoNewComplete
  BY <1>1, HandleMarksNothing
<1>4. NoNewPast
  <2>1. \/ gor' = gor
        \/ \E phase \in Phases, place \in {"run", "none"} :
             gor' = [gor EXCEPT ![phase][w] = place]
    BY DEF Handle, HandleDownload, HandleOther, Exit, StartGoroutine, Phases
  <2>2. ASSUME NEW phase \in Phases, NEW place \in {"run", "none"},
               gor' = [gor EXCEPT ![phase][w] = place]
        PROVE  NoNewPast
    BY <1>1, <2>2 DEF NoNewPast, TypeOK, Phases
  <2>3. CASE gor' = gor
    BY <2>3 DEF NoNewPast
  <2> QED
    BY <2>1, <2>2, <2>3
<1> QED
  BY <1>2, <1>3, <1>4, InstallQuietStep

\* The phase managers mark nothing.
LEMMA ManageMarksNothing ==
  ASSUME TypeOK, NEW ph \in Phases, NEW w \in Workers, Manage(ph, w)
  PROVE  NoNewComplete
<1> USE DEF status, world, pipeline, control, budget
<1>1. TypeOK /\ w.app \in Apps /\ w.pod \in Pods
  BY DEF Workers
<1>3. main[w.app] \in PhaseInfo /\ aux[w.app] \in [Pods -> PhaseInfo]
  BY <1>1 DEF TypeOK
<1>4. ASSUME NEW current \in Phases, NEW next \in Phases,
             TransitionWorker(w, current, next)
      PROVE  NoNewComplete
  <2>1. CASE FanOutFromDownload(w)
    <3>1. \A p \in Pods : aux'[w.app][p].status = "InstallComplete"
                            => aux[w.app][p].status = "InstallComplete"
      <4>1. CASE ~HasAux(w.app)
        <5>1. aux' = [aux EXCEPT ![w.app] = [p \in Pods |-> NewPhase("podCopy")]]
          BY <2>1, <4>1 DEF FanOutFromDownload
        <5> QED
          BY <1>1, <1>3, <5>1, StatusFields DEF TypeOK, Phases
      <4>2. CASE HasAux(w.app)
        <5>1. aux' = [aux EXCEPT ![w.app] =
                        [p \in Pods |-> IF p \in ReplicasToResume(w.app)
                                        THEN ToPending(aux[w.app][p])
                                        ELSE aux[w.app][p]]]
          BY <2>1, <4>2 DEF FanOutFromDownload
        <5> QED
          BY <1>1, <1>3, <5>1, StatusFields DEF TypeOK
      <4> QED
        BY <4>1, <4>2
    <3>2. \A a \in Apps \ {w.app} : aux'[a] = aux[a]
      <4>1. \E f : aux' = [aux EXCEPT ![w.app] = f]
        BY <2>1 DEF FanOutFromDownload
      <4> QED
        BY <1>1, <4>1 DEF TypeOK
    <3>3. main' = main
      BY <2>1 DEF FanOutFromDownload
    <3> QED
      BY <3>1, <3>2, <3>3 DEF NoNewComplete
  <2>2. CASE UNCHANGED <<main, aux>>
    BY <2>2 DEF NoNewComplete
  <2>3. CASE SetInfo(w, "install", NewPhase(next))
    BY <1>1, <2>3, <1>3, PhaseInfoTypes, StatusFields, SetInfoQuiet
  <2> QED
    BY <1>4, <2>1, <2>2, <2>3 DEF TransitionWorker, SetInfo
<1>5. ASSUME GiveUp(ph, w)
      PROVE  NoNewComplete
  <2>1. PICK st \in {"DownloadError", "PodCopyError", "InstallError"} :
          /\ \/ main' = [main EXCEPT ![w.app] = WithStatus(@, st)]
             \/ main' = [main EXCEPT ![w.app] = InstallAs(@, st)]
          /\ \/ aux' = aux
             \/ aux' = [aux EXCEPT ![w.app][w.pod] = WithStatus(@, st)]
    BY <1>5 DEF GiveUp
  <2>2. /\ WithStatus(main[w.app], st).status # "InstallComplete"
        /\ InstallAs(main[w.app], st).status # "InstallComplete"
        /\ WithStatus(aux[w.app][w.pod], st).status # "InstallComplete"
    BY <1>1, <1>3, StatusFields DEF Statuses
  <2>3. \A a \in Apps : main'[a].status = "InstallComplete"
                          => main[a].status = "InstallComplete"
    BY <1>1, <2>1, <2>2 DEF TypeOK
  <2>4. CASE aux' = [aux EXCEPT ![w.app][w.pod] = WithStatus(@, st)]
    BY <1>1, <2>2, <2>3, <2>4 DEF NoNewComplete, TypeOK
  <2>5. CASE aux' = aux
    BY <2>3, <2>5 DEF NoNewComplete
  <2> QED
    BY <2>1, <2>4, <2>5
<1>6. CASE Advance(ph, w)
  BY <1>4, <1>6 DEF Advance, Phases, NoNewComplete
<1>7. CASE MoveBack(ph, w)
  BY <1>4, <1>7 DEF MoveBack, Phases
<1>8. CASE Dispatch(ph, w)
  BY <1>8 DEF Dispatch, NoNewComplete
<1> QED
  BY <1>5, <1>6, <1>7, <1>8 DEF Manage

\* The phase managers keep the install invariant.
LEMMA InstallManage ==
  ASSUME InstallInv, TypeOK', NEW ph \in Phases, NEW w \in Workers, Manage(ph, w)
  PROVE  InstallInv'
<1>1. UNCHANGED <<saved, installed, gor>>
  BY DEF Manage, GiveUp, Advance, MoveBack, Dispatch, world
<1>2. NoNewComplete
  BY ManageMarksNothing DEF InstallInv
<1>3. NoNewPast
  BY <1>1 DEF NoNewPast
<1> QED
  BY <1>1, <1>2, <1>3, InstallQuietStep

\* A goroutine marks nothing but the app and pod it has just installed.
LEMMA WorkMarks ==
  ASSUME TypeOK, NEW w \in Workers, Work(w)
  PROVE  \/ NoNewComplete
         \/ /\ MarkInstallComplete(w)
            /\ InstallSucceeds(w) \/ PostInstall(w)
            /\ gor["install"][w] \in {"run", "post"}
            /\ gor' = [gor EXCEPT !["install"][w] = "cleanup"]
<1> USE DEF status, world, pipeline, control, budget
<1>1. TypeOK /\ w.app \in Apps /\ w.pod \in Pods
  BY DEF Workers
<1>2. CASE Download(w)
  <2>1. main[w.app] \in PhaseInfo /\ FailedOnce(main[w.app]) \in PhaseInfo
    BY <1>1, PhaseInfoTypes DEF TypeOK
  <2>2. /\ Succeeded(main[w.app], "DownloadComplete").status # "InstallComplete"
        /\ WithStatus(FailedOnce(main[w.app]), "DownloadPending").status
             # "InstallComplete"
    BY <2>1, StatusFields DEF Statuses
  <2>3. /\ \/ main' = [main EXCEPT ![w.app] = Succeeded(@, "DownloadComplete")]
           \/ main' = [main EXCEPT ![w.app] =
                         WithStatus(FailedOnce(@), "DownloadPending")]
        /\ UNCHANGED aux
    BY <1>2 DEF Download
  <2> QED
    BY <1>1, <2>2, <2>3 DEF NoNewComplete, TypeOK
<1>3. CASE PodCopy(w)
  <2>1. Info(w, "podCopy") \in PhaseInfo
    BY <1>1, InfoType
  <2>2. PICK info \in PhaseInfo :
          /\ SetInfo(w, "podCopy", info)
          /\ info.status = "InstallComplete"
               => Info(w, "podCopy").status = "InstallComplete"
    <3>1. \/ SetInfo(w, "podCopy",
                     WithStatus(Info(w, "podCopy"), "MissingFromOperator"))
          \/ SetInfo(w, "podCopy", FailedOnce(Info(w, "podCopy")))
          \/ SetInfo(w, "podCopy",
                     WithStatus(Info(w, "podCopy"), "PodCopyComplete"))
      BY <1>3 DEF PodCopy
    <3>2. \A st \in {"MissingFromOperator", "PodCopyComplete"} :
            /\ WithStatus(Info(w, "podCopy"), st) \in PhaseInfo
            /\ WithStatus(Info(w, "podCopy"), st).status # "InstallComplete"
      <4>1. \A st \in {"MissingFromOperator", "PodCopyComplete"} :
              st \in Statuses /\ st # "InstallComplete"
        BY DEF Statuses
      <4> QED
        BY <2>1, <4>1, PhaseInfoTypes, StatusFields
    <3>3. /\ FailedOnce(Info(w, "podCopy")) \in PhaseInfo
          /\ FailedOnce(Info(w, "podCopy")).status = Info(w, "podCopy").status
      BY <2>1, PhaseInfoTypes, StatusFields
    <3> QED
      BY <3>1, <3>2, <3>3
  <2> QED
    BY <1>1, <2>2, SetInfoQuiet
<1>4. CASE InstallFails(w)
  <2>1. Info(w, "install") \in PhaseInfo
    BY <1>1, InfoType
  <2>2. \/ SetInfo(w, "install", MissingOnPod(Info(w, "install")))
        \/ SetInfo(w, "install", FailedOnce(Info(w, "install")))
        \/ UNCHANGED <<main, aux>>
    BY <1>4 DEF InstallFails
  <2>3. CASE SetInfo(w, "install", MissingOnPod(Info(w, "install")))
    <3>1. "MissingOnPodError" \in Statuses
      BY DEF Statuses
    <3>2. /\ MissingOnPod(Info(w, "install")) \in PhaseInfo
          /\ MissingOnPod(Info(w, "install")).status # "InstallComplete"
      BY <2>1, <3>1, PhaseInfoTypes, StatusFields DEF MissingOnPod
    <3> QED
      BY <1>1, <2>3, <3>2, SetInfoQuiet
  <2>4. CASE SetInfo(w, "install", FailedOnce(Info(w, "install")))
    BY <1>1, <2>1, <2>4, PhaseInfoTypes, StatusFields, SetInfoQuiet
  <2>5. CASE UNCHANGED <<main, aux>>
    BY <2>5 DEF NoNewComplete
  <2> QED
    BY <2>2, <2>3, <2>4, <2>5
<1>5. CASE InstallSucceeds(w)
  BY <1>5 DEF InstallSucceeds, Works, NoNewComplete
<1>6. CASE PostInstall(w)
  <2>1. CASE Works("install", w, "post", "cleanup") /\ MarkInstallComplete(w)
    BY <1>6, <2>1 DEF Works
  <2>2. CASE SetInfo(w, "install", FailedOnce(Info(w, "install")))
    BY <1>1, <2>2, InfoType, PhaseInfoTypes, StatusFields, SetInfoQuiet
  <2> QED
    BY <1>6, <2>1, <2>2 DEF PostInstall
<1>7. CASE Cleanup(w)
  BY <1>7 DEF Cleanup, NoNewComplete
<1> QED
  BY <1>2, <1>3, <1>4, <1>5, <1>6, <1>7 DEF Work

\* Marking an installed app keeps the invariant: a fan-out app is marked as
\* a whole only with the last of its pods.
LEMMA MarkedIsInstalled ==
  ASSUME InstallInv, TypeOK', NEW w \in Workers, MarkInstallComplete(w),
         UNCHANGED saved, PastInstall', installed'[w.app][w.pod],
         \A a \in Apps, p \in Pods : installed[a][p] => installed'[a][p]
  PROVE  InstallInv'
<1> DEFINE done == Succeeded(Info(w, "install"), "InstallComplete")
           auxOfApp == [aux[w.app] EXCEPT ![w.pod] = done]
<1>1. TypeOK /\ w.app \in Apps /\ w.pod \in Pods
  BY DEF InstallInv, Workers
<1>2. aux[w.app] \in [Pods -> PhaseInfo]
  BY <1>1 DEF TypeOK
<1>3. ASSUME NEW a \in Apps, NEW p \in Pods,
             aux'[a][p].status = "InstallComplete"
      PROVE  installed'[a][p]
  <2>1. CASE FanOut
    <3>1. aux' = [aux EXCEPT ![w.app] = auxOfApp]
      BY <2>1 DEF MarkInstallComplete
    <3>2. CASE a = w.app /\ p = w.pod
      BY <3>2
    <3>3. CASE ~(a = w.app /\ p = w.pod)
      <4>1. aux'[a][p] = aux[a][p]
        BY <1>1, <1>2, <3>1, <3>3 DEF TypeOK
      <4> QED
        BY <1>3, <4>1 DEF InstallInv, CompleteMeansInstalled
    <3> QED
      BY <3>2, <3>3
  <2>2. CASE ~FanOut
    <3>1. aux' = aux
      BY <2>2 DEF MarkInstallComplete
    <3> QED
      BY <1>3, <3>1 DEF InstallInv, CompleteMeansInstalled
  <2> QED
    BY <2>1, <2>2
<1>4. ASSUME NEW a \in Apps, main'[a].status = "InstallComplete"
      PROVE  \A p \in Pods : installed'[a][p]
  <2>1. CASE main[a].status = "InstallComplete"
    BY <2>1 DEF InstallInv, CompleteMeansInstalled
  <2>2. CASE main[a].status # "InstallComplete"
    <3>1. a = w.app
      <4>1. main' = main \/ \E info : main' = [main EXCEPT ![w.app] = info]
        BY DEF MarkInstallComplete
      <4> QED
        BY <1>1, <1>4, <2>2, <4>1 DEF TypeOK
    <3>2. CASE FanOut
      <4>1. aux' = [aux EXCEPT ![w.app] = auxOfApp]
        BY <3>2 DEF MarkInstallComplete
      <4>2. InstalledOnAllReplicas(auxOfApp)
        BY <1>4, <2>2, <3>2 DEF MarkInstallComplete
      <4>3. aux'[w.app] = auxOfApp
        BY <1>1, <4>1 DEF TypeOK
      <4> HIDE DEF auxOfApp
      <4> QED
        BY <1>1, <1>3, <3>1, <4>2, <4>3 DEF InstalledOnAllReplicas
    <3>3. CASE ~FanOut
      <4>1. Pods = {0}
        BY <3>3, PipelineAssumption DEF Pods
      <4> QED
        BY <1>1, <3>1, <4>1
    <3> QED
      BY <3>2, <3>3
  <2> QED
    BY <2>1, <2>2
<1>5. CompleteMeansInstalled'
  BY <1>3, <1>4 DEF InstallInv, CompleteMeansInstalled
<1> QED
  BY <1>5 DEF InstallInv

\* A goroutine marks an app only after its install command.
LEMMA InstallWork ==
  ASSUME InstallInv, TypeOK', NEW w \in Workers, Work(w)
  PROVE  InstallInv'
<1> USE DEF status, world, pipeline, control, budget
<1>1. TypeOK /\ w.app \in Apps /\ w.pod \in Pods
  BY DEF InstallInv, Workers
<1>2. ASSUME NEW ph \in Phases, NEW at, NEW next, Works(ph, w, at, next),
             ph = "install" => next \notin {"post", "cleanup"}
      PROVE  NoNewPast
  <2>1. gor' = [gor EXCEPT ![ph][w] = next]
    BY <1>2 DEF Works
  <2> QED
    BY <1>1, <1>2, <2>1 DEF NoNewPast, TypeOK, Phases
<1>3. ASSUME NEW at, NEW next, Works("install", w, at, next),
             installed'[w.app][w.pod],
             \A a \in Apps, p \in Pods : installed[a][p] => installed'[a][p]
      PROVE  PastInstall'
  <2>1. gor' = [gor EXCEPT !["install"][w] = next]
    BY <1>3 DEF Works
  <2>2. \A v \in Workers \ {w} : gor'["install"][v] = gor["install"][v]
    BY <1>1, <2>1 DEF TypeOK, Phases
  <2>3. \A v \in Workers : v.app \in Apps /\ v.pod \in Pods
    BY DEF Workers
  <2> QED
    BY <1>3, <2>2, <2>3 DEF InstallInv, PastInstall
<1>4. UNCHANGED saved
  BY DEF Work, Download, PodCopy, InstallFails, InstallSucceeds, PostInstall,
         Cleanup, Works
<1>5. CASE Download(w) \/ PodCopy(w) \/ InstallFails(w) \/ Cleanup(w)
  <2>1. UNCHANGED installed /\ NoNewPast
    BY <1>2, <1>5 DEF Download, PodCopy, InstallFails, Cleanup, Phases
  <2>2. ~(InstallSucceeds(w) \/ PostInstall(w)) => NoNewComplete
    BY <1>1, WorkMarks
  <2>3. CASE InstallSucceeds(w) \/ PostInstall(w)
    BY <1>1, <1>5, <2>3 DEF Download, PodCopy, InstallFails, Cleanup, InstallSucceeds,
                            PostInstall, Works, TypeOK, Phases
  <2> QED
    BY <1>4, <2>1, <2>2, <2>3, InstallQuietStep
<1>6. CASE InstallSucceeds(w)
  <2>1. installed' = [installed EXCEPT ![w.app][w.pod] = TRUE]
    BY <1>6 DEF InstallSucceeds
  <2>2. /\ installed'[w.app][w.pod]
        /\ \A a \in Apps, p \in Pods : installed[a][p] => installed'[a][p]
    BY <1>1, <2>1 DEF TypeOK
  <2>3. PastInstall'
    BY <1>3, <1>6, <2>2 DEF InstallSucceeds
  <2>4. CASE MarkInstallComplete(w)
    BY <1>4, <2>2, <2>3, <2>4, MarkedIsInstalled
  <2>5. CASE UNCHANGED <<main, aux>>
    <3>1. CompleteMeansInstalled'
      BY <1>4, <2>2, <2>5 DEF InstallInv, CompleteMeansInstalled
    <3> QED
      BY <2>3, <3>1 DEF InstallInv
  <2> QED
    BY <1>6, <2>4, <2>5 DEF InstallSucceeds
<1>7. CASE PostInstall(w)
  <2>1. UNCHANGED installed
    BY <1>7 DEF PostInstall
  <2>2. CASE Works("install", w, "post", "cleanup") /\ MarkInstallComplete(w)
    <3>1. installed'[w.app][w.pod]
      BY <2>1, <2>2 DEF Works, InstallInv, PastInstall
    <3>2. PastInstall'
      BY <1>3, <2>1, <2>2, <3>1
    <3> QED
      BY <1>4, <2>1, <2>2, <3>1, <3>2, MarkedIsInstalled
  <2>3. CASE /\ Works("install", w, "post", "exit")
             /\ SetInfo(w, "install", FailedOnce(Info(w, "install")))
    <3>1. NoNewPast
      BY <1>2, <2>3 DEF Phases
    <3>2. NoNewComplete
      BY <1>1, <2>3, InfoType, PhaseInfoTypes, StatusFields, SetInfoQuiet
    <3> QED
      BY <1>4, <2>1, <3>1, <3>2, InstallQuietStep
  <2> QED
    BY <1>7, <2>2, <2>3 DEF PostInstall
<1> QED
  BY <1>5, <1>6, <1>7 DEF Work

\* A restart reads back a status that was true when saved.
LEMMA InstallEnvironment ==
  ASSUME InstallInv, TypeOK', LosePackage \/ Crash
  PROVE  InstallInv'
<1> USE DEF status, world, pipeline, control, budget
<1>1. CASE LosePackage
  <2>1. UNCHANGED <<main, aux, saved, installed, gor>>
    BY <1>1 DEF LosePackage
  <2>2. NoNewComplete /\ NoNewPast
    BY <2>1 DEF NoNewComplete, NoNewPast
  <2> QED
    BY <2>1, <2>2, InstallQuietStep
<1>2. CASE Crash
  <2>1. PastInstall'
    BY <1>2 DEF Crash, PastInstall, Phases
  <2>2. CompleteMeansInstalled'
    BY <1>2 DEF Crash, InstallInv, CompleteMeansInstalled
  <2> QED
    BY <2>1, <2>2 DEF InstallInv
<1> QED
  BY <1>1, <1>2

\* Every step keeps the install invariant.
LEMMA InstallNext == InstallInv /\ [Next]_vars => InstallInv'
<1> SUFFICES ASSUME InstallInv, [Next]_vars PROVE InstallInv'
  OBVIOUS
<1>1. TypeOK'
  BY TypeNext DEF InstallInv
<1>2. CASE UNCHANGED vars
  <2>1. UNCHANGED <<main, aux, saved, installed, gor>>
    BY <1>2 DEF vars, status, world, pipeline
  <2> QED
    BY <1>1, <2>1 DEF InstallInv, CompleteMeansInstalled, PastInstall
<1>3. CASE Next
  BY <1>1, <1>3, InstallSchedule, InstallManage, InstallHandle, InstallWork,
     InstallEnvironment
  DEF Next
<1> QED
  BY <1>2, <1>3

\* The status never claims an install that did not happen, in memory or in
\* the API server, for any number of apps and pods, with workers that fail,
\* yield and restart: markWorkerPhaseInstallationComplete is reached only
\* after the install command, and a fan-out app is marked as a whole only
\* when every pod is.
THEOREM StatusIsTruthful == Spec => []CompleteMeansInstalled
<1>1. Init => InstallInv
  BY InstallInit
<1>2. InstallInv /\ [Next]_vars => InstallInv'
  BY InstallNext
<1>3. InstallInv => CompleteMeansInstalled
  BY DEF InstallInv
<1> QED
  BY <1>1, <1>2, <1>3, PTL DEF Spec

-----------------------------------------------------------------------------
(* A package stays on the operator until no pod needs it.                  *)

\* No step deletes a package some pod still needs.
LEMMA DeletesNext == InstallInv /\ [Next]_vars => [DeletesOnlyInstalled]_vars
<1> SUFFICES ASSUME InstallInv, Next, NEW a \in Apps, NEW p \in Pods,
                    opPkg[a], ~opPkg'[a], faults' = faults,
                    \A w \in Workers : gor["download"][w] = "none"
             PROVE  installed[a][p]
  BY DEF DeletesOnlyInstalled
<1> USE DEF status, world, pipeline, control, budget
<1>1. PICK w \in Workers : Cleanup(w)
  <2>1. faults \in Nat /\ opPkg \in [Apps -> BOOLEAN]
    BY DEF InstallInv, TypeOK
  <2>2. ~LosePackage
    BY <2>1 DEF LosePackage, Fault
  <2>3. ASSUME NEW w \in Workers, Download(w)
        PROVE  FALSE
    BY <2>3 DEF Download, Works
  <2>4. ASSUME NEW w \in Workers, Work(w)
        PROVE  Cleanup(w)
    BY <2>3, <2>4 DEF Work, PodCopy, InstallFails, InstallSucceeds, PostInstall
  <2>5. ASSUME \/ SchedulerEntry \/ YieldWatcher \/ SchedulerExit \/ Crash
               \/ \E ph \in Phases : ManagerStop(ph) \/ PhaseDone(ph)
                                     \/ MarkActive(ph)
        PROVE  FALSE
    BY <2>5 DEF SchedulerEntry, YieldWatcher, SchedulerExit, Crash, ManagerStop, BreakLoop,
                PhaseDone, MarkActive
  <2>6. ASSUME NEW ph \in Phases, NEW w \in Workers,
               Manage(ph, w) \/ Handle(ph, w) \/ Exit(ph, w)
        PROVE  FALSE
    BY <2>6 DEF Manage, GiveUp, Advance, MoveBack, Dispatch, Handle,
                HandleDownload, HandleOther, Exit
  <2> QED
    BY <2>2, <2>4, <2>5, <2>6 DEF Next
<1>2. w.app \in Apps /\ w.pod \in Pods
  BY DEF Workers
<1>3. opPkg' = [opPkg EXCEPT ![w.app] = @ /\ ~CleanupAllowed(w.app)]
  BY <1>1 DEF Cleanup
<1>4. a = w.app /\ CleanupAllowed(a)
  BY <1>2, <1>3 DEF InstallInv, TypeOK
<1>5. installed[w.app][w.pod]
  BY <1>1 DEF Cleanup, Works, InstallInv, PastInstall
<1>6. CASE FanOut
  BY <1>4, <1>6 DEF CleanupAllowed, InstalledOnAllReplicas, InstallInv,
                    CompleteMeansInstalled
<1>7. CASE ~FanOut
  <2>1. Pods = {0}
    BY <1>7, PipelineAssumption DEF Pods
  <2> QED
    BY <1>2, <1>4, <1>5, <2>1
<1> QED
  BY <1>6, <1>7

\* A cleanup never deletes the operator's copy of a package that a pod has
\* not installed yet, for any number of pods that finish in any order
\* (tryAppPkgCleanupFromOperatorPod).
THEOREM PackageIsKept == Spec => PackageKeptWhileNeeded
<1>1. Init => InstallInv
  BY InstallInit
<1>2. InstallInv /\ [Next]_vars => InstallInv'
  BY InstallNext
<1>3. InstallInv /\ [Next]_vars => [DeletesOnlyInstalled]_vars
  BY DeletesNext
<1> QED
  BY <1>1, <1>2, <1>3, PTL DEF Spec, PackageKeptWhileNeeded

=============================================================================
