--------------------------- MODULE BundlePushProofs ---------------------------
(***************************************************************************)
(* Proofs about BundlePush, for any number of cluster scoped apps and of   *)
(* Enterprise Security packages.                                           *)
(***************************************************************************)
EXTENDS BundlePush, TLAPS

\* Enterprise Security is only installed where the CR has it.
EsOfTheCR == \A a \in EsApps : es[a] # "none" => a \in Apps

NonePending == \A a \in ClusterApps : info[a] # "pending"

Copied == {a \in ClusterApps : info[a] = "copied"}
SavedCopied == {a \in ClusterApps : saved.info[a] = "copied"}

\* What was copied is in the directory that a push sends.
CopiedInBundle == Copied \subseteq bundle /\ SavedCopied \subseteq bundle

\* Once an entry runs, every app that still has to be copied has a worker,
\* and every copy that may still run is of such an app.
PendingIsQueued ==
  /\ sched # "idle" => \A a \in ClusterApps : info[a] = "pending" => a \in queue
  /\ sched = "working" => \A a \in ClusterApps \cap queue : info[a] = "pending"
  /\ \A a \in running : info[a] = "pending"

\* The playbook only acts when all copies are over.
PlaybookIsAlone ==
  /\ pc # "loop" => sched = "playbook" /\ queue = {} /\ running = {}
  /\ sched = "playbook" /\ clock # "over" => queue = {} /\ running = {}
  /\ sched \in {"idle", "working"} => running = {}

\* A push that is under way has all that was to be copied.
PushIsComplete ==
  /\ stage = "InProgress" => NonePending
  /\ saved.stage = "InProgress"
       => \A a \in ClusterApps : saved.info[a] # "pending"

\* The last bundle has failed its validation, and no other is under way.
Rejected == file = "error" /\ pushes = {}

\* The cluster manager: a copied app is on its way to the peers, and there
\* once no push is under way, unless the bundle was rejected.
OnItsWay ==
  ~IsShc =>
    /\ \A c, d \in pushes : c = d
    /\ ~Rejected /\ (stage = "InProgress" \/ pc = "started")
         => Copied \subseteq members \cup UNION pushes
    /\ ~Rejected /\ saved.stage = "InProgress"
         => SavedCopied \subseteq members \cup UNION pushes
    /\ pc = "complete" => Copied \subseteq members
    /\ pc # "remove"

\* The deployer: several pushes may be under way, and the status file may be
\* of an earlier one than the last; each of them sends all copied apps.
EveryPushSends ==
  IsShc =>
    /\ pushes # {} \/ file = "success" => NonePending
    /\ \A content \in pushes : Copied \subseteq content
    /\ file = "success" \/ pc \in {"remove", "complete"} => Copied \subseteq members

PushInv ==
  /\ TypeOK /\ EsOfTheCR
  /\ Recoverable =>
       /\ CopiedInBundle /\ PendingIsQueued /\ PlaybookIsAlone /\ PushIsComplete
       /\ OnItsWay /\ EveryPushSends
  /\ InstalledIsPushed

-----------------------------------------------------------------------------
(* Types.                                                                  *)

\* The CR stays what it is.
LEMMA KindStays ==
  ASSUME [Next]_vars
  PROVE  kind' = kind /\ Apps' = Apps /\ IsShc' = IsShc /\ Limits' = Limits
<1>1. kind' = kind
  <2>1. CASE SchedulerEntry \/ Yield \/ SchedulerExit \/ TimePasses \/ Crash \/ PushEnds
    BY <2>1 DEF SchedulerEntry, Yield, SchedulerExit, TimePasses, Crash, PushEnds
  <2>2. ASSUME NEW a, Copy(a) \/ Es(a) PROVE kind' = kind
    BY <2>2 DEF Copy, Es, EsStart, EsInstall, EsCleanup, EsFlag, EsDrop
  <2>3. CASE Playbook
    BY <2>3 DEF Playbook, PlaybookEnds, TriggerBundlePush, BundlePushStarted, IdxcCheck,
                ShcCheck, ShcRemoveFile, BundlePushDone, InPlaybook
  <2>4. CASE UNCHANGED vars
    BY <2>4 DEF vars
  <2> QED
    BY <2>1, <2>2, <2>3, <2>4 DEF Next
<1> QED
  BY <1>1 DEF Apps, IsShc, Limits

\* A fault is counted, and what was seen stays seen.
LEMMA FaultKept ==
  ASSUME TypeOK, NEW f, Fault(f)
  PROVE  /\ faults' \in [n : 0 .. MaxFaults, seen : SUBSET Limits]
         /\ faults.seen \subseteq faults'.seen
         /\ f \in Limits => f \in faults'.seen
BY BundleAssumption DEF TypeOK, Fault

LEMMA PushTypeInit == Init => TypeOK /\ EsOfTheCR
BY BundleAssumption DEF Init, TypeOK, EsOfTheCR, Stages, Apps

\* Every step keeps the types.
LEMMA PushTypeNext == TypeOK /\ EsOfTheCR /\ [Next]_vars => TypeOK' /\ EsOfTheCR'
<1> SUFFICES ASSUME TypeOK, EsOfTheCR, [Next]_vars PROVE TypeOK' /\ EsOfTheCR'
  OBVIOUS
<1>1. kind' = kind /\ Apps' = Apps /\ Limits' = Limits
  BY KindStays
<1>2. ClusterApps \subseteq Apps
  BY DEF Apps
<1>3. \A f : Fault(f) => faults' \in [n : 0 .. MaxFaults, seen : SUBSET Limits]
  BY FaultKept
<1>4. CASE SchedulerEntry
  BY <1>1, <1>3, <1>4 DEF SchedulerEntry, TypeOK, EsOfTheCR, status, cluster
<1>5. CASE Yield
  BY <1>1, <1>3, <1>5 DEF Yield, TypeOK, EsOfTheCR, status, cluster
<1>6. CASE SchedulerExit
  <2>1. inProgress' \in BOOLEAN /\ revisit' \in BOOLEAN
    BY <1>6 DEF SchedulerExit
  <2> QED
    BY <1>1, <1>6, <2>1 DEF SchedulerExit, TypeOK, EsOfTheCR, cluster
<1>7. CASE TimePasses
  BY <1>1, <1>7 DEF TimePasses, TypeOK, EsOfTheCR, status, cluster
<1>8. ASSUME NEW a \in ClusterApps, Copy(a) PROVE TypeOK' /\ EsOfTheCR'
  <2>1. PICK outcome \in {"copied", "pending", "failed"} :
          /\ info' = [info EXCEPT ![a] = outcome]
          /\ bundle' = bundle \cup {a} \/ bundle' = bundle
          /\ faults' = faults \/ Fault("copy")
          /\ queue' \subseteq queue
    BY <1>8 DEF Copy
  <2> QED
    BY <1>1, <1>2, <1>3, <1>8, <2>1 DEF Copy, TypeOK, EsOfTheCR
<1>9. ASSUME NEW a \in EsApps, Es(a) PROVE TypeOK' /\ EsOfTheCR'
  <2>1. CASE EsStart(a)
    BY <1>1, <2>1 DEF EsStart, TypeOK, EsOfTheCR, status, cluster
  <2>2. CASE EsInstall(a)
    <3>1. a \in Apps
      BY <2>2 DEF EsInstall, EsOfTheCR
    <3> QED
      BY <1>1, <1>3, <2>2, <3>1 DEF EsInstall, TypeOK, EsOfTheCR
  <2>3. CASE EsCleanup(a)
    BY <1>1, <1>3, <2>3 DEF EsCleanup, TypeOK, EsOfTheCR, status, cluster
  <2>4. CASE EsFlag(a)
    BY <1>1, <2>4 DEF EsFlag, AskForPush, TypeOK, EsOfTheCR, cluster, Stages
  <2>5. CASE EsDrop(a)
    BY <1>1, <2>5 DEF EsDrop, TypeOK, EsOfTheCR, status, cluster
  <2> QED
    BY <1>9, <2>1, <2>2, <2>3, <2>4, <2>5 DEF Es
<1>10. CASE Playbook
  <2>1. CASE PlaybookEnds
    BY <1>1, <2>1 DEF PlaybookEnds, TypeOK, EsOfTheCR, status, cluster
  <2>2. ASSUME NEW x \in {"loop", "started", "remove", "complete"},
               NEW y \in {"loop", "started", "remove", "complete"}, InPlaybook(x, y)
        PROVE  /\ pc' \in {"loop", "started", "remove", "complete"}
               /\ clock' \in {"runs", "lastSecond", "over"}
               /\ UNCHANGED <<kind, inProgress, saved, sched, queue, running, es, revisit>>
    BY <2>2 DEF InPlaybook, TypeOK
  <2>3. CASE TriggerBundlePush
    BY <1>1, <1>3, <2>2, <2>3 DEF TriggerBundlePush, TriggersWith, TypeOK, EsOfTheCR
  <2>4. CASE BundlePushStarted
    BY <1>1, <2>2, <2>4 DEF BundlePushStarted, TypeOK, EsOfTheCR, cluster, Stages
  <2>5. CASE IdxcCheck
    BY <1>1, <2>2, <2>5 DEF IdxcCheck, TypeOK, EsOfTheCR, cluster
  <2>6. CASE ShcCheck
    BY <1>1, <1>3, <2>2, <2>6 DEF ShcCheck, TypeOK, EsOfTheCR, RetryStage, Stages
  <2>7. CASE ShcRemoveFile
    BY <1>1, <1>3, <2>2, <2>7 DEF ShcRemoveFile, TypeOK, EsOfTheCR, Stages
  <2>8. CASE BundlePushDone
    BY <1>1, <2>2, <2>8 DEF BundlePushDone, TypeOK, EsOfTheCR, cluster, Stages
  <2> QED
    BY <1>10, <2>1, <2>3, <2>4, <2>5, <2>6, <2>7, <2>8 DEF Playbook
<1>11. CASE PushEnds
  <2>1. PICK content \in pushes :
          /\ pushes' = pushes \ {content}
          /\ members' = members \cup content \/ members' = members
          /\ file' \in {file, "success", "error", "absent"}
          /\ faults' = faults \/ Fault("push")
          /\ UNCHANGED <<kind, status, saved, entry, revisit, bundle>>
    BY <1>11 DEF PushEnds
  <2> QED
    BY <1>1, <1>3, <2>1 DEF TypeOK, EsOfTheCR, status, entry
<1>12. CASE Crash
  BY <1>1, <1>3, <1>12 DEF Crash, TypeOK, EsOfTheCR, cluster
<1>13. CASE UNCHANGED vars
  BY <1>1, <1>13 DEF vars, TypeOK, EsOfTheCR, status, entry, cluster
<1> QED
  BY <1>4, <1>5, <1>6, <1>7, <1>8, <1>9, <1>10, <1>11, <1>12, <1>13 DEF Next

\* Every variable of the bundle push keeps its type.
THEOREM PushTypeCorrect == Spec => []TypeOK
<1>1. Init => TypeOK /\ EsOfTheCR
  BY PushTypeInit
<1>2. TypeOK /\ EsOfTheCR /\ [Next]_vars => TypeOK' /\ EsOfTheCR'
  BY PushTypeNext
<1> QED
  BY <1>1, <1>2, PTL DEF Spec

-----------------------------------------------------------------------------
(* What is marked as installed was pushed.                                 *)

\* The invariant while none of Limits has happened.
Pushing ==
  /\ CopiedInBundle /\ PendingIsQueued /\ PlaybookIsAlone /\ PushIsComplete
  /\ OnItsWay /\ EveryPushSends
  /\ \A a \in ClusterApps : info[a] = "installed" \/ saved.info[a] = "installed"
                            => a \in members

\* A step of which the playbook and the apps take no notice.
LEMMA PushingQuiet ==
  ASSUME TypeOK, Pushing, IsShc' = IsShc, bundle \subseteq bundle',
         UNCHANGED <<saved, sched, queue, running, pc, pushes, members, file>>,
         stage' = stage \/ stage' = "Pending",
         clock' = clock \/ clock' = "over",
         \A a \in ClusterApps : info'[a] = info[a]
  PROVE  Pushing'
BY DEF Pushing, CopiedInBundle, PendingIsQueued, PlaybookIsAlone, PushIsComplete, OnItsWay,
       Rejected, EveryPushSends, Copied, SavedCopied, NonePending, TypeOK

\* Copying keeps it: a copy runs only while no push does.
LEMMA PushingCopy ==
  ASSUME TypeOK, Pushing, IsShc' = IsShc, NEW a \in ClusterApps, Copy(a)
  PROVE  Pushing'
<1>1. PICK outcome \in {"copied", "pending", "failed"} :
        /\ info' = [info EXCEPT ![a] = outcome]
        /\ bundle' = IF outcome = "copied" THEN bundle \cup {a} ELSE bundle
        /\ queue' = IF sched = "working" /\ outcome # "pending"
                    THEN queue \ {a} ELSE queue
  BY DEF Copy
<1>2. \/ sched = "working" /\ a \in queue /\ running' = running
      \/ a \in running /\ running' = running \ {a}
  BY DEF Copy
<1>3. UNCHANGED <<stage, saved, sched, pc, clock, pushes, members, file>>
  BY DEF Copy
<1>4. info[a] = "pending"
  BY <1>2 DEF Pushing, PendingIsQueued
<1>5. \A b \in ClusterApps : info'[b] = IF b = a THEN outcome ELSE info[b]
  BY <1>1 DEF TypeOK, Apps
<1>6. ~NonePending /\ pc = "loop"
  BY <1>2, <1>4 DEF NonePending, Pushing, PlaybookIsAlone
<1>7. stage # "InProgress" /\ (IsShc => pushes = {} /\ file # "success")
  BY <1>6 DEF Pushing, PushIsComplete, EveryPushSends
<1>8. CopiedInBundle'
  BY <1>1, <1>3, <1>5 DEF Pushing, CopiedInBundle, Copied, SavedCopied
<1>9. PendingIsQueued'
  <2>1. sched # "idle" => \A b \in ClusterApps : info'[b] = "pending" => b \in queue'
    BY <1>1, <1>4, <1>5 DEF Pushing, PendingIsQueued
  <2>2. sched = "working" => \A b \in ClusterApps \cap queue' : info'[b] = "pending"
    BY <1>1, <1>4, <1>5 DEF Pushing, PendingIsQueued
  <2>3. \A b \in running' : info'[b] = "pending"
    <3>1. sched = "working" => running = {}
      BY DEF Pushing, PlaybookIsAlone
    <3> QED
      BY <1>2, <1>5, <3>1 DEF Pushing, PendingIsQueued, TypeOK
  <2> QED
    BY <1>3, <2>1, <2>2, <2>3 DEF PendingIsQueued
<1>10. PlaybookIsAlone'
  BY <1>1, <1>2, <1>3, <1>6 DEF Pushing, PlaybookIsAlone
<1>11. PushIsComplete' /\ OnItsWay' /\ EveryPushSends'
  BY <1>3, <1>6, <1>7 DEF Pushing, PushIsComplete, OnItsWay, Rejected, EveryPushSends,
     SavedCopied
<1> QED
  BY <1>3, <1>5, <1>8, <1>9, <1>10, <1>11 DEF Pushing

\* The entry and the exit of the scheduler, and the yield, keep it.
LEMMA PushingSchedule ==
  ASSUME TypeOK, Pushing, Recoverable', IsShc' = IsShc,
         SchedulerEntry \/ Yield \/ SchedulerExit
  PROVE  Pushing'
<1>1. CASE SchedulerEntry
  <2>1. /\ sched = "idle" /\ sched' = "working" /\ pc' = "loop" /\ clock' = "runs"
        /\ UNCHANGED <<info, stage, saved, running, bundle, pushes, members, file>>
    BY <1>1 DEF SchedulerEntry, status, cluster
  <2>2. queue' = {a \in Apps : EligibleForEntry(a)}
    <3>1. ~Fault("mkdir")
      BY FaultKept DEF Recoverable, Limits
    <3> QED
      BY <1>1, <3>1 DEF SchedulerEntry
  <2>3. \A a \in ClusterApps : a \in queue' <=> info[a] = "pending"
    BY <2>2 DEF EligibleForEntry, Apps
  <2>4. running = {}
    BY <2>1 DEF Pushing, PlaybookIsAlone
  <2> QED
    BY <2>1, <2>3, <2>4 DEF Pushing, CopiedInBundle, PendingIsQueued, PlaybookIsAlone,
       PushIsComplete, OnItsWay, Rejected, EveryPushSends, Copied, SavedCopied, NonePending
<1>2. CASE Yield
  <2>1. /\ sched = "working" /\ sched' = "playbook"
        /\ UNCHANGED <<info, stage, saved, queue, pc, bundle, pushes, members, file>>
    BY <1>2 DEF Yield, status, cluster
  <2>2. \/ queue = {} /\ running' = {}
        \/ running' \subseteq queue \cap ClusterApps /\ clock' = "over"
    <3>1. ~Fault("second")
      BY FaultKept DEF Recoverable, Limits
    <3> QED
      BY <1>2, <3>1 DEF Yield
  <2>3. pc = "loop"
    BY <2>1 DEF Pushing, PlaybookIsAlone
  <2> QED
    BY <2>1, <2>2, <2>3 DEF Pushing, CopiedInBundle, PendingIsQueued, PlaybookIsAlone,
       PushIsComplete, OnItsWay, Rejected, EveryPushSends, Copied, SavedCopied, NonePending
<1>3. CASE SchedulerExit
  <2>1. /\ sched = "waiting" /\ running = {} /\ sched' = "idle"
        /\ saved' = [info |-> info, stage |-> stage, inProgress |-> inProgress']
        /\ UNCHANGED <<info, stage, running, pc, clock, bundle, pushes, members, file>>
    BY <1>3 DEF SchedulerExit, cluster
  <2>2. SavedCopied' = Copied /\ Copied' = Copied
    BY <2>1 DEF SavedCopied, Copied
  <2>3. pc = "loop"
    BY <2>1 DEF Pushing, PlaybookIsAlone
  <2> QED
    BY <2>1, <2>2, <2>3 DEF Pushing, CopiedInBundle, PendingIsQueued, PlaybookIsAlone,
       PushIsComplete, OnItsWay, Rejected, EveryPushSends, NonePending
<1> QED
  BY <1>1, <1>2, <1>3

\* The playbook keeps it.
LEMMA PushingPlaybook ==
  ASSUME TypeOK, Pushing, IsShc' = IsShc, Playbook
  PROVE  Pushing'
<1>1. ASSUME NEW x, NEW y, InPlaybook(x, y)
      PROVE  /\ sched = "playbook" /\ pc = x /\ pc' = y
             /\ clock' # "over" => clock # "over"
             /\ UNCHANGED <<saved, sched, queue, running, es>>
  BY <1>1 DEF InPlaybook, TypeOK
<1>2. NeedToRun /\ sched = "playbook" => queue = {} /\ running = {} /\ NonePending
  BY DEF NeedToRun, Pushing, PlaybookIsAlone, PendingIsQueued, NonePending
<1>3. pc # "loop" => sched = "playbook" /\ queue = {} /\ running = {} /\ NonePending
  BY DEF Pushing, PlaybookIsAlone, PendingIsQueued, NonePending
<1>4. CASE PlaybookEnds
  BY <1>4 DEF PlaybookEnds, status, cluster, Pushing, CopiedInBundle, PendingIsQueued,
     PlaybookIsAlone, PushIsComplete, OnItsWay, Rejected, EveryPushSends, Copied,
     SavedCopied, NonePending
<1>5. CASE TriggerBundlePush
  <2>1. /\ NeedToRun /\ sched = "playbook" /\ UNCHANGED <<info, stage, bundle, members>>
        /\ UNCHANGED <<saved, sched, queue, running>>
        /\ clock' # "over" => clock # "over"
    BY <1>1, <1>5 DEF TriggerBundlePush
  <2>2. \/ pc = "loop" /\ pc' = pc /\ UNCHANGED <<pushes, file>>
        \/ /\ pc' = "started" /\ pushes' = pushes \cup {bundle}
           /\ IsShc \/ pushes = {}
           /\ file' = IF IsShc THEN "empty" ELSE file
    BY <1>1, <1>5 DEF TriggerBundlePush, TriggersWith
  <2>3. queue = {} /\ running = {} /\ NonePending
    BY <1>2, <2>1
  <2>4. NonePending' /\ Copied' = Copied /\ SavedCopied' = SavedCopied
    BY <2>1, <2>3 DEF NonePending, Copied, SavedCopied
  <2>5. CopiedInBundle' /\ PendingIsQueued' /\ PlaybookIsAlone' /\ PushIsComplete'
    BY <2>1, <2>2, <2>3, <2>4 DEF Pushing, CopiedInBundle, PendingIsQueued, PlaybookIsAlone,
       PushIsComplete
  <2>7. OnItsWay'
    <3>1. CASE pc = "loop" /\ pc' = pc /\ UNCHANGED <<pushes, file>>
      BY <2>1, <2>4, <3>1 DEF Pushing, OnItsWay, Rejected
    <3>2. CASE /\ pc' = "started" /\ pushes' = pushes \cup {bundle}
               /\ IsShc \/ pushes = {}
      <4>1. ~IsShc => pushes' = {bundle} /\ UNION pushes' = bundle
        BY <3>2
      <4>2. Copied \subseteq bundle /\ SavedCopied \subseteq bundle
        BY DEF Pushing, CopiedInBundle
      <4> QED
        BY <2>4, <3>2, <4>1, <4>2 DEF OnItsWay
    <3> QED
      BY <2>2, <3>1, <3>2
  <2>8. EveryPushSends'
    BY <2>1, <2>2, <2>4 DEF Pushing, EveryPushSends, CopiedInBundle
  <2> QED
    BY <2>1, <2>5, <2>7, <2>8 DEF Pushing
<1>6. CASE BundlePushStarted
  <2>1. /\ pc = "started" /\ pc' = "loop" /\ stage' = "InProgress"
        /\ UNCHANGED <<info, bundle, pushes, members, file, saved, sched, queue, running>>
        /\ clock' # "over" => clock # "over"
    BY <1>1, <1>6 DEF BundlePushStarted, cluster
  <2> QED
    BY <1>3, <2>1 DEF Pushing, CopiedInBundle, PendingIsQueued, PlaybookIsAlone,
       PushIsComplete, OnItsWay, Rejected, EveryPushSends, Copied, SavedCopied, NonePending
<1>7. CASE IdxcCheck
  <2>1. /\ ~IsShc /\ pushes = {} /\ file # "error" /\ stage = "InProgress" /\ NeedToRun
        /\ sched = "playbook" /\ pc' = "complete"
        /\ UNCHANGED <<info, stage, bundle, pushes, members, file, saved, sched, queue,
                       running>>
        /\ clock' # "over" => clock # "over"
    BY <1>1, <1>7 DEF IdxcCheck, IdxcPushDone, cluster
  <2>2. Copied \subseteq members
    BY <2>1 DEF Pushing, OnItsWay, Rejected
  <2> QED
    BY <1>2, <2>1, <2>2 DEF Pushing, CopiedInBundle, PendingIsQueued, PlaybookIsAlone,
       PushIsComplete, OnItsWay, Rejected, EveryPushSends, Copied, SavedCopied, NonePending
<1>8. CASE ShcCheck
  <2>1. /\ IsShc /\ NeedToRun /\ sched = "playbook"
        /\ UNCHANGED <<info, bundle, pushes, members, saved, sched, queue, running>>
        /\ \/ file = "success" /\ pc' = "remove" /\ UNCHANGED <<stage, file>>
           \/ pc' = "loop" /\ stage' = "Pending" /\ file' = "absent"
        /\ clock' # "over" => clock # "over"
    BY <1>1, <1>8 DEF ShcCheck, ShcPushSucceeded, RetryStage
  <2> QED
    BY <1>2, <2>1 DEF Pushing, CopiedInBundle, PendingIsQueued, PlaybookIsAlone,
       PushIsComplete, OnItsWay, Rejected, EveryPushSends, Copied, SavedCopied, NonePending
<1>9. CASE ShcRemoveFile
  <2>1. /\ pc = "remove"
        /\ UNCHANGED <<info, bundle, pushes, members, saved, sched, queue, running>>
        /\ \/ pc' = "complete" /\ file' = "absent" /\ stage' = stage
           \/ pc' = "loop" /\ file' = file /\ stage' = "InProgress"
        /\ clock' # "over" => clock # "over"
    BY <1>1, <1>9 DEF ShcRemoveFile
  <2>2. IsShc
    BY <2>1 DEF Pushing, OnItsWay, Rejected
  <2> QED
    BY <1>3, <2>1, <2>2 DEF Pushing, CopiedInBundle, PendingIsQueued, PlaybookIsAlone,
       PushIsComplete, OnItsWay, Rejected, EveryPushSends, Copied, SavedCopied, NonePending
<1>10. CASE BundlePushDone
  <2>1. /\ pc = "complete" /\ pc' = "loop" /\ stage' = "Complete"
        /\ UNCHANGED <<bundle, pushes, members, file, saved, sched, queue, running>>
        /\ info' = [a \in Apps |-> IF a \in ClusterApps /\ info[a] = "copied"
                                   THEN "installed" ELSE info[a]]
        /\ clock' # "over" => clock # "over"
    BY <1>1, <1>10 DEF BundlePushDone, cluster
  <2>2. Copied \subseteq members
    BY <2>1 DEF Pushing, OnItsWay, Rejected, EveryPushSends
  <2>3. \A a \in ClusterApps : info'[a] = IF info[a] = "copied" THEN "installed"
                                                               ELSE info[a]
    BY <2>1 DEF Apps
  <2>4. Copied' = {} /\ SavedCopied' = SavedCopied /\ NonePending'
    BY <1>3, <2>1, <2>3 DEF Copied, SavedCopied, NonePending
  <2>5. \A a \in ClusterApps : info'[a] = "installed" \/ saved'.info[a] = "installed"
                               => a \in members'
    BY <2>1, <2>2, <2>3 DEF Pushing, Copied
  <2>6. PendingIsQueued' /\ PlaybookIsAlone'
    BY <1>3, <2>1, <2>3 DEF Pushing, PendingIsQueued, PlaybookIsAlone
  <2> QED
    BY <2>1, <2>4, <2>5, <2>6 DEF Pushing, CopiedInBundle, PushIsComplete, OnItsWay, Rejected,
       EveryPushSends
<1> QED
  BY <1>4, <1>5, <1>6, <1>7, <1>8, <1>9, <1>10 DEF Playbook

\* The end of a push keeps it.
LEMMA PushingEnds ==
  ASSUME TypeOK, Pushing, IsShc' = IsShc, PushEnds
  PROVE  Pushing'
<1>1. PICK content \in pushes :
        /\ pushes' = pushes \ {content}
        /\ \/ /\ members' = members \cup content
              /\ file' = IF IsShc /\ file # "absent" THEN "success" ELSE "absent"
           \/ /\ members' = members
              /\ file' = IF IsShc /\ file = "absent" THEN file ELSE "error"
        /\ UNCHANGED <<info, stage, saved, sched, queue, running, pc, clock, bundle>>
  BY DEF PushEnds, status, entry
<1>2. Copied' = Copied /\ SavedCopied' = SavedCopied /\ NonePending' = NonePending
  BY <1>1 DEF Copied, SavedCopied, NonePending
<1>3. members \subseteq members'
  BY <1>1
<1>4. ~IsShc => \/ Rejected' /\ pushes' = {}
                \/ members \cup UNION pushes \subseteq members' /\ pushes' = {}
  <2> SUFFICES ASSUME ~IsShc
               PROVE  \/ Rejected' /\ pushes' = {}
                      \/ members \cup UNION pushes \subseteq members' /\ pushes' = {}
    OBVIOUS
  <2>1. pushes = {content} /\ pushes' = {}
    BY <1>1 DEF Pushing, OnItsWay
  <2> QED
    BY <1>1, <2>1 DEF Rejected
<1>5. CopiedInBundle' /\ PendingIsQueued' /\ PlaybookIsAlone' /\ PushIsComplete'
  BY <1>1, <1>2 DEF Pushing, CopiedInBundle, PendingIsQueued, PlaybookIsAlone,
     PushIsComplete
<1>6. OnItsWay'
  BY <1>1, <1>2, <1>3, <1>4 DEF Pushing, OnItsWay, Rejected
<1>7. EveryPushSends'
  BY <1>1, <1>2, <1>3 DEF Pushing, EveryPushSends
<1> QED
  BY <1>1, <1>3, <1>5, <1>6, <1>7 DEF Pushing

\* A restart of the operator keeps it, on the cluster manager.
LEMMA PushingCrash ==
  ASSUME TypeOK, Pushing, Recoverable', IsShc' = IsShc, Crash
  PROVE  Pushing'
<1>1. ~IsShc
  BY FaultKept DEF Crash, Recoverable, Limits
<1>2. /\ info' = saved.info /\ stage' = saved.stage /\ saved' = saved
      /\ sched' = "idle" /\ queue' = {} /\ running' = {} /\ pc' = "loop"
      /\ UNCHANGED <<bundle, pushes, members, file>>
  BY DEF Crash, cluster
<1>3. Copied' = SavedCopied /\ SavedCopied' = SavedCopied
  BY <1>2 DEF Copied, SavedCopied
<1> QED
  BY <1>1, <1>2, <1>3 DEF Pushing, CopiedInBundle, PendingIsQueued, PlaybookIsAlone,
     PushIsComplete, OnItsWay, Rejected, EveryPushSends, NonePending

\* What the inductive invariant says while none of Limits has happened.
LEMMA PushInvParts ==
  PushInv <=> TypeOK /\ EsOfTheCR /\ (Recoverable => Pushing)
BY DEF PushInv, Pushing, InstalledIsPushed

LEMMA PushInvPartsNext ==
  PushInv' <=> TypeOK' /\ EsOfTheCR' /\ (Recoverable' => Pushing')
BY PushInvParts, PTL

LEMMA PushInvInit == Init => PushInv
<1> SUFFICES ASSUME Init PROVE PushInv
  OBVIOUS
<1>1. TypeOK /\ EsOfTheCR
  BY PushTypeInit
<1>2. Pushing
  BY DEF Init, Pushing, CopiedInBundle, PendingIsQueued, PlaybookIsAlone, PushIsComplete,
     OnItsWay, Rejected, EveryPushSends, Copied, SavedCopied, NonePending, Apps
<1> QED
  BY <1>1, <1>2, PushInvParts

\* Every step keeps the invariant.
LEMMA PushInvNext == PushInv /\ [Next]_vars => PushInv'
<1> SUFFICES ASSUME PushInv, [Next]_vars PROVE PushInv'
  OBVIOUS
<1>1. TypeOK /\ EsOfTheCR /\ TypeOK' /\ EsOfTheCR'
  BY PushInvParts, PushTypeNext
<1>2. kind' = kind /\ Apps' = Apps /\ IsShc' = IsShc
  BY KindStays
<1> SUFFICES ASSUME Recoverable' PROVE Pushing'
  BY <1>1, PushInvPartsNext
<1>3. Pushing
  <2>1. faults' = faults \/ \E f : Fault(f)
    <3>1. CASE SchedulerEntry \/ Yield \/ SchedulerExit \/ TimePasses \/ Crash \/ PushEnds
      BY <3>1 DEF SchedulerEntry, Yield, SchedulerExit, TimePasses, Crash, PushEnds
    <3>2. ASSUME NEW a, Copy(a) \/ Es(a) PROVE faults' = faults \/ \E f : Fault(f)
      BY <3>2 DEF Copy, Es, EsStart, EsInstall, EsCleanup, EsFlag, EsDrop
    <3>3. CASE Playbook
      BY <3>3 DEF Playbook, PlaybookEnds, TriggerBundlePush, BundlePushStarted, IdxcCheck,
                  ShcCheck, ShcRemoveFile, BundlePushDone
    <3>4. CASE UNCHANGED vars
      BY <3>4 DEF vars
    <3> QED
      BY <3>1, <3>2, <3>3, <3>4 DEF Next
  <2>2. Recoverable
    BY <1>1, <2>1, FaultKept DEF Recoverable
  <2> QED
    BY <2>2, PushInvParts
<1>4. CASE SchedulerEntry \/ Yield \/ SchedulerExit
  BY <1>1, <1>2, <1>3, <1>4, PushingSchedule
<1>5. ASSUME NEW a \in ClusterApps, Copy(a) PROVE Pushing'
  BY <1>1, <1>2, <1>3, <1>5, PushingCopy
<1>6. ASSUME NEW a \in EsApps, Es(a) PROVE Pushing'
  <2>1. a \notin ClusterApps
    BY BundleAssumption
  <2>2. \A b \in ClusterApps : info'[b] = info[b]
    BY <1>1, <1>6, <2>1 DEF Es, EsStart, EsInstall, EsCleanup, EsFlag, EsDrop, TypeOK,
                            Apps, status
  <2>3. CASE EsDrop(a)
    <3>1. /\ queue' = queue \ {a}
          /\ UNCHANGED <<info, stage, saved, sched, running, pc, clock, bundle, pushes,
                         members, file>>
      BY <2>3 DEF EsDrop, status, cluster
    <3> QED
      BY <1>2, <1>3, <2>1, <3>1 DEF Pushing, CopiedInBundle, PendingIsQueued,
         PlaybookIsAlone, PushIsComplete, OnItsWay, Rejected, EveryPushSends, Copied,
         SavedCopied, NonePending
  <2>4. CASE ~EsDrop(a)
    <3>1. /\ UNCHANGED <<saved, sched, queue, running, pc, clock, pushes, members, file>>
          /\ bundle \subseteq bundle' /\ stage' \in {stage, "Pending"}
      BY <1>6, <2>4 DEF Es, EsStart, EsInstall, EsCleanup, EsFlag, AskForPush, status,
                        cluster
    <3> QED
      BY <1>1, <1>2, <1>3, <2>2, <3>1, PushingQuiet
  <2> QED
    BY <2>3, <2>4
<1>7. CASE Playbook
  BY <1>1, <1>2, <1>3, <1>7, PushingPlaybook
<1>8. CASE PushEnds
  BY <1>1, <1>2, <1>3, <1>8, PushingEnds
<1>9. CASE Crash
  BY <1>1, <1>2, <1>3, <1>9, PushingCrash
<1>10. CASE TimePasses \/ UNCHANGED vars
  <2>1. /\ UNCHANGED <<info, stage, saved, sched, queue, running, pc, pushes, members,
                       file, bundle>>
        /\ clock' \in {clock, "over"}
    BY <1>10 DEF TimePasses, vars, status, entry, cluster
  <2> QED
    BY <1>1, <1>2, <1>3, <2>1, PushingQuiet
<1> QED
  BY <1>4, <1>5, <1>6, <1>7, <1>8, <1>9, <1>10 DEF Next

\* A cluster scoped app is marked as installed only when the members of the
\* cluster have it, for any number of apps: whatever copies fail or outlast
\* the yield, whatever pushes fail, overlap or end late, whatever bundles fail
\* their validation, and across restarts of the operator on a cluster manager.
THEOREM InstalledMeansPushed == Spec => []InstalledIsPushed
<1>1. PushInv => InstalledIsPushed
  BY DEF PushInv
<1> QED
  BY <1>1, PushInvInit, PushInvNext, PTL DEF Spec
=============================================================================
