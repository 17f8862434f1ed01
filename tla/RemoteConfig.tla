---------------------------- MODULE RemoteConfig ----------------------------
(***************************************************************************)
(* How remote storage settings and the credentials of a Secret reach the   *)
(* instances, for the four kinds of custom resource that have them:        *)
(*                                                                         *)
(*   ClusterManager  SmartStore: a ConfigMap, which the kubelet refreshes  *)
(*                   on the pod, and a bundle push to the peers;           *)
(*   Standalone      SmartStore: the same ConfigMap, whose resourceVersion *)
(*                   in the pod template makes the pods restart;           *)
(*   IndexerCluster, IngestorCluster                                       *)
(*                   the remote queue: conf files written on every pod     *)
(*                   over REST, and a restart of every instance.           *)
(*                                                                         *)
(* The operator remembers in the status what it has applied, and acts on   *)
(* the difference; it may fail or restart at every step.                   *)
(***************************************************************************)
EXTENDS Naturals, FiniteSets, FiniteSetsExt

CONSTANTS
  Setups,       \* the deployments: a kind and what may happen to it
  Secrets,      \* 1 .. n: the Secrets of the volumes, in the order of the list
  MaxReplicas,  \* bound: pods
  MaxSettings,  \* bound: settings of the user, numbered; 0 is no SmartStore
  Invalid,      \* the SmartStore settings that do not pass the validation
  MaxVersion,   \* bound: resourceVersions of the Secrets
  MaxEvents     \* bound: changes by the user, and faults

Kinds == {"ClusterManager", "Standalone", "IndexerCluster", "IngestorCluster"}
Events == {"settings", "rotate", "early", "account", "scale", "late", "pod"}
Faults == {"keys", "secret", "api", "conflict", "first", "second", "map", "exec", "rest",
           "password", "restart", "status", "crash"}

ASSUME RemoteConfigAssumption ==
  /\ Setups \subseteq [kind : Kinds, happens : SUBSET (Events \cup Faults)]
  /\ MaxReplicas \in Nat \ {0} /\ MaxSettings \in Nat \ {0} /\ Invalid \subseteq Nat \ {0}
  /\ MaxEvents \in Nat /\ MaxVersion \in Nat
  /\ IsFiniteSet(Secrets) /\ Secrets = 1 .. Cardinality(Secrets) /\ Secrets # {}
  /\ MaxVersion > Cardinality(Secrets) + 1

VARIABLES
  setup,     \* the deployment; never changes
  spec,      \* the CR: replicas, SmartStore settings, is there a service account
  secret,    \* the Secrets: resourceVersion, and are both keys there
  map,       \* the SmartStore ConfigMap: contents, token, resourceVersion
  lately,    \* TRUE: less than five seconds since its token was written
  sts,       \* the StatefulSet: replicas, and the ConfigMap in its pod template:
             \* its revision, 1 for any revision, 0 for none
  pod,       \* the pods: what is on disk and what the instance runs with
  status,    \* the status of the CR as it is stored
  queued,    \* is the CR in the work queue
  pc, at,    \* where the reconcile is, and the pod it works on
  cr, st,    \* the spec it has read, and the status it will store
  cfg,       \* the configuration it has put together
  ready,     \* Status.ReadyReplicas, as it has read it
  failed,    \* has a write to a pod failed
  happened   \* events and faults so far

world == <<spec, secret, map, lately, sts, pod>>
recon == <<pc, at, cr, st, cfg, ready, failed>>
vars == <<setup, world, status, queued, recon, happened>>

Ordinals == 0 .. MaxReplicas - 1
LastSecret == Max(Secrets)

\* Values of CredentialSecretVersion that are no resourceVersion: "" and "0".
NoVersion == 0
ResetVersion == 1
Versions == 0 .. MaxVersion

\* A configuration: the settings, and the keys by the version of their Secret.
NoKeys == [s \in Secrets |-> 0]
Config == [settings : 0 .. MaxSettings, keys : [Secrets -> Versions]]
Nothing == [settings |-> 0, keys |-> NoKeys]

Specs == [replicas : 1 .. MaxReplicas, settings : 0 .. MaxSettings, account : BOOLEAN]

\* Status: Replicas, SmartStore, ResourceRevMap, NeedToPushManagerApps, "was
\* LastCheckInterval less than five seconds ago", CredentialSecretVersion and
\* ServiceAccount.
Statuses == [replicas : 0 .. MaxReplicas, settings : 0 .. MaxSettings,
             rev : [Secrets -> Versions], push : BOOLEAN, checked : BOOLEAN,
             version : Versions, account : BOOLEAN]
NoStatus == [replicas |-> 0, settings |-> 0, rev |-> NoKeys, push |-> FALSE,
             checked |-> FALSE, version |-> NoVersion, account |-> FALSE]

PodStates == [new : BOOLEAN, up : BOOLEAN, rev : Nat, disk : Config, token : Nat, run : Config]
Absent == [new |-> TRUE, up |-> FALSE, rev |-> 0, disk |-> Nothing, token |-> 0, run |-> Nothing]

Manager == setup.kind = "ClusterManager"
Standalone == setup.kind = "Standalone"
SmartStore == Manager \/ Standalone
Queue == ~SmartStore
Peers == setup.kind = "IndexerCluster"

Count == happened' = [happened EXCEPT !.n = @ + 1]
Happens(e) == e \in setup.happens /\ happened.n < MaxEvents
Event(e) == Happens(e) /\ Count
\* A fault happens once.
Fault(f) == /\ Happens(f) /\ f \notin happened.faults
            /\ happened' = [n |-> happened.n + 1, faults |-> happened.faults \cup {f}]
Fine == UNCHANGED happened

\* The controllers watch the CR and the objects it owns.
Enqueued == queued' = TRUE

\* They also watch the Secrets that the volumes of its queue name, in its
\* namespace.  The Secret of a SmartStore volume is watched by its owner, which
\* it has in the middle of a reconcile only: GetSmartstoreRemoteVolumeSecrets
\* makes the CR its owner, and ignores when that fails;
\* DeleteOwnerReferencesForS3SecretObjects undoes it before the StatefulSet is
\* looked at.  An owner that a failed reconcile left behind is still there in
\* the next.  (The two writes also change the resourceVersion, so that keys that
\* have not changed may be rendered again; rv is a version of the keys.)
MaybeOwned == SmartStore /\ pc \in {"keys", "render", "write", "token", "pods"}
SecretEnqueued(s) ==
  /\ s \in Secrets
  /\ \/ (Queue \/ MaybeOwned) /\ queued' = TRUE
     \/ SmartStore /\ UNCHANGED queued

\* The CR has just been created; its Secrets are there.
Init ==
  /\ setup \in Setups
  /\ spec \in [replicas : 1 .. IF Manager THEN 1 ELSE MaxReplicas,
               settings : IF SmartStore THEN {0, 1} ELSE {1}, account : {FALSE}]
  /\ secret = [s \in Secrets |-> [rv |-> s + 1, ok |-> TRUE]]
  /\ map = [data |-> Nothing, token |-> 0, rv |-> 0] /\ lately = FALSE
  /\ sts = [replicas |-> 0, rev |-> 0] /\ pod = [n \in Ordinals |-> Absent]
  /\ status = NoStatus /\ st = NoStatus /\ queued = TRUE
  /\ pc = "idle" /\ at = 0 /\ cr = spec /\ cfg = Nothing /\ ready = 0 /\ failed = FALSE
  /\ happened = [n |-> 0, faults |-> {}]

----------------------------------------------------------------------------
(* The start and the end of a reconcile                                     *)

\* Mutant: pods that are added do not make the operator write the files again.
KeepsVersion(s) == [s EXCEPT !.replicas = spec.replicas]

\* New pods need the queue configuration: what was applied is forgotten.
Scaled(s) ==
  IF Queue /\ s.replicas < spec.replicas
  THEN [s EXCEPT !.replicas = spec.replicas, !.version = ResetVersion, !.account = FALSE]
  ELSE [s EXCEPT !.replicas = spec.replicas]

\* ValidateSplunkSmartstoreSpec, for settings that have changed
Rejected == SmartStore /\ status.settings # spec.settings /\ spec.settings \in Invalid

Load ==
  /\ pc = "idle" /\ queued /\ cr' = spec
  /\ \/ Rejected /\ pc' = "save" /\ queued' = TRUE /\ st' = status
     \/ /\ ~Rejected /\ queued' = FALSE /\ st' = Scaled(status)
        /\ pc' = (CASE SmartStore -> "keys" [] Peers -> "ready" [] OTHER -> "pods")
  /\ at' = 0 /\ cfg' = Nothing /\ ready' = 0 /\ failed' = FALSE
  /\ UNCHANGED <<setup, world, status, happened>>

Goes(next) == pc' = next /\ UNCHANGED queued
\* The watch of the ConfigMap queues the CR that is being reconciled.
GoesWatched(next) == pc' = next /\ Enqueued
\* The reconcile is over; one that was not successful is repeated.
Returns == pc' = "save" /\ UNCHANGED queued
Requeues == pc' = "save" /\ queued' = TRUE

\* The deferred updateCRStatus: after ten failures it gives up silently.
Save ==
  /\ pc = "save" /\ pc' = "idle"
  /\ \/ Fine /\ status' = st
     \/ Fault("status") /\ UNCHANGED status
  /\ UNCHANGED <<setup, world, queued, at, cr, st, cfg, ready, failed>>

----------------------------------------------------------------------------
(* SmartStore: the ConfigMap                                                *)

\* AreRemoteVolumeKeysChanged goes through the volumes up to the first whose
\* Secret it already tracks, and looks at that one only.
Tracked == {s \in Secrets : st.rev[s] # 0}
Looked == IF Tracked = {} THEN Secrets ELSE 1 .. Min(Tracked)
KeysChanged == Tracked # {} /\ st.rev[Min(Tracked)] # secret[Min(Tracked)].rv
Tracks == st' = [st EXCEPT !.rev = [s \in Secrets |->
                                      IF s \in Looked THEN secret[s].rv ELSE @[s]]]

\* The keys are looked at only when the settings have not changed.  A
\* Standalone goes on when it cannot read them.
CheckKeys ==
  /\ pc = "keys"
  /\ \/ st.settings # cr.settings /\ Goes("render") /\ UNCHANGED st /\ Fine
     \/ st.settings = cr.settings /\ cr.settings = 0 /\ Goes("pods") /\ UNCHANGED st /\ Fine
     \/ /\ st.settings = cr.settings /\ cr.settings # 0
        /\ \/ Tracks /\ Goes(IF KeysChanged THEN "render" ELSE "pods") /\ Fine
           \/ /\ Fault("keys") /\ UNCHANGED st
              /\ IF Manager THEN Requeues ELSE Goes("pods")
  /\ UNCHANGED <<setup, world, status, at, cr, cfg, ready, failed>>

\* GetSmartstoreVolumesConfig reads the Secrets again.
Rendered ==
  IF cr.settings = 0 THEN Nothing
  ELSE [settings |-> cr.settings, keys |-> [s \in Secrets |-> secret[s].rv]]
Readable == cr.settings = 0 \/ \A s \in Secrets : secret[s].ok

Render ==
  /\ pc = "render"
  /\ \/ Readable /\ cfg' = Rendered /\ Goes("write") /\ Fine
     \/ /\ (~Readable /\ Fine) \/ (cr.settings # 0 /\ Fault("secret"))
        /\ Requeues /\ UNCHANGED cfg
  /\ UNCHANGED <<setup, world, status, at, cr, st, ready, failed>>

\* Mutant: the change of the ConfigMap is not remembered for the push.
ForgetsPush(changed) == st' = [st EXCEPT !.settings = cr.settings]

\* What the status notes of a ConfigMap that was applied.
Noted(changed) ==
  st' = [st EXCEPT !.settings = cr.settings,
                   !.push = @ \/ (Manager /\ changed),
                   !.checked = @ \/ (Manager /\ changed)]

\* ApplySmartstoreConfigMap: first the contents, with the token that is there,
Exists == map.rv # 0
WriteMap ==
  /\ pc = "write"
  /\ \/ Exists /\ map.data = cfg /\ Noted(FALSE) /\ Goes("pods") /\ UNCHANGED map /\ Fine
     \/ /\ ~(Exists /\ map.data = cfg)
        /\ \/ map' = [map EXCEPT !.data = cfg, !.rv = @ + 1] /\ GoesWatched("token") /\ Fine
           \/ Fault("api") /\ Requeues /\ UNCHANGED map
        /\ UNCHANGED st
  /\ UNCHANGED <<setup, spec, secret, lately, sts, pod, status, at, cr, cfg, ready, failed>>

\* "first": the fault hits a ConfigMap that has no token yet.
Tokenless == pc = "token" /\ map.token = 0

\* then a new token, the time in seconds.  A conflict that outlasts ten
\* attempts is an error; the contents have been written.
WriteToken ==
  /\ pc = "token"
  /\ \/ /\ map' = [map EXCEPT !.token = @ + 1, !.rv = @ + 1] /\ lately' = TRUE
        /\ Noted(TRUE) /\ GoesWatched("pods") /\ Fine
     \/ /\ lately /\ Fault("second")     \* the token of the previous change
        /\ Noted(FALSE) /\ Goes("pods") /\ UNCHANGED <<map, lately>>
     \/ /\ Fault(IF Tokenless THEN "first" ELSE "conflict")
        /\ Requeues /\ UNCHANGED <<map, lately, st>>
  /\ UNCHANGED <<setup, spec, secret, sts, pod, status, at, cr, cfg, ready, failed>>

----------------------------------------------------------------------------
(* The StatefulSet, in detail in StatefulSetPods                            *)

\* The template mounts a ConfigMap that exists; that of a Standalone names its
\* revision.  getSmartstoreConfigMap takes a ConfigMap it cannot read for one
\* that does not exist.
Template(t) ==
  \/ t = (CASE Standalone -> map.rv [] Manager /\ Exists -> 1 [] OTHER -> 0) /\ Fine
  \/ SmartStore /\ Exists /\ t = 0 /\ Fault("map")

\* Peers are decommissioned before they are removed, which takes more than one
\* reconcile.
Drains == /\ Peers /\ cr.replicas < sts.replicas
          /\ status.replicas # cr.replicas

Sized(n) == [m \in Ordinals |-> IF m < n THEN pod[m] ELSE Absent]
AllUp == \A n \in Ordinals : n < sts.replicas => pod[n].up
Old(n) == n < sts.replicas /\ pod[n].up /\ pod[n].rev # sts.rev

\* updateStatus of the peers notes how many are ready; none is not enough.
PodsUp == Cardinality({n \in Ordinals : pod[n].up})
ReadReady ==
  /\ pc = "ready" /\ ready' = PodsUp
  /\ IF PodsUp = 0 /\ sts.replicas # 0 THEN Requeues ELSE Goes("pods")
  /\ UNCHANGED <<setup, world, status, at, cr, st, cfg, failed, happened>>

\* "late": a pod may become ready before the StatefulSet is fetched again.
\* Otherwise no time passes in between.
Noticed == ready' = IF Peers /\ "late" \notin setup.happens THEN PodsUp ELSE ready

\* An update ends the reconcile; so do pods that are not ready, and the
\* restart of one with an old template.  A pod that is removed loses its disk.
ApplyPods ==
  /\ pc = "pods" /\ Noticed
  /\ \E t \in 0 .. map.rv : Template(t) /\
       \/ /\ Drains /\ Requeues /\ UNCHANGED <<sts, pod>>
       \/ /\ ~Drains /\ sts # [replicas |-> cr.replicas, rev |-> t]
          /\ sts' = [replicas |-> cr.replicas, rev |-> t]
          /\ pod' = Sized(cr.replicas) /\ Requeues
       \/ /\ sts = [replicas |-> cr.replicas, rev |-> t] /\ UNCHANGED sts
          /\ \/ ~AllUp /\ Requeues /\ UNCHANGED pod
             \/ /\ AllUp /\ Requeues
                /\ \E n \in Ordinals : Old(n) /\ pod' = [pod EXCEPT ![n].up = FALSE]
             \/ /\ AllUp /\ (\A n \in Ordinals : ~Old(n)) /\ UNCHANGED pod
                /\ \/ Manager /\ Goes("push")
                   \/ Standalone /\ Returns
                   \/ Queue /\ Goes("resolve")
  /\ UNCHANGED <<setup, spec, secret, map, lately, status, at, cr, st, cfg, failed>>

----------------------------------------------------------------------------
(* ClusterManager: PerformCmBundlePush                                      *)

\* Mutant: the token on the pod is not compared.
AnyToken == TRUE

\* CheckIfsmartstoreConfigMapUpdatedToPod
TokenMatches == pod[0].token = map.token

\* Nothing is tried within five seconds of the last attempt.  The token is
\* read, and the links restored, through a shell in the pod.
CheckToken ==
  /\ pc = "push"
  /\ \/ ~st.push /\ Returns /\ UNCHANGED st /\ Fine
     \/ st.push /\ st.checked /\ Requeues /\ UNCHANGED st /\ Fine
     \/ /\ st.push /\ ~st.checked /\ st' = [st EXCEPT !.checked = TRUE]
        /\ \/ pod[0].up /\ TokenMatches /\ Goes("send") /\ Fine
           \/ ~(pod[0].up /\ TokenMatches) /\ Requeues /\ Fine
           \/ Fault("exec") /\ Requeues
  /\ UNCHANGED <<setup, world, status, at, cr, cfg, ready, failed>>

\* What the peers run with is what the manager had on disk.
PushBundle ==
  /\ pc = "send"
  /\ LET pushed == [pod EXCEPT ![0].run = pod[0].disk] IN
       \/ /\ pod[0].up /\ pod' = pushed /\ st' = [st EXCEPT !.push = FALSE]
          /\ Returns /\ Fine
       \/ ~pod[0].up /\ Requeues /\ UNCHANGED <<pod, st>> /\ Fine
       \/ Fault("rest") /\ pod[0].up /\ pod' \in {pod, pushed} /\ Requeues /\ UNCHANGED st
  /\ UNCHANGED <<setup, spec, secret, map, lately, sts, status, at, cr, cfg, ready, failed>>

----------------------------------------------------------------------------
(* IndexerCluster and IngestorCluster: the queue                            *)

\* secretChanged || serviceAccountChanged
QueueChanged(version) == st.version # version \/ st.account # cr.account

\* ResolveQueueAndObjectStorage: with a service account there are no keys;
\* otherwise the last volume wins.
QueueConfig == [settings |-> cr.settings,
                keys |-> IF cr.account THEN NoKeys
                         ELSE [NoKeys EXCEPT ![LastSecret] = secret[LastSecret].rv]]
QueueVersion == IF cr.account THEN NoVersion ELSE secret[LastSecret].rv

Resolve ==
  /\ pc = "resolve"
  /\ \/ /\ cr.account \/ \A s \in Secrets : secret[s].ok
        /\ cfg' = QueueConfig /\ Fine
        /\ IF QueueChanged(QueueVersion) THEN Goes("conf") ELSE Returns
     \/ /\ ~cr.account /\ UNCHANGED cfg /\ Requeues
        /\ ((\E s \in Secrets : ~secret[s].ok) /\ Fine) \/ Fault("secret")
  /\ UNCHANGED <<setup, world, status, at, cr, st, ready, failed>>

\* The peers that were ready, and every pod of the ingestors.
LastPod == at = (IF Peers THEN ready ELSE cr.replicas) - 1
LastRestart == at = cr.replicas - 1

\* Keys are written when there are some, and never removed.
Written(disk) == [cfg EXCEPT !.keys = IF @ = NoKeys THEN disk.keys ELSE @]

\* updateIndexerConfFiles, updateIngestorConfFiles: a password that cannot be
\* read ends the loop, a failed write is remembered.
UpdateConf ==
  /\ pc = "conf"
  /\ LET written == [pod EXCEPT ![at].disk = Written(@)] IN
       \/ /\ Fault("password") /\ Requeues /\ UNCHANGED <<pod, at, failed>>
       \/ /\ \/ pod[at].up /\ pod' = written /\ failed' = failed /\ Fine
             \/ ~pod[at].up /\ failed' = TRUE /\ UNCHANGED pod /\ Fine
             \/ pod[at].up /\ Fault("rest") /\ failed' = TRUE /\ pod' \in {pod, written}
          /\ \/ ~LastPod /\ at' = at + 1 /\ Goes("conf")
             \/ LastPod /\ at' = 0 /\ IF failed' THEN Requeues ELSE Goes("restart")
  /\ UNCHANGED <<setup, spec, secret, map, lately, sts, status, cr, st, cfg, ready>>

\* RestartSplunk on each instance in turn; the versions are noted after the
\* last of them.
RestartSplunk ==
  /\ pc = "restart"
  /\ LET down == [pod EXCEPT ![at].up = FALSE] IN
       \/ /\ pod[at].up /\ pod' = down /\ Fine
          /\ \/ ~LastRestart /\ at' = at + 1 /\ Goes("restart") /\ UNCHANGED st
             \/ /\ LastRestart /\ at' = 0 /\ Returns
                /\ st' = [st EXCEPT !.version = IF cr.account THEN NoVersion
                                                ELSE cfg.keys[LastSecret],
                                    !.account = cr.account]
       \/ /\ ~pod[at].up /\ Requeues /\ Fine /\ UNCHANGED <<pod, at, st>>
       \/ /\ pod[at].up /\ Fault("restart") /\ pod' \in {pod, down} /\ Requeues
          /\ UNCHANGED <<at, st>>
  /\ UNCHANGED <<setup, spec, secret, map, lately, sts, status, cr, cfg, ready, failed>>

----------------------------------------------------------------------------
(* Kubernetes, the user, and crashes                                        *)

\* A pod starts, or Splunk in it restarts.  A volume of the ConfigMap is
\* mounted when there is one, which takes a ConfigMap with a token.  A manager makes its first bundle of what it
\* finds; later the bundle stays the one that was pushed.
Boot(n) ==
  /\ n < sts.replicas /\ ~pod[n].up /\ (sts.rev # 0 => map.token # 0) /\ Enqueued
  /\ LET disk == IF Queue THEN pod[n].disk
                 ELSE IF sts.rev # 0 THEN map.data ELSE Nothing IN
       pod' = [pod EXCEPT ![n] = [new |-> FALSE, up |-> TRUE, rev |-> sts.rev, disk |-> disk,
                                  token |-> IF sts.rev # 0 THEN map.token ELSE 0,
                                  run |-> IF Manager /\ ~@.new THEN @.run ELSE disk]]
  /\ UNCHANGED <<setup, spec, secret, map, lately, sts, status, recon, happened>>

\* The kubelet refreshes the ConfigMap on the pod of the manager.
Refresh ==
  /\ Manager /\ pod[0].up /\ pod[0].rev # 0
  /\ <<pod[0].disk, pod[0].token>> # <<map.data, map.token>>
  /\ pod' = [pod EXCEPT ![0].disk = map.data, ![0].token = map.token]
  /\ UNCHANGED <<setup, spec, secret, map, lately, sts, status, queued, recon, happened>>

\* Five seconds pass.
Tick ==
  /\ lately \/ status.checked \/ st.checked
  /\ lately' = FALSE
  /\ status' = [status EXCEPT !.checked = FALSE] /\ st' = [st EXCEPT !.checked = FALSE]
  /\ UNCHANGED <<setup, spec, secret, map, sts, pod, queued, pc, at, cr, cfg, ready, failed, happened>>

\* The user edits the CR: the watch queues it.
EditSpec ==
  /\ \/ /\ SmartStore /\ Event("settings")
        /\ \E s \in 1 .. MaxSettings : s > spec.settings /\ spec' = [spec EXCEPT !.settings = s]
     \/ Queue /\ Event("account") /\ spec' = [spec EXCEPT !.account = ~@]
     \/ /\ ~Manager /\ Event("scale")
        /\ \E r \in 1 .. MaxReplicas : r # spec.replicas /\ spec' = [spec EXCEPT !.replicas = r]
  /\ Enqueued
  /\ UNCHANGED <<setup, secret, map, lately, sts, pod, status, recon>>

\* The user writes a Secret, perhaps without one of the keys.  "early":
\* SmartStore, before it is tracked.
NextVersion == Max({secret[s].rv : s \in Secrets}) + 1
IsTracked == Queue \/ \A s \in Secrets : status.rev[s] # 0
EditSecret ==
  /\ NextVersion <= MaxVersion
  /\ IF IsTracked THEN Event("rotate") ELSE Event("early")
  /\ \E s \in Secrets, ok \in BOOLEAN :
       secret' = [secret EXCEPT ![s] = [rv |-> NextVersion, ok |-> ok]] /\ SecretEnqueued(s)
  /\ UNCHANGED <<setup, spec, map, lately, sts, pod, status, recon>>

\* A pod restarts by itself, on the same volume.
PodFails ==
  /\ Event("pod")
  /\ \E n \in Ordinals : pod[n].up /\ pod' = [pod EXCEPT ![n].up = FALSE]
  /\ Enqueued
  /\ UNCHANGED <<setup, spec, secret, map, lately, sts, status, recon>>

\* The operator restarts: what it has not stored is lost.
Crash ==
  /\ pc # "idle" /\ Fault(IF Tokenless THEN "first" ELSE "crash")
  /\ pc' = "idle" /\ queued' = TRUE
  /\ UNCHANGED <<setup, world, status, at, cr, st, cfg, ready, failed>>

Reconcile ==
  \/ Load \/ ReadReady \/ CheckKeys \/ Render \/ WriteMap \/ WriteToken \/ ApplyPods
  \/ CheckToken \/ PushBundle \/ Resolve \/ UpdateConf \/ RestartSplunk \/ Save

Next ==
  \/ Reconcile \/ Refresh \/ Tick \/ (\E n \in Ordinals : Boot(n))
  \/ EditSpec \/ EditSecret \/ PodFails \/ Crash

\* The work queue is served, pods come up, the kubelet refreshes its mounts.
Fairness ==
  /\ WF_vars(Reconcile) /\ WF_vars(Refresh) /\ WF_vars(Tick)
  /\ \A n \in Ordinals : WF_vars(Boot(n))
Spec == Init /\ [][Next]_vars /\ Fairness

----------------------------------------------------------------------------
(* Properties                                                               *)

\* Every variable has its type.
TypeOK ==
  /\ setup \in Setups /\ spec \in Specs /\ cr \in Specs
  /\ secret \in [Secrets -> [rv : Versions, ok : BOOLEAN]]
  /\ map \in [data : Config, token : Nat, rv : Nat] /\ lately \in BOOLEAN
  /\ sts \in [replicas : 0 .. MaxReplicas, rev : Nat]
  /\ pod \in [Ordinals -> PodStates]
  /\ status \in Statuses /\ st \in Statuses /\ queued \in BOOLEAN
  /\ pc \in {"idle", "keys", "ready", "render", "write", "token", "pods", "push", "send",
             "resolve", "conf", "restart", "save"}
  /\ at \in Ordinals /\ ready \in 0 .. MaxReplicas /\ cfg \in Config /\ failed \in BOOLEAN
  /\ happened \in [n : 0 .. MaxEvents, faults : SUBSET Faults]

\* What the stored status says was applied is on the instances: of the queue,
\* the keys of that version, or of a later one that is being applied, are on
\* every disk and in every instance that is up; of SmartStore, the peers run
\* with the settings when no push is pending.
StatusIsApplied ==
  /\ Queue /\ status.version > ResetVersion =>
       \A n \in Ordinals : n < status.replicas /\ n < sts.replicas =>
         /\ pod[n].disk.keys[LastSecret] >= status.version
         /\ pod[n].up => pod[n].run.keys[LastSecret] >= status.version
  /\ Manager /\ ~status.push => pod[0].run.settings >= status.settings

\* A bundle push sends the contents of the ConfigMap, not those of an earlier
\* one that the kubelet has left on the pod.
PushIsCurrent == [][Manager /\ pod'[0].run # pod[0].run => pod'[0].run = map.data]_vars

\* The keys of a SmartStore volume were changed when nothing made the CR look.
Overlooked(s) == SmartStore /\ ~queued /\ status.rev[s] # secret[s].rv

\* The keys that the instances should run with; nobody removes static keys
\* when a service account takes over.
RunsWanted(n) ==
  LET run == pod[n].run IN
    /\ run.settings = spec.settings
    /\ \/ spec.settings = 0 \/ spec.account
       \/ SmartStore /\ \A s \in Secrets : run.keys[s] = secret[s].rv \/ Overlooked(s)
       \/ Queue /\ run.keys[LastSecret] = secret[LastSecret].rv

\* Every change of the settings, the Secret, the service account or the number
\* of pods reaches every instance, when the settings end up valid and the
\* Secrets with both keys.  Keys of SmartStore that change while the CR is at
\* rest do so when it is next reconciled, for whatever reason.
ConfigReachesInstances ==
  <>[](spec.settings \notin Invalid /\ (\A s \in Secrets : secret[s].ok) =>
         \A n \in Ordinals : n < spec.replicas => pod[n].up /\ RunsWanted(n))
=============================================================================
