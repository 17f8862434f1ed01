------------------------- MODULE RemoteConfigProofs -------------------------
(***************************************************************************)
(* Theorems about RemoteConfig, for any number of pods, settings, Secrets  *)
(* and events: what the status says was applied is on the instances, and a *)
(* bundle push is current.                                                 *)
(***************************************************************************)
EXTENDS RemoteConfig, FiniteSetTheorems, WellFoundedInduction, TLAPS

----------------------------------------------------------------------------
(* The hypothesis                                                           *)

\* The faults that each kind recovers from (README, Known limits): what comes
\* between the contents of the ConfigMap, its token and the note of it in the
\* status loses the push of a ClusterManager; a peer that becomes ready in the
\* middle of a reconcile is not configured; an ingestor that is scaled down and
\* up again is not, when the status in between was lost.
Recovers(s) ==
  /\ s.kind = "ClusterManager" =>
       s.happens \cap {"first", "second", "conflict", "status", "crash"} = {}
  /\ s.kind = "IndexerCluster" => "late" \notin s.happens
  /\ s.kind = "IngestorCluster" /\ "scale" \in s.happens => s.happens \cap {"status", "crash"} = {}

Recoverable == \A s \in Setups : Recovers(s)

----------------------------------------------------------------------------
(* The inductive invariants                                                 *)

SmartStoreSteps == {"keys", "render", "write", "token", "push", "send"}
QueueSteps == {"ready", "resolve", "conf", "restart"}

\* A reconcile is at a step of its kind, and at a pod that exists; a pod that the
\* StatefulSet does not have is not up.
InStep ==
  /\ SmartStore => pc \notin QueueSteps
  /\ Queue => pc \notin SmartStoreSteps
  /\ pc \in {"push", "send"} => Manager
  /\ pc = "ready" => Peers
  /\ Peers /\ pc = "pods" => ready # 0 \/ sts.replicas = 0
  /\ pc \in {"push", "send", "resolve", "conf", "restart"} => sts.replicas = cr.replicas
  /\ pc = "conf" => at < (IF Peers THEN ready ELSE cr.replicas)
  /\ pc \in {"resolve", "conf"} => (Peers => ready # 0)
  /\ pc = "resolve" => at = 0
  /\ pc = "restart" => at < cr.replicas
  /\ pc \in {"keys", "render", "write", "token", "ready", "pods"} => at = 0
  /\ \A n \in Ordinals : n >= sts.replicas => ~pod[n].up

\* The token on the pod tells whether the contents are those of the ConfigMap.
TokenTells ==
  Manager =>
    /\ pod[0].token <= map.token
    /\ pc # "token" /\ pod[0].token = map.token => pod[0].disk = map.data
    /\ pc # "token" /\ map.token = 0 => map.data = Nothing
    /\ pod[0].token # 0 => pod[0].rev # 0
    /\ pod[0].new => ~pod[0].up /\ pod[0].run = Nothing

\* What a push that was found to be due will send.
SendsCurrent ==
  Manager =>
    /\ pc \in {"push", "send"} /\ pod[0].up => pod[0].rev = sts.rev
    /\ pc = "send" => /\ sts.rev # 0 \/ map.data = Nothing
                      /\ pod[0].up => pod[0].disk = map.data

\* Settings only grow on their way from the spec to the peers.
SettingsGrow ==
  Manager =>
    /\ cr.settings <= spec.settings
    /\ IF pc = "idle" THEN map.data.settings <= spec.settings ELSE map.data.settings <= cr.settings
    /\ pc \in {"write", "token"} => cfg.settings = cr.settings
    /\ pc = "token" => map.data = cfg
    /\ pod[0].run.settings <= map.data.settings

\* A change of the ConfigMap is noted in the status until it is pushed.
PushIsNoted ==
  Manager =>
    /\ pc = "idle" => status.push = st.push /\ status.settings = st.settings
    /\ pc # "token" => st.push \/ pod[0].run.settings >= map.data.settings
    /\ st.settings <= map.data.settings
    /\ status.push \/ pod[0].run.settings >= status.settings

Key(n) == pod[n].disk.keys[LastSecret]
RunKey(n) == pod[n].run.keys[LastSecret]

\* No key is newer than the Secret, and the one that is written not older than
\* those on the disks.
KeysGrow ==
  Queue =>
    /\ cfg.keys[LastSecret] <= secret[LastSecret].rv
    /\ \A n \in Ordinals : Key(n) <= secret[LastSecret].rv
    /\ pc \in {"conf", "restart"} =>
         cfg.keys = NoKeys \/ \A n \in Ordinals : Key(n) <= cfg.keys[LastSecret]

\* How far the loops over the pods have come.
LoopsApply ==
  Queue =>
    /\ pc # "idle" => st.replicas = cr.replicas
    /\ Peers /\ pc \in {"resolve", "conf", "restart"} => ready = cr.replicas
    /\ pc = "conf" /\ ~failed => \A n \in 0 .. at - 1 : Key(n) >= cfg.keys[LastSecret]
    /\ pc = "restart" =>
         /\ \A n \in 0 .. cr.replicas - 1 : Key(n) >= cfg.keys[LastSecret]
         /\ \A n \in 0 .. at - 1 : pod[n].up => RunKey(n) >= cfg.keys[LastSecret]

\* What a status says of the queue is true of the pods that it counts.
Applied(s) ==
  s.version > ResetVersion =>
    \A n \in Ordinals : n < s.replicas /\ n < sts.replicas =>
      /\ Key(n) >= s.version
      /\ pod[n].up => RunKey(n) >= s.version

\* It counts no pod that a scale up would have to create.
Covered(s) == s.version > ResetVersion => s.replicas <= sts.replicas

Stable == "scale" \notin setup.happens
VersionsAreTrue ==
  Queue =>
    /\ Applied(status)
    /\ pc # "idle" => Applied(st) /\ Covered(st)
    /\ Peers \/ Stable \/ pc \in {"idle", "pods"} => Covered(status)
    /\ Stable => spec.replicas = cr.replicas /\ (sts.replicas = 0 \/ sts.replicas = cr.replicas)

TypeInv == TypeOK /\ InStep
ManagerInv == TypeInv /\ TokenTells /\ SendsCurrent
SettingsInv == ManagerInv /\ SettingsGrow /\ PushIsNoted
QueueInv == TypeInv /\ KeysGrow /\ LoopsApply /\ VersionsAreTrue

----------------------------------------------------------------------------
(* Constants and numbers                                                    *)

\* Every set of numbers that is not empty has a least element.
LEMMA LeastOf ==
  ASSUME NEW T \in SUBSET Nat, T # {} PROVE Min(T) \in T /\ \A y \in T : Min(T) <= y
<1>1. IsWellFoundedOn(OpToRel(<, Nat), Nat)  BY NatLessThanWellFounded
<1>2. PICK x \in T : \A y \in T : ~(<<y, x>> \in OpToRel(<, Nat))  BY <1>1, WFMin
<1>3. \A y \in T : ~(y < x)  BY <1>2 DEF OpToRel
<1>4. \A y \in T : x <= y  BY <1>3
<1> QED  BY <1>4 DEF Min

\* One that is bounded has a greatest element.
LEMMA GreatestOf ==
  ASSUME NEW b \in Nat, NEW T \in SUBSET (0 .. b), T # {} PROVE Max(T) \in T /\ \A y \in T : Max(T) >= y
<1> DEFINE U == {x \in 0 .. b : b - x \in T}
<1>1. U \in SUBSET Nat  OBVIOUS
<1>2. U # {}
  <2>1. PICK x \in T : TRUE  OBVIOUS
  <2>2. b - x \in 0 .. b /\ b - (b - x) = x  BY <2>1
  <2> QED  BY <2>1, <2>2
<1>3. PICK u \in U : \A y \in U : u <= y  BY <1>1, <1>2, LeastOf
<1>4. ASSUME NEW y \in T PROVE b - u >= y
  <2>1. b - y \in 0 .. b /\ b - (b - y) = y /\ y \in Nat  OBVIOUS
  <2>2. b - y \in U  BY <2>1
  <2>3. u <= b - y /\ u \in 0 .. b  BY <1>3, <2>2
  <2> QED  BY <2>1, <2>3
<1>5. b - u \in T  BY <1>3
<1> QED  BY <1>4, <1>5 DEF Max

LEMMA ConstantTypes ==
  /\ MaxReplicas \in Nat \ {0} /\ MaxSettings \in Nat \ {0} /\ MaxEvents \in Nat /\ MaxVersion \in Nat
  /\ 0 \in Ordinals /\ Ordinals \subseteq Nat /\ Secrets \subseteq Nat \ {0}
  /\ LastSecret \in Secrets /\ \A s \in Secrets : s <= LastSecret /\ s + 1 \in Versions
<1>1. PICK n : n = Cardinality(Secrets)  OBVIOUS
<1>2. n \in Nat /\ Secrets = 1 .. n /\ MaxVersion \in Nat /\ MaxVersion > n + 1 /\ Secrets # {}
  BY <1>1, FS_CardinalityType, RemoteConfigAssumption
<1>3. Secrets \in SUBSET (0 .. n)  BY <1>2
<1>4. LastSecret \in Secrets /\ \A s \in Secrets : LastSecret >= s  BY <1>2, <1>3, GreatestOf DEF LastSecret
<1>5. \A s \in Secrets : s <= LastSecret /\ s + 1 \in Versions  BY <1>2, <1>4 DEF Versions
<1> QED  BY <1>2, <1>4, <1>5, RemoteConfigAssumption DEF Ordinals

\* The next version of a Secret is newer than all.
LEMMA NextIsNewer ==
  ASSUME secret \in [Secrets -> [rv : Versions, ok : BOOLEAN]]
  PROVE  NextVersion \in Nat /\ \A s \in Secrets : secret[s].rv < NextVersion
<1> DEFINE T == {secret[s].rv : s \in Secrets}
<1>1. T \in SUBSET (0 .. MaxVersion) /\ T # {}  BY ConstantTypes DEF Versions
<1>2. Max(T) \in T /\ \A y \in T : Max(T) >= y  BY <1>1, GreatestOf, ConstantTypes
<1>3. NextVersion = Max(T) + 1  BY DEF NextVersion
<1>4. PICK m : m = Max(T)  OBVIOUS
<1>5. m \in T /\ (\A y \in T : m >= y) /\ NextVersion = m + 1  BY <1>2, <1>3, <1>4, Zenon
<1> HIDE DEF T
<1>6. NextVersion \in Nat /\ \A y \in T : y < NextVersion  BY <1>1, <1>5, ConstantTypes
<1> QED  BY <1>6 DEF T

\* The number of pods that are up.
LEMMA UpAreCounted ==
  ASSUME TypeOK
  PROVE  /\ PodsUp \in 0 .. MaxReplicas
         /\ pod[0].up => PodsUp # 0
         /\ (AllUp /\ \A n \in Ordinals : n >= sts.replicas => ~pod[n].up) => PodsUp = sts.replicas
<1> DEFINE U == {n \in Ordinals : pod[n].up}
<1>1. MaxReplicas \in Nat \ {0} /\ 0 \in Ordinals /\ sts.replicas \in 0 .. MaxReplicas
  BY ConstantTypes DEF TypeOK
<1>2. IsFiniteSet(Ordinals) /\ Cardinality(Ordinals) = MaxReplicas
  <2>1. PICK b : b = MaxReplicas - 1  OBVIOUS
  <2>2. b \in Int /\ 0 \in Int  BY <1>1, <2>1
  <2>3. IsFiniteSet(0 .. b) /\ Cardinality(0 .. b) = IF 0 > b THEN 0 ELSE b - 0 + 1  BY <2>2, FS_Interval
  <2>4. Ordinals = 0 .. b /\ (IF 0 > b THEN 0 ELSE b - 0 + 1) = MaxReplicas  BY <1>1, <2>1 DEF Ordinals
  <2> QED  BY <2>3, <2>4, Zenon
<1>3. IsFiniteSet(U) /\ Cardinality(U) <= MaxReplicas  BY <1>2, FS_Subset
<1>4. Cardinality(U) \in Nat  BY <1>3, FS_CardinalityType
<1>5. Cardinality(U) = 0 <=> U = {}  BY <1>3, FS_EmptySet
<1>6. ASSUME AllUp, \A n \in Ordinals : n >= sts.replicas => ~pod[n].up PROVE Cardinality(U) = sts.replicas
  <2>1. PICK b : b = sts.replicas - 1  OBVIOUS
  <2>2. b \in Int /\ 0 \in Int  BY <1>1, <2>1
  <2>3. Cardinality(0 .. b) = IF 0 > b THEN 0 ELSE b - 0 + 1  BY <2>2, FS_Interval
  <2>4. U = 0 .. b  BY <1>1, <1>6, <2>1 DEF AllUp, Ordinals
  <2>5. (IF 0 > b THEN 0 ELSE b - 0 + 1) = sts.replicas  BY <1>1, <2>1
  <2> QED  BY <2>3, <2>4, <2>5, Zenon
<1>7. PodsUp = Cardinality(U)  BY DEF PodsUp
<1>8. pod[0].up => U # {}  BY <1>1
<1> HIDE DEF U
<1> QED  BY <1>1, <1>3, <1>4, <1>5, <1>6, <1>7, <1>8

----------------------------------------------------------------------------
(* Types                                                                    *)

Happenings == [n : 0 .. MaxEvents, faults : SUBSET Faults]

LEMMA HappenedIsTyped ==
  ASSUME TypeOK, Fine \/ (\E e \in Events : Event(e)) \/ (\E f \in Faults : Fault(f))
  PROVE  happened' \in Happenings
<1>1. happened \in Happenings /\ MaxEvents \in Nat  BY ConstantTypes DEF TypeOK, Happenings
<1>2. CASE Fine  BY <1>1, <1>2 DEF Fine
<1>3. happened.n < MaxEvents => happened.n + 1 \in 0 .. MaxEvents  BY <1>1 DEF Happenings
<1>4. CASE \E e \in Events : Event(e)
  <2>1. happened' = [happened EXCEPT !.n = @ + 1] /\ happened.n < MaxEvents  BY <1>4 DEF Event, Happens, Count
  <2> QED  BY <1>1, <1>3, <2>1 DEF Happenings
<1>5. ASSUME NEW f \in Faults, Fault(f) PROVE happened' \in Happenings
  <2>1. happened' = [n |-> happened.n + 1, faults |-> happened.faults \cup {f}] /\ happened.n < MaxEvents
    BY <1>5 DEF Fault, Happens
  <2>2. happened.faults \cup {f} \in SUBSET Faults  BY <1>1 DEF Happenings
  <2> QED  BY <1>3, <2>1, <2>2 DEF Happenings
<1> QED  BY <1>2, <1>4, <1>5

LEMMA NothingIsConfig == Nothing \in Config /\ NoKeys \in [Secrets -> Versions]
  BY ConstantTypes DEF Nothing, Config, NoKeys, Versions

LEMMA AbsentIsPod == Absent \in PodStates /\ ~Absent.up /\ Absent.run = Nothing /\ Absent.disk = Nothing
                     /\ Absent.token = 0 /\ Absent.rev = 0 /\ Absent.new
  BY NothingIsConfig DEF Absent, PodStates

Places == {"idle", "keys", "ready", "render", "write", "token", "pods", "push", "send",
           "resolve", "conf", "restart", "save"}
WorldType == /\ setup \in Setups /\ spec \in Specs /\ secret \in [Secrets -> [rv : Versions, ok : BOOLEAN]]
             /\ map \in [data : Config, token : Nat, rv : Nat]
             /\ sts \in [replicas : 0 .. MaxReplicas, rev : Nat] /\ pod \in [Ordinals -> PodStates]
ReconType == /\ pc \in Places /\ at \in Ordinals /\ cr \in Specs /\ st \in Statuses /\ cfg \in Config
             /\ ready \in 0 .. MaxReplicas /\ status \in Statuses
FlagType == lately \in BOOLEAN /\ queued \in BOOLEAN /\ failed \in BOOLEAN

\* The type invariant, in groups.
LEMMA TypeInGroups == TypeOK <=> WorldType /\ ReconType /\ FlagType /\ happened \in Happenings
  BY Zenon DEF TypeOK, WorldType, ReconType, FlagType, Happenings, Places

LEMMA TypeInGroupsNext ==
  TypeOK' <=> WorldType' /\ ReconType' /\ FlagType' /\ happened' \in Happenings
  BY Zenon DEF TypeOK, WorldType, ReconType, FlagType, Happenings, Places

LEMMA InitIsTyped == Init => TypeInv
<1> SUFFICES ASSUME Init PROVE TypeInv  OBVIOUS
<1>1. spec \in Specs /\ cr \in Specs
  <2>1. PICK b, S : /\ spec \in [replicas : 1 .. b, settings : S, account : {FALSE}]
                    /\ b = 1 \/ b = MaxReplicas
                    /\ S = {0, 1} \/ S = {1}
    BY Zenon DEF Init
  <2>2. 1 .. b \subseteq 1 .. MaxReplicas /\ S \subseteq 0 .. MaxSettings  BY <2>1, ConstantTypes
  <2>3. spec \in Specs  BY <2>1, <2>2 DEF Specs
  <2> QED  BY <2>3 DEF Init
<1>2. secret \in [Secrets -> [rv : Versions, ok : BOOLEAN]]  BY ConstantTypes DEF Init
<1>3. status \in Statuses /\ st \in Statuses
  BY ConstantTypes, NothingIsConfig DEF Init, NoStatus, Statuses, Versions, NoVersion
<1>4. pod \in [Ordinals -> PodStates] /\ \A n \in Ordinals : ~pod[n].up  BY AbsentIsPod DEF Init
<1>5. happened \in [n : 0 .. MaxEvents, faults : SUBSET Faults]  BY ConstantTypes DEF Init
<1>6. map \in [data : Config, token : Nat, rv : Nat] /\ sts \in [replicas : 0 .. MaxReplicas, rev : Nat]
  BY ConstantTypes, NothingIsConfig DEF Init
<1>7. TypeOK
  BY <1>1, <1>2, <1>3, <1>4, <1>5, <1>6, ConstantTypes, NothingIsConfig DEF Init, TypeOK
<1>8. InStep  BY <1>4 DEF Init, InStep, SmartStoreSteps, QueueSteps
<1> QED  BY <1>7, <1>8 DEF TypeInv

LEMMA KindsAreDisjoint ==
  ASSUME setup \in Setups
  PROVE  /\ Queue <=> ~SmartStore /\ (Manager => SmartStore /\ ~Standalone) /\ (Peers => Queue)
         /\ Standalone => SmartStore
  BY DEF Queue, SmartStore, Manager, Standalone, Peers

LEMMA LoadIsTyped == ASSUME TypeInv, Load PROVE TypeInv'
<1>1. TypeOK /\ InStep /\ spec \in Specs /\ status \in Statuses  BY DEF TypeInv, TypeOK
<1>2. UNCHANGED <<setup, spec, secret, map, lately, sts, pod, status, happened>> /\ cr' = spec
      /\ at' = 0 /\ cfg' = Nothing /\ ready' = 0 /\ failed' = FALSE
  BY DEF Load, world
<1>3. st' \in Statuses
  <2>1. spec.replicas \in 0 .. MaxReplicas /\ ResetVersion \in Versions
    BY <1>1, ConstantTypes, RemoteConfigAssumption, FS_CardinalityType DEF Specs, ResetVersion, Versions
  <2>2. /\ [status EXCEPT !.replicas = spec.replicas] \in Statuses
        /\ [status EXCEPT !.replicas = spec.replicas, !.version = ResetVersion, !.account = FALSE] \in Statuses
    BY <1>1, <2>1 DEF Statuses
  <2>3. Scaled(status) \in Statuses  BY <2>2 DEF Scaled
  <2> QED  BY <1>1, <2>3 DEF Load
<1>4. queued' \in BOOLEAN  BY DEF Load
<1>5. pc' = "save" \/ (SmartStore /\ pc' = "keys") \/ (Peers /\ pc' = "ready")
      \/ (Queue /\ ~Peers /\ pc' = "pods")
  BY DEF Load, Queue
<1>6. TypeOK'
  <2>1. pc' \in Places  BY <1>5 DEF Places
  <2>2. at' \in Ordinals /\ ready' \in 0 .. MaxReplicas /\ cfg' \in Config
    <3>1. 0 \in Ordinals /\ 0 \in 0 .. MaxReplicas /\ Nothing \in Config  BY ConstantTypes, NothingIsConfig
    <3> QED  BY <1>2, <3>1, Zenon
  <2>3. WorldType /\ ReconType /\ FlagType /\ happened \in Happenings  BY <1>1, TypeInGroups
  <2>4. WorldType' /\ FlagType'  BY <1>2, <1>4, <2>2, <2>3, Zenon DEF WorldType, FlagType
  <2>5. ReconType'  BY <1>1, <1>2, <1>3, <2>1, <2>2, <2>3, Zenon DEF ReconType
  <2> QED  BY <1>2, <2>3, <2>4, <2>5, TypeInGroupsNext
<1>7. InStep'
  BY <1>1, <1>2, <1>5, KindsAreDisjoint
  DEF InStep, SmartStoreSteps, QueueSteps, SmartStore, Queue, Manager, Peers, Standalone, TypeOK
<1> QED  BY <1>6, <1>7 DEF TypeInv

LEMMA StepIsTyped ==
  ASSUME WorldType', ReconType', FlagType', happened' \in Happenings, InStep' PROVE TypeInv'
  BY TypeInGroupsNext, Zenon DEF TypeInv

LEMMA StateIsTyped ==
  ASSUME TypeInv
  PROVE  /\ TypeOK /\ InStep /\ WorldType /\ ReconType /\ FlagType /\ happened \in Happenings
         /\ (Queue <=> ~SmartStore) /\ (Manager => SmartStore /\ ~Standalone) /\ (Peers => Queue)
         /\ cr.replicas \in 1 .. MaxReplicas /\ cr.settings \in 0 .. MaxSettings
<1>1. TypeOK /\ InStep  BY Zenon DEF TypeInv
<1>2. WorldType /\ ReconType /\ FlagType /\ happened \in Happenings  BY <1>1, TypeInGroups, Zenon
<1>3. setup \in Setups /\ cr \in Specs  BY <1>2, Zenon DEF WorldType, ReconType
<1>4. (Queue <=> ~SmartStore) /\ (Manager => SmartStore /\ ~Standalone) /\ (Peers => Queue)
  BY <1>3 DEF Queue, SmartStore, Manager, Standalone, Peers
<1>5. cr.replicas \in 1 .. MaxReplicas /\ cr.settings \in 0 .. MaxSettings  BY <1>3 DEF Specs
<1> QED  BY <1>1, <1>2, <1>4, <1>5, Zenon

\* A step inside a reconcile that leaves Kubernetes alone.
LEMMA QuietIsTyped ==
  ASSUME TypeInv, UNCHANGED <<setup, spec, secret, map, lately, sts, pod, status, at, cr, ready, failed>>,
         pc' \in Places, queued' = queued \/ queued' = TRUE, st' \in Statuses, cfg' \in Config,
         happened' \in Happenings, InStep'
  PROVE  TypeInv'
<1>1. WorldType /\ ReconType /\ FlagType  BY StateIsTyped
<1>2. WorldType' /\ ReconType' /\ FlagType'  BY <1>1, Zenon DEF WorldType, ReconType, FlagType
<1> QED  BY <1>2, StepIsTyped

LEMMA ReadReadyIsTyped == ASSUME TypeInv, ReadReady PROVE TypeInv'
<1>1. UNCHANGED <<setup, spec, secret, map, lately, sts, pod, status, at, cr, st, cfg, failed, happened>>
      /\ pc = "ready" /\ ready' = PodsUp
  BY DEF ReadReady, world
<1>2. WorldType /\ ReconType /\ FlagType /\ happened \in Happenings /\ TypeOK /\ InStep  BY StateIsTyped
<1>3. ready' \in 0 .. MaxReplicas  BY <1>1, <1>2, UpAreCounted
<1>4. pc' = "save" \/ (pc' = "pods" /\ (ready' # 0 \/ sts.replicas = 0))
  BY <1>1 DEF ReadReady, Goes, Requeues
<1>5. queued' = queued \/ queued' = TRUE  BY Zenon DEF ReadReady, Goes, Requeues
<1>6. pc' \in Places  BY <1>4 DEF Places
<1>7. WorldType' /\ ReconType' /\ FlagType'
  BY <1>1, <1>2, <1>3, <1>5, <1>6, Zenon DEF WorldType, ReconType, FlagType
<1>8. InStep'
  BY <1>1, <1>2, <1>4 DEF InStep, SmartStoreSteps, QueueSteps, SmartStore, Queue, Manager, Peers, Standalone
<1> QED  BY <1>1, <1>2, <1>7, <1>8, StepIsTyped, Zenon

LEMMA CheckKeysIsTyped == ASSUME TypeInv, CheckKeys PROVE TypeInv'
<1>1. UNCHANGED <<setup, spec, secret, map, lately, sts, pod, status, at, cr, cfg, ready, failed>> /\ pc = "keys"
  BY DEF CheckKeys, world
<1>2. WorldType /\ ReconType /\ FlagType /\ TypeOK /\ InStep /\ (Queue <=> ~SmartStore)  BY StateIsTyped
<1>3. st' \in Statuses
  <2>1. CASE UNCHANGED st  BY <1>2, <2>1 DEF ReconType
  <2>2. CASE Tracks
    <3>1. PICK k : k = [s \in Secrets |-> IF s \in Looked THEN secret[s].rv ELSE st.rev[s]]  OBVIOUS
    <3>2. k \in [Secrets -> Versions]  BY <1>2, <3>1 DEF WorldType, ReconType, Statuses
    <3>3. st' = [st EXCEPT !.rev = k]  BY <2>2, <3>1 DEF Tracks
    <3> QED  BY <1>2, <3>2, <3>3 DEF ReconType, Statuses
  <2> QED  BY <2>1, <2>2 DEF CheckKeys
<1>4. pc' \in {"render", "pods", "save"}  BY DEF CheckKeys, Goes, Requeues
<1>5. queued' = queued \/ queued' = TRUE  BY Zenon DEF CheckKeys, Goes, Requeues
<1>6. happened' \in Happenings
  <2>1. Fine \/ Fault("keys")  BY DEF CheckKeys
  <2> QED  BY <1>2, <2>1, HappenedIsTyped DEF Faults
<1>7. InStep'
  BY <1>1, <1>2, <1>4 DEF InStep, SmartStoreSteps, QueueSteps, SmartStore, Queue, Manager, Peers, Standalone
<1>8. pc' \in Places /\ cfg' \in Config  BY <1>1, <1>2, <1>4 DEF Places, ReconType
<1> QED  BY <1>1, <1>3, <1>5, <1>6, <1>7, <1>8, QuietIsTyped, Zenon

LEMMA RenderIsTyped == ASSUME TypeInv, Render PROVE TypeInv'
<1>1. UNCHANGED <<setup, spec, secret, map, lately, sts, pod, status, at, cr, st, ready, failed>> /\ pc = "render"
  BY DEF Render, world
<1>2. WorldType /\ ReconType /\ FlagType /\ TypeOK /\ InStep /\ (Queue <=> ~SmartStore)  BY StateIsTyped
<1>3. cfg' \in Config
  <2>1. Rendered \in Config
    <3>1. [s \in Secrets |-> secret[s].rv] \in [Secrets -> Versions]  BY <1>2 DEF WorldType
    <3>2. cr.settings \in 0 .. MaxSettings  BY StateIsTyped
    <3> QED  BY <3>1, <3>2, NothingIsConfig DEF Rendered, Config
  <2> QED  BY <1>2, <2>1 DEF Render, ReconType
<1>4. pc' \in {"write", "save"}  BY DEF Render, Goes, Requeues
<1>5. queued' = queued \/ queued' = TRUE  BY Zenon DEF Render, Goes, Requeues
<1>6. happened' \in Happenings
  <2>1. Fine \/ Fault("secret")  BY DEF Render
  <2> QED  BY <1>2, <2>1, HappenedIsTyped DEF Faults
<1>7. InStep'
  BY <1>1, <1>2, <1>4 DEF InStep, SmartStoreSteps, QueueSteps, SmartStore, Queue, Manager, Peers, Standalone
<1>8. pc' \in Places /\ st' \in Statuses  BY <1>1, <1>2, <1>4 DEF Places, ReconType
<1> QED  BY <1>1, <1>3, <1>5, <1>6, <1>7, <1>8, QuietIsTyped, Zenon

LEMMA NotedIsTyped ==
  ASSUME TypeInv, NEW b \in BOOLEAN, Noted(b) PROVE st' \in Statuses
<1>1. st \in Statuses /\ cr.settings \in 0 .. MaxSettings  BY StateIsTyped DEF ReconType
<1>2. PICK p, c : /\ p = (st.push \/ (Manager /\ b)) /\ c = (st.checked \/ (Manager /\ b))  OBVIOUS
<1>3. p \in BOOLEAN /\ c \in BOOLEAN  BY <1>2, Zenon
<1>4. st' = [st EXCEPT !.settings = cr.settings, !.push = p, !.checked = c]  BY <1>2 DEF Noted
<1> QED  BY <1>1, <1>3, <1>4 DEF Statuses

LEMMA WriteMapIsTyped == ASSUME TypeInv, WriteMap PROVE TypeInv'
<1>1. UNCHANGED <<setup, spec, secret, lately, sts, pod, status, at, cr, cfg, ready, failed>> /\ pc = "write"
  BY DEF WriteMap
<1>2. WorldType /\ ReconType /\ FlagType /\ TypeOK /\ InStep /\ (Queue <=> ~SmartStore)  BY StateIsTyped
<1>3. st' \in Statuses
  <2>1. CASE UNCHANGED st  BY <1>2, <2>1 DEF ReconType
  <2>2. CASE Noted(FALSE)  BY <2>2, NotedIsTyped
  <2> QED  BY <2>1, <2>2 DEF WriteMap
<1>4. map' \in [data : Config, token : Nat, rv : Nat]
  <2>1. map \in [data : Config, token : Nat, rv : Nat] /\ cfg \in Config  BY <1>2 DEF WorldType, ReconType
  <2>2. map' = map \/ map' = [map EXCEPT !.data = cfg, !.rv = map.rv + 1]  BY DEF WriteMap
  <2>3. map.rv + 1 \in Nat  BY <2>1
  <2> QED  BY <2>1, <2>2, <2>3
<1>5. pc' \in {"pods", "token", "save"}  BY DEF WriteMap, Goes, GoesWatched, Requeues
<1>6. queued' = queued \/ queued' = TRUE  BY Zenon DEF WriteMap, Goes, GoesWatched, Requeues, Enqueued
<1>7. happened' \in Happenings
  <2>1. Fine \/ Fault("api")  BY DEF WriteMap
  <2> QED  BY <1>2, <2>1, HappenedIsTyped DEF Faults
<1>8. InStep'
  BY <1>1, <1>2, <1>5 DEF InStep, SmartStoreSteps, QueueSteps, SmartStore, Queue, Manager, Peers, Standalone
<1>9. pc' \in Places  BY <1>5 DEF Places
<1>10. WorldType' /\ ReconType' /\ FlagType'
  BY <1>1, <1>2, <1>3, <1>4, <1>6, <1>9, Zenon DEF WorldType, ReconType, FlagType
<1> QED  BY <1>7, <1>8, <1>10, StepIsTyped, Zenon

LEMMA WriteTokenIsTyped == ASSUME TypeInv, WriteToken PROVE TypeInv'
<1>1. UNCHANGED <<setup, spec, secret, sts, pod, status, at, cr, cfg, ready, failed>> /\ pc = "token"
  BY DEF WriteToken
<1>2. WorldType /\ ReconType /\ FlagType /\ TypeOK /\ InStep /\ (Queue <=> ~SmartStore)  BY StateIsTyped
<1>3. st' \in Statuses
  <2>1. CASE UNCHANGED st  BY <1>2, <2>1 DEF ReconType
  <2>2. CASE Noted(FALSE)  BY <2>2, NotedIsTyped
  <2>3. CASE Noted(TRUE)  BY <2>3, NotedIsTyped
  <2> QED  BY <2>1, <2>2, <2>3 DEF WriteToken
<1>4. map' \in [data : Config, token : Nat, rv : Nat]
  <2>1. map \in [data : Config, token : Nat, rv : Nat]  BY <1>2 DEF WorldType
  <2>2. map' = map \/ map' = [map EXCEPT !.token = map.token + 1, !.rv = map.rv + 1]  BY DEF WriteToken
  <2>3. map.rv + 1 \in Nat /\ map.token + 1 \in Nat  BY <2>1
  <2> QED  BY <2>1, <2>2, <2>3
<1>5. pc' \in {"pods", "save"}  BY DEF WriteToken, Goes, GoesWatched, Requeues
<1>6. (queued' = queued \/ queued' = TRUE) /\ (lately' = lately \/ lately' = TRUE)
  BY Zenon DEF WriteToken, Goes, GoesWatched, Requeues, Enqueued
<1>7. happened' \in Happenings
  <2>1. Fine \/ Fault("second") \/ Fault("first") \/ Fault("conflict")  BY DEF WriteToken
  <2> QED  BY <1>2, <2>1, HappenedIsTyped DEF Faults
<1>8. InStep'
  BY <1>1, <1>2, <1>5 DEF InStep, SmartStoreSteps, QueueSteps, SmartStore, Queue, Manager, Peers, Standalone
<1>9. pc' \in Places  BY <1>5 DEF Places
<1>10. WorldType' /\ ReconType' /\ FlagType'
  BY <1>1, <1>2, <1>3, <1>4, <1>6, <1>9, Zenon DEF WorldType, ReconType, FlagType
<1> QED  BY <1>7, <1>8, <1>10, StepIsTyped, Zenon

\* What a pod may become in a step.
LEMMA PodIsTyped ==
  ASSUME WorldType, NEW n \in Ordinals, NEW d \in Config
  PROVE  /\ [pod EXCEPT ![n].up = FALSE] \in [Ordinals -> PodStates]
         /\ [pod EXCEPT ![n].disk = d] \in [Ordinals -> PodStates]
         /\ [pod EXCEPT ![n].run = d] \in [Ordinals -> PodStates]
<1>1. pod \in [Ordinals -> PodStates]  BY DEF WorldType
<1> QED  BY <1>1 DEF PodStates

LEMMA ApplyPodsIsTyped == ASSUME TypeInv, ApplyPods PROVE TypeInv'
<1>1. UNCHANGED <<setup, spec, secret, map, lately, status, at, cr, st, cfg, failed>> /\ pc = "pods" /\ Noticed
  BY DEF ApplyPods
<1>2. WorldType /\ ReconType /\ FlagType /\ TypeOK /\ InStep /\ (Queue <=> ~SmartStore)
      /\ (Manager => SmartStore /\ ~Standalone) /\ (Peers => Queue) /\ cr.replicas \in 1 .. MaxReplicas
  BY StateIsTyped
<1>3. PICK t \in 0 .. map.rv : Template(t) /\
       \/ /\ Drains /\ Requeues /\ UNCHANGED <<sts, pod>>
       \/ /\ ~Drains /\ sts # [replicas |-> cr.replicas, rev |-> t]
          /\ sts' = [replicas |-> cr.replicas, rev |-> t]
          /\ pod' = Sized(cr.replicas) /\ Requeues
       \/ /\ sts = [replicas |-> cr.replicas, rev |-> t] /\ UNCHANGED sts
          /\ \/ ~AllUp /\ Requeues /\ UNCHANGED pod
             \/ /\ AllUp /\ Requeues
                /\ \E n \in Ordinals : Old(n) /\ pod' = [pod EXCEPT ![n].up = FALSE]
             \/ /\ AllUp /\ (\A n \in Ordinals : ~Old(n)) /\ UNCHANGED pod
                /\ \/ Manager /\ Goes("push")
                   \/ Standalone /\ Returns
                   \/ Queue /\ Goes("resolve")
  BY DEF ApplyPods
<1>4. t \in Nat /\ sts \in [replicas : 0 .. MaxReplicas, rev : Nat]  BY <1>2 DEF WorldType
<1>5. sts' \in [replicas : 0 .. MaxReplicas, rev : Nat]
  <2>1. [replicas |-> cr.replicas, rev |-> t] \in [replicas : 0 .. MaxReplicas, rev : Nat]  BY <1>2, <1>4
  <2> QED  BY <1>3, <1>4, <2>1
<1>6. pod' \in [Ordinals -> PodStates] /\ \A n \in Ordinals : n >= sts'.replicas => ~pod'[n].up
  <2>1. pod \in [Ordinals -> PodStates] /\ \A n \in Ordinals : n >= sts.replicas => ~pod[n].up
    BY <1>2 DEF WorldType, InStep
  <2>2. CASE pod' = pod /\ sts' = sts  BY <2>1, <2>2
  <2>3. CASE pod' = Sized(cr.replicas) /\ sts' = [replicas |-> cr.replicas, rev |-> t]
    <3>1. sts'.replicas = cr.replicas /\ cr.replicas \in Nat /\ Ordinals \subseteq Nat  BY <1>2, <2>3, ConstantTypes
    <3>2. \A n \in Ordinals : n >= cr.replicas => ~(n < cr.replicas)  BY <3>1
    <3> QED  BY <2>1, <2>3, <3>1, <3>2, AbsentIsPod DEF Sized
  <2>4. ASSUME NEW n \in Ordinals, pod' = [pod EXCEPT ![n].up = FALSE], sts' = sts
        PROVE  pod' \in [Ordinals -> PodStates] /\ \A m \in Ordinals : m >= sts'.replicas => ~pod'[m].up
    <3>1. pod' \in [Ordinals -> PodStates]  BY <1>2, <2>4, NothingIsConfig, PodIsTyped
    <3> QED  BY <2>1, <2>4, <3>1 DEF PodStates
  <2> QED  BY <1>3, <2>2, <2>3, <2>4
<1>7. (queued' = queued \/ queued' = TRUE) /\ pc' \in {"save", "push", "resolve"}
  BY <1>3, Zenon DEF Goes, Returns, Requeues
<1>8. happened' \in Happenings
  <2>1. Fine \/ Fault("map")  BY <1>3 DEF Template
  <2> QED  BY <1>2, <2>1, HappenedIsTyped DEF Faults
<1>9. ready' \in 0 .. MaxReplicas /\ (pc' = "resolve" /\ Peers => ready' # 0)
  <2>1. ready \in 0 .. MaxReplicas /\ PodsUp \in 0 .. MaxReplicas  BY <1>2, UpAreCounted DEF ReconType
  <2>2. ASSUME pc' = "resolve", Peers PROVE ready' # 0
    <3>1. AllUp /\ sts = [replicas |-> cr.replicas, rev |-> t]  BY <1>3, <2>2 DEF Requeues, Returns, Goes
    <3>2. sts.replicas # 0 /\ sts.replicas \in Nat  BY <1>2, <3>1
    <3>3. PodsUp = sts.replicas  BY <1>2, <3>1, UpAreCounted DEF InStep
    <3>4. ready # 0  BY <1>1, <1>2, <2>2, <3>2 DEF InStep
    <3> QED  BY <1>1, <3>2, <3>3, <3>4 DEF Noticed
  <2> QED  BY <1>1, <2>1, <2>2 DEF Noticed
<1>10. /\ pc' = "push" => Manager
       /\ pc' = "resolve" => Queue
       /\ pc' # "save" => sts'.replicas = cr.replicas
  BY <1>3 DEF Goes, Returns, Requeues
<1>11. at = 0  BY <1>1, <1>2 DEF InStep
<1>12. InStep'
  BY <1>1, <1>2, <1>6, <1>7, <1>9, <1>10, <1>11 DEF InStep, SmartStoreSteps, QueueSteps, SmartStore, Queue, Manager, Peers, Standalone
<1>13. pc' \in Places  BY <1>7 DEF Places
<1>14. WorldType' /\ ReconType' /\ FlagType'
  BY <1>1, <1>2, <1>5, <1>6, <1>7, <1>9, <1>13, Zenon DEF WorldType, ReconType, FlagType
<1> QED  BY <1>8, <1>12, <1>14, StepIsTyped, Zenon

LEMMA CheckTokenIsTyped == ASSUME TypeInv, CheckToken PROVE TypeInv'
<1>1. UNCHANGED <<setup, spec, secret, map, lately, sts, pod, status, at, cr, cfg, ready, failed>> /\ pc = "push"
  BY DEF CheckToken, world
<1>2. WorldType /\ ReconType /\ FlagType /\ TypeOK /\ InStep /\ (Queue <=> ~SmartStore)  BY StateIsTyped
<1>3. st' \in Statuses
  <2>1. st' = st \/ st' = [st EXCEPT !.checked = TRUE]  BY DEF CheckToken
  <2> QED  BY <1>2, <2>1 DEF ReconType, Statuses
<1>4. pc' \in {"send", "save"}  BY DEF CheckToken, Goes, Requeues, Returns
<1>5. queued' = queued \/ queued' = TRUE  BY Zenon DEF CheckToken, Goes, Requeues, Returns
<1>6. happened' \in Happenings
  <2>1. Fine \/ Fault("exec")  BY DEF CheckToken
  <2> QED  BY <1>2, <2>1, HappenedIsTyped DEF Faults
<1>7. InStep'
  BY <1>1, <1>2, <1>4 DEF InStep, SmartStoreSteps, QueueSteps, SmartStore, Queue, Manager, Peers, Standalone
<1>8. pc' \in Places /\ cfg' \in Config  BY <1>1, <1>2, <1>4 DEF Places, ReconType
<1> QED  BY <1>1, <1>3, <1>5, <1>6, <1>7, <1>8, QuietIsTyped, Zenon

\* A step inside a reconcile that works on a pod, and sets none up.
LEMMA PodWorkIsTyped ==
  ASSUME TypeInv, UNCHANGED <<setup, spec, secret, map, lately, sts, status, cr, cfg, ready>>,
         pc' \in Places, queued' = queued \/ queued' = TRUE, st' \in Statuses, at' \in Ordinals,
         failed' = failed \/ failed' = TRUE, pod' \in [Ordinals -> PodStates],
         happened' \in Happenings, InStep'
  PROVE  TypeInv'
<1>1. WorldType /\ ReconType /\ FlagType  BY StateIsTyped
<1>2. WorldType' /\ ReconType' /\ FlagType'  BY <1>1, Zenon DEF WorldType, ReconType, FlagType
<1> QED  BY <1>2, StepIsTyped

LEMMA PushBundleIsTyped == ASSUME TypeInv, PushBundle PROVE TypeInv'
<1>1. UNCHANGED <<setup, spec, secret, map, lately, sts, status, at, cr, cfg, ready, failed>> /\ pc = "send"
  BY DEF PushBundle
<1>2. WorldType /\ ReconType /\ FlagType /\ TypeOK /\ InStep /\ (Queue <=> ~SmartStore)  BY StateIsTyped
<1>3. st' \in Statuses
  <2>1. st' = st \/ st' = [st EXCEPT !.push = FALSE]  BY DEF PushBundle
  <2> QED  BY <1>2, <2>1 DEF ReconType, Statuses
<1>4. pc' = "save"  BY DEF PushBundle, Requeues, Returns
<1>5. queued' = queued \/ queued' = TRUE  BY Zenon DEF PushBundle, Requeues, Returns
<1>6. happened' \in Happenings
  <2>1. Fine \/ Fault("rest")  BY DEF PushBundle
  <2> QED  BY <1>2, <2>1, HappenedIsTyped DEF Faults
<1>7. pod' = pod \/ pod' = [pod EXCEPT ![0].run = pod[0].disk]  BY DEF PushBundle
<1>8. pod \in [Ordinals -> PodStates] /\ 0 \in Ordinals  BY <1>2, ConstantTypes DEF WorldType
<1>9. pod[0].disk \in Config  BY <1>8 DEF PodStates
<1>10. pod' \in [Ordinals -> PodStates]
  <2>1. [pod EXCEPT ![0].run = pod[0].disk] \in [Ordinals -> PodStates]  BY <1>2, <1>8, <1>9, PodIsTyped, Zenon
  <2> QED  BY <1>7, <1>8, <2>1, Zenon
<1>11. \A n \in Ordinals : n >= sts.replicas => ~pod'[n].up
  <2>1. \A n \in Ordinals : n >= sts.replicas => ~pod[n].up  BY <1>2 DEF InStep
  <2> QED  BY <1>7, <1>8, <2>1 DEF PodStates
<1>12. InStep'
  BY <1>1, <1>2, <1>4, <1>11 DEF InStep, SmartStoreSteps, QueueSteps, SmartStore, Queue, Manager, Peers, Standalone
<1>13. pc' \in Places /\ at' \in Ordinals  BY <1>1, <1>2, <1>4 DEF Places, ReconType
<1> QED  BY <1>1, <1>3, <1>5, <1>6, <1>10, <1>12, <1>13, PodWorkIsTyped, Zenon

LEMMA ResolveIsTyped == ASSUME TypeInv, Resolve PROVE TypeInv'
<1>1. UNCHANGED <<setup, spec, secret, map, lately, sts, pod, status, at, cr, st, ready, failed>> /\ pc = "resolve"
  BY DEF Resolve, world
<1>2. WorldType /\ ReconType /\ FlagType /\ TypeOK /\ InStep /\ (Queue <=> ~SmartStore)
      /\ cr.replicas \in 1 .. MaxReplicas /\ cr.settings \in 0 .. MaxSettings
  BY StateIsTyped
<1>3. cfg' \in Config
  <2>1. QueueConfig \in Config
    <3>1. LastSecret \in Secrets /\ NoKeys \in [Secrets -> Versions]  BY ConstantTypes, NothingIsConfig
    <3>2. secret[LastSecret].rv \in Versions  BY <1>2, <3>1 DEF WorldType
    <3>3. [NoKeys EXCEPT ![LastSecret] = secret[LastSecret].rv] \in [Secrets -> Versions]  BY <3>1, <3>2
    <3> QED  BY <1>2, <3>1, <3>3 DEF QueueConfig, Config
  <2> QED  BY <1>2, <2>1 DEF Resolve, ReconType
<1>4. pc' \in {"conf", "save"}  BY DEF Resolve, Goes, Requeues, Returns
<1>5. queued' = queued \/ queued' = TRUE  BY Zenon DEF Resolve, Goes, Requeues, Returns
<1>6. happened' \in Happenings
  <2>1. Fine \/ Fault("secret")  BY DEF Resolve
  <2> QED  BY <1>2, <2>1, HappenedIsTyped DEF Faults
<1>7. InStep'
  <2>1. ready \in Nat  BY <1>2 DEF ReconType
  <2> QED  BY <1>1, <1>2, <1>4, <2>1 DEF InStep, SmartStoreSteps, QueueSteps, SmartStore, Queue, Manager, Peers, Standalone
<1>8. pc' \in Places /\ st' \in Statuses  BY <1>1, <1>2, <1>4 DEF Places, ReconType
<1> QED  BY <1>1, <1>3, <1>5, <1>6, <1>7, <1>8, QuietIsTyped, Zenon

LEMMA UpdateConfIsTyped == ASSUME TypeInv, UpdateConf PROVE TypeInv'
<1>1. UNCHANGED <<setup, spec, secret, map, lately, sts, status, cr, st, cfg, ready>> /\ pc = "conf"
  BY DEF UpdateConf
<1>2. WorldType /\ ReconType /\ FlagType /\ TypeOK /\ InStep /\ (Queue <=> ~SmartStore)
      /\ cr.replicas \in 1 .. MaxReplicas
  BY StateIsTyped
<1>3. at \in Ordinals /\ ready \in 0 .. MaxReplicas /\ cfg \in Config /\ pod \in [Ordinals -> PodStates]
  BY <1>2 DEF ReconType, WorldType
<1>4. \/ pc' = "save" /\ (at' = at \/ at' = 0)
      \/ pc' = "conf" /\ ~LastPod /\ at' = at + 1
      \/ pc' = "restart" /\ at' = 0
  BY DEF UpdateConf, Goes, Requeues
<1>5. queued' = queued \/ queued' = TRUE  BY Zenon DEF UpdateConf, Goes, Requeues
<1>6. happened' \in Happenings
  <2>1. Fine \/ Fault("password") \/ Fault("rest")  BY DEF UpdateConf
  <2> QED  BY <1>2, <2>1, HappenedIsTyped DEF Faults
<1>7. failed' = failed \/ failed' = TRUE  BY Zenon DEF UpdateConf
<1>8. Written(pod[at].disk) \in Config
  <2>1. pod[at].disk \in Config  BY <1>3 DEF PodStates
  <2>2. pod[at].disk.keys \in [Secrets -> Versions]  BY <2>1 DEF Config
  <2> QED  BY <1>3, <2>2 DEF Written, Config
<1>9. pod' = pod \/ pod' = [pod EXCEPT ![at].disk = Written(pod[at].disk)]
  BY <1>3 DEF UpdateConf, PodStates
<1>10. pod' \in [Ordinals -> PodStates]
  <2>1. [pod EXCEPT ![at].disk = Written(pod[at].disk)] \in [Ordinals -> PodStates]
    BY <1>2, <1>3, <1>8, PodIsTyped, Zenon
  <2> QED  BY <1>3, <1>9, <2>1, Zenon
<1>11. \A n \in Ordinals : n >= sts.replicas => ~pod'[n].up
  <2>1. \A n \in Ordinals : n >= sts.replicas => ~pod[n].up  BY <1>2 DEF InStep
  <2> QED  BY <1>3, <1>9, <2>1 DEF PodStates
<1>12. at < (IF Peers THEN ready ELSE cr.replicas)  BY <1>1, <1>2 DEF InStep
<1>13. ~LastPod => at + 1 < (IF Peers THEN ready ELSE cr.replicas) /\ at + 1 \in Ordinals
  BY <1>2, <1>3, <1>12, ConstantTypes DEF LastPod, Ordinals
<1>14. pc' \in Places /\ at' \in Ordinals  BY <1>3, <1>4, <1>13, ConstantTypes DEF Places
<1>15. InStep'
  BY <1>1, <1>2, <1>4, <1>11, <1>13 DEF InStep, SmartStoreSteps, QueueSteps, SmartStore, Queue, Manager, Peers, Standalone
<1>16. st' \in Statuses  BY <1>1, <1>2 DEF ReconType
<1> QED  BY <1>1, <1>5, <1>6, <1>7, <1>10, <1>14, <1>15, <1>16, PodWorkIsTyped, Zenon

LEMMA RestartSplunkIsTyped == ASSUME TypeInv, RestartSplunk PROVE TypeInv'
<1>1. UNCHANGED <<setup, spec, secret, map, lately, sts, status, cr, cfg, ready, failed>> /\ pc = "restart"
  BY DEF RestartSplunk
<1>2. WorldType /\ ReconType /\ FlagType /\ TypeOK /\ InStep /\ (Queue <=> ~SmartStore)
      /\ cr.replicas \in 1 .. MaxReplicas
  BY StateIsTyped
<1>3. at \in Ordinals /\ cfg \in Config /\ pod \in [Ordinals -> PodStates] /\ st \in Statuses /\ cr \in Specs
  BY <1>2 DEF ReconType, WorldType
<1>4. \/ pc' = "save" /\ (at' = at \/ at' = 0)
      \/ pc' = "restart" /\ ~LastRestart /\ at' = at + 1
  BY DEF RestartSplunk, Goes, Requeues, Returns
<1>5. queued' = queued \/ queued' = TRUE  BY Zenon DEF RestartSplunk, Goes, Requeues, Returns
<1>6. happened' \in Happenings
  <2>1. Fine \/ Fault("restart")  BY DEF RestartSplunk
  <2> QED  BY <1>2, <2>1, HappenedIsTyped DEF Faults
<1>7. st' \in Statuses
  <2>1. PICK v : v = IF cr.account THEN NoVersion ELSE cfg.keys[LastSecret]  OBVIOUS
  <2>2. cfg.keys[LastSecret] \in Versions  BY <1>3, ConstantTypes DEF Config
  <2>3. v \in Versions /\ cr.account \in BOOLEAN  BY <1>3, <2>1, <2>2, ConstantTypes DEF Versions, NoVersion, Specs
  <2>4. st' = st \/ st' = [st EXCEPT !.version = v, !.account = cr.account]  BY <2>1 DEF RestartSplunk
  <2> QED  BY <1>3, <2>3, <2>4 DEF Statuses
<1>8. pod' = pod \/ pod' = [pod EXCEPT ![at].up = FALSE]  BY DEF RestartSplunk
<1>9. pod' \in [Ordinals -> PodStates]  BY <1>2, <1>3, <1>8, NothingIsConfig, PodIsTyped
<1>10. \A n \in Ordinals : n >= sts.replicas => ~pod'[n].up
  <2>1. \A n \in Ordinals : n >= sts.replicas => ~pod[n].up  BY <1>2 DEF InStep
  <2> QED  BY <1>3, <1>8, <2>1 DEF PodStates
<1>11. at < cr.replicas  BY <1>1, <1>2 DEF InStep
<1>12. ~LastRestart => at + 1 < cr.replicas /\ at + 1 \in Ordinals
  BY <1>2, <1>3, <1>11, ConstantTypes DEF LastRestart, Ordinals
<1>13. pc' \in Places /\ at' \in Ordinals  BY <1>3, <1>4, <1>12, ConstantTypes DEF Places
<1>14. InStep'
  BY <1>1, <1>2, <1>4, <1>10, <1>12 DEF InStep, SmartStoreSteps, QueueSteps, SmartStore, Queue, Manager, Peers, Standalone
<1> QED  BY <1>1, <1>5, <1>6, <1>7, <1>9, <1>13, <1>14, PodWorkIsTyped, Zenon

LEMMA SaveIsTyped == ASSUME TypeInv, Save PROVE TypeInv'
<1>1. UNCHANGED <<setup, spec, secret, map, lately, sts, pod, queued, at, cr, st, cfg, ready, failed>>
      /\ pc' = "idle" /\ (status' = st \/ status' = status)
  BY DEF Save, world
<1>2. WorldType /\ ReconType /\ FlagType /\ TypeOK /\ InStep  BY StateIsTyped
<1>3. happened' \in Happenings
  <2>1. Fine \/ Fault("status")  BY DEF Save
  <2> QED  BY <1>2, <2>1, HappenedIsTyped DEF Faults
<1>4. InStep'
  BY <1>1, <1>2 DEF InStep, SmartStoreSteps, QueueSteps, SmartStore, Queue, Manager, Peers, Standalone
<1>5. pc' \in Places  BY <1>1 DEF Places
<1>6. WorldType' /\ ReconType' /\ FlagType'  BY <1>1, <1>2, <1>5, Zenon DEF WorldType, ReconType, FlagType
<1> QED  BY <1>3, <1>4, <1>6, StepIsTyped, Zenon

LEMMA CrashIsTyped == ASSUME TypeInv, Crash PROVE TypeInv'
<1>1. UNCHANGED <<setup, spec, secret, map, lately, sts, pod, status, at, cr, st, cfg, ready, failed>>
      /\ pc' = "idle" /\ queued' = TRUE
  BY DEF Crash, world
<1>2. WorldType /\ ReconType /\ FlagType /\ TypeOK /\ InStep  BY StateIsTyped
<1>3. happened' \in Happenings
  <2>1. Fault("first") \/ Fault("crash")  BY DEF Crash
  <2> QED  BY <1>2, <2>1, HappenedIsTyped DEF Faults
<1>4. InStep'
  BY <1>1, <1>2 DEF InStep, SmartStoreSteps, QueueSteps, SmartStore, Queue, Manager, Peers, Standalone
<1>5. pc' \in Places  BY <1>1 DEF Places
<1>6. WorldType' /\ ReconType' /\ FlagType'  BY <1>1, <1>2, <1>5, Zenon DEF WorldType, ReconType, FlagType
<1> QED  BY <1>3, <1>4, <1>6, StepIsTyped, Zenon

\* A step outside a reconcile.
LEMMA OutsideIsTyped ==
  ASSUME TypeInv, UNCHANGED <<setup, map, sts, pc, at, cr, cfg, ready, failed>>,
         spec' \in Specs, secret' \in [Secrets -> [rv : Versions, ok : BOOLEAN]],
         status' \in Statuses, st' \in Statuses, pod' \in [Ordinals -> PodStates],
         queued' = queued \/ queued' = TRUE, lately' = lately \/ lately' = FALSE,
         happened' \in Happenings, \A n \in Ordinals : n >= sts.replicas => ~pod'[n].up
  PROVE  TypeInv'
<1>1. WorldType /\ ReconType /\ FlagType /\ InStep  BY StateIsTyped
<1>2. WorldType' /\ ReconType' /\ FlagType'  BY <1>1, Zenon DEF WorldType, ReconType, FlagType
<1>3. InStep'
  BY <1>1 DEF InStep, SmartStoreSteps, QueueSteps, SmartStore, Queue, Manager, Peers, Standalone
<1> QED  BY <1>2, <1>3, StepIsTyped

LEMMA ReconIsUnchanged ==
  ASSUME UNCHANGED recon PROVE UNCHANGED <<pc, at, cr, st, cfg, ready, failed>>
  BY DEF recon

LEMMA TickIsTyped == ASSUME TypeInv, Tick PROVE TypeInv'
<1>1. UNCHANGED <<setup, spec, secret, map, sts, pod, queued, pc, at, cr, cfg, ready, failed, happened>>
      /\ lately' = FALSE
  BY DEF Tick
<1>2. WorldType /\ ReconType /\ FlagType /\ happened \in Happenings /\ InStep  BY StateIsTyped
<1>3. status' \in Statuses /\ st' \in Statuses
  <2>1. status' = [status EXCEPT !.checked = FALSE] /\ st' = [st EXCEPT !.checked = FALSE]  BY DEF Tick
  <2> QED  BY <1>2, <2>1 DEF ReconType, Statuses
<1>4. \A n \in Ordinals : n >= sts.replicas => ~pod'[n].up  BY <1>1, <1>2 DEF InStep
<1>5. spec' \in Specs /\ secret' \in [Secrets -> [rv : Versions, ok : BOOLEAN]]
      /\ pod' \in [Ordinals -> PodStates] /\ happened' \in Happenings
  BY <1>1, <1>2, Zenon DEF WorldType
<1> QED  BY <1>1, <1>3, <1>4, <1>5, OutsideIsTyped, Zenon

LEMMA EditSpecIsTyped == ASSUME TypeInv, EditSpec PROVE TypeInv'
<1>1. UNCHANGED <<setup, secret, map, lately, sts, pod, status, pc, at, cr, st, cfg, ready, failed>>
      /\ queued' = TRUE
  BY DEF EditSpec, recon, Enqueued
<1>2. WorldType /\ ReconType /\ FlagType /\ TypeOK /\ InStep  BY StateIsTyped
<1>3. happened' \in Happenings
  <2>1. Event("settings") \/ Event("account") \/ Event("scale")  BY DEF EditSpec
  <2> QED  BY <1>2, <2>1, HappenedIsTyped DEF Events
<1>4. spec' \in Specs
  <2>1. spec \in Specs  BY <1>2 DEF WorldType
  <2>2. ASSUME NEW s \in 1 .. MaxSettings, spec' = [spec EXCEPT !.settings = s] PROVE spec' \in Specs
    <3>1. s \in 0 .. MaxSettings  BY ConstantTypes
    <3> QED  BY <2>1, <2>2, <3>1 DEF Specs
  <2>3. CASE spec' = [spec EXCEPT !.account = ~@]
    <3>1. PICK a : a = ~spec.account  OBVIOUS
    <3>2. a \in BOOLEAN  BY <3>1, Zenon
    <3>3. spec' = [spec EXCEPT !.account = a]  BY <2>3, <3>1
    <3> QED  BY <2>1, <3>2, <3>3 DEF Specs
  <2>4. ASSUME NEW r \in 1 .. MaxReplicas, spec' = [spec EXCEPT !.replicas = r] PROVE spec' \in Specs
    BY <2>1, <2>4 DEF Specs
  <2> QED  BY <2>2, <2>3, <2>4 DEF EditSpec
<1>5. \A n \in Ordinals : n >= sts.replicas => ~pod'[n].up  BY <1>1, <1>2 DEF InStep
<1>6. secret' \in [Secrets -> [rv : Versions, ok : BOOLEAN]] /\ status' \in Statuses /\ st' \in Statuses
      /\ pod' \in [Ordinals -> PodStates]
  BY <1>1, <1>2, Zenon DEF WorldType, ReconType
<1> QED  BY <1>1, <1>3, <1>4, <1>5, <1>6, OutsideIsTyped, Zenon

LEMMA EditSecretIsTyped == ASSUME TypeInv, EditSecret PROVE TypeInv'
<1>1. UNCHANGED <<setup, spec, map, lately, sts, pod, status, pc, at, cr, st, cfg, ready, failed>>
  BY DEF EditSecret, recon
<1>2. WorldType /\ ReconType /\ FlagType /\ TypeOK /\ InStep  BY StateIsTyped
<1>3. happened' \in Happenings
  <2>1. Event("rotate") \/ Event("early")  BY DEF EditSecret
  <2> QED  BY <1>2, <2>1, HappenedIsTyped DEF Events
<1>4. secret \in [Secrets -> [rv : Versions, ok : BOOLEAN]]  BY <1>2 DEF WorldType
<1>5. PICK s \in Secrets : \E ok \in BOOLEAN :
        secret' = [secret EXCEPT ![s] = [rv |-> NextVersion, ok |-> ok]] /\ SecretEnqueued(s)
  BY DEF EditSecret
<1>6. PICK ok \in BOOLEAN :
        secret' = [secret EXCEPT ![s] = [rv |-> NextVersion, ok |-> ok]] /\ SecretEnqueued(s)
  BY <1>5
<1>7. secret' \in [Secrets -> [rv : Versions, ok : BOOLEAN]]
  <2>1. NextVersion \in Versions  BY <1>4, NextIsNewer, ConstantTypes DEF EditSecret, Versions
  <2>2. [rv |-> NextVersion, ok |-> ok] \in [rv : Versions, ok : BOOLEAN]  BY <2>1
  <2> QED  BY <1>4, <1>6, <2>2
<1>8. queued' = queued \/ queued' = TRUE  BY <1>6, Zenon DEF SecretEnqueued
<1>9. \A n \in Ordinals : n >= sts.replicas => ~pod'[n].up  BY <1>1, <1>2 DEF InStep
<1>10. spec' \in Specs /\ status' \in Statuses /\ st' \in Statuses /\ pod' \in [Ordinals -> PodStates]
  BY <1>1, <1>2, Zenon DEF WorldType, ReconType
<1> QED  BY <1>1, <1>3, <1>7, <1>8, <1>9, <1>10, OutsideIsTyped, Zenon

LEMMA PodFailsIsTyped == ASSUME TypeInv, PodFails PROVE TypeInv'
<1>1. UNCHANGED <<setup, spec, secret, map, lately, sts, status, pc, at, cr, st, cfg, ready, failed>> /\ queued' = TRUE
  BY DEF PodFails, recon, Enqueued
<1>2. WorldType /\ ReconType /\ FlagType /\ TypeOK /\ InStep  BY StateIsTyped
<1>3. happened' \in Happenings
  <2>1. Event("pod")  BY DEF PodFails
  <2> QED  BY <1>2, <2>1, HappenedIsTyped DEF Events
<1>4. PICK n \in Ordinals : pod' = [pod EXCEPT ![n].up = FALSE]  BY DEF PodFails
<1>5. pod' \in [Ordinals -> PodStates]  BY <1>2, <1>4, NothingIsConfig, PodIsTyped
<1>6. \A m \in Ordinals : m >= sts.replicas => ~pod'[m].up
  <2>1. \A m \in Ordinals : m >= sts.replicas => ~pod[m].up  BY <1>2 DEF InStep
  <2> QED  BY <1>2, <1>4, <2>1 DEF PodStates, WorldType
<1>7. spec' \in Specs /\ secret' \in [Secrets -> [rv : Versions, ok : BOOLEAN]] /\ status' \in Statuses
      /\ st' \in Statuses
  BY <1>1, <1>2, Zenon DEF WorldType, ReconType
<1> QED  BY <1>1, <1>3, <1>5, <1>6, <1>7, OutsideIsTyped, Zenon

LEMMA RefreshIsTyped == ASSUME TypeInv, Refresh PROVE TypeInv'
<1>1. UNCHANGED <<setup, spec, secret, map, lately, sts, status, queued, pc, at, cr, st, cfg, ready, failed, happened>>
  BY DEF Refresh, recon
<1>2. WorldType /\ ReconType /\ FlagType /\ happened \in Happenings /\ InStep  BY StateIsTyped
<1>3. pod' = [pod EXCEPT ![0].disk = map.data, ![0].token = map.token]  BY DEF Refresh
<1>4. pod \in [Ordinals -> PodStates] /\ map.data \in Config /\ map.token \in Nat /\ 0 \in Ordinals
  BY <1>2, ConstantTypes DEF WorldType
<1>5. pod' \in [Ordinals -> PodStates]  BY <1>3, <1>4 DEF PodStates
<1>6. \A m \in Ordinals : m >= sts.replicas => ~pod'[m].up
  <2>1. \A m \in Ordinals : m >= sts.replicas => ~pod[m].up  BY <1>2 DEF InStep
  <2> QED  BY <1>3, <1>4, <2>1 DEF PodStates
<1>7. spec' \in Specs /\ secret' \in [Secrets -> [rv : Versions, ok : BOOLEAN]] /\ status' \in Statuses
      /\ st' \in Statuses /\ happened' \in Happenings
  BY <1>1, <1>2, Zenon DEF WorldType, ReconType
<1> QED  BY <1>1, <1>5, <1>6, <1>7, OutsideIsTyped, Zenon

\* What a pod that starts finds on its disk.
Mounted(n) == IF Queue THEN pod[n].disk ELSE IF sts.rev # 0 THEN map.data ELSE Nothing
Booted(n) == [new |-> FALSE, up |-> TRUE, rev |-> sts.rev, disk |-> Mounted(n),
              token |-> IF sts.rev # 0 THEN map.token ELSE 0,
              run |-> IF Manager /\ ~pod[n].new THEN pod[n].run ELSE Mounted(n)]

LEMMA BootSets ==
  ASSUME TypeInv, NEW n \in Ordinals, Boot(n)
  PROVE  /\ pod' = [pod EXCEPT ![n] = Booted(n)] /\ Mounted(n) \in Config /\ Booted(n) \in PodStates
         /\ n < sts.replicas /\ ~pod[n].up /\ (sts.rev # 0 => map.token # 0) /\ queued' = TRUE
         /\ UNCHANGED <<setup, spec, secret, map, lately, sts, status, pc, at, cr, st, cfg, ready, failed, happened>>
<1>1. n < sts.replicas /\ ~pod[n].up /\ (sts.rev # 0 => map.token # 0) /\ queued' = TRUE
      /\ UNCHANGED <<setup, spec, secret, map, lately, sts, status, pc, at, cr, st, cfg, ready, failed, happened>>
  BY DEF Boot, recon, Enqueued
<1>2. pod \in [Ordinals -> PodStates] /\ sts.rev \in Nat /\ map.data \in Config /\ map.token \in Nat
  BY StateIsTyped DEF WorldType
<1>3. pod' = [pod EXCEPT ![n] = Booted(n)]
  BY <1>2 DEF Boot, Booted, Mounted
<1>4. pod[n].disk \in Config /\ pod[n].run \in Config  BY <1>2 DEF PodStates
<1>5. Mounted(n) \in Config  BY <1>2, <1>4, NothingIsConfig DEF Mounted
<1>6. Booted(n) \in PodStates
  <2>1. PICK t, r : t = (IF sts.rev # 0 THEN map.token ELSE 0) /\ r = (IF Manager /\ ~pod[n].new THEN pod[n].run ELSE Mounted(n))
    OBVIOUS
  <2>2. t \in Nat /\ r \in Config  BY <1>2, <1>4, <1>5, <2>1
  <2>3. Booted(n) = [new |-> FALSE, up |-> TRUE, rev |-> sts.rev, disk |-> Mounted(n), token |-> t, run |-> r]
    BY <2>1 DEF Booted
  <2> QED  BY <1>2, <1>5, <2>2, <2>3 DEF PodStates
<1> QED  BY <1>1, <1>3, <1>5, <1>6

LEMMA BootIsTyped == ASSUME TypeInv, NEW n \in Ordinals, Boot(n) PROVE TypeInv'
<1>1. UNCHANGED <<setup, spec, secret, map, lately, sts, status, pc, at, cr, st, cfg, ready, failed, happened>>
      /\ pod' = [pod EXCEPT ![n] = Booted(n)] /\ queued' = TRUE /\ n < sts.replicas /\ Booted(n) \in PodStates
  BY BootSets
<1>2. WorldType /\ ReconType /\ FlagType /\ happened \in Happenings /\ InStep  BY StateIsTyped
<1>3. pod \in [Ordinals -> PodStates] /\ sts.replicas \in Nat /\ Ordinals \subseteq Nat
  BY <1>2, ConstantTypes DEF WorldType
<1>4. pod' \in [Ordinals -> PodStates]  BY <1>1, <1>3
<1>5. \A m \in Ordinals : m >= sts.replicas => ~pod'[m].up
  <2>1. \A m \in Ordinals : m >= sts.replicas => ~pod[m].up /\ m # n  BY <1>1, <1>2, <1>3 DEF InStep
  <2> QED  BY <1>1, <1>3, <2>1
<1>6. spec' \in Specs /\ secret' \in [Secrets -> [rv : Versions, ok : BOOLEAN]] /\ status' \in Statuses
      /\ st' \in Statuses /\ happened' \in Happenings
  BY <1>1, <1>2, Zenon DEF WorldType, ReconType
<1> QED  BY <1>1, <1>4, <1>5, <1>6, OutsideIsTyped, Zenon

LEMMA StutterIsTyped == ASSUME TypeInv, UNCHANGED vars PROVE TypeInv'
<1>1. UNCHANGED <<setup, spec, secret, map, lately, sts, pod, status, queued, pc, at, cr, st, cfg, ready, failed, happened>>
  BY DEF vars, world, recon
<1>2. TypeOK /\ InStep  BY DEF TypeInv
<1>3. TypeOK'  BY <1>1, <1>2, Zenon DEF TypeOK
<1>4. InStep'
  BY <1>1, <1>2, Zenon DEF InStep, SmartStore, Queue, Manager, Peers, Standalone
<1> QED  BY <1>3, <1>4 DEF TypeInv

LEMMA StepIsTypeCorrect == ASSUME TypeInv, [Next]_vars PROVE TypeInv'
  BY LoadIsTyped, ReadReadyIsTyped, CheckKeysIsTyped, RenderIsTyped, WriteMapIsTyped, WriteTokenIsTyped,
     ApplyPodsIsTyped, CheckTokenIsTyped, PushBundleIsTyped, ResolveIsTyped, UpdateConfIsTyped,
     RestartSplunkIsTyped, SaveIsTyped, CrashIsTyped, TickIsTyped, EditSpecIsTyped, EditSecretIsTyped,
     PodFailsIsTyped, RefreshIsTyped, BootIsTyped, StutterIsTyped, Zenon
  DEF Next, Reconcile

\* Every variable has its type, whatever happens; the loops over the pods stay
\* inside the StatefulSet.
THEOREM RemoteTypeCorrect == Spec => []TypeOK
<1>1. TypeInv => TypeOK  BY DEF TypeInv
<1> QED  BY <1>1, InitIsTyped, StepIsTypeCorrect, PTL DEF Spec

----------------------------------------------------------------------------
(* A bundle push is current                                                 *)

\* The step leaves the bundle of a manager alone, or makes it the contents of
\* the ConfigMap.
SendsMap == Manager /\ pod'[0].run # pod[0].run => pod'[0].run = map.data

LEMMA SetupIsKept == ASSUME [Next]_vars PROVE setup' = setup
  BY Zenon DEF vars, Next, Reconcile, Load, ReadReady, CheckKeys, Render, WriteMap, WriteToken, ApplyPods, CheckToken,
     PushBundle, Resolve, UpdateConf, RestartSplunk, Save, Refresh, Tick, Boot, EditSpec, EditSecret, PodFails, Crash

LEMMA FirstPodTypes ==
  ASSUME TypeInv
  PROVE  /\ 0 \in Ordinals /\ pod \in [Ordinals -> PodStates]
         /\ pod[0].token \in Nat /\ pod[0].disk \in Config /\ pod[0].run \in Config
         /\ map.token \in Nat /\ map.data \in Config /\ sts.replicas \in Nat
<1>1. 0 \in Ordinals /\ pod \in [Ordinals -> PodStates] /\ map \in [data : Config, token : Nat, rv : Nat]
      /\ sts \in [replicas : 0 .. MaxReplicas, rev : Nat]
  BY StateIsTyped, ConstantTypes DEF WorldType
<1> QED  BY <1>1 DEF PodStates

\* A step that leaves the ConfigMap, the pod and its StatefulSet alone.
LEMMA ManagerAtRest ==
  ASSUME ManagerInv, UNCHANGED <<setup, map, sts, pod>>,
         Manager => pc' \notin {"push", "send"} \/ pc' = pc,
         Manager => (pc = "token" => pc' = "token")
  PROVE  TokenTells' /\ SendsCurrent' /\ SendsMap
<1>1. TokenTells /\ SendsCurrent  BY DEF ManagerInv
<1>2. TokenTells'  BY <1>1 DEF TokenTells, Manager
<1>3. SendsCurrent'  BY <1>1 DEF SendsCurrent, Manager
<1> QED  BY <1>2, <1>3 DEF SendsMap

\* A step that leaves the ConfigMap and the StatefulSet alone and stops pods.
LEMMA ManagerStops ==
  ASSUME ManagerInv, UNCHANGED <<setup, map, sts, pc>>, NEW n \in Ordinals, pod' = [pod EXCEPT ![n].up = FALSE]
  PROVE  TokenTells' /\ SendsCurrent' /\ SendsMap
<1>1. TokenTells /\ SendsCurrent /\ TypeInv  BY DEF ManagerInv
<1>2. 0 \in Ordinals /\ pod \in [Ordinals -> PodStates]  BY <1>1, FirstPodTypes
<1>3. /\ pod'[0].token = pod[0].token /\ pod'[0].disk = pod[0].disk /\ pod'[0].run = pod[0].run
      /\ pod'[0].new = pod[0].new /\ pod'[0].rev = pod[0].rev /\ (pod'[0].up => pod[0].up)
  BY <1>2 DEF PodStates
<1>4. TokenTells'  BY <1>1, <1>3 DEF TokenTells, Manager
<1>5. SendsCurrent'  BY <1>1, <1>3 DEF SendsCurrent, Manager
<1> QED  BY <1>3, <1>4, <1>5 DEF SendsMap

LEMMA ManagerWritesMap == ASSUME ManagerInv, WriteMap PROVE TokenTells' /\ SendsCurrent' /\ SendsMap
<1>1. TokenTells /\ SendsCurrent /\ TypeInv  BY DEF ManagerInv
<1>2. UNCHANGED <<setup, sts, pod>> /\ pc = "write" /\ pc' \in {"pods", "token", "save"}
  BY DEF WriteMap, Goes, GoesWatched, Requeues
<1>3. CASE UNCHANGED map  BY <1>2, <1>3, ManagerAtRest
<1>4. CASE map' = [map EXCEPT !.data = cfg, !.rv = @ + 1] /\ pc' = "token"
  <2>1. map \in [data : Config, token : Nat, rv : Nat]  BY <1>1, StateIsTyped DEF WorldType
  <2>2. map'.token = map.token  BY <1>4, <2>1
  <2>3. TokenTells'  BY <1>1, <1>2, <1>4, <2>2 DEF TokenTells, Manager
  <2>4. SendsCurrent'  BY <1>4 DEF SendsCurrent
  <2> QED  BY <1>2, <2>3, <2>4 DEF SendsMap
<1> QED  BY <1>3, <1>4 DEF WriteMap, GoesWatched

LEMMA ManagerWritesToken ==
  ASSUME ManagerInv, Recovers(setup), WriteToken PROVE TokenTells' /\ SendsCurrent' /\ SendsMap
<1>1. TokenTells /\ SendsCurrent /\ TypeInv  BY DEF ManagerInv
<1>2. UNCHANGED <<setup, sts, pod>> /\ pc' \in {"pods", "save"}  BY DEF WriteToken, Goes, GoesWatched, Requeues
<1>3. SendsCurrent' /\ SendsMap  BY <1>2 DEF SendsCurrent, SendsMap
<1>4. TokenTells'
  <2>1. SUFFICES ASSUME Manager PROVE TokenTells'  BY <1>2 DEF TokenTells, Manager
  <2>2. map' = [map EXCEPT !.token = @ + 1, !.rv = @ + 1]
    BY <2>1 DEF WriteToken, Fault, Happens, Recovers, Manager
  <2>3. map \in [data : Config, token : Nat, rv : Nat]  BY <1>1, StateIsTyped DEF WorldType
  <2>4. map'.token = map.token + 1 /\ map.token \in Nat /\ pod[0].token \in Nat
    BY <1>1, <2>2, <2>3, FirstPodTypes
  <2>5. /\ pod[0].token <= map'.token /\ pod[0].token # map'.token /\ map'.token # 0
        /\ pod[0].token # 0 => pod[0].rev # 0
        /\ pod[0].new => ~pod[0].up /\ pod[0].run = Nothing
    BY <1>1, <2>1, <2>4 DEF TokenTells
  <2> QED  BY <1>2, <2>5 DEF TokenTells
<1> QED  BY <1>3, <1>4

LEMMA ManagerAppliesPods == ASSUME ManagerInv, ApplyPods PROVE TokenTells' /\ SendsCurrent' /\ SendsMap
<1>1. TokenTells /\ SendsCurrent /\ TypeInv  BY DEF ManagerInv
<1>2. UNCHANGED <<setup, map>> /\ pc = "pods" /\ pc' \in {"save", "push", "resolve"}
  BY DEF ApplyPods, Goes, Returns, Requeues
<1>3. 0 \in Ordinals /\ pod \in [Ordinals -> PodStates] /\ cr.replicas \in 1 .. MaxReplicas
  BY <1>1, FirstPodTypes, StateIsTyped
<1>4. /\ pod'[0].token = pod[0].token /\ pod'[0].disk = pod[0].disk /\ pod'[0].run = pod[0].run
      /\ pod'[0].new = pod[0].new /\ pod'[0].rev = pod[0].rev /\ (pod'[0].up => pod[0].up)
  <2>1. CASE pod' = pod  BY <2>1
  <2>2. CASE pod' = Sized(cr.replicas)  BY <1>3, <2>2 DEF Sized
  <2>3. ASSUME NEW n \in Ordinals, pod' = [pod EXCEPT ![n].up = FALSE]
        PROVE  /\ pod'[0].token = pod[0].token /\ pod'[0].disk = pod[0].disk /\ pod'[0].run = pod[0].run
               /\ pod'[0].new = pod[0].new /\ pod'[0].rev = pod[0].rev /\ (pod'[0].up => pod[0].up)
    BY <1>3, <2>3 DEF PodStates
  <2> QED  BY <2>1, <2>2, <2>3 DEF ApplyPods
<1>5. TokenTells'  BY <1>1, <1>2, <1>4 DEF TokenTells, Manager
<1>6. SendsCurrent'
  <2>1. pc' # "send"  BY <1>2
  <2>2. ASSUME pc' = "push", pod'[0].up PROVE pod'[0].rev = sts'.rev
    <3>1. sts' = sts /\ pod' = pod /\ (\A n \in Ordinals : ~Old(n)) /\ sts.replicas = cr.replicas
      BY <2>2 DEF ApplyPods, Requeues, Returns, Goes
    <3> QED  BY <1>3, <2>2, <3>1 DEF Old
  <2> QED  BY <1>2, <2>1, <2>2 DEF SendsCurrent
<1> QED  BY <1>4, <1>5, <1>6 DEF SendsMap

LEMMA ManagerChecksToken == ASSUME ManagerInv, CheckToken PROVE TokenTells' /\ SendsCurrent' /\ SendsMap
<1>1. TokenTells /\ SendsCurrent /\ TypeInv  BY DEF ManagerInv
<1>2. UNCHANGED <<setup, map, sts, pod>> /\ pc = "push" /\ pc' \in {"save", "send"}
  BY DEF CheckToken, Goes, Returns, Requeues, world
<1>3. CASE pc' = "save"  BY <1>2, <1>3, ManagerAtRest
<1>4. CASE pc' = "send"
  <2>1. pod[0].up /\ pod[0].token = map.token  BY <1>4 DEF CheckToken, TokenMatches, Returns, Requeues
  <2>2. TokenTells'  BY <1>1, <1>2, <1>4 DEF TokenTells, Manager
  <2>3. ASSUME Manager PROVE /\ pod[0].rev = sts.rev /\ pod[0].disk = map.data
                             /\ sts.rev # 0 \/ map.data = Nothing
    BY <1>1, <1>2, <2>1, <2>3 DEF TokenTells, SendsCurrent
  <2>4. SendsCurrent'  BY <1>2, <1>4, <2>3 DEF SendsCurrent, Manager
  <2> QED  BY <1>2, <2>2, <2>4 DEF SendsMap
<1> QED  BY <1>2, <1>3, <1>4

LEMMA ManagerPushes == ASSUME ManagerInv, PushBundle PROVE TokenTells' /\ SendsCurrent' /\ SendsMap
<1>1. TokenTells /\ SendsCurrent /\ TypeInv  BY DEF ManagerInv
<1>2. UNCHANGED <<setup, map, sts>> /\ pc = "send" /\ pc' = "save"  BY DEF PushBundle, Returns, Requeues
<1>3. CASE UNCHANGED pod  BY <1>2, <1>3, ManagerAtRest
<1>4. CASE pod[0].up /\ pod' = [pod EXCEPT ![0].run = pod[0].disk]
  <2>1. 0 \in Ordinals /\ pod \in [Ordinals -> PodStates]  BY <1>1, FirstPodTypes
  <2>2. /\ pod'[0].token = pod[0].token /\ pod'[0].disk = pod[0].disk /\ pod'[0].run = pod[0].disk
        /\ pod'[0].new = pod[0].new /\ pod'[0].rev = pod[0].rev /\ pod'[0].up = pod[0].up
    BY <1>4, <2>1 DEF PodStates
  <2>3. TokenTells'  BY <1>1, <1>2, <1>4, <2>2 DEF TokenTells, Manager
  <2>4. SendsCurrent'  BY <1>2 DEF SendsCurrent
  <2>5. SendsMap  BY <1>1, <1>2, <1>4, <2>2 DEF SendsMap, SendsCurrent
  <2> QED  BY <2>3, <2>4, <2>5
<1> QED  BY <1>3, <1>4 DEF PushBundle

LEMMA ManagerBoots == ASSUME ManagerInv, NEW n \in Ordinals, Boot(n) PROVE TokenTells' /\ SendsCurrent' /\ SendsMap
<1>1. TokenTells /\ SendsCurrent /\ TypeInv  BY DEF ManagerInv
<1>2. UNCHANGED <<setup, map, sts, pc>> /\ pod' = [pod EXCEPT ![n] = Booted(n)] /\ (sts.rev # 0 => map.token # 0)
  BY <1>1, BootSets
<1>3. 0 \in Ordinals /\ pod \in [Ordinals -> PodStates] /\ map.token \in Nat  BY <1>1, FirstPodTypes
<1>4. CASE n # 0
  <2>1. pod'[0] = pod[0]  BY <1>2, <1>3, <1>4
  <2> QED  BY <1>1, <1>2, <2>1 DEF TokenTells, SendsCurrent, SendsMap, Manager
<1>5. CASE n = 0
  <2>1. SUFFICES ASSUME Manager PROVE TokenTells' /\ SendsCurrent' /\ SendsMap
    BY <1>2 DEF TokenTells, SendsCurrent, SendsMap, Manager
  <2>2. ~Queue  BY <1>1, <2>1, StateIsTyped
  <2>3. PICK d : d = IF sts.rev # 0 THEN map.data ELSE Nothing  OBVIOUS
  <2>4. pod'[0] = Booted(0) /\ Mounted(0) = d  BY <1>2, <1>3, <1>5, <2>2, <2>3 DEF Mounted
  <2>5. /\ ~pod'[0].new /\ pod'[0].rev = sts.rev /\ pod'[0].disk = d
        /\ pod'[0].token = (IF sts.rev # 0 THEN map.token ELSE 0)
        /\ pod'[0].run = (IF ~pod[0].new THEN pod[0].run ELSE d)
    BY <2>1, <2>4 DEF Booted
  <2>6. TokenTells'
    BY <1>1, <1>2, <1>3, <2>1, <2>3, <2>5 DEF TokenTells, Manager
  <2>7. SendsCurrent'  BY <1>1, <1>2, <2>1, <2>3, <2>5 DEF SendsCurrent, Manager
  <2>8. SendsMap  BY <1>1, <2>1, <2>3, <2>5 DEF SendsMap, TokenTells
  <2> QED  BY <2>6, <2>7, <2>8
<1> QED  BY <1>4, <1>5

LEMMA ManagerRefreshes == ASSUME ManagerInv, Refresh PROVE TokenTells' /\ SendsCurrent' /\ SendsMap
<1>1. TokenTells /\ SendsCurrent /\ TypeInv  BY DEF ManagerInv
<1>2. UNCHANGED <<setup, map, sts, pc>> /\ pod' = [pod EXCEPT ![0].disk = map.data, ![0].token = map.token]
      /\ pod[0].rev # 0
  BY DEF Refresh, recon
<1>3. 0 \in Ordinals /\ pod \in [Ordinals -> PodStates] /\ map.token \in Nat  BY <1>1, FirstPodTypes
<1>4. /\ pod'[0].token = map.token /\ pod'[0].disk = map.data /\ pod'[0].run = pod[0].run
      /\ pod'[0].new = pod[0].new /\ pod'[0].rev = pod[0].rev /\ pod'[0].up = pod[0].up
  BY <1>2, <1>3 DEF PodStates
<1>5. TokenTells'  BY <1>1, <1>2, <1>3, <1>4 DEF TokenTells, Manager
<1>6. SendsCurrent'  BY <1>1, <1>2, <1>4 DEF SendsCurrent, Manager
<1> QED  BY <1>4, <1>5, <1>6 DEF SendsMap

\* The steps of the queue are not those of a manager.
LEMMA ManagerHasNoQueue ==
  ASSUME TypeInv, pc \in QueueSteps PROVE ~Manager
  BY StateIsTyped DEF InStep

LEMMA ManagerStep ==
  ASSUME ManagerInv, Recovers(setup), [Next]_vars PROVE ManagerInv' /\ SendsMap
<1>1. TypeInv /\ TypeInv' /\ setup' = setup  BY StepIsTypeCorrect, SetupIsKept DEF ManagerInv
<1> SUFFICES TokenTells' /\ SendsCurrent' /\ SendsMap  BY <1>1 DEF ManagerInv
<1>2. CASE Load \/ CheckKeys \/ Render \/ Save
  BY <1>2, ManagerAtRest DEF Load, CheckKeys, Render, Save, world, Goes, Requeues, Returns
<1>3. CASE ReadReady \/ Resolve \/ UpdateConf \/ RestartSplunk
  <2>1. ~Manager
    BY <1>1, <1>3, ManagerHasNoQueue DEF ReadReady, Resolve, UpdateConf, RestartSplunk, QueueSteps
  <2> QED  BY <1>1, <2>1 DEF TokenTells, SendsCurrent, SendsMap, Manager
<1>4. CASE Crash
  <2>1. ~Manager  BY <1>4 DEF Crash, Fault, Happens, Recovers, Manager
  <2> QED  BY <1>1, <2>1 DEF TokenTells, SendsCurrent, SendsMap, Manager
<1>5. CASE Tick \/ EditSpec \/ EditSecret \/ UNCHANGED vars
  BY <1>5, ManagerAtRest DEF Tick, EditSpec, EditSecret, vars, world, recon
<1>6. CASE PodFails  BY <1>6, ManagerStops DEF PodFails, recon
<1>7. CASE \E n \in Ordinals : Boot(n)  BY <1>7, ManagerBoots
<1> QED  BY <1>2, <1>3, <1>4, <1>5, <1>6, <1>7, ManagerWritesMap, ManagerWritesToken, ManagerAppliesPods,
            ManagerChecksToken, ManagerPushes, ManagerRefreshes DEF Next, Reconcile

LEMMA ManagerStarts == Init => ManagerInv
<1> SUFFICES ASSUME Init PROVE ManagerInv  OBVIOUS
<1>1. TypeInv  BY InitIsTyped
<1>2. pod[0] = Absent /\ map.data = Nothing /\ map.token = 0 /\ pc = "idle"  BY ConstantTypes DEF Init
<1>3. TokenTells /\ SendsCurrent  BY <1>2, AbsentIsPod DEF TokenTells, SendsCurrent
<1> QED  BY <1>1, <1>3 DEF ManagerInv

LEMMA SetupRecovers == ASSUME Recoverable, TypeInv PROVE Recovers(setup)
  BY StateIsTyped DEF Recoverable, WorldType

\* The bundle that a cluster manager sends to its peers is made of the contents
\* of the ConfigMap of that moment, and so is the first one it makes itself: the
\* token is compared before the push, is written after the contents, and is new
\* with every change.
THEOREM PushesAreCurrent == Recoverable => (Spec => PushIsCurrent)
<1> SUFFICES ASSUME Recoverable PROVE Spec => PushIsCurrent  OBVIOUS
<1>1. ManagerInv /\ [Next]_vars => ManagerInv' /\ SendsMap
  <2> SUFFICES ASSUME ManagerInv, [Next]_vars PROVE ManagerInv' /\ SendsMap  OBVIOUS
  <2>1. Recovers(setup)  BY SetupRecovers DEF ManagerInv
  <2> QED  BY <2>1, ManagerStep
<1>2. SendsMap => [Manager /\ pod'[0].run # pod[0].run => pod'[0].run = map.data]_vars  BY DEF SendsMap
<1> QED  BY <1>1, <1>2, ManagerStarts, PTL DEF Spec, PushIsCurrent

----------------------------------------------------------------------------
(* What the status says of SmartStore is true                               *)

LEMMA SettingsTypes ==
  ASSUME TypeInv
  PROVE  /\ cr.settings \in Nat /\ spec.settings \in Nat /\ map.data.settings \in Nat /\ cfg.settings \in Nat
         /\ st.settings \in Nat /\ status.settings \in Nat
         /\ pod[0].run.settings \in Nat /\ pod[0].disk.settings \in Nat
<1>1. cr \in Specs /\ spec \in Specs /\ cfg \in Config /\ st \in Statuses /\ status \in Statuses
  BY StateIsTyped DEF WorldType, ReconType
<1>2. map.data \in Config /\ pod[0].run \in Config /\ pod[0].disk \in Config  BY FirstPodTypes
<1> QED  BY <1>1, <1>2 DEF Specs, Config, Statuses

\* A step that changes nothing of what is compared.
LEMMA SettingsAtRest ==
  ASSUME SettingsInv, UNCHANGED <<setup, spec, map, cr>>, pod'[0].run = pod[0].run,
         st'.push = st.push, st'.settings = st.settings,
         status'.push = status.push, status'.settings = status.settings,
         \/ pc' = pc /\ cfg' = cfg
         \/ pc \notin {"token", "idle"} /\ pc' \notin {"write", "token", "idle"}
  PROVE  SettingsGrow' /\ PushIsNoted'
<1>1. SettingsGrow /\ PushIsNoted  BY DEF SettingsInv
<1>2. SettingsGrow'  BY <1>1 DEF SettingsGrow, Manager
<1>3. PushIsNoted'  BY <1>1 DEF PushIsNoted, Manager
<1> QED  BY <1>2, <1>3

LEMMA SettingsLoaded == ASSUME SettingsInv, Manager, Load PROVE SettingsGrow' /\ PushIsNoted'
<1>1. SettingsGrow /\ PushIsNoted /\ TypeInv  BY DEF SettingsInv, ManagerInv
<1>2. UNCHANGED <<setup, spec, map, pod, status>> /\ cr' = spec /\ pc = "idle"
      /\ pc' \notin {"idle", "write", "token"}
  BY DEF Load, world
<1>3. st'.push = status.push /\ st'.settings = status.settings
  <2>1. status \in Statuses  BY <1>1, StateIsTyped DEF ReconType
  <2>2. Scaled(status).push = status.push /\ Scaled(status).settings = status.settings
    BY <2>1 DEF Scaled, Statuses
  <2> QED  BY <2>2 DEF Load
<1>4. SettingsGrow'  BY <1>1, <1>2, SettingsTypes DEF SettingsGrow, Manager
<1>5. PushIsNoted'  BY <1>1, <1>2, <1>3 DEF PushIsNoted, Manager
<1> QED  BY <1>4, <1>5

LEMMA SettingsRendered == ASSUME SettingsInv, Manager, Render PROVE SettingsGrow' /\ PushIsNoted'
<1>1. SettingsGrow /\ PushIsNoted /\ TypeInv  BY DEF SettingsInv, ManagerInv
<1>2. UNCHANGED <<setup, spec, map, pod, status, cr, st>> /\ pc = "render"  BY DEF Render, world
<1>3. CASE pc' = "save"  BY <1>2, <1>3, SettingsAtRest
<1>4. CASE pc' = "write" /\ cfg' = Rendered
  <2>1. cfg'.settings = cr.settings  BY <1>4 DEF Rendered, Nothing
  <2>2. SettingsGrow'  BY <1>1, <1>2, <1>4, <2>1 DEF SettingsGrow, Manager
  <2>3. PushIsNoted'  BY <1>1, <1>2, <1>4 DEF PushIsNoted, Manager
  <2> QED  BY <2>2, <2>3
<1> QED  BY <1>3, <1>4 DEF Render, Goes, Requeues

\* What a note in the status changes.
LEMMA NotedSets ==
  ASSUME TypeInv, NEW b \in BOOLEAN, Noted(b)
  PROVE  st'.settings = cr.settings /\ (st'.push <=> st.push \/ (Manager /\ b))
<1>1. st \in Statuses  BY StateIsTyped DEF ReconType
<1>2. st'.settings = cr.settings  BY <1>1 DEF Noted, Statuses
<1>3. PICK p, c : p = (st.push \/ (Manager /\ b)) /\ c = (st.checked \/ (Manager /\ b))  OBVIOUS
<1>4. st' = [st EXCEPT !.settings = cr.settings, !.push = p, !.checked = c]  BY <1>3 DEF Noted
<1>5. st'.push = p  BY <1>1, <1>4 DEF Statuses
<1> QED  BY <1>2, <1>3, <1>5, Zenon

LEMMA SettingsWritten == ASSUME SettingsInv, Manager, WriteMap PROVE SettingsGrow' /\ PushIsNoted'
<1>1. SettingsGrow /\ PushIsNoted /\ TypeInv  BY DEF SettingsInv, ManagerInv
<1>2. UNCHANGED <<setup, spec, pod, status, cr, cfg>> /\ pc = "write"  BY DEF WriteMap
<1>3. CASE map' = map /\ st' = st /\ pc' = "save"  BY <1>2, <1>3, SettingsAtRest
<1>4. CASE map.data = cfg /\ Noted(FALSE) /\ pc' = "pods" /\ map' = map
  <2>1. st'.settings = cr.settings /\ (st'.push <=> st.push)  BY <1>1, <1>4, NotedSets
  <2>2. cr.settings = map.data.settings /\ cr.settings \in Nat  BY <1>1, <1>2, <1>4, SettingsTypes DEF SettingsGrow
  <2>3. SettingsGrow'  BY <1>1, <1>2, <1>4 DEF SettingsGrow, Manager
  <2>4. PushIsNoted'  BY <1>1, <1>2, <1>4, <2>1, <2>2 DEF PushIsNoted, Manager
  <2> QED  BY <2>3, <2>4
<1>5. CASE map' = [map EXCEPT !.data = cfg, !.rv = @ + 1] /\ st' = st /\ pc' = "token"
  <2>1. map \in [data : Config, token : Nat, rv : Nat]  BY <1>1, StateIsTyped DEF WorldType
  <2>2. map'.data = cfg  BY <1>5, <2>1
  <2>3. cfg.settings = cr.settings /\ map.data.settings <= cr.settings  BY <1>1, <1>2 DEF SettingsGrow
  <2>4. SettingsGrow'  BY <1>1, <1>2, <1>5, <2>2, <2>3, SettingsTypes DEF SettingsGrow, Manager
  <2>5. PushIsNoted'  BY <1>1, <1>2, <1>5, <2>2, <2>3, SettingsTypes DEF PushIsNoted, Manager
  <2> QED  BY <2>4, <2>5
<1> QED  BY <1>3, <1>4, <1>5 DEF WriteMap, Goes, GoesWatched, Requeues

LEMMA SettingsTokenWritten ==
  ASSUME SettingsInv, Manager, Recovers(setup), WriteToken PROVE SettingsGrow' /\ PushIsNoted'
<1>1. SettingsGrow /\ PushIsNoted /\ TypeInv  BY DEF SettingsInv, ManagerInv
<1>2. UNCHANGED <<setup, spec, pod, status, cr, cfg>> /\ pc = "token"  BY DEF WriteToken
<1>3. map' = [map EXCEPT !.token = @ + 1, !.rv = @ + 1] /\ Noted(TRUE) /\ pc' = "pods"
  BY DEF WriteToken, Fault, Happens, Recovers, Manager, GoesWatched
<1>4. map \in [data : Config, token : Nat, rv : Nat]  BY <1>1, StateIsTyped DEF WorldType
<1>5. map'.data = map.data  BY <1>3, <1>4
<1>6. st'.settings = cr.settings /\ st'.push  BY <1>1, <1>3, NotedSets
<1>7. cr.settings = map.data.settings /\ cr.settings \in Nat  BY <1>1, <1>2, SettingsTypes DEF SettingsGrow
<1>8. SettingsGrow'  BY <1>1, <1>2, <1>3, <1>5 DEF SettingsGrow, Manager
<1>9. PushIsNoted'  BY <1>1, <1>2, <1>3, <1>5, <1>6, <1>7 DEF PushIsNoted, Manager
<1> QED  BY <1>8, <1>9

LEMMA SettingsPushed == ASSUME SettingsInv, Manager, PushBundle PROVE SettingsGrow' /\ PushIsNoted'
<1>1. SettingsGrow /\ PushIsNoted /\ SendsCurrent /\ TypeInv  BY DEF SettingsInv, ManagerInv
<1>2. UNCHANGED <<setup, spec, map, status, cr, cfg>> /\ pc = "send" /\ pc' = "save"
  BY DEF PushBundle, Requeues, Returns
<1>3. CASE pod' = pod /\ st' = st  BY <1>2, <1>3, SettingsAtRest
<1>4. CASE /\ pod[0].up /\ pod' = [pod EXCEPT ![0].run = pod[0].disk]
           /\ st' = st \/ st' = [st EXCEPT !.push = FALSE]
  <2>1. 0 \in Ordinals /\ pod \in [Ordinals -> PodStates]  BY <1>1, FirstPodTypes
  <2>2. pod'[0].run = map.data  BY <1>1, <1>2, <1>4, <2>1 DEF PodStates, SendsCurrent
  <2>3. st'.settings = st.settings
    <3>1. st \in Statuses  BY <1>1, StateIsTyped DEF ReconType
    <3> QED  BY <1>4, <3>1 DEF Statuses
  <2>4. SettingsGrow'  BY <1>1, <1>2, <2>2, SettingsTypes DEF SettingsGrow, Manager
  <2>5. status.push \/ map.data.settings >= status.settings
    BY <1>1, SettingsTypes DEF PushIsNoted, SettingsGrow
  <2>6. PushIsNoted'  BY <1>1, <1>2, <2>2, <2>3, <2>5, SettingsTypes DEF PushIsNoted, Manager
  <2> QED  BY <2>4, <2>6
<1> QED  BY <1>3, <1>4 DEF PushBundle

LEMMA SettingsSaved ==
  ASSUME SettingsInv, Manager, Recovers(setup), Save PROVE SettingsGrow' /\ PushIsNoted'
<1>1. SettingsGrow /\ PushIsNoted /\ TypeInv  BY DEF SettingsInv, ManagerInv
<1>2. UNCHANGED <<setup, spec, map, pod, cr, st, cfg>> /\ pc = "save" /\ pc' = "idle"  BY DEF Save, world
<1>3. status' = st  BY DEF Save, Fault, Happens, Recovers, Manager
<1>4. SettingsGrow'  BY <1>1, <1>2, SettingsTypes DEF SettingsGrow, Manager
<1>5. PushIsNoted'  BY <1>1, <1>2, <1>3, SettingsTypes DEF PushIsNoted, Manager
<1> QED  BY <1>4, <1>5

LEMMA SettingsEdited == ASSUME SettingsInv, Manager, EditSpec PROVE SettingsGrow' /\ PushIsNoted'
<1>1. SettingsGrow /\ PushIsNoted /\ TypeInv  BY DEF SettingsInv, ManagerInv
<1>2. UNCHANGED <<setup, map, pod, status, pc, cr, st, cfg>>  BY DEF EditSpec, recon
<1>3. spec.settings <= spec'.settings /\ spec'.settings \in Nat
  <2>1. spec \in Specs /\ spec.settings \in Nat /\ ~Queue  BY <1>1, StateIsTyped, SettingsTypes DEF WorldType
  <2>2. PICK s \in 1 .. MaxSettings : s > spec.settings /\ spec' = [spec EXCEPT !.settings = s]
    BY <2>1 DEF EditSpec
  <2>3. spec'.settings = s /\ s \in Nat  BY <2>1, <2>2, ConstantTypes DEF Specs
  <2> QED  BY <2>1, <2>2, <2>3
<1>4. SettingsGrow'  BY <1>1, <1>2, <1>3, SettingsTypes DEF SettingsGrow, Manager
<1>5. PushIsNoted'  BY <1>1, <1>2 DEF PushIsNoted, Manager
<1> QED  BY <1>4, <1>5

LEMMA SettingsBooted ==
  ASSUME SettingsInv, Manager, NEW n \in Ordinals, Boot(n) PROVE SettingsGrow' /\ PushIsNoted'
<1>1. SettingsGrow /\ PushIsNoted /\ TokenTells /\ TypeInv  BY DEF SettingsInv, ManagerInv
<1>2. UNCHANGED <<setup, spec, map, status, pc, cr, st, cfg>> /\ pod' = [pod EXCEPT ![n] = Booted(n)]
  BY <1>1, BootSets
<1>3. 0 \in Ordinals /\ pod \in [Ordinals -> PodStates]  BY <1>1, FirstPodTypes
<1>4. CASE pod'[0].run = pod[0].run  BY <1>2, <1>4, SettingsAtRest
<1>5. CASE pod'[0].run # pod[0].run
  <2>1. n = 0 /\ pod[0].new /\ pod'[0].run = Mounted(0)
    BY <1>2, <1>3, <1>5 DEF Booted
  <2>2. pod[0].run.settings = 0  BY <1>1, <2>1 DEF TokenTells, Nothing
  <2>3. ~Queue  BY <1>1, StateIsTyped
  <2>4. pod'[0].run = map.data \/ pod'[0].run = Nothing  BY <2>1, <2>3 DEF Mounted
  <2>5. pod'[0].run.settings <= map.data.settings /\ pod'[0].run.settings >= 0 /\ pod'[0].run.settings \in Nat
    BY <1>1, <2>4, SettingsTypes DEF Nothing
  <2>6. SettingsGrow'  BY <1>1, <1>2, <2>5 DEF SettingsGrow, Manager
  <2>7. PushIsNoted'
    BY <1>1, <1>2, <2>2, <2>5, SettingsTypes DEF PushIsNoted, Manager
  <2> QED  BY <2>6, <2>7
<1> QED  BY <1>4, <1>5

\* The steps that keep the bundle and the notes of it.
LEMMA SettingsUntouched ==
  ASSUME SettingsInv, Manager, CheckKeys \/ ApplyPods \/ CheckToken \/ Tick \/ Refresh \/ EditSecret \/ PodFails
  PROVE  SettingsGrow' /\ PushIsNoted'
<1>1. TypeInv  BY DEF SettingsInv, ManagerInv
<1>2. st \in Statuses /\ status \in Statuses /\ 0 \in Ordinals /\ pod \in [Ordinals -> PodStates]
      /\ cr.replicas \in 1 .. MaxReplicas
  BY <1>1, StateIsTyped, FirstPodTypes DEF ReconType
<1>3. UNCHANGED <<setup, spec, map, cr>>
  BY DEF CheckKeys, ApplyPods, CheckToken, Tick, Refresh, EditSecret, PodFails, world, recon
<1>4. /\ st'.push = st.push /\ st'.settings = st.settings
      /\ status'.push = status.push /\ status'.settings = status.settings
  <2>1. status' = status \/ status' = [status EXCEPT !.checked = FALSE]
    BY DEF CheckKeys, ApplyPods, CheckToken, Tick, Refresh, EditSecret, PodFails
  <2>2. st' = st \/ st' = [st EXCEPT !.checked = FALSE] \/ st' = [st EXCEPT !.checked = TRUE] \/ Tracks
    BY DEF CheckKeys, ApplyPods, CheckToken, Tick, Refresh, EditSecret, PodFails, recon
  <2>3. Tracks => st'.push = st.push /\ st'.settings = st.settings  BY <1>2 DEF Tracks, Statuses
  <2> QED  BY <1>2, <2>1, <2>2, <2>3 DEF Statuses
<1>5. pod'[0].run = pod[0].run
  <2>1. CASE CheckKeys \/ CheckToken \/ Tick \/ EditSecret  BY <2>1 DEF CheckKeys, CheckToken, Tick, EditSecret, world
  <2>2. CASE ApplyPods \/ Refresh \/ PodFails
    <3>1. CASE pod' = pod  BY <3>1
    <3>2. CASE pod' = Sized(cr.replicas)  BY <1>2, <3>2 DEF Sized
    <3>3. ASSUME NEW m \in Ordinals, pod' = [pod EXCEPT ![m].up = FALSE] PROVE pod'[0].run = pod[0].run
      BY <1>2, <3>3 DEF PodStates
    <3>4. CASE Refresh
      <4>1. pod' = [pod EXCEPT ![0].disk = map.data, ![0].token = map.token]  BY <3>4 DEF Refresh
      <4> QED  BY <1>2, <4>1 DEF PodStates
    <3> QED  BY <2>2, <3>1, <3>2, <3>3, <3>4 DEF ApplyPods, PodFails
  <2> QED  BY <2>1, <2>2
<1>6. \/ pc' = pc /\ cfg' = cfg
      \/ pc \notin {"token", "idle"} /\ pc' \notin {"write", "token", "idle"}
  BY DEF CheckKeys, ApplyPods, CheckToken, Tick, Refresh, EditSecret, PodFails, recon, Goes, Requeues, Returns
<1> QED  BY <1>3, <1>4, <1>5, <1>6, SettingsAtRest

LEMMA SettingsStep == ASSUME SettingsInv, Recovers(setup), [Next]_vars PROVE SettingsInv'
<1>1. ManagerInv /\ ManagerInv' /\ TypeInv /\ setup' = setup
  BY ManagerStep, SetupIsKept DEF SettingsInv, ManagerInv
<1> SUFFICES SettingsGrow' /\ PushIsNoted'  BY <1>1 DEF SettingsInv
<1>2. CASE ~Manager  BY <1>1, <1>2 DEF SettingsGrow, PushIsNoted, Manager
<1>3. CASE Manager
  <2>1. ~(ReadReady \/ Resolve \/ UpdateConf \/ RestartSplunk)
    BY <1>1, <1>3, ManagerHasNoQueue DEF ReadReady, Resolve, UpdateConf, RestartSplunk, QueueSteps
  <2>2. ~Crash  BY <1>3 DEF Crash, Fault, Happens, Recovers, Manager
  <2>3. CASE UNCHANGED vars  BY <2>3, SettingsAtRest DEF vars, world, recon
  <2> QED  BY <1>3, <2>1, <2>2, <2>3, SettingsLoaded, SettingsRendered, SettingsWritten, SettingsTokenWritten,
              SettingsPushed, SettingsSaved, SettingsEdited, SettingsBooted, SettingsUntouched
           DEF Next, Reconcile
<1> QED  BY <1>2, <1>3

LEMMA SettingsStart == Init => SettingsInv
<1> SUFFICES ASSUME Init PROVE SettingsInv  OBVIOUS
<1>1. ManagerInv /\ TypeInv  BY ManagerStarts DEF ManagerInv
<1>2. pod[0].run = Nothing /\ map.data = Nothing /\ pc = "idle" /\ cr = spec /\ status = NoStatus /\ st = NoStatus
  BY ConstantTypes, AbsentIsPod DEF Init
<1>3. SettingsGrow /\ PushIsNoted
  BY <1>1, <1>2, SettingsTypes DEF SettingsGrow, PushIsNoted, Nothing, NoStatus
<1> QED  BY <1>1, <1>3 DEF SettingsInv

----------------------------------------------------------------------------
(* What the status says of the queue is true                                *)

LEMMA QueueTypes ==
  ASSUME TypeInv
  PROVE  /\ cfg.keys[LastSecret] \in Nat /\ secret[LastSecret].rv \in Nat
         /\ \A n \in Ordinals : Key(n) \in Nat /\ RunKey(n) \in Nat
         /\ status.version \in Nat /\ st.version \in Nat /\ status.replicas \in Nat /\ st.replicas \in Nat
         /\ cr.replicas \in Nat \ {0} /\ spec.replicas \in Nat \ {0} /\ sts.replicas \in Nat
         /\ at \in Nat /\ ready \in Nat
         /\ pod \in [Ordinals -> PodStates] /\ Ordinals \subseteq Nat /\ LastSecret \in Secrets
<1>1. /\ cr \in Specs /\ spec \in Specs /\ cfg \in Config /\ st \in Statuses /\ status \in Statuses
      /\ secret \in [Secrets -> [rv : Versions, ok : BOOLEAN]] /\ pod \in [Ordinals -> PodStates]
      /\ sts \in [replicas : 0 .. MaxReplicas, rev : Nat] /\ at \in Ordinals /\ ready \in 0 .. MaxReplicas
  BY StateIsTyped DEF WorldType, ReconType
<1>2. LastSecret \in Secrets /\ Ordinals \subseteq Nat /\ MaxReplicas \in Nat /\ Versions \subseteq Nat
  BY ConstantTypes DEF Versions
<1>3. cfg.keys[LastSecret] \in Nat /\ secret[LastSecret].rv \in Nat  BY <1>1, <1>2 DEF Config
<1>4. ASSUME NEW n \in Ordinals PROVE Key(n) \in Nat /\ RunKey(n) \in Nat
  <2>1. pod[n].disk \in Config /\ pod[n].run \in Config  BY <1>1 DEF PodStates
  <2> QED  BY <1>2, <2>1 DEF Key, RunKey, Config
<1>5. status.version \in Nat /\ st.version \in Nat /\ status.replicas \in Nat /\ st.replicas \in Nat
  <2>1. status.version \in Versions /\ st.version \in Versions  BY <1>1 DEF Statuses
  <2>2. status.replicas \in 0 .. MaxReplicas /\ st.replicas \in 0 .. MaxReplicas  BY <1>1 DEF Statuses
  <2>3. \A m \in 0 .. MaxReplicas : m \in Nat  BY <1>2
  <2> QED  BY <1>2, <2>1, <2>2, <2>3
<1>6. cr.replicas \in Nat \ {0} /\ spec.replicas \in Nat \ {0} /\ sts.replicas \in Nat  BY <1>1, <1>2 DEF Specs
<1> QED  BY <1>1, <1>2, <1>3, <1>4, <1>5, <1>6

\* The step takes no key from a disk, and an instance that is up runs with the
\* keys that it ran with or with those that it finds on its disk.
PodsKeep ==
  \A n \in Ordinals :
    /\ Key(n)' \in Nat /\ RunKey(n)' \in Nat /\ Key(n)' >= Key(n)
    /\ pod'[n].up => (pod[n].up /\ RunKey(n)' = RunKey(n)) \/ RunKey(n)' = Key(n)

LEMMA AppliedKept ==
  ASSUME TypeInv, PodsKeep, sts'.replicas = sts.replicas, NEW s, s.version \in Nat, Applied(s)
  PROVE  Applied(s)'
<1>1. SUFFICES ASSUME s.version > ResetVersion, NEW n \in Ordinals, n < s.replicas, n < sts.replicas
               PROVE  Key(n)' >= s.version /\ (pod'[n].up => RunKey(n)' >= s.version)
  BY DEF Applied
<1>2. Key(n) >= s.version /\ (pod[n].up => RunKey(n) >= s.version)  BY <1>1 DEF Applied
<1>3. Key(n) \in Nat /\ RunKey(n) \in Nat  BY QueueTypes
<1>4. Key(n)' \in Nat /\ RunKey(n)' \in Nat /\ Key(n)' >= Key(n)
      /\ (pod'[n].up => (pod[n].up /\ RunKey(n)' = RunKey(n)) \/ RunKey(n)' = Key(n))
  BY DEF PodsKeep
<1> QED  BY <1>2, <1>3, <1>4

\* Steps that leave what is noted in the status alone, and the number of pods.
LEMMA VersionsKept ==
  ASSUME QueueInv, Queue, UNCHANGED <<setup, cr>>, sts'.replicas = sts.replicas, PodsKeep,
         st'.version = st.version, st'.replicas = st.replicas,
         status'.version = status.version, status'.replicas = status.replicas,
         pc # "idle" \/ pc' = "idle", pc' \in {"idle", "pods"} => pc' = pc \/ Peers \/ Stable,
         Stable => spec'.replicas = spec.replicas
  PROVE  VersionsAreTrue'
<1>1. VersionsAreTrue /\ TypeInv  BY DEF QueueInv
<1>2. status.version \in Nat /\ st.version \in Nat  BY <1>1, QueueTypes
<1>3. PICK s : s = status  OBVIOUS
<1>4. Applied(s)'  BY <1>1, <1>2, <1>3, AppliedKept DEF VersionsAreTrue
<1>5. Applied(status)'  BY <1>3, <1>4 DEF Applied
<1>6. PICK u : u = st  OBVIOUS
<1>7. pc # "idle" => Applied(u)'  BY <1>1, <1>2, <1>6, AppliedKept DEF VersionsAreTrue
<1>8. pc # "idle" => Applied(st)'  BY <1>6, <1>7 DEF Applied
<1>9. pc # "idle" => Covered(st)'  BY <1>1 DEF VersionsAreTrue, Covered
<1>10. (Peers \/ Stable \/ pc' \in {"idle", "pods"}) => Covered(status)'  BY <1>1 DEF VersionsAreTrue, Covered
<1> QED  BY <1>1, <1>5, <1>8, <1>9, <1>10 DEF VersionsAreTrue, Queue, SmartStore, Manager, Standalone, Peers, Stable

LEMMA KeysKept ==
  ASSUME QueueInv, Queue, setup' = setup, cfg'.keys[LastSecret] <= secret'[LastSecret].rv,
         \A n \in Ordinals : Key(n)' <= secret'[LastSecret].rv,
         \/ pc' \notin {"conf", "restart"}
         \/ /\ cfg' = cfg /\ pc \in {"conf", "restart"}
            /\ \A n \in Ordinals : Key(n)' = Key(n) \/ Key(n)' = cfg.keys[LastSecret]
  PROVE  KeysGrow'
<1>1. KeysGrow /\ TypeInv  BY DEF QueueInv
<1>2. cfg.keys[LastSecret] \in Nat  BY <1>1, QueueTypes
<1> QED  BY <1>1, <1>2 DEF KeysGrow, Queue, SmartStore, Manager, Standalone

\* Steps that leave the loops alone.
LEMMA LoopsKept ==
  ASSUME QueueInv, Queue, UNCHANGED <<setup, cr>>, st'.replicas = st.replicas, pc # "idle" \/ pc' = "idle",
         \/ pc' \notin {"resolve", "conf", "restart"}
         \/ pc' = pc /\ UNCHANGED <<cfg, at, ready, failed>> /\ PodsKeep
  PROVE  LoopsApply'
<1>1. LoopsApply /\ TypeInv  BY DEF QueueInv
<1>2. pc' # "idle" => st'.replicas = cr'.replicas  BY <1>1 DEF LoopsApply
<1>3. CASE pc' \notin {"resolve", "conf", "restart"}  BY <1>2, <1>3 DEF LoopsApply
<1>4. CASE pc' = pc /\ UNCHANGED <<cfg, at, ready, failed>> /\ PodsKeep
  <2>1. at \in Ordinals /\ cr.replicas \in 1 .. MaxReplicas /\ cfg.keys[LastSecret] \in Nat /\ MaxReplicas \in Nat
    BY <1>1, StateIsTyped, QueueTypes, ConstantTypes DEF ReconType
  <2>2. 0 .. at - 1 \subseteq Ordinals /\ 0 .. cr.replicas - 1 \subseteq Ordinals  BY <2>1 DEF Ordinals
  <2>3. pc = "restart" => at < cr.replicas  BY <1>1, StateIsTyped DEF InStep
  <2>4. ASSUME NEW n \in Ordinals, Key(n) >= cfg.keys[LastSecret] PROVE Key(n)' >= cfg.keys[LastSecret]
    <3>1. Key(n)' \in Nat /\ Key(n)' >= Key(n) /\ Key(n) \in Nat  BY <1>1, <1>4, QueueTypes DEF PodsKeep
    <3> QED  BY <2>1, <2>4, <3>1
  <2>5. ASSUME NEW n \in Ordinals, Key(n) >= cfg.keys[LastSecret], pod[n].up => RunKey(n) >= cfg.keys[LastSecret],
               pod'[n].up
        PROVE  RunKey(n)' >= cfg.keys[LastSecret]
    BY <1>4, <2>5 DEF PodsKeep
  <2>6. pc = "conf" /\ ~failed => \A n \in 0 .. at - 1 : Key(n)' >= cfg.keys[LastSecret]
    BY <1>1, <2>2, <2>4 DEF LoopsApply
  <2>7. pc = "restart" => \A n \in 0 .. cr.replicas - 1 : Key(n)' >= cfg.keys[LastSecret]
    BY <1>1, <2>2, <2>4 DEF LoopsApply
  <2>8. pc = "restart" => \A n \in 0 .. at - 1 : pod'[n].up => RunKey(n)' >= cfg.keys[LastSecret]
    <3>1. pc = "restart" => \A n \in 0 .. at - 1 : n \in 0 .. cr.replicas - 1  BY <2>1, <2>3 DEF Ordinals
    <3> QED  BY <1>1, <2>2, <2>5, <3>1 DEF LoopsApply
  <2>9. Peers /\ pc \in {"resolve", "conf", "restart"} => ready' = cr.replicas  BY <1>1, <1>4 DEF LoopsApply
  <2> QED  BY <1>2, <1>4, <2>6, <2>7, <2>8, <2>9 DEF LoopsApply, Peers
<1> QED  BY <1>3, <1>4

LEMMA PodsStay == ASSUME TypeInv, pod' = pod PROVE PodsKeep /\ \A n \in Ordinals : Key(n)' = Key(n)
<1>1. \A n \in Ordinals : Key(n)' = Key(n) /\ RunKey(n)' = RunKey(n)  BY DEF Key, RunKey
<1>2. \A n \in Ordinals : Key(n) \in Nat /\ RunKey(n) \in Nat  BY QueueTypes
<1> QED  BY <1>1, <1>2 DEF PodsKeep

LEMMA PodStops ==
  ASSUME TypeInv, NEW m \in Ordinals, pod' = [pod EXCEPT ![m].up = FALSE]
  PROVE  PodsKeep /\ ~pod'[m].up /\ \A n \in Ordinals : Key(n)' = Key(n) /\ RunKey(n)' = RunKey(n)
<1>1. pod \in [Ordinals -> PodStates]  BY QueueTypes
<1>2. ASSUME NEW n \in Ordinals
      PROVE  pod'[n].disk = pod[n].disk /\ pod'[n].run = pod[n].run /\ (pod'[n].up => pod[n].up)
  BY <1>1 DEF PodStates
<1>3. \A n \in Ordinals : Key(n)' = Key(n) /\ RunKey(n)' = RunKey(n)  BY <1>2 DEF Key, RunKey
<1>4. \A n \in Ordinals : Key(n) \in Nat /\ RunKey(n) \in Nat  BY QueueTypes
<1>5. ~pod'[m].up  BY <1>1 DEF PodStates
<1> QED  BY <1>2, <1>3, <1>4, <1>5 DEF PodsKeep

\* A step that ends the reconcile, or leaves it where it is.
LEMMA QueueKeeps ==
  ASSUME QueueInv, Queue, UNCHANGED <<setup, cr>>, sts'.replicas = sts.replicas, PodsKeep,
         \A n \in Ordinals : Key(n)' = Key(n), secret'[LastSecret].rv \in Nat,
         secret'[LastSecret].rv >= secret[LastSecret].rv, cfg'.keys[LastSecret] <= secret'[LastSecret].rv,
         st'.version = st.version, st'.replicas = st.replicas,
         status'.version = status.version, status'.replicas = status.replicas,
         Stable => spec'.replicas = spec.replicas,
         (pc' = "save" /\ pc # "idle") \/ (pc' = pc /\ UNCHANGED <<cfg, at, ready, failed>>)
  PROVE  KeysGrow' /\ LoopsApply' /\ VersionsAreTrue'
<1>1. \A n \in Ordinals : Key(n)' <= secret'[LastSecret].rv
  <2>1. \A n \in Ordinals : Key(n) <= secret[LastSecret].rv  BY DEF QueueInv, KeysGrow
  <2>2. secret[LastSecret].rv \in Nat /\ \A n \in Ordinals : Key(n) \in Nat  BY QueueTypes DEF QueueInv
  <2> QED  BY <2>1, <2>2
<1>2. KeysGrow'  BY <1>1, KeysKept
<1>3. LoopsApply'  BY LoopsKept
<1>4. VersionsAreTrue'  BY VersionsKept
<1> QED  BY <1>2, <1>3, <1>4

LEMMA QueueLoaded == ASSUME QueueInv, Queue, Load PROVE KeysGrow' /\ LoopsApply' /\ VersionsAreTrue'
<1>1. TypeInv /\ KeysGrow /\ VersionsAreTrue  BY DEF QueueInv
<1>2. UNCHANGED <<setup, spec, secret, sts, pod, status>> /\ cr' = spec /\ pc = "idle" /\ cfg' = Nothing
      /\ st' = Scaled(status)
  BY DEF Load, world, Rejected, Queue
<1>3. pc' \in {"ready", "pods"}  BY DEF Load, Queue, Rejected
<1>4. \A n \in Ordinals : Key(n)' = Key(n)  BY <1>1, <1>2, PodsStay
<1>5. KeysGrow'
  <2>1. cfg'.keys[LastSecret] = 0 /\ secret[LastSecret].rv \in Nat
    BY <1>1, <1>2, QueueTypes DEF Nothing, NoKeys
  <2>2. \A n \in Ordinals : Key(n) <= secret[LastSecret].rv  BY <1>1 DEF KeysGrow
  <2> QED  BY <1>2, <1>3, <1>4, <2>1, <2>2, KeysKept
<1>6. status \in Statuses /\ spec.replicas \in Nat /\ status.replicas \in Nat /\ sts.replicas \in Nat
      /\ status.version \in Nat
  BY <1>1, StateIsTyped, QueueTypes DEF ReconType
<1>7. /\ st'.replicas = spec.replicas
      /\ \/ st'.version = ResetVersion
         \/ st'.version = status.version /\ spec.replicas <= status.replicas
  BY <1>2, <1>6 DEF Scaled, Statuses
<1>8. LoopsApply'  BY <1>2, <1>3, <1>7 DEF LoopsApply
<1>9. VersionsAreTrue'
  <2>1. Applied(status) /\ Covered(status) /\ (Stable => sts.replicas = 0 \/ sts.replicas = spec.replicas)
    BY <1>1, <1>2 DEF VersionsAreTrue
  <2>2. Applied(status)' /\ Covered(status)'  BY <1>2, <2>1 DEF Applied, Covered, Key, RunKey
  <2>3. CASE st'.version = ResetVersion
    <3>1. Applied(st)' /\ Covered(st)'  BY <2>3 DEF Applied, Covered, ResetVersion
    <3> QED  BY <1>2, <2>1, <2>2, <3>1 DEF VersionsAreTrue, Stable
  <2>4. CASE st'.version = status.version /\ spec.replicas <= status.replicas
    <3>1. Covered(st)'  BY <1>2, <1>6, <1>7, <2>1, <2>4 DEF Covered
    <3>2. Applied(st)'
      <4>1. SUFFICES ASSUME status.version > ResetVersion, NEW n \in Ordinals, n < spec.replicas, n < sts.replicas
                     PROVE  Key(n)' >= status.version /\ (pod'[n].up => RunKey(n)' >= status.version)
        BY <1>2, <1>7, <2>4 DEF Applied
      <4>2. n < status.replicas  BY <1>6, <2>4, <4>1, ConstantTypes
      <4>3. Key(n) >= status.version /\ (pod[n].up => RunKey(n) >= status.version)
        BY <2>1, <4>1, <4>2 DEF Applied
      <4> QED  BY <1>2, <4>3 DEF Key, RunKey
    <3> QED  BY <1>2, <2>1, <2>2, <3>1, <3>2 DEF VersionsAreTrue, Stable
  <2> QED  BY <1>7, <2>3, <2>4
<1> QED  BY <1>5, <1>8, <1>9

LEMMA QueueReads == ASSUME QueueInv, Queue, ReadReady PROVE KeysGrow' /\ LoopsApply' /\ VersionsAreTrue'
<1>1. TypeInv /\ KeysGrow  BY DEF QueueInv
<1>2. UNCHANGED <<setup, spec, secret, sts, pod, status, cr, st, cfg>> /\ pc = "ready" /\ pc' \in {"save", "pods"}
  BY DEF ReadReady, world, Goes, Requeues
<1>3. PodsKeep /\ \A n \in Ordinals : Key(n)' = Key(n)  BY <1>1, <1>2, PodsStay
<1>4. KeysGrow'
  BY <1>1, <1>2, <1>3, KeysKept DEF KeysGrow
<1>5. LoopsApply'  BY <1>2, <1>3, LoopsKept
<1>6. CASE pc' = "save" \/ Peers
  <2>1. VersionsAreTrue'  BY <1>2, <1>3, <1>6, VersionsKept
  <2> QED  BY <1>4, <1>5, <2>1
<1>7. Peers
  BY <1>1, <1>2, StateIsTyped DEF InStep
<1> QED  BY <1>6, <1>7

\* The ConfigMap of SmartStore plays no part: the number of pods is what counts.
LEMMA QueueAppliesPods ==
  ASSUME QueueInv, Queue, Recovers(setup), ApplyPods PROVE KeysGrow' /\ LoopsApply' /\ VersionsAreTrue'
<1>1. TypeInv /\ KeysGrow /\ LoopsApply /\ VersionsAreTrue  BY DEF QueueInv
<1>2. UNCHANGED <<setup, spec, secret, status, at, cr, st, cfg, failed>> /\ pc = "pods" /\ Noticed
  BY DEF ApplyPods
<1>3. cfg.keys[LastSecret] <= secret[LastSecret].rv /\ secret[LastSecret].rv \in Nat
      /\ \A n \in Ordinals : Key(n) <= secret[LastSecret].rv
  BY <1>1, QueueTypes DEF KeysGrow
<1>4. CASE pc' = "save" /\ sts' = sts /\ pod' = pod
  <2>1. PodsKeep /\ \A n \in Ordinals : Key(n)' = Key(n)  BY <1>1, <1>4, PodsStay
  <2> QED  BY <1>2, <1>3, <1>4, <2>1, QueueKeeps
<1>5. ASSUME NEW m \in Ordinals, pc' = "save", sts' = sts, pod' = [pod EXCEPT ![m].up = FALSE]
      PROVE  KeysGrow' /\ LoopsApply' /\ VersionsAreTrue'
  <2>1. PodsKeep /\ \A n \in Ordinals : Key(n)' = Key(n)  BY <1>1, <1>5, PodStops
  <2> QED  BY <1>2, <1>3, <1>5, <2>1, QueueKeeps
<1>6. CASE /\ pc' = "resolve" /\ sts' = sts /\ pod' = pod /\ AllUp /\ sts.replicas = cr.replicas
  <2>1. PodsKeep /\ \A n \in Ordinals : Key(n)' = Key(n)  BY <1>1, <1>6, PodsStay
  <2>2. KeysGrow'  BY <1>2, <1>3, <1>6, <2>1, KeysKept
  <2>3. VersionsAreTrue'  BY <1>2, <1>6, <2>1, VersionsKept
  <2>4. ASSUME Peers PROVE ready' = cr.replicas
    <3>1. PodsUp = sts.replicas  BY <1>1, <1>6, UpAreCounted, StateIsTyped DEF InStep
    <3> QED  BY <1>2, <1>6, <2>4, <3>1 DEF Noticed, Recovers, Peers
  <2>5. LoopsApply'  BY <1>1, <1>2, <1>6, <2>4 DEF LoopsApply, Peers
  <2> QED  BY <2>2, <2>3, <2>5
<1>7. ASSUME NEW t, pc' = "save", ~Drains, sts' = [replicas |-> cr.replicas, rev |-> t], pod' = Sized(cr.replicas)
      PROVE  KeysGrow' /\ LoopsApply' /\ VersionsAreTrue'
  <2>1. sts'.replicas = cr.replicas /\ cr.replicas \in Nat /\ sts.replicas \in Nat /\ status.replicas \in Nat
        /\ st.replicas = cr.replicas
    BY <1>1, <1>2, <1>7, QueueTypes DEF LoopsApply
  <2>2. ASSUME NEW n \in Ordinals PROVE pod'[n] = IF n < cr.replicas THEN pod[n] ELSE Absent
    BY <1>7 DEF Sized
  <2>3. ASSUME NEW n \in Ordinals PROVE Key(n)' <= secret'[LastSecret].rv
    <3>1. CASE n < cr.replicas  BY <1>2, <1>3, <2>2, <3>1 DEF Key
    <3>2. CASE ~(n < cr.replicas)
      <4>1. Key(n)' = 0  BY <2>2, <3>2, AbsentIsPod, ConstantTypes DEF Key, Nothing, NoKeys
      <4> QED  BY <1>2, <1>3, <4>1
    <3> QED  BY <3>1, <3>2
  <2>4. KeysGrow'  BY <1>2, <1>3, <1>7, <2>3, KeysKept
  <2>5. LoopsApply'  BY <1>2, <1>7, LoopsKept
  <2>6. Applied(status) /\ Covered(status) /\ Applied(st) /\ Covered(st)  BY <1>1, <1>2 DEF VersionsAreTrue
  <2>7. ASSUME NEW s, Applied(s), Covered(s), s.replicas \in Nat PROVE Applied(s)'
    <3>1. SUFFICES ASSUME s.version > ResetVersion, NEW n \in Ordinals, n < s.replicas, n < cr.replicas
                   PROVE  Key(n)' >= s.version /\ (pod'[n].up => RunKey(n)' >= s.version)
      BY <2>1 DEF Applied
    <3>2. n < sts.replicas  BY <2>1, <2>7, <3>1, ConstantTypes DEF Covered
    <3>3. Key(n) >= s.version /\ (pod[n].up => RunKey(n) >= s.version)  BY <2>7, <3>1, <3>2 DEF Applied
    <3>4. pod'[n] = pod[n]  BY <2>2, <3>1
    <3> QED  BY <3>3, <3>4 DEF Key, RunKey
  <2>8. Applied(status)'
    <3>1. PICK s : s = status  OBVIOUS
    <3>2. Applied(s)'  BY <2>1, <2>6, <2>7, <3>1
    <3> QED  BY <1>2, <3>1, <3>2 DEF Applied
  <2>9. Applied(st)'
    <3>1. PICK s : s = st  OBVIOUS
    <3>2. Applied(s)'  BY <2>1, <2>6, <2>7, <3>1
    <3> QED  BY <1>2, <3>1, <3>2 DEF Applied
  <2>10. Covered(st)'  BY <1>2, <2>1 DEF Covered
  <2>11. Peers \/ Stable => Covered(status)'
    <3>1. ASSUME Peers, status.version > ResetVersion PROVE status.replicas <= cr.replicas
      BY <1>7, <2>1, <2>6, <3>1 DEF Drains, Covered
    <3>2. ASSUME Stable, status.version > ResetVersion PROVE status.replicas <= cr.replicas
      BY <1>1, <2>1, <2>6, <3>2 DEF VersionsAreTrue, Covered
    <3> QED  BY <1>2, <2>1, <3>1, <3>2 DEF Covered
  <2>12. VersionsAreTrue'
    BY <1>1, <1>2, <1>7, <2>1, <2>8, <2>9, <2>10, <2>11 DEF VersionsAreTrue, Stable, Peers
  <2> QED  BY <2>4, <2>5, <2>12
<1>8. PICK t \in 0 .. map.rv :
       \/ /\ Drains /\ Requeues /\ UNCHANGED <<sts, pod>>
       \/ /\ ~Drains /\ sts # [replicas |-> cr.replicas, rev |-> t]
          /\ sts' = [replicas |-> cr.replicas, rev |-> t]
          /\ pod' = Sized(cr.replicas) /\ Requeues
       \/ /\ sts = [replicas |-> cr.replicas, rev |-> t] /\ UNCHANGED sts
          /\ \/ ~AllUp /\ Requeues /\ UNCHANGED pod
             \/ /\ AllUp /\ Requeues
                /\ \E n \in Ordinals : Old(n) /\ pod' = [pod EXCEPT ![n].up = FALSE]
             \/ /\ AllUp /\ (\A n \in Ordinals : ~Old(n)) /\ UNCHANGED pod
                /\ \/ Manager /\ Goes("push")
                   \/ Standalone /\ Returns
                   \/ Queue /\ Goes("resolve")
  BY DEF ApplyPods
<1>9. ~Manager /\ ~Standalone  BY DEF Queue, SmartStore
<1> QED  BY <1>4, <1>5, <1>6, <1>7, <1>8, <1>9 DEF Requeues, Goes

LEMMA QueueResolves == ASSUME QueueInv, Queue, Resolve PROVE KeysGrow' /\ LoopsApply' /\ VersionsAreTrue'
<1>1. TypeInv /\ KeysGrow /\ LoopsApply  BY DEF QueueInv
<1>2. UNCHANGED <<setup, spec, secret, sts, pod, status, at, cr, st, ready, failed>> /\ pc = "resolve"
  BY DEF Resolve, world
<1>3. cfg.keys[LastSecret] <= secret[LastSecret].rv /\ secret[LastSecret].rv \in Nat
      /\ \A n \in Ordinals : Key(n) <= secret[LastSecret].rv
  BY <1>1, QueueTypes DEF KeysGrow
<1>4. PodsKeep /\ \A n \in Ordinals : Key(n)' = Key(n)  BY <1>1, <1>2, PodsStay
<1>5. QueueConfig.keys = NoKeys \/ QueueConfig.keys[LastSecret] = secret[LastSecret].rv
  BY ConstantTypes DEF QueueConfig, NoKeys
<1>6. cfg' = cfg \/ cfg' = QueueConfig  BY DEF Resolve
<1>7. cfg'.keys[LastSecret] <= secret[LastSecret].rv
  BY <1>3, <1>5, <1>6, ConstantTypes DEF NoKeys
<1>8. CASE pc' = "save"
  <2>1. secret'[LastSecret].rv \in Nat /\ secret'[LastSecret].rv >= secret[LastSecret].rv
        /\ cfg'.keys[LastSecret] <= secret'[LastSecret].rv
    BY <1>2, <1>3, <1>7
  <2> QED  BY <1>2, <1>4, <1>8, <2>1, QueueKeeps
<1>9. CASE pc' = "conf" /\ cfg' = QueueConfig
  <2>1. KeysGrow'
    BY <1>2, <1>3, <1>4, <1>5, <1>7, <1>9 DEF KeysGrow
  <2>2. VersionsAreTrue'  BY <1>2, <1>4, <1>9, VersionsKept
  <2>3. at = 0  BY <1>1, <1>2, StateIsTyped DEF InStep
  <2>4. LoopsApply'  BY <1>1, <1>2, <1>9, <2>3 DEF LoopsApply, Peers
  <2> QED  BY <2>1, <2>2, <2>4
<1> QED  BY <1>8, <1>9 DEF Resolve, Goes, Returns, Requeues

LEMMA QueueUpdatesConf == ASSUME QueueInv, Queue, UpdateConf PROVE KeysGrow' /\ LoopsApply' /\ VersionsAreTrue'
<1>1. TypeInv /\ KeysGrow /\ LoopsApply /\ InStep  BY StateIsTyped DEF QueueInv
<1>2. UNCHANGED <<setup, spec, secret, sts, status, cr, st, cfg, ready>> /\ pc = "conf"  BY DEF UpdateConf
<1>3. cfg.keys[LastSecret] <= secret[LastSecret].rv /\ secret[LastSecret].rv \in Nat /\ cfg.keys[LastSecret] \in Nat
      /\ (\A n \in Ordinals : Key(n) <= secret[LastSecret].rv /\ Key(n) \in Nat /\ RunKey(n) \in Nat)
      /\ (cfg.keys = NoKeys \/ \A n \in Ordinals : Key(n) <= cfg.keys[LastSecret])
  BY <1>1, <1>2, QueueTypes DEF KeysGrow
<1>4. at \in Ordinals /\ pod \in [Ordinals -> PodStates] /\ cfg \in Config
  BY <1>1, StateIsTyped DEF ReconType, WorldType
<1>0. PICK a \in Ordinals : a = at  BY <1>4
<1> DEFINE W == pod' = [pod EXCEPT ![a].disk = Written(pod[a].disk)]
<1>5. pod' = pod \/ W  BY <1>0, <1>4 DEF UpdateConf, PodStates
<1>6. ASSUME W PROVE /\ Key(a)' >= cfg.keys[LastSecret]
                     /\ Key(a)' = Key(a) \/ Key(a)' = cfg.keys[LastSecret]
                     /\ \A n \in Ordinals : n # a => Key(n)' = Key(n)
                     /\ \A n \in Ordinals : RunKey(n)' = RunKey(n) /\ pod'[n].up = pod[n].up
  <2>1. pod'[a].disk = Written(pod[a].disk) /\ (\A n \in Ordinals : n # a => pod'[n].disk = pod[n].disk)
        /\ \A n \in Ordinals : pod'[n].run = pod[n].run /\ pod'[n].up = pod[n].up
    BY <1>4, <1>6 DEF PodStates
  <2>2. Written(pod[a].disk).keys = IF cfg.keys = NoKeys THEN pod[a].disk.keys ELSE cfg.keys
    BY <1>4 DEF Written, Config
  <2>3. Key(a)' = IF cfg.keys = NoKeys THEN Key(a) ELSE cfg.keys[LastSecret]  BY <2>1, <2>2 DEF Key
  <2>4. cfg.keys = NoKeys => cfg.keys[LastSecret] = 0  BY ConstantTypes DEF NoKeys
  <2>5. Key(a)' >= cfg.keys[LastSecret] /\ (Key(a)' = Key(a) \/ Key(a)' = cfg.keys[LastSecret])
    BY <1>3, <2>3, <2>4
  <2> QED  BY <2>1, <2>5 DEF Key, RunKey
<1>7. \A n \in Ordinals : Key(n)' = Key(n) \/ Key(n)' = cfg.keys[LastSecret]
  <2>1. CASE pod' = pod  BY <2>1 DEF Key
  <2> QED  BY <1>5, <1>6, <2>1
<1>8. \A n \in Ordinals : Key(n)' >= Key(n)
  <2>1. CASE pod' = pod  BY <1>3, <2>1 DEF Key
  <2>2. CASE W
    <3>1. ASSUME NEW n \in Ordinals PROVE Key(n)' >= Key(n)
      <4>1. CASE n # a  BY <1>3, <1>6, <2>2, <4>1
      <4>2. CASE n = a
        <5>1. cfg.keys = NoKeys => cfg.keys[LastSecret] = 0  BY ConstantTypes DEF NoKeys
        <5>2. Key(a)' = Key(a) \/ Key(a)' = cfg.keys[LastSecret]  BY <1>7
        <5>3. cfg.keys = NoKeys => Key(a)' = Key(a)
          <6>1. pod'[a].disk = Written(pod[a].disk)  BY <1>4, <2>2 DEF PodStates
          <6>2. cfg.keys = NoKeys => Written(pod[a].disk).keys = pod[a].disk.keys  BY <1>4 DEF Written, Config
          <6> QED  BY <6>1, <6>2 DEF Key
        <5> QED  BY <1>3, <1>4, <4>2, <5>2, <5>3
      <4> QED  BY <4>1, <4>2
    <3> QED  BY <3>1
  <2> QED  BY <1>5, <2>1, <2>2
<1>9. \A n \in Ordinals : RunKey(n)' = RunKey(n) /\ pod'[n].up = pod[n].up
  <2>1. CASE pod' = pod  BY <2>1 DEF RunKey
  <2> QED  BY <1>5, <1>6, <2>1
<1>10. \A n \in Ordinals : Key(n)' \in Nat  BY <1>3, <1>7
<1>11. PodsKeep  BY <1>3, <1>8, <1>9, <1>10 DEF PodsKeep
<1>12. \/ pc' = "save"
       \/ pc' = "conf" /\ at' = at + 1 /\ (failed' \/ (~failed /\ W))
       \/ pc' = "restart" /\ at' = 0 /\ LastPod /\ ~failed /\ W
  <2>1. CASE pc' = "save"  BY <2>1
  <2>2. CASE pc' # "save"
    <3>1. \/ pod[at].up /\ W /\ failed' = failed
          \/ failed' = TRUE
      BY <1>0, <1>4, <2>2 DEF UpdateConf, Requeues, PodStates
    <3>2. \/ ~LastPod /\ at' = at + 1 /\ Goes("conf")
          \/ LastPod /\ at' = 0 /\ IF failed' THEN Requeues ELSE Goes("restart")
      BY <2>2, Zenon DEF UpdateConf, Requeues
    <3>3. \/ pc' = "conf" /\ at' = at + 1
          \/ pc' = "restart" /\ at' = 0 /\ LastPod /\ ~failed'
      BY <2>2, <3>2, Zenon DEF Requeues, Goes
    <3> QED  BY <3>1, <3>3, Zenon
  <2> QED  BY <2>1, <2>2
<1>13. \A n \in Ordinals : Key(n)' <= secret[LastSecret].rv  BY <1>3, <1>7
<1>14. KeysGrow'
  <2>1. secret' = secret /\ cfg' = cfg /\ setup' = setup /\ pc \in {"conf", "restart"}  BY <1>2
  <2> QED  BY <1>3, <1>7, <1>13, <2>1, KeysKept
<1>15. VersionsAreTrue'  BY <1>2, <1>11, <1>12, VersionsKept
<1>16. LoopsApply'
  <2>1. CASE pc' = "save"  BY <1>2, <2>1, LoopsKept
  <2>2. at \in Nat /\ (Peers => ready = cr.replicas) /\ at < cr.replicas /\ cr.replicas \in Nat /\ ready \in Nat
        /\ 0 .. cr.replicas - 1 \subseteq Ordinals
    <3>1. Peers => ready = cr.replicas  BY <1>1, <1>2 DEF LoopsApply
    <3>2. at < (IF Peers THEN ready ELSE cr.replicas)  BY <1>1, <1>2 DEF InStep
    <3>3. cr.replicas \in 1 .. MaxReplicas  BY <1>1, StateIsTyped
    <3>4. 0 .. cr.replicas - 1 \subseteq Ordinals  BY <3>3, ConstantTypes DEF Ordinals
    <3>5. at \in Nat /\ cr.replicas \in Nat /\ ready \in Nat  BY <1>1, QueueTypes
    <3>6. at < cr.replicas  BY <3>1, <3>2
    <3> QED  BY <3>1, <3>4, <3>5, <3>6
  <2>3. LastPod => at = cr.replicas - 1  BY <2>2 DEF LastPod
  <2>4. ASSUME ~failed, W, NEW n \in 0 .. at PROVE Key(n)' >= cfg.keys[LastSecret]
    <3>1. CASE n = a  BY <1>6, <2>4, <3>1
    <3>2. CASE n # a
      <4>1. n \in 0 .. at - 1 /\ n \in Ordinals  BY <1>0, <2>2, <2>4, <3>2
      <4>2. Key(n) >= cfg.keys[LastSecret]  BY <1>1, <1>2, <2>4, <4>1 DEF LoopsApply
      <4> QED  BY <1>6, <2>4, <3>2, <4>1, <4>2
    <3> QED  BY <3>1, <3>2
  <2>5. st.replicas = cr.replicas  BY <1>1, <1>2 DEF LoopsApply
  <2>6. CASE pc' = "conf" /\ at' = at + 1 /\ (failed' \/ (~failed /\ W))
    <3>1. ~failed' => \A n \in 0 .. at' - 1 : Key(n)' >= cfg'.keys[LastSecret]
      <4>1. SUFFICES ASSUME ~failed', NEW n \in 0 .. at' - 1 PROVE Key(n)' >= cfg'.keys[LastSecret]  OBVIOUS
      <4>2. ~failed /\ W  BY <2>6, <4>1, Zenon
      <4>3. n \in 0 .. at  BY <2>2, <2>6, <4>1
      <4> QED  BY <1>2, <2>4, <4>2, <4>3
    <3> QED  BY <1>2, <2>2, <2>5, <2>6, <3>1 DEF LoopsApply, Peers
  <2>7. CASE pc' = "restart" /\ at' = 0 /\ LastPod /\ ~failed /\ W
    <3>1. \A n \in 0 .. cr.replicas - 1 : Key(n)' >= cfg.keys[LastSecret]  BY <2>2, <2>3, <2>4, <2>7
    <3> QED  BY <1>2, <2>2, <2>5, <2>7, <3>1 DEF LoopsApply, Peers
  <2> QED  BY <1>12, <2>1, <2>6, <2>7
<1> QED  BY <1>14, <1>15, <1>16

LEMMA QueueRestarts == ASSUME QueueInv, Queue, RestartSplunk PROVE KeysGrow' /\ LoopsApply' /\ VersionsAreTrue'
<1>1. TypeInv /\ KeysGrow /\ LoopsApply /\ VersionsAreTrue /\ InStep  BY StateIsTyped DEF QueueInv
<1>2. UNCHANGED <<setup, spec, secret, sts, status, cr, cfg, ready, failed>> /\ pc = "restart"  BY DEF RestartSplunk
<1>3. cfg.keys[LastSecret] <= secret[LastSecret].rv /\ secret[LastSecret].rv \in Nat /\ cfg.keys[LastSecret] \in Nat
      /\ at \in Ordinals /\ at \in Nat /\ cr.replicas \in Nat
  BY <1>1, QueueTypes, StateIsTyped DEF KeysGrow, ReconType
<1> DEFINE D == pod' = [pod EXCEPT ![at].up = FALSE]
<1>4. pod' = pod \/ D  BY DEF RestartSplunk
<1>5. PodsKeep /\ (\A n \in Ordinals : Key(n)' = Key(n)) /\ (D => ~pod'[at].up)
  <2>1. CASE pod' = pod /\ ~D  BY <1>1, <2>1, PodsStay
  <2>2. CASE D  BY <1>1, <1>3, <2>2, PodStops
  <2> QED  BY <1>4, <2>1, <2>2
<1>6. at < cr.replicas /\ sts.replicas = cr.replicas /\ st.replicas = cr.replicas
  BY <1>1, <1>2 DEF InStep, LoopsApply
<1>7. CASE pc' = "save" /\ st' = st  BY <1>2, <1>3, <1>5, <1>7, QueueKeeps
<1>8. \A n \in 0 .. cr.replicas - 1 : n \in Ordinals /\ Key(n) >= cfg.keys[LastSecret] /\ Key(n) \in Nat
  <2>1. cr.replicas \in 1 .. MaxReplicas  BY <1>1, StateIsTyped
  <2>2. \A n \in 0 .. cr.replicas - 1 : n \in Ordinals  BY <2>1, ConstantTypes DEF Ordinals
  <2> QED  BY <1>1, <1>2, <2>2, QueueTypes DEF LoopsApply
<1>9. ASSUME D, NEW n \in 0 .. at, pod'[n].up PROVE RunKey(n)' >= cfg.keys[LastSecret]
  <2>1. n # at  BY <1>5, <1>9
  <2>2. n \in 0 .. at - 1 /\ n \in 0 .. cr.replicas - 1  BY <1>3, <1>6, <2>1
  <2>3. n \in Ordinals /\ Key(n) >= cfg.keys[LastSecret]  BY <1>8, <2>2
  <2>4. pod[n].up => RunKey(n) >= cfg.keys[LastSecret]  BY <1>1, <1>2, <2>2 DEF LoopsApply
  <2> QED  BY <1>5, <1>9, <2>3, <2>4 DEF PodsKeep
<1>10. KeysGrow'
  <2>1. \A n \in Ordinals : Key(n)' <= secret'[LastSecret].rv  BY <1>1, <1>2, <1>5 DEF KeysGrow
  <2>2. pc \in {"conf", "restart"} /\ cfg' = cfg /\ setup' = setup /\ cfg'.keys[LastSecret] <= secret'[LastSecret].rv
    BY <1>2, <1>3
  <2> QED  BY <1>5, <2>1, <2>2, KeysKept
<1>11. CASE pc' = "restart" /\ st' = st /\ at' = at + 1 /\ D
  <2>1. VersionsAreTrue'  BY <1>2, <1>5, <1>11, VersionsKept
  <2>2. \A n \in 0 .. cr.replicas - 1 : Key(n)' >= cfg.keys[LastSecret]  BY <1>5, <1>8
  <2>3. \A n \in 0 .. at' - 1 : pod'[n].up => RunKey(n)' >= cfg.keys[LastSecret]
    <3>1. at' - 1 = at  BY <1>3, <1>11
    <3> QED  BY <1>9, <1>11, <3>1
  <2>4. Peers => ready = cr.replicas  BY <1>1, <1>2 DEF LoopsApply
  <2>5. LoopsApply'  BY <1>2, <1>6, <1>11, <2>2, <2>3, <2>4 DEF LoopsApply, Peers
  <2> QED  BY <1>10, <2>1, <2>5
<1>12. CASE /\ pc' = "save" /\ LastRestart /\ D
            /\ st' = [st EXCEPT !.version = IF cr.account THEN NoVersion ELSE cfg.keys[LastSecret],
                                !.account = cr.account]
  <2>1. st \in Statuses  BY <1>1, StateIsTyped DEF ReconType
  <2>2. st'.replicas = st.replicas /\ st'.version = IF cr.account THEN NoVersion ELSE cfg.keys[LastSecret]
    BY <1>12, <2>1 DEF Statuses
  <2>3. LoopsApply'  BY <1>2, <1>12, <2>2, LoopsKept
  <2>4. Covered(st)'  BY <1>2, <1>3, <1>6, <2>2 DEF Covered
  <2>5. Applied(st)'
    <3>1. SUFFICES ASSUME st'.version > ResetVersion, NEW n \in Ordinals, n < cr.replicas
                   PROVE  Key(n)' >= st'.version /\ (pod'[n].up => RunKey(n)' >= st'.version)
      BY <1>6, <2>2 DEF Applied
    <3>2. st'.version = cfg.keys[LastSecret]  BY <2>2, <3>1 DEF NoVersion, ResetVersion
    <3>3. n \in 0 .. cr.replicas - 1 /\ n \in 0 .. at
      BY <1>3, <1>12, <3>1, ConstantTypes DEF LastRestart
    <3>4. Key(n)' >= cfg.keys[LastSecret]  BY <1>5, <1>8, <3>3
    <3>5. pod'[n].up => RunKey(n)' >= cfg.keys[LastSecret]  BY <1>9, <1>12, <3>3
    <3> QED  BY <3>2, <3>4, <3>5
  <2>6. PICK s : s = status  OBVIOUS
  <2>7. Applied(s)'  BY <1>1, <1>2, <1>5, <2>6, QueueTypes, AppliedKept DEF VersionsAreTrue
  <2>8. Applied(status)'  BY <1>2, <2>6, <2>7 DEF Applied
  <2>9. VersionsAreTrue'
    BY <1>1, <1>2, <1>12, <2>4, <2>5, <2>8 DEF VersionsAreTrue, Covered, Stable, Peers
  <2> QED  BY <1>10, <2>3, <2>9
<1>13. \/ pc' = "save" /\ st' = st
       \/ pc' = "restart" /\ st' = st /\ at' = at + 1 /\ D
       \/ /\ pc' = "save" /\ LastRestart /\ D
          /\ st' = [st EXCEPT !.version = IF cr.account THEN NoVersion ELSE cfg.keys[LastSecret],
                              !.account = cr.account]
  BY DEF RestartSplunk, Requeues, Returns, Goes
<1> QED  BY <1>7, <1>11, <1>12, <1>13

\* Without its status, a reconcile leaves one behind that counts no pod too many,
\* unless an ingestor cluster is being scaled.
LEMMA LostStatusIsCovered ==
  ASSUME QueueInv, Queue, Recovers(setup), "status" \in setup.happens \/ "crash" \in setup.happens
  PROVE  Covered(status)
<1>1. VersionsAreTrue /\ setup \in Setups  BY StateIsTyped DEF QueueInv, WorldType
<1>2. setup.kind \in Kinds  BY <1>1, RemoteConfigAssumption
<1>3. Peers \/ setup.kind = "IngestorCluster"
  BY <1>2 DEF Kinds, Peers, Queue, SmartStore, Manager, Standalone
<1>4. Peers \/ Stable  BY <1>3 DEF Recovers, Stable
<1> QED  BY <1>1, <1>4 DEF VersionsAreTrue

LEMMA QueueSaved ==
  ASSUME QueueInv, Queue, Recovers(setup), Save \/ Crash PROVE KeysGrow' /\ LoopsApply' /\ VersionsAreTrue'
<1>1. TypeInv /\ KeysGrow /\ LoopsApply /\ VersionsAreTrue /\ InStep  BY StateIsTyped DEF QueueInv
<1>2. UNCHANGED <<setup, spec, secret, sts, pod, cr, cfg>> /\ pc # "idle" /\ pc' = "idle"
  BY DEF Save, Crash, world
<1>3. \A n \in Ordinals : Key(n)' = Key(n) /\ RunKey(n)' = RunKey(n)  BY <1>2 DEF Key, RunKey
<1>4. KeysGrow'  BY <1>1, <1>2, <1>3, KeysKept DEF KeysGrow
<1>5. LoopsApply'  BY <1>2 DEF LoopsApply
<1>6. \/ status' = st
      \/ status' = status /\ Covered(status)
  <2>1. CASE Save  BY <2>1, LostStatusIsCovered DEF Save, Fault, Happens
  <2>2. CASE Crash
    <3>1. ~Tokenless  BY <1>1 DEF Tokenless, InStep, SmartStoreSteps
    <3> QED  BY <2>2, <3>1, LostStatusIsCovered DEF Crash, Fault, Happens
  <2> QED  BY <2>1, <2>2
<1>7. Applied(status)' /\ Covered(status)'
  <2>1. Applied(status) /\ Applied(st) /\ Covered(st)  BY <1>1, <1>2 DEF VersionsAreTrue
  <2>2. CASE status' = st  BY <1>2, <2>1, <2>2 DEF Applied, Covered, Key, RunKey
  <2>3. CASE status' = status /\ Covered(status)  BY <1>2, <2>1, <2>3 DEF Applied, Covered, Key, RunKey
  <2> QED  BY <1>6, <2>2, <2>3
<1>8. VersionsAreTrue'  BY <1>1, <1>2, <1>7 DEF VersionsAreTrue, Stable
<1> QED  BY <1>4, <1>5, <1>8

LEMMA QueueBoots == ASSUME QueueInv, Queue, NEW m \in Ordinals, Boot(m) PROVE KeysGrow' /\ LoopsApply' /\ VersionsAreTrue'
<1>1. TypeInv /\ KeysGrow  BY DEF QueueInv
<1>2. UNCHANGED <<setup, spec, secret, map, lately, sts, status, pc, at, cr, st, cfg, ready, failed, happened>>
      /\ pod' = [pod EXCEPT ![m] = Booted(m)]
  BY <1>1, BootSets
<1>3. pod \in [Ordinals -> PodStates] /\ \A n \in Ordinals : Key(n) \in Nat /\ RunKey(n) \in Nat  BY <1>1, QueueTypes
<1>4. ~Manager  BY DEF Queue, SmartStore
<1>5. Booted(m).disk = pod[m].disk /\ Booted(m).run = pod[m].disk  BY <1>4 DEF Booted, Mounted
<1>6. ASSUME NEW n \in Ordinals
      PROVE  /\ Key(n)' = Key(n) /\ RunKey(n)' \in Nat
             /\ pod'[n].up => (pod[n].up /\ RunKey(n)' = RunKey(n)) \/ RunKey(n)' = Key(n)
  <2>1. CASE n = m
    <3>1. pod'[n].disk = pod[n].disk /\ pod'[n].run = pod[n].disk  BY <1>2, <1>3, <1>5, <2>1
    <3> QED  BY <1>3, <3>1 DEF Key, RunKey
  <2>2. CASE n # m
    <3>1. pod'[n] = pod[n]  BY <1>2, <1>3, <2>2
    <3> QED  BY <1>3, <3>1 DEF Key, RunKey
  <2> QED  BY <2>1, <2>2
<1>7. PodsKeep  BY <1>3, <1>6 DEF PodsKeep
<1>8. cfg.keys[LastSecret] <= secret[LastSecret].rv /\ secret[LastSecret].rv \in Nat  BY <1>1, QueueTypes DEF KeysGrow
<1> QED  BY <1>2, <1>6, <1>7, <1>8, QueueKeeps

\* Steps of the user and of Kubernetes.
LEMMA QueueOutside ==
  ASSUME QueueInv, Queue, Tick \/ EditSpec \/ EditSecret \/ PodFails \/ UNCHANGED vars
  PROVE  KeysGrow' /\ LoopsApply' /\ VersionsAreTrue'
<1>1. TypeInv /\ KeysGrow  BY DEF QueueInv
<1>2. UNCHANGED <<setup, sts, pc, at, cr, cfg, ready, failed>>
  BY DEF Tick, EditSpec, EditSecret, PodFails, vars, world, recon
<1>3. PodsKeep /\ \A n \in Ordinals : Key(n)' = Key(n)
  <2>1. CASE Tick \/ EditSpec \/ EditSecret \/ UNCHANGED vars
    <3>1. pod' = pod  BY <2>1 DEF Tick, EditSpec, EditSecret, vars, world
    <3> QED  BY <1>1, <3>1, PodsStay
  <2>2. CASE PodFails
    <3>1. PICK m \in Ordinals : pod' = [pod EXCEPT ![m].up = FALSE]  BY <2>2 DEF PodFails
    <3> QED  BY <1>1, <3>1, PodStops
  <2> QED  BY <2>1, <2>2
<1>4. /\ st'.version = st.version /\ st'.replicas = st.replicas
      /\ status'.version = status.version /\ status'.replicas = status.replicas
  <2>1. st \in Statuses /\ status \in Statuses  BY <1>1, StateIsTyped DEF ReconType
  <2>2. (st' = st \/ st' = [st EXCEPT !.checked = FALSE]) /\ (status' = status \/ status' = [status EXCEPT !.checked = FALSE])
    BY DEF Tick, EditSpec, EditSecret, PodFails, vars, recon
  <2> QED  BY <2>1, <2>2 DEF Statuses
<1>5. cfg.keys[LastSecret] <= secret[LastSecret].rv /\ secret[LastSecret].rv \in Nat
      /\ cfg.keys[LastSecret] \in Nat /\ LastSecret \in Secrets
  BY <1>1, QueueTypes DEF KeysGrow
<1>6. secret'[LastSecret].rv \in Nat /\ secret'[LastSecret].rv >= secret[LastSecret].rv
  <2>1. CASE secret' = secret  BY <1>5, <2>1
  <2>2. CASE EditSecret
    <3>1. secret \in [Secrets -> [rv : Versions, ok : BOOLEAN]]  BY <1>1, StateIsTyped DEF WorldType
    <3>2. NextVersion \in Nat /\ secret[LastSecret].rv < NextVersion  BY <1>5, <3>1, NextIsNewer
    <3>3. PICK s \in Secrets : \E ok \in BOOLEAN : secret' = [secret EXCEPT ![s] = [rv |-> NextVersion, ok |-> ok]]
      BY <2>2 DEF EditSecret
    <3>4. secret'[LastSecret].rv = NextVersion \/ secret'[LastSecret].rv = secret[LastSecret].rv
      BY <1>5, <3>1, <3>3
    <3> QED  BY <1>5, <3>2, <3>4
  <2> QED  BY <2>1, <2>2 DEF Tick, EditSpec, PodFails, vars, world
<1>7. Stable => spec'.replicas = spec.replicas
  <2>1. CASE spec' = spec  BY <2>1
  <2>2. CASE EditSpec
    <3>1. spec \in Specs  BY <1>1, StateIsTyped DEF WorldType
    <3>2. ~SmartStore  BY DEF Queue
    <3>3. Stable => spec' = [spec EXCEPT !.account = ~@]
      BY <2>2, <3>2 DEF EditSpec, Event, Happens, Stable
    <3> QED  BY <3>1, <3>3 DEF Specs
  <2> QED  BY <2>1, <2>2 DEF Tick, EditSecret, PodFails, vars, world
<1>8. cfg'.keys[LastSecret] <= secret'[LastSecret].rv  BY <1>2, <1>5, <1>6
<1> QED  BY <1>2, <1>3, <1>4, <1>6, <1>7, <1>8, QueueKeeps

LEMMA QueueHasNoSmartStore ==
  ASSUME TypeInv, Queue
  PROVE  ~(CheckKeys \/ Render \/ WriteMap \/ WriteToken \/ CheckToken \/ PushBundle \/ Refresh)
<1>1. InStep /\ ~Manager  BY StateIsTyped
<1> QED  BY <1>1 DEF InStep, SmartStoreSteps, CheckKeys, Render, WriteMap, WriteToken, CheckToken, PushBundle, Refresh

LEMMA QueueStep == ASSUME QueueInv, Recovers(setup), [Next]_vars PROVE QueueInv'
<1>1. TypeInv /\ TypeInv' /\ setup' = setup  BY StepIsTypeCorrect, SetupIsKept DEF QueueInv
<1> SUFFICES KeysGrow' /\ LoopsApply' /\ VersionsAreTrue'  BY <1>1 DEF QueueInv
<1>2. CASE ~Queue
  BY <1>1, <1>2 DEF KeysGrow, LoopsApply, VersionsAreTrue, Queue, SmartStore, Manager, Standalone
<1>3. CASE Queue
  <2>1. ~(CheckKeys \/ Render \/ WriteMap \/ WriteToken \/ CheckToken \/ PushBundle \/ Refresh)
    BY <1>1, <1>3, QueueHasNoSmartStore
  <2> QED  BY <1>3, <2>1, QueueLoaded, QueueReads, QueueAppliesPods, QueueResolves, QueueUpdatesConf, QueueRestarts,
              QueueSaved, QueueBoots, QueueOutside DEF Next, Reconcile
<1> QED  BY <1>2, <1>3

LEMMA QueueStarts == Init => QueueInv
<1> SUFFICES ASSUME Init PROVE QueueInv  OBVIOUS
<1>1. TypeInv  BY InitIsTyped
<1>2. pc = "idle" /\ cr = spec /\ status = NoStatus /\ sts.replicas = 0 /\ cfg = Nothing
      /\ \A n \in Ordinals : pod[n] = Absent
  BY DEF Init
<1>3. cfg.keys[LastSecret] = 0 /\ \A n \in Ordinals : Key(n) = 0
  BY <1>2, AbsentIsPod, ConstantTypes DEF Key, Nothing, NoKeys
<1>4. KeysGrow  BY <1>1, <1>2, <1>3, QueueTypes DEF KeysGrow
<1>5. LoopsApply  BY <1>2 DEF LoopsApply
<1>6. Applied(status) /\ Covered(status)  BY <1>2 DEF Applied, Covered, NoStatus, NoVersion, ResetVersion
<1>7. VersionsAreTrue  BY <1>2, <1>6 DEF VersionsAreTrue
<1> QED  BY <1>1, <1>4, <1>5, <1>7 DEF QueueInv

\* What the stored status says was applied is on the instances: the queue's keys
\* on every disk and in every instance that is up, SmartStore's settings on the
\* peers unless a push is still noted.
THEOREM StatusIsTrue == Recoverable => (Spec => []StatusIsApplied)
<1> SUFFICES ASSUME Recoverable PROVE Spec => []StatusIsApplied  OBVIOUS
<1>1. Init => SettingsInv /\ QueueInv  BY SettingsStart, QueueStarts
<1>2. (SettingsInv /\ QueueInv) /\ [Next]_vars => (SettingsInv /\ QueueInv)'
  <2> SUFFICES ASSUME SettingsInv, QueueInv, [Next]_vars PROVE (SettingsInv /\ QueueInv)'  OBVIOUS
  <2>1. Recovers(setup)  BY SetupRecovers DEF QueueInv
  <2>2. SettingsInv'  BY <2>1, SettingsStep
  <2>3. QueueInv'  BY <2>1, QueueStep
  <2> QED  BY <2>2, <2>3
<1>3. SettingsInv /\ QueueInv => StatusIsApplied
  BY DEF SettingsInv, PushIsNoted, QueueInv, VersionsAreTrue, Applied, StatusIsApplied, Key, RunKey
<1> QED  BY <1>1, <1>2, <1>3, PTL DEF Spec
=============================================================================
