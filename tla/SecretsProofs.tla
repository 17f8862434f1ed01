---------------------------- MODULE SecretsProofs ----------------------------
(***************************************************************************)
(* Proofs about Secrets, for every number of pods, of copies and of        *)
(* changes, and for any sequence of failures:                              *)
(*                                                                         *)
(*   - a copy that a pod mounts is never removed;                          *)
(*   - peers restart for a new secret only in maintenance mode, unless the *)
(*     operator has crashed;                                               *)
(*   - Ready for the current version of the secret is true, unless the     *)
(*     user has written the secret in the middle of a reconcile;           *)
(*   - once the mounted secrets are synchronised, the search heads run     *)
(*     with the password in them, unless the user changes both tokens in   *)
(*     one write.                                                          *)
(***************************************************************************)
EXTENDS Secrets, FiniteSetTheorems, TLAPS

\* A secret with both tokens.
Full(data) == data.cluster # 0 /\ data.admin # 0

\* The reconcile is in the loop over the pods.
OnPod == {"maintenance", "edit", "restart", "passwd", "restartAdmin", "note"}
InLoop == {"loop"} \cup OnPod

\* The operator generates tokens at most once after the last change by the
\* user.
Counted == Full(ns.data) \/ changes <= MaxChanges

\* No copy lacks a token, and no token is taken from a secret that does.
NothingIsMissing ==
  /\ \A v \in Versions : copies[v] = NoData \/ Full(copies[v])
  /\ pc \in InLoop => Full(target.data)

\* The template mounts a copy that exists, from ApplyStatefulSet to the end
\* of the reconcile the latest one.
TemplateIsThere ==
  /\ template \in {0, Bare} \/ Exists(template)
  /\ pc \notin {"idle", "template"} => template = Bare \/ (template = Latest /\ Latest # 0)

\* The template mounts the latest copy, if there is one, and the StatefulSet
\* controller is not far behind it.
RevisionIsNear ==
  /\ template = Latest \/ (template = Bare /\ Latest = 0)
  /\ Latest <= revision + MaxLag

OnAPod == pc \in OnPod => at \in Pods

BaseInv == /\ TypeOK /\ Counted /\ NothingIsMissing /\ TemplateIsThere /\ OnAPod
           /\ MountedCopyIsKept /\ RevisionIsNear

\* The flags that make the loop skip SetClusterMaintenanceMode are true of
\* the cluster manager.
FlagsAreTrue ==
  /\ pc \in {"edit", "restart"} => maintenance
  /\ st.maintenance => maintenance
  /\ st.changed # <<>> => maintenance \/ pc = "reset"

MaintenanceInv == ~SearchHead /\ ~Happened("crash") => FlagsAreTrue

\* From ApplyStatefulSet to the end of the reconcile the secret is the one
\* in the copy that the template mounts.
SecretIsCopied ==
  /\ pc # "idle" => Full(ns.data)
  /\ pc \in InLoop => target.data = ns.data
  /\ pc \notin {"idle", "template"} =>
       IF template = Bare THEN Latest = 0 ELSE copies[Latest] = ns.data

\* A pod with the latest copy runs with it, and the loop leaves it alone.
LatestIsRun ==
  /\ \A i \in Pods : pod[i].up /\ pod[i].mount = Latest =>
       pod[i].run = copies[Latest] /\ pod[i].disk = copies[Latest]
  /\ pc \in OnPod => pod[at].up /\ pod[at].mount # Latest

\* Ready for the current version is reported, and stays, when the secret is in
\* the latest copy.
ReadyIsDone ==
  /\ pc \in {"finish", "reset"} => LatestHolds(ns.data)
  /\ phase = "Ready" /\ saved.rv = ns.rv => LatestHolds(ns.data)

SyncInv == SecretIsCopied /\ LatestIsRun /\ ReadyIsDone

\* The versions in the status and in the reconcile have been there.
VersionsArePast ==
  /\ st.rv <= ns.rv /\ saved.rv <= ns.rv /\ seen <= ns.rv
  /\ pc = "idle" => st = saved

SecretsInv == /\ BaseInv /\ VersionsArePast
              /\ ~Happened("race") => SyncInv

-----------------------------------------------------------------------------
(* Helpers.                                                                *)

\* A bounded set of numbers has a maximum.
LEMMA MaxIsIn ==
  ASSUME NEW k \in Int, NEW S, S \subseteq 0 .. k, S # {}
  PROVE  Max(S) \in S /\ \A y \in S : Max(S) >= y
<1> DEFINE Above(x) == {y \in 0 .. k : y > x}
           T == {Above(x) : x \in S}
           R == StrictSubsetOrdering(0 .. k)
<1>1. IsFiniteSet(0 .. k)
  BY FS_Interval
<1>2. IsWellFoundedOn(R, SUBSET (0 .. k))
  BY <1>1, FS_StrictSubsetOrderingWellFounded, FS_FiniteSubsetsOfFinite
<1>3. T \subseteq SUBSET (0 .. k) /\ T # {}
  OBVIOUS
<1>4. PICK least \in T : \A t \in T : <<t, least>> \notin R
  <2> HIDE DEF T, R
  <2> QED
    BY <1>2, <1>3, WFMin
<1>5. PICK x \in S : least = Above(x)
  BY <1>4
<1>6. ASSUME NEW y \in S PROVE x >= y
  <2> SUFFICES ASSUME y > x PROVE FALSE
    BY <1>5
  <2>1. Above(y) \subseteq Above(x) /\ Above(y) # Above(x)
    <3>1. y \in Above(x) /\ y \notin Above(y)
      OBVIOUS
    <3>2. \A z \in Above(y) : z \in Above(x)
      OBVIOUS
    <3> QED
      BY <3>1, <3>2
  <2>2. <<Above(y), Above(x)>> \in R
    BY <2>1 DEF StrictSubsetOrdering
  <2> QED
    BY <1>4, <1>5, <2>2
<1> QED
  BY <1>6 DEF Max

\* Latest is the number of the latest copy, and 0 when there is none.
IsLatest(n) == /\ n \in 0 .. MaxVersions
               /\ n # 0 => Exists(n)
               /\ \A v \in Versions : Exists(v) => v <= n

LEMMA LatestIsThere == IsLatest(Latest)
<1> DEFINE S == {0} \cup {v \in Versions : Exists(v)}
<1>1. MaxVersions \in Nat
  BY SecretsAssumption
<1>2. S \subseteq 0 .. MaxVersions /\ S # {} /\ 0 \in S
  BY <1>1 DEF Versions
<1>3. Max(S) \in S /\ \A y \in S : Max(S) >= y
  BY <1>1, <1>2, MaxIsIn
<1>4. Latest = Max(S)
  BY DEF Latest
<1> HIDE DEF S
<1>5. Latest \in S /\ \A y \in S : Latest >= y
  BY <1>3, <1>4
<1> QED
  BY <1>1, <1>2, <1>5 DEF S, Versions, IsLatest

\* What makes a number the latest, after a step.
LEMMA LatestBecomes ==
  ASSUME NEW n \in Versions, Exists(n)', \A v \in Versions : Exists(v)' => v <= n
  PROVE  Latest' = n
<1>1. MaxVersions \in Nat
  BY SecretsAssumption
<1>2. IsLatest(Latest)'
  BY LatestIsThere, PTL
<1>3. PICK m : m = Latest'
  OBVIOUS
<1>4. m \in 0 .. MaxVersions /\ (m # 0 => Exists(m)') /\ \A v \in Versions : Exists(v)' => v <= m
  BY <1>2, <1>3 DEF IsLatest, Exists
<1> QED
  BY <1>1, <1>3, <1>4 DEF Versions

\* Latest depends on which copies there are.
LEMMA LatestIsStable ==
  ASSUME \A v \in Versions : Exists(v)' <=> Exists(v)
  PROVE  Latest' = Latest
<1>1. {v \in Versions : Exists(v)}' = {v \in Versions : Exists(v)}
  BY DEF Versions
<1> QED
  BY <1>1 DEF Latest

\* Full secrets are left alone; the others become full.
LEMMA SecretIsFilled ==
  ASSUME TypeOK, Counted
  PROVE  /\ ApplyNamespaceSecret \in Secret /\ Full(ApplyNamespaceSecret.data)
         /\ ApplyNamespaceSecret.rv >= ns.rv
         /\ Full(ns.data) => ApplyNamespaceSecret = ns
         /\ ApplyNamespaceSecret.rv = ns.rv => ApplyNamespaceSecret = ns
         /\ CountGenerated => changes' \in 0 .. MaxChanges + 1
<1>1. /\ MaxChanges \in Nat /\ ns.rv \in Nat /\ ns \in Secret
      /\ changes \in 0 .. MaxChanges + 1
      /\ ns.data \in Data /\ ns = [data |-> ns.data, rv |-> ns.rv]
  BY SecretsAssumption DEF TypeOK, Secret
<1>2. PICK c \in 0 .. MaxChanges + 1, a \in 0 .. MaxChanges + 1 :
        ns.data = [cluster |-> c, admin |-> a]
  BY <1>1 DEF Data
<1>3. Filled(ns.data) = [cluster |-> IF c = 0 THEN changes + 1 ELSE c,
                         admin |-> IF a = 0 THEN changes + 1 ELSE a]
  <2>1. ns.data.cluster = c /\ ns.data.admin = a
    BY <1>2
  <2>2. Filled(ns.data) = [ns.data EXCEPT !.cluster = IF c = 0 THEN changes + 1 ELSE c,
                                          !.admin = IF a = 0 THEN changes + 1 ELSE a]
    BY <2>1, Zenon DEF Filled
  <2> QED
    BY <1>2, <2>2
<1>4. Filled(ns.data) \in Data
  BY <1>1, <1>2, <1>3 DEF Counted, Full, Data
<1>5. Full(Filled(ns.data))
  BY <1>1, <1>2, <1>3 DEF Full
<1>6. Full(ns.data) <=> Filled(ns.data) = ns.data
  BY <1>1, <1>2, <1>3, <1>5 DEF Full
<1>7. CASE Full(ns.data)
  BY <1>1, <1>6, <1>7 DEF ApplyNamespaceSecret, CountGenerated
<1>8. CASE ~Full(ns.data)
  <2>1. changes <= MaxChanges /\ Filled(ns.data) # ns.data
    BY <1>6, <1>8 DEF Counted
  <2>2. ApplyNamespaceSecret = [data |-> Filled(ns.data), rv |-> ns.rv + 1]
    BY <2>1 DEF ApplyNamespaceSecret
  <2>3. CountGenerated => changes' = changes + 1
    BY <2>1 DEF CountGenerated
  <2> QED
    BY <1>1, <1>4, <1>5, <1>8, <2>1, <2>2, <2>3 DEF Secret
<1> QED
  BY <1>7, <1>8

\* What has gone wrong is remembered.
LEMMA HazardIsCounted ==
  ASSUME TypeOK, NEW k, Hit(k)
  PROVE  /\ used' \in Seq(Hazards) /\ Len(used') <= MaxHazards
         /\ Happened(k)'
         /\ \A x : Happened(x) => Happened(x)'
<1>1. /\ MaxHazards \in Nat /\ used \in Seq(Hazards) /\ k \in Hazards
      /\ Len(used) < MaxHazards /\ used' = Append(used, k)
  BY SecretsAssumption DEF TypeOK, Hit
<1>2. Len(used') = Len(used) + 1 /\ used'[Len(used) + 1] = k
      /\ \A j \in 1 .. Len(used) : used'[j] = used[j]
  BY <1>1
<1> QED
  BY <1>1, <1>2 DEF Happened
-----------------------------------------------------------------------------
(* Types. The type invariant by groups of variables.                        *)

Places == {"idle", "template", "secret", "loop", "maintenance", "edit", "restart",
           "passwd", "restartAdmin", "note", "pods", "finish", "reset"}
ConfigType == /\ cluster \in Clusters /\ ns \in Secret /\ owned \in BOOLEAN
              /\ copies \in [Versions -> Data] /\ template \in 0 .. Bare
              /\ revision \in 0 .. Bare
WorldType == pod \in [Pods -> PodStates] /\ maintenance \in BOOLEAN
StatusType == /\ st \in Statuses /\ saved \in Statuses
              /\ phase \in {"Pending", "Updating", "Ready", "Error"}
PlaceType == /\ pc \in Places /\ at \in 1 .. Replicas + 1
             /\ seen \in Nat /\ target \in Secret
UsedType == used \in Seq(Hazards) /\ Len(used) <= MaxHazards
ChangesType == changes \in 0 .. MaxChanges + 1

LEMMA TypeByGroups ==
  TypeOK <=> /\ ConfigType /\ WorldType /\ StatusType /\ PlaceType /\ UsedType
             /\ ChangesType
BY DEF TypeOK, ConfigType, WorldType, StatusType, PlaceType, UsedType, ChangesType, Places

\* A reconcile counts what goes wrong.
LEMMA UsedTyped ==
  ASSUME TypeOK, Fine \/ \E k : Hit(k)
  PROVE  UsedType'
BY HazardIsCounted DEF TypeOK, UsedType, Fine

\* A reconcile ends.
LEMMA ReturnTyped ==
  ASSUME TypeOK, NEW r \in {"Pending", "Updating", "Ready", "Error"}, NEW s \in Statuses,
         Return(r, s)
  PROVE  StatusType' /\ PlaceType'
BY DEF TypeOK, StatusType, PlaceType, Return, Places

\* A reconcile goes on.
LEMMA GotoTyped ==
  ASSUME TypeOK, NEW next \in Places, Goto(next), st' \in Statuses,
         at' \in 1 .. Replicas + 1, seen' \in Nat, target' \in Secret
  PROVE  StatusType' /\ PlaceType'
BY DEF TypeOK, StatusType, PlaceType, Goto

LEMMA NextPodTyped ==
  ASSUME TypeOK, at \in Pods, NextPod, st' \in Statuses, seen' = seen, target' = target
  PROVE  StatusType' /\ PlaceType'
<1>1. at' \in 1 .. Replicas + 1 /\ Goto("loop") /\ "loop" \in Places
  BY SecretsAssumption DEF NextPod, Pods, Places
<1> QED
  BY <1>1, GotoTyped DEF TypeOK

LEMMA CheckAdminTyped ==
  ASSUME TypeOK, at \in Pods, CheckAdmin, st' \in Statuses, seen' = seen, target' = target
  PROVE  StatusType' /\ PlaceType'
<1>1. CASE NextPod
  BY <1>1, NextPodTyped
<1>2. CASE Goto("passwd") /\ at' = at
  BY <1>2, GotoTyped DEF TypeOK, Places
<1> QED
  BY <1>1, <1>2 DEF CheckAdmin

LEMMA StatusFields ==
  ASSUME TypeOK
  PROVE  /\ st.rv \in Nat /\ st.changed \in Seq({TRUE}) /\ st.adminChanged \in Seq({TRUE})
         /\ st.toSync \subseteq Versions /\ st.maintenance \in BOOLEAN
         /\ \A b \in BOOLEAN : [st EXCEPT !.maintenance = b] \in Statuses
         /\ \A v \in Versions : [st EXCEPT !.toSync = @ \cup {v}] \in Statuses
BY DEF TypeOK, Statuses

LEMMA FlagTyped ==
  ASSUME NEW flags \in Seq({TRUE}), NEW i
  PROVE  Flag(flags, i) \in Seq({TRUE})
<1>1. ASSUME NEW S, NEW s \in Seq(S), NEW e \in S
      PROVE  Append(s, e) \in Seq(S)
  OBVIOUS
<1>2. TRUE \in {TRUE}
  OBVIOUS
<1>3. Append(flags, TRUE) \in Seq({TRUE})
  BY <1>1, <1>2, Zenon
<1> QED
  BY <1>3, Zenon DEF Flag

LEMMA PodFields ==
  ASSUME TypeOK, NEW i \in Pods
  PROVE  /\ pod[i] \in PodStates
         /\ pod[i].up \in BOOLEAN /\ pod[i].mount \in 0 .. Bare
         /\ pod[i].disk \in Data /\ pod[i].run \in Data
         /\ \A d \in 0 .. MaxChanges + 1 :
              /\ [pod EXCEPT ![i].disk.cluster = d] \in [Pods -> PodStates]
              /\ [pod EXCEPT ![i].disk.admin = d] \in [Pods -> PodStates]
         /\ [pod EXCEPT ![i].run = pod[i].disk] \in [Pods -> PodStates]
<1>1. pod[i] \in PodStates /\ pod \in [Pods -> PodStates]
  BY DEF TypeOK
<1>2. /\ pod[i].up \in BOOLEAN /\ pod[i].mount \in 0 .. Bare
      /\ pod[i].disk \in Data /\ pod[i].run \in Data
  BY <1>1 DEF PodStates
<1>3. ASSUME NEW d \in 0 .. MaxChanges + 1
      PROVE  /\ [pod[i].disk EXCEPT !.cluster = d] \in Data
             /\ [pod[i].disk EXCEPT !.admin = d] \in Data
  BY <1>2 DEF Data
<1>4. \A e \in Data : [pod[i] EXCEPT !.disk = e] \in PodStates
  BY <1>1 DEF PodStates
<1>5. [pod[i] EXCEPT !.run = pod[i].disk] \in PodStates
  BY <1>1, <1>2 DEF PodStates
<1>6. \A p \in PodStates : [pod EXCEPT ![i] = p] \in [Pods -> PodStates]
  BY <1>1
<1>7. ASSUME NEW d \in 0 .. MaxChanges + 1
      PROVE  /\ [pod EXCEPT ![i].disk.cluster = d] \in [Pods -> PodStates]
             /\ [pod EXCEPT ![i].disk.admin = d] \in [Pods -> PodStates]
  BY <1>3, <1>4, <1>6, Zenon
<1>8. [pod EXCEPT ![i].run = pod[i].disk] \in [Pods -> PodStates]
  BY <1>5, <1>6, Zenon
<1> QED
  BY <1>1, <1>2, <1>7, <1>8
LEMMA SecretsTypeStep ==
  ASSUME BaseInv, Next
  PROVE  TypeOK'
<1>1. /\ TypeOK /\ Counted /\ OnAPod
      /\ ConfigType /\ WorldType /\ StatusType /\ PlaceType /\ UsedType /\ ChangesType
  BY TypeByGroups DEF BaseInv
<1>2. \A b \in BOOLEAN : [st EXCEPT !.maintenance = b] \in Statuses
  BY <1>1, StatusFields
<1>3. st \in Statuses /\ seen \in Nat /\ target \in Secret /\ at \in 1 .. Replicas + 1
      /\ maintenance \in BOOLEAN /\ copies \in [Versions -> Data]
      /\ target.data.cluster \in 0 .. MaxChanges + 1
      /\ target.data.admin \in 0 .. MaxChanges + 1
  BY <1>1 DEF TypeOK, Secret, Data
<1>4. /\ ApplyNamespaceSecret \in Secret
      /\ CountGenerated => ChangesType'
  BY <1>1, SecretIsFilled DEF ChangesType
<1>5. ASSUME ApplySplunkConfig PROVE TypeOK'
  <2>1. UsedType' /\ WorldType'
    BY <1>1, <1>5 DEF ApplySplunkConfig, UsedType, WorldType, world
  <2>2. ns' \in Secret /\ seen' \in Nat
    BY <1>4, <1>5 DEF ApplySplunkConfig, Secret
  <2>3. ConfigType' /\ ChangesType'
    BY <1>1, <1>4, <1>5, <2>2 DEF ApplySplunkConfig, ConfigType
  <2>4. StatusType' /\ PlaceType'
    BY <1>1, <1>3, <1>5, <2>2, GotoTyped DEF ApplySplunkConfig, Places
  <2> QED
    BY <2>1, <2>3, <2>4, TypeByGroups, PTL
<1>6. ASSUME ApplyTemplate PROVE TypeOK'
  <2>1. UsedType' /\ WorldType' /\ ChangesType'
    BY <1>1, <1>4, <1>6, UsedTyped DEF ApplyTemplate, WorldType, world
  <2>2. ns' \in Secret /\ ns'.data \in Data
    BY <1>4, <1>6 DEF ApplyTemplate, Secret
  <2>3. Latest \in 0 .. MaxVersions /\ MaxVersions \in Nat
    BY LatestIsThere, SecretsAssumption DEF IsLatest
  <2>4. template' \in 0 .. Bare /\ copies' \in [Versions -> Data]
    BY <1>3, <1>6, <2>2, <2>3 DEF ApplyTemplate, Bare
  <2>5. ConfigType'
    BY <1>1, <1>6, <2>2, <2>4 DEF ApplyTemplate, ConfigType
  <2>6. StatusType' /\ PlaceType'
    BY <1>1, <1>3, <1>6, GotoTyped DEF ApplyTemplate, Places
  <2> QED
    BY <2>1, <2>5, <2>6, TypeByGroups, PTL
<1>7. ASSUME CreateCopyFails PROVE TypeOK'
  <2>1. UsedType' /\ WorldType' /\ ChangesType'
    BY <1>1, <1>4, <1>7, UsedTyped DEF CreateCopyFails, WorldType, world
  <2>2. template' \in 0 .. Bare
    BY <1>1, <1>7, SecretsAssumption DEF CreateCopyFails, Bare, ConfigType
  <2>3. ConfigType'
    BY <1>1, <1>4, <1>7, <2>2 DEF CreateCopyFails, ConfigType
  <2>4. CASE Return("Error", st)
    <3>1. StatusType' /\ PlaceType'
      BY <1>1, <1>3, <2>4, ReturnTyped
    <3> QED
      BY <2>1, <2>3, <3>1, TypeByGroups, PTL
  <2>5. CASE Goto("secret") /\ UNCHANGED <<st, at, seen, target>>
    <3>1. StatusType' /\ PlaceType'
      BY <1>1, <1>3, <2>5, GotoTyped DEF Places
    <3> QED
      BY <2>1, <2>3, <3>1, TypeByGroups, PTL
  <2> QED
    BY <1>7, <2>4, <2>5 DEF CreateCopyFails
<1>8. ASSUME CheckSecretVersion PROVE TypeOK'
  <2>1. UsedType' /\ WorldType' /\ ChangesType'
    BY <1>1, <1>4, <1>8, UsedTyped DEF CheckSecretVersion, WorldType, world
  <2>2. ConfigType' /\ ns' \in Secret /\ seen' = seen
    BY <1>1, <1>4, <1>8 DEF CheckSecretVersion, ConfigType
  <2>3. \A n \in Nat : [st EXCEPT !.rv = n] \in Statuses
    BY <1>3 DEF Statuses
  <2>4. 1 \in 1 .. Replicas + 1 /\ ns'.rv \in Nat
    BY <2>2, SecretsAssumption DEF Secret
  <2>5. st' \in Statuses /\ at' \in 1 .. Replicas + 1 /\ target' \in Secret
    BY <1>3, <1>8, <2>2, <2>3, <2>4 DEF CheckSecretVersion
  <2>6. Goto("pods") \/ Goto("loop")
    BY <1>8 DEF CheckSecretVersion
  <2>7. StatusType' /\ PlaceType'
    BY <1>1, <1>3, <2>2, <2>5, <2>6, GotoTyped DEF Places
  <2> QED
    BY <2>1, <2>2, <2>7, TypeByGroups, PTL
<1>9. ASSUME LookAtPod PROVE TypeOK'
  <2>1. UsedType' /\ WorldType' /\ ChangesType' /\ ConfigType' /\ at \in Pods
    BY <1>1, <1>9 DEF LookAtPod, WorldType, world, config, UsedType, ChangesType, ConfigType
  <2>2. CASE Return("Error", st)
    <3>1. StatusType' /\ PlaceType'
      BY <1>1, <1>3, <2>2, ReturnTyped
    <3> QED
      BY <2>1, <3>1, TypeByGroups, PTL
  <2>3. CASE UNCHANGED <<st, seen, target>>
    <3>1. \/ NextPod \/ CheckAdmin
          \/ (Goto("maintenance") \/ Goto("edit")) /\ at' = at
          \/ Return("Error", st)
      BY <1>9 DEF LookAtPod
    <3>2. StatusType' /\ PlaceType'
      BY <1>1, <1>3, <2>1, <2>3, <3>1, GotoTyped, NextPodTyped, CheckAdminTyped, ReturnTyped
         DEF Places
    <3> QED
      BY <2>1, <3>2, TypeByGroups, PTL
  <2> QED
    BY <1>9, <2>2, <2>3 DEF LookAtPod
<1>10. ASSUME EnableMaintenance PROVE TypeOK'
  <2>1. UsedType' /\ WorldType' /\ ChangesType' /\ ConfigType'
    BY <1>1, <1>10, UsedTyped DEF EnableMaintenance, WorldType, config, ChangesType,
                                  ConfigType
  <2>2. CASE Return("Error", st)
    <3>1. StatusType' /\ PlaceType'
      BY <1>1, <1>3, <2>2, ReturnTyped
    <3> QED
      BY <2>1, <3>1, TypeByGroups, PTL
  <2>3. CASE st' = [st EXCEPT !.maintenance = TRUE] /\ Goto("edit")
             /\ UNCHANGED <<at, seen, target>>
    <3>1. StatusType' /\ PlaceType'
      BY <1>1, <1>2, <1>3, <2>3, GotoTyped DEF Places
    <3> QED
      BY <2>1, <3>1, TypeByGroups, PTL
  <2> QED
    BY <1>10, <2>2, <2>3 DEF EnableMaintenance
<1>11. ASSUME EditSecret PROVE TypeOK'
  <2>1. UsedType' /\ ChangesType' /\ ConfigType' /\ at \in Pods
    BY <1>1, <1>11, UsedTyped DEF EditSecret, config, ChangesType, ConfigType, OnAPod, OnPod
  <2>2. WorldType'
    <3>1. [pod EXCEPT ![at].disk.cluster = target.data.cluster] \in [Pods -> PodStates]
      BY <1>1, <1>3, <2>1, PodFields
    <3> QED
      BY <1>1, <1>11, <3>1 DEF EditSecret, WorldType
  <2>3. CASE Return("Error", st)
    <3>1. StatusType' /\ PlaceType'
      BY <1>1, <1>3, <2>3, ReturnTyped
    <3> QED
      BY <2>1, <2>2, <3>1, TypeByGroups, PTL
  <2>4. CASE Goto("restart") /\ UNCHANGED <<st, at, seen, target>>
    <3>1. StatusType' /\ PlaceType'
      BY <1>1, <1>3, <2>4, GotoTyped DEF Places
    <3> QED
      BY <2>1, <2>2, <3>1, TypeByGroups, PTL
  <2> QED
    BY <1>11, <2>3, <2>4 DEF EditSecret
<1>12. ASSUME RestartAfterEdit PROVE TypeOK'
  <2>1. UsedType' /\ ChangesType' /\ ConfigType' /\ at \in Pods
    BY <1>1, <1>12, UsedTyped DEF RestartAfterEdit, config, ChangesType, ConfigType, OnAPod,
                                  OnPod
  <2>2. WorldType'
    BY <1>1, <1>12, <2>1, PodFields DEF RestartAfterEdit, Restarted, WorldType
  <2>3. CASE Return("Error", st)
    <3>1. StatusType' /\ PlaceType'
      BY <1>1, <1>3, <2>3, ReturnTyped
    <3> QED
      BY <2>1, <2>2, <3>1, TypeByGroups, PTL
  <2>4. CASE /\ Authenticates(at) /\ CheckAdmin /\ UNCHANGED <<seen, target>>
             /\ st' = [st EXCEPT !.changed = Flag(@, at),
                                 !.toSync = IF SearchHead THEN @ ELSE @ \cup {pod[at].mount}]
    <3>1. pod[at].mount \in Versions
      BY <2>4 DEF Authenticates, Mounted, Exists
    <3>2. \A c \in Seq({TRUE}) : \A s \in SUBSET Versions :
            [st EXCEPT !.changed = c, !.toSync = s] \in Statuses
      BY <1>3 DEF Statuses
    <3>3. Flag(st.changed, at) \in Seq({TRUE})
      BY <1>1, StatusFields, FlagTyped
    <3>4. (IF SearchHead THEN st.toSync ELSE st.toSync \cup {pod[at].mount}) \in SUBSET Versions
      BY <1>1, <3>1, StatusFields
    <3>5. st' \in Statuses
      BY <2>4, <3>2, <3>3, <3>4, Zenon
    <3>6. StatusType' /\ PlaceType'
      BY <1>1, <2>1, <2>4, <3>5, CheckAdminTyped
    <3> QED
      BY <2>1, <2>2, <3>6, TypeByGroups, PTL
  <2> QED
    BY <1>12, <2>3, <2>4 DEF RestartAfterEdit
<1>13. ASSUME ChangePassword PROVE TypeOK'
  <2>1. UsedType' /\ ChangesType' /\ ConfigType' /\ at \in Pods
    BY <1>1, <1>13, UsedTyped DEF ChangePassword, config, ChangesType, ConfigType, OnAPod, OnPod
  <2>2. WorldType'
    <3>1. [pod EXCEPT ![at].disk.admin = target.data.admin] \in [Pods -> PodStates]
      BY <1>1, <1>3, <2>1, PodFields
    <3> QED
      BY <1>1, <1>13, <3>1 DEF ChangePassword, WorldType
  <2>3. CASE Return("Error", st)
    <3>1. StatusType' /\ PlaceType'
      BY <1>1, <1>3, <2>3, ReturnTyped
    <3> QED
      BY <2>1, <2>2, <3>1, TypeByGroups, PTL
  <2>4. CASE Goto("restartAdmin") /\ UNCHANGED <<st, at, seen, target>>
    <3>1. StatusType' /\ PlaceType'
      BY <1>1, <1>3, <2>4, GotoTyped DEF Places
    <3> QED
      BY <2>1, <2>2, <3>1, TypeByGroups, PTL
  <2> QED
    BY <1>13, <2>3, <2>4 DEF ChangePassword
<1>14. ASSUME RestartAfterPassword PROVE TypeOK'
  <2>1. UsedType' /\ ChangesType' /\ ConfigType' /\ at \in Pods
    BY <1>1, <1>14, UsedTyped DEF RestartAfterPassword, config, ChangesType, ConfigType,
                                  OnAPod, OnPod
  <2>2. WorldType'
    BY <1>1, <1>14, <2>1, PodFields DEF RestartAfterPassword, Restarted, WorldType
  <2>3. CASE Return("Error", st)
    <3>1. StatusType' /\ PlaceType'
      BY <1>1, <1>3, <2>3, ReturnTyped
    <3> QED
      BY <2>1, <2>2, <3>1, TypeByGroups, PTL
  <2>4. CASE /\ Goto("note") /\ UNCHANGED <<at, seen, target>>
             /\ st' = [st EXCEPT !.adminChanged = Flag(@, at)]
    <3>1. \A c \in Seq({TRUE}) : [st EXCEPT !.adminChanged = c] \in Statuses
      BY <1>3 DEF Statuses
    <3>2. Flag(st.adminChanged, at) \in Seq({TRUE})
      BY <1>1, StatusFields, FlagTyped
    <3>3. st' \in Statuses
      BY <2>4, <3>1, <3>2, Zenon
    <3>4. StatusType' /\ PlaceType'
      BY <1>1, <1>3, <2>4, <3>3, GotoTyped DEF Places
    <3> QED
      BY <2>1, <2>2, <3>4, TypeByGroups, PTL
  <2> QED
    BY <1>14, <2>3, <2>4 DEF RestartAfterPassword
<1>15. ASSUME NoteSecret PROVE TypeOK'
  <2>1. UsedType' /\ ChangesType' /\ ConfigType' /\ WorldType' /\ at \in Pods
    BY <1>1, <1>15, UsedTyped DEF NoteSecret, config, world, ChangesType, ConfigType,
                                  WorldType, OnAPod, OnPod
  <2>2. CASE Return("Error", st)
    <3>1. StatusType' /\ PlaceType'
      BY <1>1, <1>3, <2>2, ReturnTyped
    <3> QED
      BY <2>1, <3>1, TypeByGroups, PTL
  <2>3. CASE /\ Mounted(at) /\ NextPod /\ UNCHANGED <<seen, target>>
             /\ st' = [st EXCEPT !.toSync = @ \cup {pod[at].mount}]
    <3>1. st' \in Statuses
      BY <1>1, <2>3, StatusFields DEF Mounted, Exists
    <3>2. StatusType' /\ PlaceType'
      BY <1>1, <2>1, <2>3, <3>1, NextPodTyped
    <3> QED
      BY <2>1, <3>2, TypeByGroups, PTL
  <2> QED
    BY <1>15, <2>2, <2>3 DEF NoteSecret
<1>16. ASSUME SyncMountedSecrets PROVE TypeOK'
  <2>1. UsedType' /\ WorldType'
    BY <1>1, <1>16, UsedTyped DEF SyncMountedSecrets, world, WorldType
  <2>2. ChangesType' /\ ns' \in Secret
    BY <1>1, <1>4, <1>16 DEF SyncMountedSecrets, ChangesType, ConfigType
  <2>3. \A v \in Versions : \A d \in 0 .. MaxChanges + 1 :
          [copies[v] EXCEPT !.admin = d] \in Data /\ [copies[v] EXCEPT !.cluster = d] \in Data
    BY <1>3 DEF Data
  <2>4. ApplyNamespaceSecret.data.cluster \in 0 .. MaxChanges + 1
    BY <1>4 DEF Secret, Data
  <2>5. copies' \in [Versions -> Data]
    <3>1. CASE copies' = copies
      BY <1>3, <3>1
    <3>2. CASE copies' = [v \in Versions |->
             IF v \notin st.toSync THEN copies[v]
             ELSE IF SearchHead THEN [copies[v] EXCEPT !.admin = target.data.admin]
             ELSE [copies[v] EXCEPT !.cluster = ApplyNamespaceSecret.data.cluster]]
      BY <1>3, <2>3, <2>4, <3>2
    <3> QED
      BY <1>16, <3>1, <3>2 DEF SyncMountedSecrets
  <2>6. ConfigType'
    BY <1>1, <1>16, <2>2, <2>5 DEF SyncMountedSecrets, ConfigType
  <2>7. CASE Return("Error", st)
    <3>1. StatusType' /\ PlaceType'
      BY <1>1, <1>3, <2>7, ReturnTyped
    <3> QED
      BY <2>1, <2>2, <2>6, <3>1, TypeByGroups, PTL
  <2>8. CASE /\ Goto("pods") /\ UNCHANGED <<at, seen, target>>
             /\ st' = IF SearchHead THEN st ELSE [st EXCEPT !.toSync = {}]
    <3>1. st' \in Statuses
      BY <1>3, <2>8 DEF Statuses
    <3>2. StatusType' /\ PlaceType'
      BY <1>1, <1>3, <2>8, <3>1, GotoTyped DEF Places
    <3> QED
      BY <2>1, <2>2, <2>6, <3>2, TypeByGroups, PTL
  <2> QED
    BY <1>16, <2>7, <2>8 DEF SyncMountedSecrets
<1>17. ASSUME UpdatePods PROVE TypeOK'
  <2>1. UsedType' /\ ChangesType'
    BY <1>1, <1>17 DEF UpdatePods, UsedType, ChangesType
  <2>2. Absent \in PodStates /\ NoData \in Data
    BY SecretsAssumption DEF Absent, NoData, PodStates, Data, Bare
  <2>3. pod' \in [Pods -> PodStates]
    BY <1>1, <1>17, <2>2 DEF UpdatePods, WorldType
  <2>4. WorldType'
    BY <1>1, <1>17, <2>3 DEF UpdatePods, WorldType
  <2>5. copies' \in [Versions -> Data]
    BY <1>3, <1>17, <2>2 DEF UpdatePods, RemoveUnwanted
  <2>6. ConfigType'
    BY <1>1, <1>17, <2>5 DEF UpdatePods, ConfigType
  <2>7. WithMaintenance \in Statuses
    BY <1>2, <1>3 DEF WithMaintenance
  <2>8. CASE \E r \in {"Pending", "Updating", "Error"} : Return(r, WithMaintenance)
    <3>1. StatusType' /\ PlaceType'
      BY <1>1, <2>7, <2>8, ReturnTyped
    <3> QED
      BY <2>1, <2>4, <2>6, <3>1, TypeByGroups, PTL
  <2>9. CASE st' = WithMaintenance /\ Goto("finish") /\ UNCHANGED <<at, seen, target>>
    <3>1. StatusType' /\ PlaceType'
      BY <1>1, <1>3, <2>7, <2>9, GotoTyped DEF Places
    <3> QED
      BY <2>1, <2>4, <2>6, <3>1, TypeByGroups, PTL
  <2> QED
    BY <1>17, <2>8, <2>9 DEF UpdatePods
<1>18. ASSUME EndMaintenance PROVE TypeOK'
  <2>1. UsedType' /\ ChangesType' /\ ConfigType'
    BY <1>1, <1>18, UsedTyped DEF EndMaintenance, config, ChangesType, ConfigType
  <2>2. WorldType' /\ maintenance' \in BOOLEAN
    BY <1>1, <1>18 DEF EndMaintenance, WorldType
  <2>3. CASE Return("Ready", st)
    <3>1. StatusType' /\ PlaceType'
      BY <1>1, <1>3, <2>3, ReturnTyped
    <3> QED
      BY <2>1, <2>2, <3>1, TypeByGroups, PTL
  <2>4. CASE /\ Goto("reset") /\ UNCHANGED <<at, seen, target>>
             /\ st' = [st EXCEPT !.maintenance = maintenance']
    <3>1. st' \in Statuses
      BY <1>2, <2>2, <2>4
    <3>2. StatusType' /\ PlaceType'
      BY <1>1, <1>3, <2>4, <3>1, GotoTyped DEF Places
    <3> QED
      BY <2>1, <2>2, <3>2, TypeByGroups, PTL
  <2> QED
    BY <1>18, <2>3, <2>4 DEF EndMaintenance
<1>19. ASSUME ResetStatus PROVE TypeOK'
  <2>1. UsedType' /\ ChangesType' /\ ConfigType' /\ WorldType'
    BY <1>1, <1>19 DEF ResetStatus, config, world, UsedType, ChangesType, ConfigType, WorldType
  <2>2. NoStatus \in Statuses
    <3>1. <<>> \in Seq({TRUE})
      OBVIOUS
    <3> QED
      BY <3>1 DEF NoStatus, Statuses
  <2>3. [NoStatus EXCEPT !.rv = seen, !.maintenance = st.maintenance] \in Statuses
    BY <1>1, <1>3, <2>2, StatusFields DEF Statuses
  <2>4. StatusType' /\ PlaceType'
    BY <1>1, <1>19, <2>3, ReturnTyped DEF ResetStatus
  <2> QED
    BY <2>1, <2>4, TypeByGroups, PTL
<1>20. ASSUME Crash PROVE TypeOK'
  <2>1. UsedType' /\ ChangesType' /\ ConfigType' /\ WorldType'
    BY <1>1, <1>20, UsedTyped DEF Crash, config, world, ChangesType, ConfigType, WorldType
  <2>2. StatusType' /\ PlaceType'
    BY <1>1, <1>20 DEF Crash, StatusType, PlaceType, Places
  <2> QED
    BY <2>1, <2>2, TypeByGroups, PTL
<1>21. ASSUME ChangeSecret PROVE TypeOK'
  <2>1. UsedType'
    BY <1>1, <1>21, UsedTyped DEF ChangeSecret
  <2>2. changes' = changes + 1 /\ changes < MaxChanges /\ changes \in Nat
    BY <1>1, <1>21, SecretsAssumption DEF ChangeSecret, ChangesType
  <2>3. ns' \in Secret
    <3>1. PICK tokens \in (SUBSET {"cluster", "admin"}) \ {{}}, missing \in BOOLEAN :
            ns' = [data |-> [t \in {"cluster", "admin"} |->
                               IF t \notin tokens THEN ns.data[t]
                               ELSE IF missing THEN 0 ELSE changes + 1],
                   rv |-> ns.rv + 1]
      BY <1>21 DEF ChangeSecret
    <3>2. ns.data.cluster \in 0 .. MaxChanges + 1 /\ ns.data.admin \in 0 .. MaxChanges + 1
          /\ ns.rv \in Nat
      BY <1>1 DEF ConfigType, Secret, Data
    <3>3. ns'.rv \in Nat
      BY <3>1, <3>2
    <3>4. ns'.data = [cluster |-> IF "cluster" \notin tokens THEN ns.data.cluster
                                  ELSE IF missing THEN 0 ELSE changes + 1,
                      admin |-> IF "admin" \notin tokens THEN ns.data.admin
                                ELSE IF missing THEN 0 ELSE changes + 1]
      BY <3>1
    <3>5. ns'.data \in Data
      BY <2>2, <3>2, <3>4, SecretsAssumption DEF Data
    <3> QED
      BY <3>1, <3>3, <3>5 DEF Secret
  <2>4. ConfigType' /\ WorldType' /\ ChangesType' /\ StatusType' /\ PlaceType'
    BY <1>1, <1>21, <2>2, <2>3, SecretsAssumption
       DEF ChangeSecret, recon, world, ConfigType, WorldType, StatusType, PlaceType, ChangesType
  <2> QED
    BY <2>1, <2>4, TypeByGroups, PTL
<1>22. ASSUME RestoreSecret PROVE TypeOK'
  <2>1. UsedType'
    BY <1>1, <1>22, UsedTyped DEF RestoreSecret
  <2>2. ns' \in Secret
    BY <1>1, <1>3, <1>22 DEF RestoreSecret, ConfigType, Secret
  <2>3. ConfigType' /\ WorldType' /\ ChangesType' /\ StatusType' /\ PlaceType'
    BY <1>1, <1>22, <2>2
       DEF RestoreSecret, recon, world, ConfigType, WorldType, StatusType, PlaceType, ChangesType
  <2> QED
    BY <2>1, <2>3, TypeByGroups, PTL
<1>23. ASSUME NEW i \in Pods, StartPod(i) PROVE TypeOK'
  <2>1. NoData \in Data
    BY SecretsAssumption DEF NoData, Data
  <2>2. PICK data \in Data :
          pod' = [pod EXCEPT ![i] = [up |-> TRUE, mount |-> revision, disk |-> data, run |-> data]]
    <3>1. revision = Bare \/ Exists(revision)
      BY <1>23 DEF StartPod
    <3>2. (IF revision = Bare THEN NoData ELSE copies[revision]) \in Data
      BY <1>3, <2>1, <3>1 DEF Exists
    <3> QED
      BY <1>23, <3>2 DEF StartPod
  <2>3. [up |-> TRUE, mount |-> revision, disk |-> data, run |-> data] \in PodStates
    BY <1>1, <2>2 DEF ConfigType, PodStates
  <2>4. pod' \in [Pods -> PodStates]
    BY <1>1, <2>2, <2>3 DEF WorldType
  <2>5. /\ ConfigType' /\ WorldType' /\ ChangesType' /\ StatusType' /\ PlaceType'
        /\ UsedType'
    BY <1>1, <1>23, <2>4
       DEF StartPod, recon, config, ConfigType, WorldType, StatusType, PlaceType, ChangesType,
           UsedType
  <2> QED
    BY <2>5, TypeByGroups, PTL
<1>24. ASSUME ObserveTemplate PROVE TypeOK'
  <2>1. /\ ConfigType' /\ WorldType' /\ ChangesType' /\ StatusType' /\ PlaceType'
        /\ UsedType'
    BY <1>1, <1>24
       DEF ObserveTemplate, recon, world, ConfigType, WorldType, StatusType, PlaceType, ChangesType,
           UsedType
  <2> QED
    BY <2>1, TypeByGroups, PTL
<1> QED
  BY <1>5, <1>6, <1>7, <1>8, <1>9, <1>10, <1>11, <1>12, <1>13, <1>14, <1>15, <1>16, <1>17,
     <1>18, <1>19, <1>20, <1>21, <1>22, <1>23, <1>24 DEF Next, Reconcile
-----------------------------------------------------------------------------
(* The copies: what a step may do to them.                                  *)

OtherStep == Next /\ ~ApplyTemplate /\ ~SyncMountedSecrets /\ ~UpdatePods

\* Three actions write copies.
LEMMA OthersKeepCopies ==
  ASSUME OtherStep
  PROVE  copies' = copies /\ Latest' = Latest
<1>1. copies' = copies
  BY DEF OtherStep, Next, Reconcile, ApplySplunkConfig, CheckSecretVersion, LookAtPod,
         EnableMaintenance, EditSecret, RestartAfterEdit, ChangePassword,
         RestartAfterPassword, NoteSecret, EndMaintenance, ResetStatus, CreateCopyFails,
         Crash, ChangeSecret, RestoreSecret, ObserveTemplate, StartPod, config
<1> QED
  BY <1>1 DEF Latest, Exists

\* GetLatestVersionedSecret returns the latest copy, with the secret in it.
LEMMA TemplateIsLatest ==
  ASSUME BaseInv, ApplyTemplate
  PROVE  /\ template' = Latest' /\ Latest' # 0 /\ Exists(Latest)'
         /\ ns'.data = copies'[Latest'] /\ Full(ns'.data)
         /\ \A v \in Versions : Exists(v) => copies'[v] = copies[v] /\ Exists(v)'
         /\ \A v \in Versions : copies'[v] = copies[v] \/ v = Latest'
         /\ (Latest' = Latest /\ copies' = copies) \/ Latest' = Latest + 1
<1>1. /\ MaxVersions \in Nat /\ copies \in [Versions -> Data]
      /\ TypeOK /\ Counted
  BY SecretsAssumption DEF BaseInv, TypeOK
<1>2. ns' = ApplyNamespaceSecret /\ Full(ns'.data) /\ ns'.data # NoData
  BY <1>1, SecretIsFilled DEF ApplyTemplate, Full, NoData
<1>3. /\ Latest \in 0 .. MaxVersions
      /\ Latest # 0 => Exists(Latest)
      /\ \A v \in Versions : Exists(v) => v <= Latest
  BY LatestIsThere DEF IsLatest
<1>4. CASE LatestHolds(ns'.data) /\ template' = Latest /\ copies' = copies
  <2>1. Latest' = Latest
    BY <1>4 DEF Latest, Exists
  <2> QED
    BY <1>2, <1>3, <1>4, <2>1 DEF LatestHolds, Exists
<1>5. CASE /\ ~LatestHolds(ns'.data) /\ Latest < MaxVersions /\ template' = Latest + 1
           /\ copies' = [copies EXCEPT ![Latest + 1] = ns'.data]
  <2>1. PICK n \in Versions : n = Latest + 1
    BY <1>1, <1>3, <1>5 DEF Versions
  <2>2. ~Exists(n) /\ n # 0 /\ n \in 0 .. MaxVersions
    BY <1>1, <1>3, <2>1 DEF Versions
  <2>3. copies' = [copies EXCEPT ![n] = ns'.data] /\ template' = n
    BY <1>5, <2>1
  <2>4. copies'[n] = ns'.data /\ \A v \in Versions : v # n => copies'[v] = copies[v]
    BY <1>1, <2>3
  <2>5. Exists(n)' /\ \A v \in Versions : v # n => (Exists(v)' <=> Exists(v))
    BY <1>2, <2>4 DEF Exists
  <2>6. \A v \in Versions : Exists(v)' => v <= n
    BY <1>1, <1>3, <2>1, <2>5 DEF Versions
  <2>7. Latest' = n
    BY <2>5, <2>6, LatestBecomes
  <2> QED
    BY <1>2, <2>1, <2>2, <2>3, <2>4, <2>5, <2>7 DEF Exists
<1> QED
  BY <1>4, <1>5 DEF ApplyTemplate

\* The synchronisation writes copies and removes none.
LEMMA SyncKeepsCopies ==
  ASSUME BaseInv, SyncMountedSecrets
  PROVE  /\ Latest' = Latest
         /\ \A v \in Versions : Exists(v)' <=> Exists(v)
         /\ \A v \in Versions : copies'[v] = copies[v] \/ Full(copies'[v])
         /\ \A v \in Versions :
              \/ copies'[v] = copies[v]
              \/ copies'[v] = [copies[v] EXCEPT !.admin = target.data.admin]
              \/ copies'[v] = [copies[v] EXCEPT !.cluster = ApplyNamespaceSecret.data.cluster]
<1>1. /\ copies \in [Versions -> Data] /\ TypeOK /\ NothingIsMissing
      /\ pc = "loop" /\ Full(target.data)
      /\ ApplyNamespaceSecret \in Secret /\ Full(ApplyNamespaceSecret.data)
  BY SecretIsFilled DEF BaseInv, TypeOK, NothingIsMissing, InLoop, SyncMountedSecrets
<1>2. CASE copies' = copies
  BY <1>2 DEF Latest, Exists
<1>3. CASE /\ \A v \in st.toSync : Exists(v)
           /\ copies' = [v \in Versions |->
             IF v \notin st.toSync THEN copies[v]
             ELSE IF SearchHead THEN [copies[v] EXCEPT !.admin = target.data.admin]
             ELSE [copies[v] EXCEPT !.cluster = ApplyNamespaceSecret.data.cluster]]
  <2>1. ASSUME NEW v \in Versions
        PROVE  /\ Exists(v)' <=> Exists(v)
               /\ copies'[v] = copies[v] \/ Full(copies'[v])
               /\ \/ copies'[v] = copies[v]
                  \/ copies'[v] = [copies[v] EXCEPT !.admin = target.data.admin]
                  \/ copies'[v] = [copies[v] EXCEPT !.cluster = ApplyNamespaceSecret.data.cluster]
    <3>1. CASE v \notin st.toSync
      BY <1>3, <2>1, <3>1 DEF Exists
    <3>2. CASE v \in st.toSync
      <4>1. Exists(v) /\ Full(copies[v]) /\ copies[v] \in Data
        BY <1>1, <1>3, <3>2 DEF Exists, NothingIsMissing
      <4>2. \/ copies'[v] = [copies[v] EXCEPT !.admin = target.data.admin]
            \/ copies'[v] = [copies[v] EXCEPT !.cluster = ApplyNamespaceSecret.data.cluster]
        BY <1>3, <3>2
      <4>3. Full(copies'[v])
        BY <1>1, <4>1, <4>2 DEF Full, Data
      <4>4. copies'[v] # NoData
        BY <4>3 DEF Full, NoData
      <4> QED
        BY <4>1, <4>2, <4>3, <4>4 DEF Exists
    <3> QED
      BY <3>1, <3>2
  <2> QED
    BY <2>1, LatestIsStable
<1> QED
  BY <1>2, <1>3 DEF SyncMountedSecrets

\* RemoveUnwantedSecrets keeps the latest copy, and the one that all pods mount
\* then: the controller is less behind than there are versions kept.
LEMMA RemovalKeepsLatest ==
  ASSUME BaseInv, UpdatePods
  PROVE  /\ Latest' = Latest /\ template' = template /\ revision' = revision
         /\ \A v \in Versions : copies'[v] = copies[v] \/ copies'[v] = NoData
         /\ copies' = copies \/ pc' = "finish"
         /\ pc' = "finish" =>
              /\ pod' = pod /\ template = Latest /\ Latest # 0
              /\ Exists(Latest)' /\ copies'[Latest] = copies[Latest]
              /\ Exists(revision) /\ copies'[revision] = copies[revision]
              /\ \A i \in Pods : pod[i].up /\ pod[i].mount = revision
<1>1. /\ TypeOK /\ copies \in [Versions -> Data] /\ KeepVersions \in Nat \ {0}
      /\ MaxLag \in Nat /\ MaxLag < KeepVersions /\ revision \in Nat /\ revision' = revision
      /\ MaxVersions \in Nat /\ template' = template /\ pc = "pods"
  BY SecretsAssumption DEF BaseInv, TypeOK, UpdatePods
<1>2. CASE copies' = copies /\ pc' = "idle"
  BY <1>1, <1>2 DEF Latest, Exists
<1>3. CASE AllSeen /\ Outdated = {} /\ copies' = RemoveUnwanted /\ Goto("finish") /\ pod' = pod
  <2>1. \A i \in Pods : pod[i].up /\ pod[i].mount = revision /\ pod[i].mount # Bare
    BY <1>3 DEF AllSeen, Outdated, Ready
  <2>2. 1 \in Pods
    BY SecretsAssumption DEF Pods
  <2>3. Exists(revision) /\ revision \in Versions
    BY <2>1, <2>2 DEF BaseInv, MountedCopyIsKept, Mounted, Exists
  <2>4. Latest \in Versions /\ Exists(Latest) /\ Latest \in Nat /\ Latest # 0 /\ template = Latest
    <3>1. Latest \in Nat /\ revision <= Latest /\ revision # 0
      BY <1>1, <2>3, LatestIsThere DEF Versions, IsLatest
    <3>2. Latest # 0
      BY <1>1, <3>1
    <3> QED
      BY <1>1, <3>1, <3>2, LatestIsThere DEF Versions, IsLatest, BaseInv, RevisionIsNear
  <2>5. \A v \in Versions : copies'[v] = copies[v] \/ copies'[v] = NoData
    BY <1>1, <1>3 DEF RemoveUnwanted
  <2>6. copies'[Latest] = copies[Latest] /\ copies'[revision] = copies[revision]
    <3>1. Latest - Latest = 0 /\ ~(0 >= KeepVersions)
      BY <1>1, <2>4
    <3>2. ~(Latest - revision >= KeepVersions)
      BY <1>1, <2>4 DEF BaseInv, RevisionIsNear
    <3> QED
      BY <1>3, <2>3, <2>4, <3>1, <3>2 DEF RemoveUnwanted
  <2>7. PICK n \in Versions : n = Latest
    BY <2>4
  <2>8. Exists(n)' /\ \A v \in Versions : Exists(v)' => v <= n
    BY <2>4, <2>5, <2>6, <2>7, LatestIsThere DEF Exists, IsLatest
  <2>9. Latest' = n
    BY <2>8, LatestBecomes
  <2>10. pc' = "finish" /\ Exists(Latest)'
    BY <1>3, <2>7, <2>8, <2>9 DEF Goto, Exists
  <2> QED
    BY <1>1, <1>3, <2>1, <2>3, <2>4, <2>5, <2>6, <2>7, <2>9, <2>10
<1> QED
  BY <1>2, <1>3 DEF UpdatePods, Return
-----------------------------------------------------------------------------
(* The copies that the template and the pods mount are there.               *)

EditStep == EditSecret \/ RestartAfterEdit \/ ChangePassword \/ RestartAfterPassword
Starting == \E i \in Pods : StartPod(i)

\* What is done in the pods leaves their mounts alone.
LEMMA EditsKeepMounts ==
  ASSUME TypeOK, OnAPod, EditStep
  PROVE  \A i \in Pods : pod'[i].up = pod[i].up /\ pod'[i].mount = pod[i].mount
<1>1. at \in Pods /\ pod \in [Pods -> PodStates]
  BY DEF OnAPod, OnPod, EditStep, EditSecret, RestartAfterEdit, ChangePassword,
         RestartAfterPassword, TypeOK
<1>2. /\ pod[at] \in PodStates /\ pod[at].disk \in Data
  BY <1>1 DEF PodStates
<1>3. PICK p \in PodStates : /\ pod' = [pod EXCEPT ![at] = p]
                             /\ p.up = pod[at].up /\ p.mount = pod[at].mount
  <2>1. \A d \in Data : /\ [pod[at] EXCEPT !.disk = d] \in PodStates
                        /\ [pod[at] EXCEPT !.disk = d].up = pod[at].up
                        /\ [pod[at] EXCEPT !.disk = d].mount = pod[at].mount
    BY <1>2 DEF PodStates
  <2>2. /\ [pod[at] EXCEPT !.run = pod[at].disk] \in PodStates
        /\ [pod[at] EXCEPT !.run = pod[at].disk].up = pod[at].up
        /\ [pod[at] EXCEPT !.run = pod[at].disk].mount = pod[at].mount
    BY <1>2 DEF PodStates
  <2>3. target.data.cluster \in 0 .. MaxChanges + 1 /\ target.data.admin \in 0 .. MaxChanges + 1
    BY DEF TypeOK, Secret, Data
  <2>4. /\ [pod[at].disk EXCEPT !.cluster = target.data.cluster] \in Data
        /\ [pod[at].disk EXCEPT !.admin = target.data.admin] \in Data
    BY <1>2, <2>3 DEF Data
  <2>5. CASE pod' = pod
    BY <1>1, <1>2, <2>5
  <2>6. CASE pod' = [pod EXCEPT ![at].disk.cluster = target.data.cluster]
    BY <2>1, <2>4, <2>6, Zenon
  <2>7. CASE pod' = [pod EXCEPT ![at].disk.admin = target.data.admin]
    BY <2>1, <2>4, <2>7, Zenon
  <2>8. CASE pod' = Restarted
    BY <2>2, <2>8, Zenon DEF Restarted
  <2> QED
    BY <2>5, <2>6, <2>7, <2>8 DEF EditStep, EditSecret, RestartAfterEdit, ChangePassword,
                                  RestartAfterPassword
<1> QED
  BY <1>1, <1>3

\* All other steps but the recycling and the start of a pod keep the pods.
LEMMA OthersKeepPods ==
  ASSUME Next, ~EditStep, ~UpdatePods, ~Starting
  PROVE  pod' = pod
BY DEF EditStep, Starting, Next, Reconcile, ApplySplunkConfig, ApplyTemplate, CheckSecretVersion,
       LookAtPod, EnableMaintenance, NoteSecret, SyncMountedSecrets, EndMaintenance,
       ResetStatus, CreateCopyFails, Crash, ChangeSecret, RestoreSecret, ObserveTemplate, world

\* A step but the removal keeps the copies that there are.
LEMMA CopiesStayUnlessRemoved ==
  ASSUME BaseInv, Next, pc' # "finish" \/ ~UpdatePods, NEW v, Exists(v)
  PROVE  Exists(v)'
<1>1. CASE OtherStep
  BY <1>1, OthersKeepCopies DEF Exists
<1>2. CASE ApplyTemplate
  BY <1>2, TemplateIsLatest DEF Exists
<1>3. CASE SyncMountedSecrets
  BY <1>3, SyncKeepsCopies DEF Exists
<1>4. CASE UpdatePods
  BY <1>4, RemovalKeepsLatest DEF Exists
<1> QED
  BY <1>1, <1>2, <1>3, <1>4 DEF OtherStep

LEMMA MountedCopyStep ==
  ASSUME BaseInv, Next
  PROVE  MountedCopyIsKept'
<1> SUFFICES ASSUME NEW i \in Pods, pod'[i].up, pod'[i].mount # Bare
             PROVE  Exists(pod[i].mount)'
  BY DEF MountedCopyIsKept, Mounted, Bare, Pods
<1>1. TypeOK /\ OnAPod /\ MountedCopyIsKept
  BY DEF BaseInv
<1>2. CASE UpdatePods /\ pc' = "finish"
  BY <1>2, RemovalKeepsLatest DEF Exists
<1>3. CASE pc' # "finish" \/ ~UpdatePods
  <2>1. CASE pod'[i].up = pod[i].up /\ pod'[i].mount = pod[i].mount
    <3>1. Exists(pod[i].mount)
      BY <1>1, <2>1 DEF MountedCopyIsKept, Mounted
    <3>2. PICK v : v = pod[i].mount
      OBVIOUS
    <3>3. Exists(v)'
      BY <1>3, <3>1, <3>2, CopiesStayUnlessRemoved
    <3> QED
      BY <2>1, <3>2, <3>3 DEF Exists
  <2>2. CASE EditStep
    BY <1>1, <2>1, <2>2, EditsKeepMounts
  <2>3. CASE UpdatePods
    <3>1. pod' = pod \/ pod' = [pod EXCEPT ![Max(Outdated)] = Absent]
      BY <2>3 DEF UpdatePods
    <3>2. pod'[i] = pod[i] \/ ~pod'[i].up
      BY <1>1, <3>1 DEF TypeOK, Absent
    <3> QED
      BY <2>1, <3>2
  <2>4. CASE Starting
    <3>1. PICK j \in Pods : StartPod(j)
      BY <2>4 DEF Starting
    <3>2. CASE j = i
      <4>1. pod'[i].mount = revision /\ copies' = copies
        BY <1>1, <3>1, <3>2 DEF StartPod, TypeOK, config
      <4>2. Exists(revision)
        BY <3>1, <4>1 DEF StartPod
      <4> QED
        BY <4>1, <4>2 DEF Exists
    <3>3. CASE j # i
      BY <1>1, <2>1, <3>1, <3>3 DEF StartPod, TypeOK
    <3> QED
      BY <3>2, <3>3
  <2>5. CASE pod' = pod
    BY <2>1, <2>5
  <2> QED
    BY <2>2, <2>3, <2>4, <2>5, OthersKeepPods
<1> QED
  BY <1>2, <1>3

LEMMA TemplateStep ==
  ASSUME BaseInv, Next
  PROVE  TemplateIsThere'
<1>1. TypeOK /\ TemplateIsThere
  BY DEF BaseInv
<1>2. CASE ApplyTemplate
  BY <1>2, TemplateIsLatest DEF TemplateIsThere, Exists
<1>3. CASE UpdatePods
  <2>1. pc = "pods" /\ template' = template
    BY <1>3 DEF UpdatePods
  <2>2. CASE pc' = "finish"
    BY <1>3, <2>1, <2>2, RemovalKeepsLatest DEF TemplateIsThere, Exists
  <2>3. CASE pc' # "finish"
    <3>1. copies' = copies /\ Latest' = Latest
      BY <1>3, <2>3, RemovalKeepsLatest
    <3> QED
      BY <1>1, <2>1, <3>1 DEF TemplateIsThere, Exists, Bare
  <2> QED
    BY <2>2, <2>3
<1>4. CASE SyncMountedSecrets
  <2>1. pc = "loop" /\ template' = template /\ Latest' = Latest
        /\ (Exists(template) => Exists(template)')
    BY <1>4, SyncKeepsCopies DEF SyncMountedSecrets, Exists
  <2> QED
    BY <1>1, <2>1 DEF TemplateIsThere, Bare
<1>5. CASE OtherStep
  <2>1. copies' = copies /\ Latest' = Latest
    BY <1>5, OthersKeepCopies
  <2>2. CASE CreateCopyFails
    BY <1>1, <2>1, <2>2 DEF CreateCopyFails, TemplateIsThere, Exists, Bare, Return
  <2>3. CASE ~CreateCopyFails
    <3>1. template' = template
      BY <1>5, <2>3 DEF OtherStep, Next, Reconcile, ApplySplunkConfig, CheckSecretVersion,
         LookAtPod, EnableMaintenance, EditSecret, RestartAfterEdit, ChangePassword,
         RestartAfterPassword, NoteSecret, EndMaintenance, ResetStatus,
         Crash, ChangeSecret, RestoreSecret, ObserveTemplate, StartPod, config
    <3>2. pc' \in {"idle", "template"} \/ pc \notin {"idle", "template"}
      BY <1>5, <2>3 DEF OtherStep, Next, Reconcile, ApplySplunkConfig, CheckSecretVersion,
         LookAtPod, EnableMaintenance, EditSecret, RestartAfterEdit, ChangePassword,
         RestartAfterPassword, NoteSecret, EndMaintenance, ResetStatus,
         Crash, ChangeSecret, RestoreSecret, ObserveTemplate, StartPod, recon, Goto, Return
    <3> QED
      BY <1>1, <2>1, <3>1, <3>2 DEF TemplateIsThere, Exists, Bare
  <2> QED
    BY <2>2, <2>3
<1> QED
  BY <1>2, <1>3, <1>4, <1>5 DEF OtherStep

\* The controller is waited for before another version is added.
LEMMA RevisionStep ==
  ASSUME BaseInv, Next
  PROVE  RevisionIsNear'
<1>1. /\ TypeOK /\ RevisionIsNear /\ MaxVersions \in Nat /\ MaxLag \in Nat
      /\ Latest \in 0 .. MaxVersions /\ revision \in Nat
  BY SecretsAssumption, LatestIsThere DEF BaseInv, TypeOK, IsLatest
<1>2. CASE ApplyTemplate
  <2>1. template' = Latest' /\ template' <= revision + MaxLag /\ revision' = revision
    BY <1>2, TemplateIsLatest DEF ApplyTemplate
  <2> QED
    BY <2>1 DEF RevisionIsNear
<1>3. CASE UpdatePods
  BY <1>1, <1>3, RemovalKeepsLatest DEF RevisionIsNear, Bare
<1>4. CASE SyncMountedSecrets
  <2>1. Latest' = Latest /\ template' = template /\ revision' = revision
    BY <1>4, SyncKeepsCopies DEF SyncMountedSecrets
  <2> QED
    BY <1>1, <2>1 DEF RevisionIsNear, Bare
<1>5. CASE OtherStep
  <2>1. Latest' = Latest
    BY <1>5, OthersKeepCopies
  <2>2. CASE CreateCopyFails
    <3>1. revision' = revision /\ (template' = template \/ (template' = Bare /\ Latest = 0))
      BY <2>2 DEF CreateCopyFails
    <3> QED
      BY <1>1, <2>1, <3>1 DEF RevisionIsNear, Bare
  <2>3. CASE ObserveTemplate
    <3>1. revision' = template /\ template' = template
      BY <2>3 DEF ObserveTemplate
    <3> QED
      BY <1>1, <2>1, <3>1 DEF RevisionIsNear, Bare
  <2>4. CASE ~CreateCopyFails /\ ~ObserveTemplate
    <3>1. template' = template /\ revision' = revision
      BY <1>5, <2>4 DEF OtherStep, Next, Reconcile, ApplySplunkConfig, CheckSecretVersion,
         LookAtPod, EnableMaintenance, EditSecret, RestartAfterEdit, ChangePassword,
         RestartAfterPassword, NoteSecret, EndMaintenance, ResetStatus,
         Crash, ChangeSecret, RestoreSecret, StartPod, config
    <3> QED
      BY <1>1, <2>1, <3>1 DEF RevisionIsNear, Bare
  <2> QED
    BY <2>2, <2>3, <2>4
<1> QED
  BY <1>2, <1>3, <1>4, <1>5 DEF OtherStep

LEMMA MissingStep ==
  ASSUME BaseInv, Next
  PROVE  Counted' /\ NothingIsMissing' /\ OnAPod'
<1>1. TypeOK /\ Counted /\ NothingIsMissing /\ OnAPod
  BY DEF BaseInv
<1>2. Full(ApplyNamespaceSecret.data) /\ ApplyNamespaceSecret \in Secret
  BY <1>1, SecretIsFilled
<1>3. Counted'
  <2>1. CASE ns' = ns /\ changes' = changes
    BY <1>1, <2>1 DEF Counted, Full
  <2>2. CASE ns'.data = ApplyNamespaceSecret.data
    BY <1>2, <2>2 DEF Counted, Full
  <2>3. CASE ChangeSecret
    <3>1. changes' = changes + 1 /\ changes < MaxChanges /\ changes \in Nat /\ MaxChanges \in Nat
      BY <1>1, <2>3, SecretsAssumption DEF ChangeSecret, TypeOK
    <3> QED
      BY <3>1 DEF Counted
  <2>4. CASE RestoreSecret
    <3>1. PICK v \in Versions : Exists(v) /\ ns'.data = copies[v]
      BY <2>4 DEF RestoreSecret
    <3> QED
      BY <1>1, <3>1 DEF NothingIsMissing, Exists, Counted, Full
  <2>5. CASE ApplySplunkConfig
    <3>1. ns'.data = ApplyNamespaceSecret.data
      BY <1>2, <2>5 DEF ApplySplunkConfig, Secret
    <3> QED
      BY <2>2, <3>1
  <2>6. CASE ApplyTemplate \/ CheckSecretVersion \/ CreateCopyFails \/ SyncMountedSecrets
    BY <2>1, <2>2, <2>6 DEF ApplyTemplate, CheckSecretVersion, CreateCopyFails,
                            SyncMountedSecrets
  <2>7. CASE Crash \/ Starting \/ ObserveTemplate \/ LookAtPod \/ EnableMaintenance \/ EditStep \/ NoteSecret
             \/ UpdatePods \/ EndMaintenance \/ ResetStatus
    BY <2>1, <2>7 DEF LookAtPod, EnableMaintenance, EditStep, EditSecret, RestartAfterEdit,
                      ChangePassword, RestartAfterPassword, NoteSecret, UpdatePods,
                      EndMaintenance, ResetStatus, Crash, Starting, StartPod, config,
                      ObserveTemplate
  <2> QED
    BY <2>3, <2>4, <2>5, <2>6, <2>7 DEF Next, Reconcile, EditStep, Starting
<1>4. \A v \in Versions : copies'[v] = NoData \/ Full(copies'[v])
  <2>1. CASE ApplyTemplate
    BY <1>1, <2>1, TemplateIsLatest DEF NothingIsMissing
  <2>2. CASE SyncMountedSecrets
    BY <1>1, <2>2, SyncKeepsCopies DEF NothingIsMissing
  <2>3. CASE UpdatePods
    BY <1>1, <2>3, RemovalKeepsLatest DEF NothingIsMissing
  <2>4. CASE OtherStep
    BY <1>1, <2>4, OthersKeepCopies DEF NothingIsMissing
  <2> QED
    BY <2>1, <2>2, <2>3, <2>4 DEF OtherStep
<1>5. pc' \in InLoop => Full(target'.data)
  <2>1. CASE CheckSecretVersion
    BY <1>2, <2>1 DEF CheckSecretVersion, Goto, InLoop, OnPod
  <2>2. CASE ~CheckSecretVersion
    <3>1. pc' \in InLoop => pc \in InLoop
      BY <2>2 DEF Next, Reconcile, ApplySplunkConfig, ApplyTemplate,
         LookAtPod, EnableMaintenance, EditSecret, RestartAfterEdit, ChangePassword,
         RestartAfterPassword, NoteSecret, SyncMountedSecrets, UpdatePods, EndMaintenance,
         ResetStatus, CreateCopyFails, Crash, ChangeSecret, RestoreSecret, ObserveTemplate, StartPod, recon,
         Goto, Return, InLoop, OnPod
    <3>2. target' = target
      BY <2>2 DEF Next, Reconcile, ApplySplunkConfig, ApplyTemplate,
         LookAtPod, EnableMaintenance, EditSecret, RestartAfterEdit, ChangePassword,
         RestartAfterPassword, NoteSecret, SyncMountedSecrets, UpdatePods, EndMaintenance,
         ResetStatus, CreateCopyFails, Crash, ChangeSecret, RestoreSecret, ObserveTemplate, StartPod, recon,
         Return
    <3> QED
      BY <1>1, <3>1, <3>2 DEF NothingIsMissing
  <2> QED
    BY <2>1, <2>2
<1>6. OnAPod'
  BY <1>1 DEF Next, Reconcile, ApplySplunkConfig, ApplyTemplate, CheckSecretVersion,
       LookAtPod, EnableMaintenance, EditSecret, RestartAfterEdit, ChangePassword,
       RestartAfterPassword, NoteSecret, SyncMountedSecrets, UpdatePods, EndMaintenance,
       ResetStatus, CreateCopyFails, Crash, ChangeSecret, RestoreSecret, ObserveTemplate, StartPod, recon,
       Goto, Return, NextPod, CheckAdmin, OnAPod, OnPod, Pods
<1> QED
  BY <1>3, <1>4, <1>5, <1>6 DEF NothingIsMissing

LEMMA BaseInit == Init => BaseInv
<1> SUFFICES ASSUME Init PROVE BaseInv
  OBVIOUS
<1>1. /\ 1 \in 1 .. Replicas + 1 /\ 0 \in 0 .. Bare /\ 0 \in 0 .. MaxChanges + 1 /\ 0 <= MaxHazards
      /\ Replicas \in Nat
  BY SecretsAssumption DEF Bare
<1>2. NoData \in Data
  BY <1>1 DEF NoData, Data
<1>3. Absent \in PodStates
  BY <1>1, <1>2 DEF Absent, PodStates
<1>4. <<>> \in Seq({TRUE}) /\ <<>> \in Seq(Hazards) /\ Len(<<>>) = 0
  OBVIOUS
<1>5. NoStatus \in Statuses
  BY <1>4 DEF NoStatus, Statuses
<1>6. ConfigType /\ WorldType
  BY <1>1, <1>2, <1>3 DEF Init, ConfigType, WorldType, Secret
<1>7. StatusType /\ PlaceType
  BY <1>1, <1>2, <1>5 DEF Init, StatusType, PlaceType, Places, Secret
<1>8. UsedType /\ ChangesType
  BY <1>1, <1>4 DEF Init, UsedType, ChangesType
<1>9. TypeOK
  BY <1>6, <1>7, <1>8, TypeByGroups
<1>10. Counted /\ NothingIsMissing /\ TemplateIsThere /\ OnAPod
  BY SecretsAssumption
     DEF Init, Counted, NothingIsMissing, TemplateIsThere, OnAPod, InLoop, OnPod
<1>11. MountedCopyIsKept
  BY DEF Init, MountedCopyIsKept, Absent
<1>12. RevisionIsNear
  <2>1. \A v \in Versions : ~Exists(v)
    BY DEF Init, Exists
  <2>2. Latest = 0
    BY <2>1, LatestIsThere, SecretsAssumption DEF IsLatest, Versions
  <2> QED
    BY <2>2, SecretsAssumption DEF Init, RevisionIsNear
<1> QED
  BY <1>9, <1>10, <1>11, <1>12 DEF BaseInv

LEMMA BaseStep ==
  ASSUME BaseInv, [Next]_vars
  PROVE  BaseInv'
<1>1. CASE Next
  BY <1>1, SecretsTypeStep, MountedCopyStep, TemplateStep, RevisionStep, MissingStep
     DEF BaseInv
<1>2. CASE UNCHANGED vars
  BY <1>2 DEF vars, config, world, recon, BaseInv, TypeOK, Counted, NothingIsMissing,
              TemplateIsThere, RevisionIsNear, OnAPod, MountedCopyIsKept, Mounted, Exists,
              Latest, Full
<1> QED
  BY <1>1, <1>2

\* The type invariant of the model holds.
THEOREM SecretsTypeCorrect == Spec => []TypeOK
<1>1. BaseInv => TypeOK
  BY DEF BaseInv
<1> QED
  BY <1>1, BaseInit, BaseStep, PTL DEF Spec

\* RemoveUnwantedSecrets never removes a copy that a pod mounts, whatever
\* fails, whenever the operator restarts and whatever the user writes: it
\* runs only when every pod mounts the copy in the StatefulSet's status, which
\* is less behind than there are versions kept.
THEOREM MountedIsKept == Spec => []MountedCopyIsKept
<1>1. BaseInv => MountedCopyIsKept
  BY DEF BaseInv
<1> QED
  BY <1>1, BaseInit, BaseStep, PTL DEF Spec
-----------------------------------------------------------------------------
(* Maintenance mode.                                                        *)

\* What has gone wrong is never forgotten.
LEMMA HistoryGrows ==
  ASSUME TypeOK, Next
  PROVE  /\ \A x : Happened(x) => Happened(x)'
         /\ Crash => Happened("crash")'
         /\ ChangeSecret /\ pc # "idle" => Happened("race")'
<1>1. Fine \/ \E k : Hit(k)
  BY DEF Next, Reconcile, ApplySplunkConfig, ApplyTemplate, CheckSecretVersion, LookAtPod,
         EnableMaintenance, EditSecret, RestartAfterEdit, ChangePassword,
         RestartAfterPassword, NoteSecret, SyncMountedSecrets, UpdatePods, EndMaintenance,
         ResetStatus, CreateCopyFails, Crash, ChangeSecret, RestoreSecret, ObserveTemplate, StartPod, Fine
<1>2. Fine => \A x : Happened(x) => Happened(x)'
  BY DEF Fine, Happened
<1>3. Crash => Happened("crash")'
  BY HazardIsCounted DEF Crash
<1>4. ChangeSecret /\ pc # "idle" => Happened("race")'
  BY HazardIsCounted DEF ChangeSecret
<1> QED
  BY <1>1, <1>2, <1>3, <1>4, HazardIsCounted

\* What the steps do to the flags of the status.
LEMMA FlagsStep ==
  ASSUME TypeOK, FlagsAreTrue, Next, ~Crash, ~SearchHead
  PROVE  FlagsAreTrue'
<1>1. st \in Statuses /\ maintenance \in BOOLEAN
  BY DEF TypeOK
<1>2. ASSUME maintenance' = maintenance, st'.maintenance = st.maintenance,
             st'.changed = st.changed, pc' \in {"edit", "restart"} => maintenance, pc # "reset"
      PROVE  FlagsAreTrue'
  BY <1>2 DEF FlagsAreTrue
<1>3. ASSUME UNCHANGED <<maintenance, st, pc>> PROVE FlagsAreTrue'
  BY <1>3 DEF FlagsAreTrue
<1>4. CASE ApplySplunkConfig \/ ApplyTemplate \/ CreateCopyFails \/ NoteSecret \/ ChangePassword
           \/ SyncMountedSecrets \/ CheckSecretVersion \/ RestartAfterPassword
  <2>1. pc' \notin {"edit", "restart"} /\ pc # "reset" /\ maintenance' = maintenance
    BY <1>4 DEF ApplySplunkConfig, ApplyTemplate, CreateCopyFails, NoteSecret, ChangePassword,
                SyncMountedSecrets, CheckSecretVersion, RestartAfterPassword, Goto, Return,
                NextPod, world
  <2>2. st'.maintenance = st.maintenance /\ st'.changed = st.changed
    <3>1. CASE st' = st
      BY <3>1
    <3>2. CASE \E n : st' = [st EXCEPT !.rv = n]
      BY <1>1, <3>2 DEF Statuses
    <3>3. CASE \E n : st' = [st EXCEPT !.toSync = n]
      BY <1>1, <3>3 DEF Statuses
    <3>4. CASE \E n : st' = [st EXCEPT !.adminChanged = n]
      BY <1>1, <3>4 DEF Statuses
    <3>5. CASE NoteSecret
      BY <3>1, <3>3, <3>5, Zenon DEF NoteSecret, Return
    <3>6. CASE RestartAfterPassword
      BY <3>1, <3>4, <3>6, Zenon DEF RestartAfterPassword, Return
    <3>7. CASE CheckSecretVersion
      BY <3>1, <3>2, <3>7, Zenon DEF CheckSecretVersion, Return
    <3>8. CASE SyncMountedSecrets
      BY <3>1, <3>3, <3>8, Zenon DEF SyncMountedSecrets, Return
    <3>9. CASE ApplySplunkConfig \/ ApplyTemplate \/ CreateCopyFails \/ ChangePassword
      BY <3>1, <3>9 DEF ApplySplunkConfig, ApplyTemplate, CreateCopyFails, ChangePassword,
                        Return
    <3> QED
      BY <1>4, <3>5, <3>6, <3>7, <3>8, <3>9
  <2> QED
    BY <1>2, <2>1, <2>2
<1>5. CASE LookAtPod
  <2>1. st' = st /\ maintenance' = maintenance /\ pc = "loop"
    BY <1>5 DEF LookAtPod, Return, world
  <2>2. pc' = "edit" => st.changed # <<>> \/ st.maintenance
    BY <1>5 DEF LookAtPod, Return, Goto, NextPod, CheckAdmin
  <2>3. pc' # "restart"
    BY <1>5 DEF LookAtPod, Return, Goto, NextPod, CheckAdmin
  <2> QED
    BY <1>2, <2>1, <2>2, <2>3 DEF FlagsAreTrue
<1>6. CASE EnableMaintenance
  <2>1. CASE maintenance' = TRUE
    BY <2>1 DEF FlagsAreTrue
  <2>2. CASE UNCHANGED maintenance /\ Return("Error", st) /\ pc = "maintenance"
    BY <1>2, <2>2 DEF Return
  <2> QED
    BY <1>6, <2>1, <2>2 DEF EnableMaintenance
<1>7. CASE EditSecret
  BY <1>2, <1>7 DEF EditSecret, Goto, Return, FlagsAreTrue
<1>8. CASE RestartAfterEdit
  <2>1. maintenance /\ maintenance' = maintenance
    BY <1>8 DEF RestartAfterEdit, FlagsAreTrue
  <2> QED
    BY <2>1 DEF FlagsAreTrue
<1>9. CASE UpdatePods
  <2>1. st' = [st EXCEPT !.maintenance = maintenance] /\ maintenance' = maintenance
        /\ pc = "pods" /\ pc' \in {"idle", "finish"}
    BY <1>9 DEF UpdatePods, WithMaintenance, Return, Goto
  <2>2. st'.maintenance = maintenance /\ st'.changed = st.changed
    BY <1>1, <2>1 DEF Statuses
  <2> QED
    BY <2>1, <2>2 DEF FlagsAreTrue
<1>10. CASE EndMaintenance
  <2>1. CASE st' = [st EXCEPT !.maintenance = maintenance'] /\ Goto("reset")
    <3>1. st'.maintenance = maintenance' /\ pc' = "reset"
      BY <1>1, <2>1 DEF Statuses, Goto
    <3> QED
      BY <3>1 DEF FlagsAreTrue
  <2>2. CASE UNCHANGED maintenance /\ Return("Ready", st) /\ pc = "finish"
    BY <1>2, <2>2 DEF Return
  <2> QED
    BY <1>10, <2>1, <2>2 DEF EndMaintenance
<1>11. CASE ResetStatus
  <2>1. st' = [NoStatus EXCEPT !.rv = seen, !.maintenance = st.maintenance]
        /\ maintenance' = maintenance /\ pc' = "idle"
    BY <1>11 DEF ResetStatus, Return, world
  <2>2. st'.maintenance = st.maintenance /\ st'.changed = <<>>
    BY <2>1 DEF NoStatus
  <2> QED
    BY <2>1, <2>2 DEF FlagsAreTrue
<1>12. CASE ChangeSecret \/ RestoreSecret \/ ObserveTemplate \/ \E i \in Pods : StartPod(i)
  BY <1>3, <1>12 DEF ChangeSecret, RestoreSecret, ObserveTemplate, StartPod, world, recon
<1> QED
  BY <1>4, <1>5, <1>6, <1>7, <1>8, <1>9, <1>10, <1>11, <1>12 DEF Next, Reconcile

\* The kind of cluster never changes.
LEMMA ClusterIsFixed == [Next]_vars => cluster' = cluster
BY DEF vars, Next, Reconcile, ApplySplunkConfig, ApplyTemplate, CheckSecretVersion, LookAtPod,
       EnableMaintenance, EditSecret, RestartAfterEdit, ChangePassword,
       RestartAfterPassword, NoteSecret, SyncMountedSecrets, UpdatePods, EndMaintenance,
       ResetStatus, CreateCopyFails, Crash, ChangeSecret, RestoreSecret, ObserveTemplate, StartPod

LEMMA MaintenanceStep ==
  ASSUME TypeOK, MaintenanceInv, [Next]_vars
  PROVE  MaintenanceInv'
<1>1. CASE Next
  <2> SUFFICES ASSUME ~SearchHead', ~Happened("crash")' PROVE FlagsAreTrue'
    BY DEF MaintenanceInv
  <2>1. ~SearchHead /\ ~Happened("crash") /\ ~Crash
    BY <1>1, ClusterIsFixed, HistoryGrows DEF SearchHead
  <2> QED
    BY <1>1, <2>1, FlagsStep DEF MaintenanceInv
<1>2. CASE UNCHANGED vars
  BY <1>2 DEF vars, config, world, recon, MaintenanceInv, SearchHead, Happened, FlagsAreTrue
<1> QED
  BY <1>1, <1>2

\* Peers are restarted for a new cluster secret only while the cluster manager
\* is in maintenance mode, unless the operator has crashed: the flags in the
\* status that make ApplyIdxcSecret skip SetClusterMaintenanceMode are true,
\* whatever calls fail and whenever the user writes the secret.
THEOREM PeersRestartInMaintenance == Spec => []RestartInMaintenance
<1>1. Init => BaseInv /\ MaintenanceInv
  BY BaseInit DEF Init, MaintenanceInv, FlagsAreTrue, NoStatus
<1>2. BaseInv /\ MaintenanceInv /\ [Next]_vars => (BaseInv /\ MaintenanceInv)'
  BY BaseStep, MaintenanceStep DEF BaseInv
<1>3. BaseInv /\ MaintenanceInv => RestartInMaintenance
  BY DEF MaintenanceInv, FlagsAreTrue, RestartInMaintenance
<1> QED
  BY <1>1, <1>2, <1>3, PTL DEF Spec
-----------------------------------------------------------------------------
(* Ready for the current version of the secret.                             *)

LEMMA VersionsStep ==
  ASSUME BaseInv, VersionsArePast, Next
  PROVE  VersionsArePast' /\ ns'.rv >= ns.rv
<1>1. /\ TypeOK /\ Counted /\ st \in Statuses /\ saved \in Statuses /\ ns \in Secret
      /\ seen \in Nat /\ ns.rv \in Nat /\ st.rv \in Nat /\ saved.rv \in Nat
  BY DEF BaseInv, TypeOK, Statuses, Secret
<1>2. ApplyNamespaceSecret \in Secret /\ ApplyNamespaceSecret.rv >= ns.rv
      /\ ApplyNamespaceSecret.rv \in Nat
  BY <1>1, SecretIsFilled DEF Secret
<1>3. ASSUME ns'.rv \in Nat, ns'.rv >= ns.rv, st'.rv \in {st.rv, ns'.rv, seen, saved.rv},
             saved'.rv \in {saved.rv, st'.rv}, seen' = seen,
             pc' = "idle" => st' = saved'
      PROVE  VersionsArePast' /\ ns'.rv >= ns.rv
  BY <1>1, <1>3 DEF VersionsArePast
<1>4. CASE ApplySplunkConfig
  <2>1. seen' = ApplyNamespaceSecret.rv /\ st' = st /\ saved' = saved /\ pc' # "idle"
        /\ ns'.rv >= ApplyNamespaceSecret.rv /\ ns'.rv \in Nat
    BY <1>2, <1>4 DEF ApplySplunkConfig, Goto, Secret
  <2> QED
    BY <1>1, <1>2, <2>1 DEF VersionsArePast
<1>5. CASE ApplyTemplate \/ CreateCopyFails
  BY <1>1, <1>2, <1>3, <1>5 DEF ApplyTemplate, CreateCopyFails, Goto, Return
<1>6. CASE CheckSecretVersion
  <2>1. ns'.rv \in Nat /\ ns'.rv >= ns.rv /\ seen' = seen /\ saved' = saved /\ pc' # "idle"
    BY <1>2, <1>6 DEF CheckSecretVersion, Goto
  <2>2. st'.rv \in {st.rv, ns'.rv}
    BY <1>1, <1>6 DEF CheckSecretVersion, Statuses
  <2> QED
    BY <1>3, <2>1, <2>2
<1>7. CASE SyncMountedSecrets
  <2>1. ns'.rv \in Nat /\ ns'.rv >= ns.rv /\ seen' = seen
    BY <1>1, <1>2, <1>7 DEF SyncMountedSecrets, Return
  <2>2. st'.rv = st.rv
    BY <1>1, <1>7 DEF SyncMountedSecrets, Return, Statuses
  <2>3. saved'.rv \in {saved.rv, st'.rv} /\ (pc' = "idle" => st' = saved')
    BY <1>7 DEF SyncMountedSecrets, Return, Goto
  <2> QED
    BY <1>3, <2>1, <2>2, <2>3
<1>8. CASE LookAtPod \/ EditSecret \/ ChangePassword
  <2>1. ns' = ns /\ seen' = seen /\ st' = st
    BY <1>8 DEF LookAtPod, EditSecret, ChangePassword, Return, config
  <2>2. saved' \in {saved, st'} /\ (pc' = "idle" => st' = saved')
    BY <1>8 DEF LookAtPod, EditSecret, ChangePassword, Return, Goto, NextPod, CheckAdmin
  <2> QED
    BY <1>1, <1>3, <2>1, <2>2
<1>9. CASE EnableMaintenance \/ RestartAfterEdit \/ RestartAfterPassword \/ NoteSecret \/ UpdatePods
           \/ EndMaintenance
  <2>1. ns' = ns /\ seen' = seen
    BY <1>9 DEF EnableMaintenance, RestartAfterEdit, RestartAfterPassword, NoteSecret,
                UpdatePods, EndMaintenance, Return, config
  <2>2. saved' \in {saved, st'} /\ (pc' = "idle" => st' = saved')
    BY <1>9 DEF EnableMaintenance, RestartAfterEdit, RestartAfterPassword, NoteSecret,
                UpdatePods, EndMaintenance, Return, Goto, NextPod, CheckAdmin
  <2>3. st'.rv = st.rv
    BY <1>1, <1>9 DEF EnableMaintenance, RestartAfterEdit, RestartAfterPassword, NoteSecret,
                UpdatePods, EndMaintenance, WithMaintenance, Return, Statuses
  <2> QED
    BY <1>1, <1>3, <2>1, <2>2, <2>3
<1>10. CASE ResetStatus
  <2>1. st'.rv = seen
    BY <1>10 DEF ResetStatus, Return, NoStatus
  <2> QED
    BY <1>1, <1>3, <1>10, <2>1 DEF ResetStatus, Return, config
<1>11. CASE Crash
  BY <1>1, <1>3, <1>11 DEF Crash, config
<1>12. CASE ChangeSecret \/ RestoreSecret
  <2>1. ns'.rv = ns.rv + 1 /\ UNCHANGED <<st, saved, seen, pc>>
    BY <1>12 DEF ChangeSecret, RestoreSecret, recon
  <2> QED
    BY <1>1, <1>3, <2>1 DEF VersionsArePast
<1>13. CASE ObserveTemplate \/ \E i \in Pods : StartPod(i)
  <2>1. UNCHANGED <<ns, st, saved, seen, pc>>
    BY <1>13 DEF ObserveTemplate, StartPod, recon, config
  <2> QED
    BY <1>1, <1>3, <2>1 DEF VersionsArePast
<1> QED
  BY <1>4, <1>5, <1>6, <1>7, <1>8, <1>9, <1>10, <1>11, <1>12, <1>13 DEF Next, Reconcile

\* During a reconcile nobody writes the secret.
LEMMA SecretIsStable ==
  ASSUME BaseInv, Full(ns.data), Next, ~ChangeSecret, pc # "idle"
  PROVE  ns' = ns
<1>1. ApplyNamespaceSecret = ns
  BY SecretIsFilled DEF BaseInv
<1> QED
  BY <1>1 DEF Next, Reconcile, ApplySplunkConfig, ApplyTemplate, CheckSecretVersion, LookAtPod,
         EnableMaintenance, EditSecret, RestartAfterEdit, ChangePassword,
         RestartAfterPassword, NoteSecret, SyncMountedSecrets, UpdatePods, EndMaintenance,
         ResetStatus, CreateCopyFails, Crash, RestoreSecret, ObserveTemplate, StartPod, config

\* Nothing but a new copy changes what the latest one is, or what is in it.
LEMMA LatestIsStableOrNew ==
  ASSUME BaseInv, SecretIsCopied, Next, ~ChangeSecret \/ pc = "idle"
  PROVE  \/ Latest' = Latest /\ (Latest # 0 => copies'[Latest] = copies[Latest])
         \/ ApplyTemplate /\ Latest' = Latest + 1 /\ ~Exists(Latest + 1)
<1>1. /\ Latest \in 0 .. MaxVersions /\ MaxVersions \in Nat
      /\ (Latest # 0 => Latest \in Versions)
      /\ \A v \in Versions : Exists(v) => v <= Latest
  BY LatestIsThere, SecretsAssumption DEF IsLatest, Versions
<1>2. CASE OtherStep
  BY <1>2, OthersKeepCopies
<1>3. CASE ApplyTemplate
  <2>1. ~Exists(Latest + 1)
    BY <1>1 DEF Exists, Versions
  <2> QED
    BY <1>3, <2>1, TemplateIsLatest
<1>4. CASE SyncMountedSecrets
  <2>1. pc = "loop" /\ Latest' = Latest /\ TypeOK /\ Counted
    BY <1>4, SyncKeepsCopies DEF SyncMountedSecrets, BaseInv
  <2>2. CASE Latest = 0
    BY <2>1, <2>2
  <2>3. CASE Latest # 0
    <3>1. copies[Latest] = ns.data /\ target.data = ns.data /\ Full(ns.data) /\ ns.data \in Data
      BY <2>1, <2>3 DEF SecretIsCopied, InLoop, TypeOK, Secret
    <3>2. ApplyNamespaceSecret = ns
      BY <2>1, <3>1, SecretIsFilled
    <3>3. [ns.data EXCEPT !.admin = ns.data.admin] = ns.data
          /\ [ns.data EXCEPT !.cluster = ns.data.cluster] = ns.data
      BY <3>1 DEF Data
    <3>4. \/ copies'[Latest] = copies[Latest]
          \/ copies'[Latest] = [copies[Latest] EXCEPT !.admin = target.data.admin]
          \/ copies'[Latest] = [copies[Latest] EXCEPT !.cluster = ApplyNamespaceSecret.data.cluster]
      BY <1>1, <1>4, <2>3, SyncKeepsCopies
    <3> QED
      BY <2>1, <3>1, <3>2, <3>3, <3>4
  <2> QED
    BY <2>2, <2>3
<1>5. CASE UpdatePods
  <2>1. CASE copies' = copies
    BY <1>5, <2>1, RemovalKeepsLatest
  <2>2. CASE pc' = "finish"
    BY <1>5, <2>2, RemovalKeepsLatest
  <2> QED
    BY <1>5, <2>1, <2>2, RemovalKeepsLatest
<1> QED
  BY <1>2, <1>3, <1>4, <1>5 DEF OtherStep

LEMMA SecretIsCopiedStep ==
  ASSUME BaseInv, SecretIsCopied, Next, ~ChangeSecret \/ pc = "idle"
  PROVE  SecretIsCopied'
<1>1. TypeOK /\ Counted /\ TemplateIsThere /\ MaxVersions \in Nat /\ Latest \in 0 .. MaxVersions
      /\ Latest' \in 0 .. MaxVersions
  <2>1. IsLatest(Latest)'
    BY LatestIsThere, PTL
  <2> QED
    BY <2>1, SecretsAssumption, LatestIsThere DEF BaseInv, IsLatest
<1>2. CASE pc = "idle"
  <2>1. CASE ApplySplunkConfig
    <3>1. ns'.data = ApplyNamespaceSecret.data /\ pc' = "template"
      BY <1>1, <2>1, SecretIsFilled DEF ApplySplunkConfig, Goto, Secret
    <3> QED
      BY <1>1, <3>1, SecretIsFilled DEF SecretIsCopied, InLoop, OnPod, Full
  <2>2. CASE ~ApplySplunkConfig
    <3>1. pc' = "idle"
      BY <1>2, <2>2 DEF Next, Reconcile, ApplyTemplate, CheckSecretVersion, LookAtPod,
         EnableMaintenance, EditSecret, RestartAfterEdit, ChangePassword,
         RestartAfterPassword, NoteSecret, SyncMountedSecrets, UpdatePods, EndMaintenance,
         ResetStatus, CreateCopyFails, Crash, ChangeSecret, RestoreSecret, ObserveTemplate, StartPod, recon
    <3> QED
      BY <3>1 DEF SecretIsCopied, InLoop, OnPod
  <2> QED
    BY <2>1, <2>2
<1>3. CASE pc # "idle"
  <2>1. ns' = ns /\ Full(ns.data) /\ ~ChangeSecret
    BY <1>3, SecretIsStable DEF SecretIsCopied
  <2>2. CASE ApplyTemplate
    BY <1>1, <2>1, <2>2, TemplateIsLatest
       DEF SecretIsCopied, ApplyTemplate, Goto, InLoop, OnPod, Bare
  <2>3. CASE CreateCopyFails
    <3>1. Latest' = Latest
      BY <2>3 DEF CreateCopyFails, Latest, Exists
    <3>2. pc' = "idle" \/ (pc' = "secret" /\ template' = Bare /\ Latest = 0)
      BY <2>3 DEF CreateCopyFails, Goto, Return
    <3> QED
      BY <2>1, <3>1, <3>2 DEF SecretIsCopied, InLoop, OnPod, Full
  <2>4. CASE ~ApplyTemplate /\ ~CreateCopyFails
    <3>1. template' = template
      BY <2>1, <2>4, <1>3
         DEF Next, Reconcile, ApplySplunkConfig, CheckSecretVersion, LookAtPod,
         EnableMaintenance, EditSecret, RestartAfterEdit, ChangePassword,
         RestartAfterPassword, NoteSecret, SyncMountedSecrets, UpdatePods, EndMaintenance,
         ResetStatus, Crash, RestoreSecret, ObserveTemplate, StartPod, config
    <3>2. pc' \in {"idle", "template"} \/ pc \notin {"idle", "template"}
      BY <2>1, <2>4, <1>3
         DEF Next, Reconcile, ApplySplunkConfig, CheckSecretVersion, LookAtPod,
         EnableMaintenance, EditSecret, RestartAfterEdit, ChangePassword,
         RestartAfterPassword, NoteSecret, SyncMountedSecrets, UpdatePods, EndMaintenance,
         ResetStatus, Crash, RestoreSecret, ObserveTemplate, StartPod, recon, Goto, Return
    <3>3. Latest' = Latest /\ (Latest # 0 => copies'[Latest] = copies[Latest])
      BY <2>1, <2>4, LatestIsStableOrNew
    <3>4. pc' \notin {"idle", "template"} =>
            IF template' = Bare THEN Latest' = 0 ELSE copies'[Latest'] = ns'.data
      BY <1>1, <2>1, <3>1, <3>2, <3>3 DEF SecretIsCopied, TemplateIsThere
    <3>5. pc' \in InLoop => target'.data = ns'.data
      <4>1. CASE CheckSecretVersion
        BY <2>1, <4>1 DEF CheckSecretVersion, Goto, InLoop, OnPod
      <4>2. CASE ~CheckSecretVersion
        <5>1. (pc' \in InLoop => pc \in InLoop) /\ target' = target
          BY <2>1, <2>4, <1>3, <4>2
         DEF Next, Reconcile, ApplySplunkConfig, LookAtPod, InLoop, OnPod,
         EnableMaintenance, EditSecret, RestartAfterEdit, ChangePassword,
         RestartAfterPassword, NoteSecret, SyncMountedSecrets, UpdatePods, EndMaintenance,
         ResetStatus, Crash, RestoreSecret, ObserveTemplate, StartPod, recon, Goto, Return
        <5> QED
          BY <2>1, <5>1 DEF SecretIsCopied
      <4> QED
        BY <4>1, <4>2
    <3> QED
      BY <2>1, <3>4, <3>5 DEF SecretIsCopied, Full
  <2> QED
    BY <2>2, <2>3, <2>4
<1> QED
  BY <1>2, <1>3
\* No pod mounts a copy that is not there.
LEMMA MountsOfPods ==
  ASSUME BaseInv, NEW i \in Pods, pod[i].up
  PROVE  pod[i].mount # 0
         /\ (pod[i].mount \in 0 .. MaxVersions => Exists(pod[i].mount))
<1>1. MaxVersions \in Nat /\ (pod[i].mount # Bare => Exists(pod[i].mount))
  BY SecretsAssumption DEF BaseInv, MountedCopyIsKept, Mounted
<1> QED
  BY <1>1 DEF Bare, Exists, Versions

\* What the loop changes is on a pod with an older copy.
LEMMA EditsAreElsewhere ==
  ASSUME BaseInv, LatestIsRun, EditStep
  PROVE  \A i \in Pods : pod[i].up /\ pod[i].mount = Latest => pod'[i] = pod[i]
<1>1. at \in Pods /\ pc \in OnPod /\ pod \in [Pods -> PodStates]
  BY DEF BaseInv, OnAPod, OnPod, EditStep, EditSecret, RestartAfterEdit, ChangePassword,
         RestartAfterPassword, TypeOK
<1>2. \A i \in Pods : i # at => pod'[i] = pod[i]
  <2>1. CASE pod' = pod
    BY <2>1
  <2>2. CASE \E p : pod' = [pod EXCEPT ![at] = p]
    BY <1>1, <2>2
  <2>3. CASE EditSecret
    BY <2>1, <2>2, <2>3, Zenon DEF EditSecret
  <2>4. CASE RestartAfterEdit
    BY <2>1, <2>2, <2>4, Zenon DEF RestartAfterEdit, Restarted
  <2>5. CASE ChangePassword
    BY <2>1, <2>2, <2>5, Zenon DEF ChangePassword
  <2>6. CASE RestartAfterPassword
    BY <2>1, <2>2, <2>6, Zenon DEF RestartAfterPassword, Restarted
  <2> QED
    BY <2>3, <2>4, <2>5, <2>6 DEF EditStep
<1> QED
  BY <1>1, <1>2 DEF LatestIsRun

\* A pod that is up with the latest copy was there before, or starts with it.
LEMMA LatestIsRunStep ==
  ASSUME BaseInv, SecretIsCopied, LatestIsRun, Next, ~ChangeSecret \/ pc = "idle"
  PROVE  LatestIsRun'
<1>1. /\ TypeOK /\ OnAPod /\ TemplateIsThere /\ MaxVersions \in Nat /\ Latest \in 0 .. MaxVersions
      /\ Latest' \in 0 .. MaxVersions /\ pod \in [Pods -> PodStates]
  <2>1. IsLatest(Latest)'
    BY LatestIsThere, PTL
  <2> QED
    BY <2>1, SecretsAssumption, LatestIsThere DEF BaseInv, IsLatest, TypeOK
<1>2. ASSUME NEW i \in Pods, pod'[i].up, pod'[i].mount = Latest'
      PROVE  pod'[i].run = copies'[Latest'] /\ pod'[i].disk = copies'[Latest']
  <2>1. CASE Starting
    <3>1. PICK j \in Pods : StartPod(j)
      BY <2>1 DEF Starting
    <3>2. copies' = copies /\ Latest' = Latest
      BY <3>1 DEF StartPod, config, Latest, Exists
    <3>3. CASE j = i
      <4>1. PICK data : /\ pod'[i] = [up |-> TRUE, mount |-> revision, disk |-> data, run |-> data]
                        /\ data = IF revision = Bare THEN NoData ELSE copies[revision]
        BY <1>1, <3>1, <3>3 DEF StartPod
      <4>2. revision = Latest /\ revision # Bare
        BY <1>1, <1>2, <3>2, <4>1 DEF Bare
      <4> QED
        BY <3>2, <4>1, <4>2
    <3>4. CASE j # i
      BY <1>1, <1>2, <3>1, <3>2, <3>4 DEF StartPod, LatestIsRun
    <3> QED
      BY <3>3, <3>4
  <2>2. CASE ~Starting
    <3>1. /\ pod[i].up /\ pod[i].mount = pod'[i].mount
          /\ pod[i].mount = Latest => pod'[i] = pod[i]
      <4>1. CASE EditStep
        BY <1>1, <1>2, <4>1, EditsKeepMounts, EditsAreElsewhere
      <4>2. CASE UpdatePods
        <5>1. pod' = pod \/ pod' = [pod EXCEPT ![Max(Outdated)] = Absent]
          BY <4>2 DEF UpdatePods
        <5> QED
          BY <1>1, <1>2, <5>1 DEF Absent
      <4>3. CASE pod' = pod
        BY <1>2, <4>3
      <4> QED
        BY <2>2, <4>1, <4>2, <4>3, OthersKeepPods
    <3>2. CASE Latest' = Latest /\ (Latest # 0 => copies'[Latest] = copies[Latest])
      <4>1. pod[i].mount = Latest /\ Latest # 0
        BY <1>2, <3>1, <3>2, MountsOfPods
      <4> QED
        BY <3>1, <3>2, <4>1 DEF LatestIsRun
    <3>3. CASE ApplyTemplate /\ Latest' = Latest + 1 /\ ~Exists(Latest + 1)
      BY <1>1, <1>2, <3>1, <3>3, MountsOfPods
    <3> QED
      BY <3>2, <3>3, LatestIsStableOrNew
  <2> QED
    BY <2>1, <2>2
<1>3. ASSUME pc' \in OnPod PROVE pod'[at'].up /\ pod'[at'].mount # Latest'
  <2>1. CASE pc \in OnPod
    <3>1. at' = at /\ at \in Pods /\ pod[at].up /\ pod[at].mount # Latest
      <4>1. at' = at
        BY <1>3, <2>1
           DEF Next, Reconcile, ApplySplunkConfig, ApplyTemplate, CheckSecretVersion, LookAtPod,
         EnableMaintenance, EditSecret, RestartAfterEdit, ChangePassword,
         RestartAfterPassword, NoteSecret, SyncMountedSecrets, UpdatePods, EndMaintenance,
         ResetStatus, CreateCopyFails, Crash, ChangeSecret, RestoreSecret, ObserveTemplate, StartPod, recon,
         Goto, Return, NextPod, CheckAdmin, OnPod
      <4> QED
        BY <1>1, <2>1, <4>1 DEF OnAPod, LatestIsRun
    <3>2. ~ApplyTemplate /\ ~UpdatePods
      BY <2>1 DEF ApplyTemplate, UpdatePods, OnPod
    <3>3. Latest' = Latest
      BY <3>2, LatestIsStableOrNew
    <3>4. pod'[at].up = pod[at].up /\ pod'[at].mount = pod[at].mount
      <4>1. CASE EditStep
        BY <1>1, <3>1, <4>1, EditsKeepMounts
      <4>2. CASE Starting
        BY <1>1, <3>1, <4>2 DEF Starting, StartPod
      <4> QED
        BY <3>2, <4>1, <4>2, OthersKeepPods
    <3> QED
      BY <3>1, <3>3, <3>4
  <2>2. CASE pc \notin OnPod
    <3>1. LookAtPod
      BY <1>3, <2>2
           DEF Next, Reconcile, ApplySplunkConfig, ApplyTemplate, CheckSecretVersion,
         EnableMaintenance, EditSecret, RestartAfterEdit, ChangePassword,
         RestartAfterPassword, NoteSecret, SyncMountedSecrets, UpdatePods, EndMaintenance,
         ResetStatus, CreateCopyFails, Crash, ChangeSecret, RestoreSecret, ObserveTemplate, StartPod, recon,
         Goto, Return, OnPod
    <3>2. pc = "loop" /\ at \in Pods /\ copies' = copies /\ pod' = pod
      BY <3>1 DEF LookAtPod, config, world
    <3>3. at' = at /\ Mounted(at) /\ MountedData(at) # target.data
      BY <1>3, <3>1 DEF LookAtPod, Goto, Return, NextPod, CheckAdmin, OnPod
    <3>4. target.data = ns.data /\ (template # Bare => copies[Latest] = ns.data)
          /\ (template = Bare => Latest = 0)
      BY <3>2 DEF SecretIsCopied, InLoop
    <3>5. pod[at].up /\ pod[at].mount # 0
      BY <3>2, <3>3, MountsOfPods DEF Mounted
    <3>6. pod[at].mount # Latest
      BY <3>3, <3>4, <3>5 DEF MountedData
    <3>7. Latest' = Latest
      BY <3>2 DEF Latest, Exists
    <3> QED
      BY <3>2, <3>3, <3>5, <3>6, <3>7
  <2> QED
    BY <2>1, <2>2
<1> QED
  BY <1>2, <1>3 DEF LatestIsRun

\* Once the latest copy holds the secret, only a new version of the secret can
\* change that.
LEMMA DoneStays ==
  ASSUME BaseInv, SecretIsCopied, LatestHolds(ns.data), Next, ns' = ns, ~ChangeSecret
  PROVE  LatestHolds(ns.data)'
<1>1. Latest # 0 /\ copies[Latest] = ns.data
  BY DEF LatestHolds
<1>2. Latest' = Latest /\ copies'[Latest] = copies[Latest]
  <2>1. CASE ApplyTemplate
    <3>1. LatestHolds(ns'.data)
      BY <1>1 DEF LatestHolds
    <3> QED
      BY <2>1, <3>1 DEF ApplyTemplate, Latest, Exists
  <2> QED
    BY <1>1, <2>1, LatestIsStableOrNew
<1> QED
  BY <1>1, <1>2 DEF LatestHolds

LEMMA ReadyIsDoneStep ==
  ASSUME BaseInv, VersionsArePast, SecretIsCopied, LatestIsRun, ReadyIsDone, Next,
         ~ChangeSecret \/ pc = "idle"
  PROVE  ReadyIsDone'
<1>1. /\ TypeOK /\ Counted /\ ns.rv \in Nat /\ saved.rv \in Nat /\ saved.rv <= ns.rv
  BY DEF BaseInv, TypeOK, Secret, Statuses, VersionsArePast
<1>2. CASE UpdatePods
  <2>1. CASE pc' = "finish"
    <3>1. /\ ns' = ns /\ template = Latest /\ Latest # 0 /\ Latest' = Latest
          /\ copies'[Latest] = copies[Latest] /\ pc = "pods"
      BY <1>2, <2>1, RemovalKeepsLatest DEF UpdatePods
    <3>2. template # Bare
      BY <3>1, LatestIsThere, SecretsAssumption DEF IsLatest, Bare
    <3>3. copies[Latest] = ns.data
      BY <3>1, <3>2 DEF SecretIsCopied
    <3>4. LatestHolds(ns.data)'
      BY <3>1, <3>3 DEF LatestHolds
    <3> QED
      BY <3>4 DEF ReadyIsDone
  <2>2. CASE pc' # "finish"
    BY <1>2, <2>2 DEF UpdatePods, Return, Goto, ReadyIsDone
  <2> QED
    BY <2>1, <2>2
<1>3. CASE ~UpdatePods /\ pc # "idle"
  <2>1. ns' = ns /\ ~ChangeSecret
    BY <1>3, SecretIsStable DEF SecretIsCopied
  <2>2. LatestHolds(ns.data) => LatestHolds(ns.data)'
    BY <1>3, <2>1, DoneStays
  <2>3. pc' \in {"finish", "reset"} => pc \in {"finish", "reset"}
    BY <1>3, <2>1
       DEF Next, Reconcile, ApplySplunkConfig, ApplyTemplate, CheckSecretVersion, LookAtPod,
           EnableMaintenance, EditSecret, RestartAfterEdit, ChangePassword,
           RestartAfterPassword, NoteSecret, SyncMountedSecrets, EndMaintenance,
           ResetStatus, CreateCopyFails, Crash, RestoreSecret, ObserveTemplate, StartPod, recon,
           Goto, Return, NextPod, CheckAdmin
  <2>4. CASE EndMaintenance \/ ResetStatus
    <3>1. pc \in {"finish", "reset"}
      BY <2>4 DEF EndMaintenance, ResetStatus
    <3> QED
      BY <2>2, <3>1 DEF ReadyIsDone
  <2>5. CASE ~EndMaintenance /\ ~ResetStatus
    <3>1. phase' = "Ready" => phase = "Ready" /\ saved' = saved
      BY <1>3, <2>1, <2>5
         DEF Next, Reconcile, ApplySplunkConfig, ApplyTemplate, CheckSecretVersion, LookAtPod,
             EnableMaintenance, EditSecret, RestartAfterEdit, ChangePassword,
             RestartAfterPassword, NoteSecret, SyncMountedSecrets, CreateCopyFails, Crash,
             RestoreSecret, ObserveTemplate, StartPod, Goto, Return, NextPod, CheckAdmin
    <3> QED
      BY <2>1, <2>2, <2>3, <3>1 DEF ReadyIsDone
  <2> QED
    BY <2>4, <2>5
<1>4. CASE pc = "idle"
  <2>1. pc' \notin {"finish", "reset"} /\ phase' = phase /\ saved' = saved
    BY <1>4
       DEF Next, Reconcile, ApplySplunkConfig, ApplyTemplate, CheckSecretVersion, LookAtPod,
           EnableMaintenance, EditSecret, RestartAfterEdit, ChangePassword,
           RestartAfterPassword, NoteSecret, SyncMountedSecrets, UpdatePods, EndMaintenance,
           ResetStatus, CreateCopyFails, Crash, ChangeSecret, RestoreSecret, ObserveTemplate, StartPod, recon,
           Goto
  <2>2. CASE ChangeSecret \/ RestoreSecret
    <3>1. ns'.rv = ns.rv + 1
      BY <2>2 DEF ChangeSecret, RestoreSecret
    <3> QED
      BY <1>1, <2>1, <3>1 DEF ReadyIsDone
  <2>3. CASE ~ChangeSecret /\ ~RestoreSecret
    <3>1. ns'.rv = ns.rv => ns' = ns
      <4>1. CASE ApplySplunkConfig
        <5>1. /\ ApplyNamespaceSecret \in Secret /\ ApplyNamespaceSecret.rv >= ns.rv
              /\ ApplyNamespaceSecret.rv = ns.rv => ApplyNamespaceSecret = ns
          BY <1>1, SecretIsFilled
        <5>2. \/ ns' = ApplyNamespaceSecret
              \/ ns'.rv = ApplyNamespaceSecret.rv + 1
          BY <4>1, <5>1 DEF ApplySplunkConfig, Secret
        <5>3. ApplyNamespaceSecret.rv \in Nat
          BY <5>1 DEF Secret
        <5> QED
          BY <1>1, <5>1, <5>2, <5>3
      <4>2. CASE ~ApplySplunkConfig
        BY <1>4, <2>3, <4>2
           DEF Next, Reconcile, ApplyTemplate, CheckSecretVersion, LookAtPod,
           EnableMaintenance, EditSecret, RestartAfterEdit, ChangePassword,
           RestartAfterPassword, NoteSecret, SyncMountedSecrets, UpdatePods, EndMaintenance,
           ResetStatus, CreateCopyFails, Crash, ObserveTemplate, StartPod, config
      <4> QED
        BY <4>1, <4>2
    <3>3. ns' = ns /\ LatestHolds(ns.data) => LatestHolds(ns.data)'
      BY <2>3, DoneStays
    <3>4. phase = "Ready" /\ saved.rv = ns'.rv => saved.rv = ns.rv /\ ns' = ns
      <4>1. ns'.rv >= ns.rv /\ ns'.rv \in Nat
        <5>1. TypeOK'
          BY SecretsTypeStep
        <5> QED
          BY <5>1, VersionsStep DEF TypeOK, Secret
      <4> QED
        BY <1>1, <3>1, <4>1
    <3> QED
      BY <2>1, <3>3, <3>4 DEF ReadyIsDone
  <2> QED
    BY <2>2, <2>3
<1> QED
  BY <1>2, <1>3, <1>4

LEMMA SecretsStep ==
  ASSUME SecretsInv, [Next]_vars
  PROVE  SecretsInv'
<1>1. BaseInv'
  BY BaseStep DEF SecretsInv
<1>2. CASE Next
  <2>1. VersionsArePast'
    BY <1>2, VersionsStep DEF SecretsInv
  <2>2. ASSUME ~Happened("race")' PROVE SyncInv'
    <3>1. ~Happened("race") /\ (~ChangeSecret \/ pc = "idle")
      BY <1>2, <2>2, HistoryGrows DEF SecretsInv, BaseInv
    <3> QED
      BY <1>2, <3>1, SecretIsCopiedStep, LatestIsRunStep, ReadyIsDoneStep
         DEF SecretsInv, SyncInv
  <2> QED
    BY <1>1, <2>1, <2>2 DEF SecretsInv
<1>3. CASE UNCHANGED vars
  BY <1>1, <1>3 DEF vars, config, world, recon, SecretsInv, VersionsArePast, Happened, SyncInv,
              SecretIsCopied, LatestIsRun, ReadyIsDone, LatestHolds, Latest,
              Exists, Full
<1> QED
  BY <1>2, <1>3

LEMMA SecretsInit == Init => SecretsInv
<1> SUFFICES ASSUME Init PROVE SecretsInv
  OBVIOUS
<1>1. VersionsArePast
  BY DEF Init, VersionsArePast, NoStatus
<1>2. SyncInv
  BY DEF Init, SyncInv, SecretIsCopied, LatestIsRun, ReadyIsDone, InLoop, OnPod, Absent
<1> QED
  BY <1>1, <1>2, BaseInit DEF SecretsInv

\* A status that says Ready for the current version of the namespace secret is
\* true: whatever has failed, whenever the operator has restarted, and also when
\* the user has written the secret before the last change had settled, or has
\* put an old secret back, every instance runs with the tokens of that secret,
\* as soon as none is left that a lagging status of the StatefulSet has hidden
\* from UpdateStatefulSetPods. A write in the middle of a reconcile is excepted.
THEOREM ReadyMeansInSync == Spec => []ReadyIsInSync
<1>1. SecretsInv => ReadyIsInSync
  <2> SUFFICES ASSUME SecretsInv, ~Happened("race"), pc = "idle", phase = "Ready",
                      st.rv = ns.rv, NoneOutdated, NEW i \in Pods, pod[i].up
               PROVE  pod[i].run = ns.data
    BY DEF ReadyIsInSync, InSync
  <2>1. LatestHolds(ns.data) /\ LatestIsRun
    BY DEF SecretsInv, SyncInv, ReadyIsDone, VersionsArePast
  <2>2. pod[i].mount = Latest
    BY <2>1 DEF NoneOutdated, LatestHolds, SecretsInv, BaseInv, RevisionIsNear
  <2> QED
    BY <2>1, <2>2 DEF LatestIsRun, LatestHolds
<1> QED
  BY <1>1, SecretsInit, SecretsStep, PTL DEF Spec

-----------------------------------------------------------------------------
(* The operator's access to the search heads.                               *)

\* A pod mounts a copy, and one that is down mounts nothing.
MountsACopy ==
  /\ \A i \in Pods : pod[i].mount # Bare /\ (~pod[i].up => pod[i].mount = 0)
  /\ revision # Bare /\ (template = 0 => revision = 0)

\* A status that says Ready names a version of the secret.
Numbered == /\ ns.rv # 0 /\ (pc # "idle" => seen # 0)
            /\ phase = "Ready" => saved.rv # 0

\* A secret is noted for synchronisation after a password was changed.
NotedIsChanged == st.toSync # {} \/ pc = "note" => st.adminChanged # <<>>

\* Before the first StatefulSet there are no pods.
NotYet == /\ pc \in {"idle", "template"} /\ \A i \in Pods : ~pod[i].up

\* All pods run with the current password, and mount it, as new ones will.
AdminDone ==
  /\ LatestHolds(ns.data)
  /\ \A i \in Pods : pod[i].up =>
       /\ copies[pod[i].mount].admin = ns.data.admin
       /\ pod[i].run.admin = ns.data.admin /\ pod[i].disk.admin = ns.data.admin
  /\ revision # 0 => copies[revision].admin = ns.data.admin
  /\ pc \notin {"passwd", "restartAdmin", "note"}

\* The user has changed one token, and the operator has done nothing about it.
JustChanged ==
  /\ pc \in {"idle", "template"} /\ Latest # 0
  /\ revision = Latest /\ \A i \in Pods : pod[i].up /\ pod[i].mount = Latest
  /\ st.rv # 0 /\ st.rv < ns.rv
  /\ st.adminChanged = <<>> /\ st.toSync = {}
  /\ ns.data.cluster = copies[Latest].cluster \/ ns.data.admin = copies[Latest].admin

\* The password is being changed, pod by pod. All of them mount the copy v, which
\* is noted from the first change on; the pods that are flagged run with the new
\* password, the others with the one in the copy.
Changing(v) ==
  /\ LatestHolds(ns.data) /\ v # Latest /\ Exists(v) /\ revision \in {v, Latest}
  /\ copies[v].cluster = ns.data.cluster /\ copies[v].admin # ns.data.admin
  /\ st.rv # 0 /\ st.rv < ns.rv
  /\ pc \in {"idle", "template", "secret", "loop", "passwd", "restartAdmin", "note"}
  /\ \A i \in Pods : /\ pod[i].up /\ pod[i].mount = v
                     /\ pod[i].run.admin = IF Flagged(st.adminChanged, i) THEN ns.data.admin
                                           ELSE copies[v].admin
                     /\ Flagged(st.adminChanged, i) => pod[i].disk.admin = ns.data.admin
  /\ st.toSync \subseteq {v}
  /\ st.adminChanged # <<>> /\ pc # "note" => st.toSync = {v}
  /\ pc = "loop" => at <= Len(st.adminChanged) + 1
  /\ pc \in {"passwd", "restartAdmin"} => at = Len(st.adminChanged) + 1
  /\ pc = "restartAdmin" => pod[at].disk.admin = ns.data.admin
  /\ pc = "note" => at = Len(st.adminChanged)

Stage == IF template = 0 THEN NotYet
         ELSE AdminDone \/ JustChanged \/ \E v \in Versions : Changing(v)

Bookkeeping == MountsACopy /\ Numbered /\ NotedIsChanged /\ template = Latest

AccessInv == SearchHead /\ Retried => Bookkeeping /\ Stage

\* A step after which only calls to the pods have failed.
CalmStep ==
  /\ Next /\ SearchHead
  /\ ~Crash /\ ~CreateCopyFails /\ ~RestoreSecret /\ ~Hit("api") /\ ~Hit("lost")
  /\ ChangeSecret => pc = "idle" /\ Settled

LEMMA RetriedIsCalm ==
  ASSUME TypeOK, Next, SearchHead, Retried'
  PROVE  Retried /\ SearchHead' /\ CalmStep
<1>1. SearchHead'
  BY ClusterIsFixed DEF SearchHead
<1>2. \A k : Happened(k)' => k \in {"exec", "rest"}
  BY <1>1 DEF Retried, Happened
<1>3. \A k : Hit(k) => k \in {"exec", "rest"}
  BY <1>2, HazardIsCounted
<1>4. \A k : Happened(k) => k \in {"exec", "rest"}
  BY <1>2, HistoryGrows
<1>5. Retried
  BY <1>4 DEF Retried, Happened
<1>6. ~Crash /\ ~CreateCopyFails /\ ~RestoreSecret
  BY <1>3 DEF Crash, CreateCopyFails, RestoreSecret
<1>7. ChangeSecret => pc = "idle" /\ Settled
  BY <1>3 DEF ChangeSecret
<1> QED
  BY <1>1, <1>3, <1>5, <1>6, <1>7 DEF CalmStep

\* Only the StatefulSet controller writes the status of the StatefulSet.
LEMMA RevisionIsKept ==
  ASSUME Next, ~ObserveTemplate
  PROVE  revision' = revision
BY DEF Next, Reconcile, ApplySplunkConfig, ApplyTemplate, CheckSecretVersion, LookAtPod,
       EnableMaintenance, EditSecret, RestartAfterEdit, ChangePassword,
       RestartAfterPassword, NoteSecret, SyncMountedSecrets, UpdatePods, EndMaintenance,
       ResetStatus, CreateCopyFails, Crash, ChangeSecret, RestoreSecret, StartPod, config

LEMMA MountsACopyStep ==
  ASSUME BaseInv, template = Latest, MountsACopy, CalmStep
  PROVE  MountsACopy'
<1>1. /\ TypeOK /\ OnAPod /\ Next /\ pod \in [Pods -> PodStates]
      /\ Bare # 0 /\ template # Bare
  BY SecretsAssumption, LatestIsThere DEF BaseInv, CalmStep, TypeOK, Bare, IsLatest
<1>2. ASSUME NEW i \in Pods
      PROVE  pod'[i].mount # Bare /\ (~pod'[i].up => pod'[i].mount = 0)
  <2>1. CASE EditStep
    BY <1>1, <2>1, EditsKeepMounts DEF MountsACopy
  <2>2. CASE UpdatePods
    <3>1. pod'[i] = pod[i] \/ pod'[i] = Absent
      BY <1>1, <2>2 DEF UpdatePods
    <3> QED
      BY <1>1, <3>1 DEF MountsACopy, Absent
  <2>3. CASE Starting
    BY <1>1, <2>3 DEF MountsACopy, Starting, StartPod
  <2>4. CASE ~EditStep /\ ~UpdatePods /\ ~Starting
    BY <1>1, <2>4, OthersKeepPods DEF MountsACopy
  <2> QED
    BY <2>1, <2>2, <2>3, <2>4
<1>3. revision' # Bare /\ (template' = 0 => revision' = 0)
  <2>1. CASE ObserveTemplate
    BY <1>1, <2>1 DEF ObserveTemplate
  <2>2. CASE ~ObserveTemplate
    <3>1. revision' = revision
      BY <1>1, <2>2, RevisionIsKept
    <3>2. template' = 0 => template = 0
      <4>1. CASE ApplyTemplate
        BY <4>1, TemplateIsLatest
      <4>2. CASE ~ApplyTemplate
        BY <4>2 DEF CalmStep, Next, Reconcile, ApplySplunkConfig, CheckSecretVersion, LookAtPod,
         EnableMaintenance, EditSecret, RestartAfterEdit, ChangePassword,
         RestartAfterPassword, NoteSecret, SyncMountedSecrets, UpdatePods, EndMaintenance,
         ResetStatus, ChangeSecret, ObserveTemplate, StartPod, config
      <4> QED
        BY <4>1, <4>2
    <3> QED
      BY <3>1, <3>2 DEF MountsACopy
  <2> QED
    BY <2>1, <2>2
<1>4. \A i \in Pods : pod'[i].mount # Bare /\ (~pod'[i].up => pod'[i].mount = 0)
  BY <1>2
<1> QED
  BY <1>3, <1>4 DEF MountsACopy, Bare, Pods

LEMMA TemplateIsNewestStep ==
  ASSUME BaseInv, template = Latest, CalmStep
  PROVE  template' = Latest'
<1>1. CASE ApplyTemplate
  BY <1>1, TemplateIsLatest
<1>2. CASE SyncMountedSecrets
  BY <1>2, SyncKeepsCopies DEF SyncMountedSecrets
<1>3. CASE UpdatePods
  BY <1>3, RemovalKeepsLatest
<1>4. CASE OtherStep
  <2>1. template' = template
    BY <1>4 DEF CalmStep, OtherStep, Next, Reconcile, ApplySplunkConfig, CheckSecretVersion, LookAtPod,
         EnableMaintenance, EditSecret, RestartAfterEdit, ChangePassword,
         RestartAfterPassword, NoteSecret, EndMaintenance, ResetStatus,
         ChangeSecret, ObserveTemplate, StartPod, config
  <2> QED
    BY <1>4, <2>1, OthersKeepCopies
<1> QED
  BY <1>1, <1>2, <1>3, <1>4 DEF CalmStep, OtherStep

LEMMA NumberedStep ==
  ASSUME BaseInv, VersionsArePast, Numbered, CalmStep
  PROVE  Numbered'
<1>1. ns.rv \in Nat /\ ns'.rv >= ns.rv /\ TypeOK /\ Counted /\ seen \in Nat /\ ApplyNamespaceSecret.rv \in Nat
      /\ ApplyNamespaceSecret.rv >= ns.rv /\ ns' \in Secret
  BY VersionsStep, SecretIsFilled, BaseStep DEF CalmStep, BaseInv, TypeOK, Secret
<1>2. ns'.rv # 0
  BY <1>1 DEF Numbered, Secret
<1>3. pc' # "idle" => seen' # 0
  <2>1. CASE ApplySplunkConfig
    BY <1>1, <2>1 DEF ApplySplunkConfig, Numbered
  <2>2. CASE ~ApplySplunkConfig
    BY <2>2 DEF CalmStep, Next, Reconcile, ApplyTemplate, CheckSecretVersion, LookAtPod,
         EnableMaintenance, EditSecret, RestartAfterEdit, ChangePassword, CheckAdmin, NextPod,
         RestartAfterPassword, NoteSecret, SyncMountedSecrets, UpdatePods, EndMaintenance,
         ResetStatus, ChangeSecret, ObserveTemplate, StartPod, recon, Numbered, Return
  <2> QED
    BY <2>1, <2>2
<1>4. phase' = "Ready" => saved'.rv # 0
  <2>1. CASE ResetStatus
    BY <1>1, <2>1 DEF ResetStatus, Return, Numbered, NoStatus
  <2>2. CASE saved' = saved /\ phase' = phase
    BY <2>2 DEF Numbered
  <2>3. CASE \E r, s : Return(r, s) /\ r # "Ready"
    BY <2>3 DEF Return
  <2>4. CASE ApplySplunkConfig \/ ApplyTemplate \/ CheckSecretVersion \/ LookAtPod \/ EnableMaintenance
    BY <2>2, <2>3, <2>4 DEF ApplySplunkConfig, ApplyTemplate, CheckSecretVersion, LookAtPod, EnableMaintenance, Goto,
        NextPod, CheckAdmin
  <2>5. CASE EditSecret \/ RestartAfterEdit \/ ChangePassword \/ RestartAfterPassword \/ NoteSecret
    BY <2>2, <2>3, <2>5 DEF EditSecret, RestartAfterEdit, ChangePassword, RestartAfterPassword, NoteSecret, Goto,
        NextPod, CheckAdmin
  <2>6. CASE SyncMountedSecrets \/ UpdatePods \/ EndMaintenance
    BY <2>2, <2>3, <2>6 DEF SyncMountedSecrets, UpdatePods, EndMaintenance, Goto, CalmStep
  <2>7. CASE ChangeSecret \/ ObserveTemplate \/ \E i \in Pods : StartPod(i)
    BY <2>2, <2>7 DEF ChangeSecret, ObserveTemplate, StartPod
  <2> QED
    BY <2>1, <2>4, <2>5, <2>6, <2>7 DEF CalmStep, Next, Reconcile
<1> QED
  BY <1>2, <1>3, <1>4 DEF Numbered

\* A flag is set.
LEMMA FlagIsSet ==
  ASSUME NEW flags \in Seq({TRUE}), NEW i \in Nat \ {0}
  PROVE  Flag(flags, i) # <<>>
<1>1. ASSUME NEW S, NEW s \in Seq(S), NEW e \in S
      PROVE  Append(s, e) # <<>> /\ (i <= Len(s) => s # <<>>)
  OBVIOUS
<1>2. TRUE \in {TRUE}
  OBVIOUS
<1>3. Append(flags, TRUE) # <<>> /\ (i <= Len(flags) => flags # <<>>)
  BY <1>1, <1>2, Zenon
<1> QED
  BY <1>3, Zenon DEF Flag

LEMMA NotedIsChangedStep ==
  ASSUME BaseInv, NotedIsChanged, CalmStep
  PROVE  NotedIsChanged'
<1>1. TypeOK /\ st \in Statuses /\ SearchHead /\ OnAPod
  BY DEF BaseInv, TypeOK, CalmStep
<1>2. CASE pc' # "note" /\ st'.toSync = st.toSync /\ st'.adminChanged = st.adminChanged
  BY <1>2 DEF NotedIsChanged
<1>3. CASE pc' # "note" /\ st' = st
  BY <1>3 DEF NotedIsChanged
<1>4. CASE \E r, s : Return(r, s) /\ (s = st \/ s = WithMaintenance)
  BY <1>1, <1>2, <1>4 DEF Return, WithMaintenance, Statuses
<1>5. CASE ApplySplunkConfig \/ ApplyTemplate \/ LookAtPod
  BY <1>3, <1>4, <1>5 DEF ApplySplunkConfig, ApplyTemplate, LookAtPod, Goto, NextPod, CheckAdmin
<1>6. CASE CheckSecretVersion \/ EnableMaintenance \/ EditSecret \/ ChangePassword
  BY <1>1, <1>2, <1>3, <1>4, <1>6 DEF CheckSecretVersion, EnableMaintenance, EditSecret, ChangePassword, Goto, Statuses
<1>7. CASE RestartAfterEdit
  <2>1. CASE \E r : Return(r, st)
    BY <1>4, <2>1
  <2>2. CASE /\ st' = [st EXCEPT !.changed = Flag(@, at),
                            !.toSync = IF SearchHead THEN @ ELSE @ \cup {pod[at].mount}]
             /\ CheckAdmin
    BY <1>1, <1>2, <2>2 DEF CheckAdmin, NextPod, Goto, Statuses
  <2> QED
    BY <1>7, <2>1, <2>2 DEF RestartAfterEdit
<1>8. CASE RestartAfterPassword
  <2>1. CASE \E r : Return(r, st)
    BY <1>4, <2>1
  <2>2. CASE st' = [st EXCEPT !.adminChanged = Flag(@, at)]
    <3>1. at \in Nat \ {0} /\ st.adminChanged \in Seq({TRUE})
      BY <1>1, <1>8, StatusFields DEF RestartAfterPassword, OnAPod, OnPod, Pods
    <3>2. st'.adminChanged = Flag(st.adminChanged, at)
      BY <1>1, <2>2 DEF Statuses
    <3> QED
      BY <3>1, <3>2, FlagIsSet DEF NotedIsChanged
  <2> QED
    BY <1>8, <2>1, <2>2 DEF RestartAfterPassword
<1>9. CASE NoteSecret
  <2>1. CASE \E r : Return(r, st)
    BY <1>4, <2>1
  <2>2. CASE st' = [st EXCEPT !.toSync = @ \cup {pod[at].mount}]
    <3>1. st'.adminChanged = st.adminChanged /\ pc = "note"
      BY <1>1, <1>9, <2>2 DEF Statuses, NoteSecret
    <3> QED
      BY <3>1 DEF NotedIsChanged
  <2> QED
    BY <1>9, <2>1, <2>2 DEF NoteSecret
<1>10. CASE SyncMountedSecrets
  BY <1>1, <1>3, <1>4, <1>10 DEF SyncMountedSecrets, Goto
<1>11. CASE UpdatePods
  BY <1>1, <1>2, <1>4, <1>11 DEF UpdatePods, Goto, WithMaintenance, Statuses
<1>12. CASE EndMaintenance
  BY <1>1, <1>2, <1>4, <1>12 DEF EndMaintenance, Goto, Statuses
<1>13. CASE ResetStatus
  <2>1. st'.toSync = {} /\ pc' = "idle"
    BY <1>13 DEF ResetStatus, Return, NoStatus
  <2> QED
    BY <2>1 DEF NotedIsChanged
<1>14. CASE ChangeSecret \/ ObserveTemplate \/ \E i \in Pods : StartPod(i)
  BY <1>14 DEF ChangeSecret, ObserveTemplate, StartPod, recon, NotedIsChanged
<1> QED
  BY <1>5, <1>6, <1>7, <1>8, <1>9, <1>10, <1>11, <1>12, <1>13, <1>14 DEF CalmStep, Next, Reconcile

Context == BaseInv /\ VersionsArePast /\ SyncInv /\ Bookkeeping

LEMMA NotYetStep ==
  ASSUME Context, CalmStep, ~ObserveTemplate, template = 0, NotYet
  PROVE  Stage'
<1>1. /\ TypeOK /\ Latest = 0 /\ pc \in {"idle", "template"} /\ 0 \notin Versions /\ Bare # 0
      /\ revision = 0 /\ revision' = 0
      /\ \A i \in Pods : ~pod[i].up
  BY SecretsAssumption, RevisionIsKept
     DEF Context, Bookkeeping, MountsACopy, CalmStep, NotYet, Versions, Bare, BaseInv
<1>2. CASE ApplySplunkConfig
  BY <1>1, <1>2 DEF ApplySplunkConfig, Goto, Stage, NotYet, world
<1>3. CASE ApplyTemplate
  <2>1. /\ template' = Latest' /\ Latest' # 0 /\ ns'.data = copies'[Latest'] /\ pc' = "secret" /\ pod' = pod
    BY <1>3, TemplateIsLatest DEF Context, ApplyTemplate, Goto, world
  <2> QED
    BY <1>1, <2>1 DEF Stage, AdminDone, LatestHolds
<1>4. CASE ChangeSecret
  BY <1>1, <1>4 DEF ChangeSecret, Stage, NotYet, world, recon
<1>5. ~ \E i \in Pods : StartPod(i)
  BY <1>1 DEF StartPod, Exists
<1>6. Stage' \/ ApplySplunkConfig \/ ApplyTemplate \/ ChangeSecret
  BY <1>1, <1>5 DEF CalmStep, Next, Reconcile, CheckSecretVersion, LookAtPod,
         EnableMaintenance, EditSecret, RestartAfterEdit, ChangePassword,
         RestartAfterPassword, NoteSecret, SyncMountedSecrets, UpdatePods, EndMaintenance, ResetStatus
<1> QED
  BY <1>2, <1>3, <1>4, <1>6

\* The user changes one token of a secret that has settled.
LEMMA OneTokenChanges ==
  ASSUME TypeOK, ChangeSecret, ~Together
  PROVE  ns'.data.cluster = ns.data.cluster \/ ns'.data.admin = ns.data.admin
<1>1. PICK tokens \in SUBSET {"cluster", "admin"}, missing \in BOOLEAN :
        /\ Cardinality(tokens) = 1
        /\ ns' = [data |-> [t \in {"cluster", "admin"} |->
                             IF t \notin tokens THEN ns.data[t]
                             ELSE IF missing THEN 0 ELSE changes + 1],
                 rv |-> ns.rv + 1]
  BY DEF ChangeSecret
<1>2. tokens # {"cluster", "admin"}
  <2>1. Cardinality({"admin"}) = 1 /\ IsFiniteSet({"admin"})
    BY FS_Singleton
  <2>2. Cardinality({"admin"} \cup {"cluster"}) = 2
    BY <2>1, FS_AddElement
  <2>3. {"admin"} \cup {"cluster"} = {"cluster", "admin"}
    OBVIOUS
  <2> QED
    BY <1>1, <2>2, <2>3
<1>3. "cluster" \notin tokens \/ "admin" \notin tokens
  BY <1>2
<1>4. ns'.data["cluster"] = ns.data["cluster"] \/ ns'.data["admin"] = ns.data["admin"]
  BY <1>1, <1>3
<1> QED
  BY <1>4

LEMMA SettledChange ==
  ASSUME Context, CalmStep, ChangeSecret, ~Together, template # 0
  PROVE  JustChanged'
<1>1. /\ TypeOK /\ pc = "idle" /\ Settled /\ st = saved /\ st \in Statuses /\ ns.rv \in Nat /\ st.rv \in Nat
      /\ template = Latest /\ MountsACopy /\ Numbered /\ NotedIsChanged /\ st.rv <= ns.rv
  BY DEF Context, Bookkeeping, BaseInv, CalmStep, VersionsArePast, TypeOK, Secret, Statuses
<1>2. /\ phase = "Ready" /\ NoneOutdated /\ LatestHolds(ns.data) /\ st.adminChanged = <<>>
  BY <1>1 DEF Settled
<1>3. /\ UNCHANGED <<copies, revision, pod, st, pc>> /\ ns'.rv = ns.rv + 1 /\ Latest' = Latest
  BY DEF ChangeSecret, world, recon, Latest, Exists
<1>4. revision = Latest /\ \A i \in Pods : pod[i].up /\ pod[i].mount = Latest
  BY <1>1, <1>2 DEF NoneOutdated, MountsACopy
<1>5. ns'.data.cluster = copies[Latest].cluster \/ ns'.data.admin = copies[Latest].admin
  BY <1>1, <1>2, OneTokenChanges DEF LatestHolds
<1>6. st.rv # 0 /\ st.toSync = {}
  BY <1>1, <1>2 DEF Numbered, NotedIsChanged
<1> QED
  BY <1>1, <1>2, <1>3, <1>4, <1>5, <1>6 DEF JustChanged

LEMMA JustChangedStep ==
  ASSUME Context, CalmStep, ~ObserveTemplate, ~Together, template # 0, JustChanged
  PROVE  Stage'
<1>1. /\ TypeOK /\ Counted /\ template = Latest /\ Latest # 0 /\ Latest \in Versions /\ Exists(Latest)
      /\ pc \in {"idle", "template"} /\ ns.rv \in Nat /\ st.rv \in Nat /\ ns.data \in Data
      /\ Full(copies[Latest]) /\ LatestIsRun /\ revision = Latest /\ revision' = revision
      /\ \A i \in Pods : pod[i].up /\ pod[i].mount = Latest
  <2>1. Latest \in Versions /\ Exists(Latest)
    BY LatestIsThere, SecretsAssumption DEF JustChanged, IsLatest, Versions
  <2> QED
    BY <2>1, RevisionIsKept
       DEF Context, Bookkeeping, BaseInv, CalmStep, JustChanged, TypeOK, Secret, Statuses, SyncInv,
           NothingIsMissing, Exists
<1>2. CASE ApplySplunkConfig
  <2>1. /\ UNCHANGED <<copies, pod, st, template>> /\ Latest' = Latest /\ pc' = "template"
        /\ ns'.rv >= ns.rv /\ ns'.rv \in Nat
        /\ ns'.data = ApplyNamespaceSecret.data
    BY <1>1, <1>2, SecretIsFilled DEF ApplySplunkConfig, Goto, world, Latest, Exists, Secret
  <2>2. ns'.data.cluster = copies[Latest].cluster \/ ns'.data.admin = copies[Latest].admin
    <3>1. ApplyNamespaceSecret.data \in {ns.data, Filled(ns.data)}
      BY DEF ApplyNamespaceSecret
    <3>2. (ns.data.cluster # 0 => Filled(ns.data).cluster = ns.data.cluster)
          /\ (ns.data.admin # 0 => Filled(ns.data).admin = ns.data.admin)
      BY <1>1 DEF Filled, Data
    <3> QED
      BY <1>1, <2>1, <3>1, <3>2 DEF JustChanged, Full
  <2> QED
    BY <1>1, <2>1, <2>2 DEF JustChanged, Stage
<1>3. CASE ApplyTemplate
  <2>1. /\ template' = Latest' /\ Latest' # 0 /\ ns'.data = copies'[Latest'] /\ pc' = "secret" /\ pod' = pod
        /\ st' = st /\ copies'[Latest] = copies[Latest] /\ Exists(Latest)'
        /\ ns' = ns /\ Full(ns.data)
    <3>1. Full(ns.data) /\ ApplyNamespaceSecret = ns
      BY <1>1, <1>3, SecretIsFilled DEF Context, SyncInv, SecretIsCopied, ApplyTemplate
    <3> QED
      BY <1>1, <1>3, <3>1, TemplateIsLatest DEF Context, ApplyTemplate, Goto, world
  <2>2. \A i \in Pods : pod[i].run.admin = copies[Latest].admin /\ pod[i].disk.admin = copies[Latest].admin
    BY <1>1 DEF LatestIsRun
  <2>3. CASE ns.data.admin = copies[Latest].admin
    BY <1>1, <2>1, <2>2, <2>3 DEF AdminDone, Stage, LatestHolds
  <2>4. CASE ns.data.admin # copies[Latest].admin
    <3>1. copies[Latest].cluster = ns.data.cluster /\ Latest' # Latest
      BY <2>1, <2>4 DEF JustChanged
    <3>2. ASSUME NEW v \in Versions, v = Latest PROVE Changing(v)'
      <4>1. /\ st.adminChanged = <<>> /\ st.toSync = {} /\ st.rv # 0 /\ st.rv < ns.rv
        BY DEF JustChanged
      <4>2. \A i \in Pods : ~Flagged(st'.adminChanged, i)
        BY <2>1, <4>1 DEF Flagged, Pods
      <4>3. LatestHolds(ns.data)' /\ Exists(v)'
        BY <1>1, <2>1, <3>2 DEF LatestHolds, Exists
      <4> QED
        BY <1>1, <2>1, <2>2, <2>4, <3>1, <3>2, <4>1, <4>2, <4>3 DEF Changing
    <3>3. \E v \in Versions : Changing(v)'
      BY <1>1, <3>2
    <3> QED
      BY <1>1, <2>1, <3>3 DEF Stage
  <2> QED
    BY <2>3, <2>4
<1>4. CASE ChangeSecret
  <2>1. template' = template
    BY <1>4 DEF ChangeSecret
  <2> QED
    BY <1>4, <2>1, SettledChange DEF Stage
<1>5. ~ \E i \in Pods : StartPod(i)
  BY <1>1 DEF StartPod
<1>6. ApplySplunkConfig \/ ApplyTemplate \/ ChangeSecret
  BY <1>1, <1>5 DEF CalmStep, Next, Reconcile, CheckSecretVersion, LookAtPod,
         EnableMaintenance, EditSecret, RestartAfterEdit, ChangePassword,
         RestartAfterPassword, NoteSecret, SyncMountedSecrets, UpdatePods, EndMaintenance, ResetStatus
<1> QED
  BY <1>2, <1>3, <1>4, <1>6

\* What the calls to a pod do to the passwords it has.
LEMMA EditsOfPasswords ==
  ASSUME TypeOK, OnAPod
  PROVE  /\ EditSecret => \A i \in Pods : /\ pod'[i].run.admin = pod[i].run.admin
                                          /\ pod'[i].disk.admin = pod[i].disk.admin
         /\ pod' = Restarted /\ at \in Pods =>
              /\ \A i \in Pods : pod'[i].disk = pod[i].disk /\ (i # at => pod'[i] = pod[i])
              /\ pod'[at].run = pod[at].disk
         /\ pod' = [pod EXCEPT ![at].disk.admin = target.data.admin] /\ at \in Pods =>
              /\ \A i \in Pods : pod'[i].run = pod[i].run /\ (i # at => pod'[i] = pod[i])
              /\ pod'[at].disk.admin = target.data.admin
<1>1. pod \in [Pods -> PodStates] /\ \A i \in Pods : pod[i] \in PodStates /\ pod[i].disk \in Data
  BY DEF TypeOK, PodStates
<1>2. ASSUME pod' = [pod EXCEPT ![at].disk.cluster = target.data.cluster], at \in Pods
      PROVE  \A i \in Pods : /\ pod'[i].run.admin = pod[i].run.admin
                             /\ pod'[i].disk.admin = pod[i].disk.admin
  <2>1. PICK d : d = [pod[at].disk EXCEPT !.cluster = target.data.cluster]
    OBVIOUS
  <2>2. d.admin = pod[at].disk.admin
    BY <1>1, <1>2, <2>1 DEF Data
  <2>3. PICK p : p = [pod[at] EXCEPT !.disk = d]
    OBVIOUS
  <2>4. p.run = pod[at].run /\ p.disk = d
    BY <1>1, <1>2, <2>3 DEF PodStates
  <2>5. pod' = [pod EXCEPT ![at] = p]
    BY <1>2, <2>1, <2>3, Zenon
  <2> QED
    BY <1>1, <1>2, <2>2, <2>4, <2>5
<1>3. ASSUME pod' = Restarted, at \in Pods
      PROVE  /\ \A i \in Pods : pod'[i].disk = pod[i].disk /\ (i # at => pod'[i] = pod[i])
             /\ pod'[at].run = pod[at].disk
  <2>1. PICK p : p = [pod[at] EXCEPT !.run = pod[at].disk]
    OBVIOUS
  <2>2. p.run = pod[at].disk /\ p.disk = pod[at].disk
    BY <1>1, <1>3, <2>1 DEF PodStates
  <2>3. pod' = [pod EXCEPT ![at] = p]
    BY <1>3, <2>1, Zenon DEF Restarted
  <2> QED
    BY <1>1, <1>3, <2>2, <2>3
<1>4. ASSUME pod' = [pod EXCEPT ![at].disk.admin = target.data.admin], at \in Pods
      PROVE  /\ \A i \in Pods : pod'[i].run = pod[i].run /\ (i # at => pod'[i] = pod[i])
             /\ pod'[at].disk.admin = target.data.admin
  <2>1. PICK d : d = [pod[at].disk EXCEPT !.admin = target.data.admin]
    OBVIOUS
  <2>2. d.admin = target.data.admin
    BY <1>1, <1>4, <2>1 DEF Data
  <2>3. PICK p : p = [pod[at] EXCEPT !.disk = d]
    OBVIOUS
  <2>4. p.run = pod[at].run /\ p.disk = d
    BY <1>1, <1>4, <2>3 DEF PodStates
  <2>5. pod' = [pod EXCEPT ![at] = p]
    BY <1>4, <2>1, <2>3, Zenon
  <2> QED
    BY <1>1, <1>4, <2>2, <2>4, <2>5
<1>5. EditSecret => at \in Pods
  BY DEF EditSecret, OnAPod, OnPod
<1>6. EditSecret => pod' = pod \/ pod' = [pod EXCEPT ![at].disk.cluster = target.data.cluster]
  BY DEF EditSecret
<1> QED
  BY <1>2, <1>3, <1>4, <1>5, <1>6

\* When all pods have the password, none is changed.
LEMMA AdminDoneStays ==
  ASSUME Context, CalmStep, ~ObserveTemplate, template # 0, AdminDone, ~ChangeSecret,
         ~ApplyTemplate, ~SyncMountedSecrets, ~UpdatePods
  PROVE  AdminDone' /\ template' = template
<1>1. /\ TypeOK /\ OnAPod /\ Counted /\ template = Latest /\ LatestHolds(ns.data) /\ SearchHead
      /\ Full(ns.data) /\ Latest \in Versions
      /\ \A i \in Pods : pod[i].up =>
           /\ copies[pod[i].mount].admin = ns.data.admin
           /\ pod[i].run.admin = ns.data.admin /\ pod[i].disk.admin = ns.data.admin
      /\ revision' = revision /\ revision # Bare
      /\ (revision # 0 => copies[revision].admin = ns.data.admin)
  <2>1. Latest \in Versions /\ Exists(Latest)
    BY LatestIsThere, SecretsAssumption DEF AdminDone, LatestHolds, IsLatest, Versions
  <2> QED
    BY <2>1, RevisionIsKept
       DEF Context, Bookkeeping, BaseInv, MountsACopy, AdminDone, LatestHolds, NothingIsMissing,
           Exists, CalmStep
<1>2. ApplyNamespaceSecret = ns
  BY <1>1, SecretIsFilled
<1>3. copies' = copies /\ Latest' = Latest /\ template' = template /\ OtherStep
  <2>1. OtherStep
    BY DEF OtherStep, CalmStep
  <2> QED
    BY <1>1, <2>1, OthersKeepCopies, TemplateIsNewestStep DEF Context, Bookkeeping
<1>4. ns'.data = ns.data
  <2>1. [ns EXCEPT !.rv = @ + 1].data = ns.data
    BY <1>1 DEF TypeOK, Secret
  <2>2. CASE ApplySplunkConfig
    BY <1>2, <2>1, <2>2, Zenon DEF ApplySplunkConfig
  <2>3. CASE ~ApplySplunkConfig
    BY <1>2, <2>3 DEF CalmStep, Next, Reconcile, CheckSecretVersion, LookAtPod,
         EnableMaintenance, EditSecret, RestartAfterEdit, ChangePassword,
         RestartAfterPassword, NoteSecret, EndMaintenance, ResetStatus, StartPod, config
  <2> QED
    BY <2>2, <2>3
<1>5. LatestHolds(ns.data)'
  BY <1>1, <1>3, <1>4 DEF LatestHolds
<1>6. pc \in InLoop => target.data = ns.data
  BY DEF Context, SyncInv, SecretIsCopied
<1>7. pc \notin {"passwd", "restartAdmin", "note"}
  BY DEF AdminDone
<1>8. pc' \notin {"passwd", "restartAdmin", "note"}
  <2>1. CASE pc = "loop" \/ pc = "restart"
    <3>1. at \in Pods /\ Mounted(at) /\ CheckAdmin => pc' = "loop"
      BY <1>1, <1>6, <2>1 DEF CheckAdmin, Mounted, MountedData, NextPod, Goto, InLoop, OnPod
    <3>2. CASE LookAtPod
      BY <3>1, <3>2 DEF LookAtPod, NextPod, Goto, Return
    <3>3. CASE RestartAfterEdit
      <4>1. at \in Pods
        BY <1>1, <3>3 DEF RestartAfterEdit, OnAPod, OnPod
      <4> QED
        BY <3>1, <3>3, <4>1 DEF RestartAfterEdit, Return, Authenticates
    <3>4. CASE pc' = pc
      BY <2>1, <3>4
    <3> QED
      BY <2>1, <3>2, <3>3, <3>4 DEF CalmStep, Next, Reconcile, ApplySplunkConfig, CheckSecretVersion,
         EnableMaintenance, EditSecret, ChangePassword,
         RestartAfterPassword, NoteSecret, EndMaintenance, ResetStatus, StartPod, recon
  <2>2. CASE pc \notin {"loop", "restart"}
    BY <1>7, <2>2 DEF CalmStep, Next, Reconcile, ApplySplunkConfig, CheckSecretVersion, LookAtPod,
         EnableMaintenance, EditSecret, RestartAfterEdit, ChangePassword, Goto, Return,
         RestartAfterPassword, NoteSecret, EndMaintenance, ResetStatus, StartPod, recon
  <2> QED
    BY <2>1, <2>2
<1>9. ASSUME NEW i \in Pods, pod'[i].up
      PROVE  /\ copies[pod'[i].mount].admin = ns.data.admin
             /\ pod'[i].run.admin = ns.data.admin /\ pod'[i].disk.admin = ns.data.admin
  <2>1. CASE pod'[i] = pod[i]
    BY <1>1, <1>9, <2>1
  <2>2. CASE EditStep
    <3>1. pod[i].up /\ pod'[i].mount = pod[i].mount
      BY <1>1, <1>9, <2>2, EditsKeepMounts
    <3>2. CASE EditSecret
      BY <1>1, <3>1, <3>2, EditsOfPasswords
    <3>3. CASE RestartAfterEdit
      <4>1. at \in Pods /\ pod' \in {pod, Restarted}
        BY <1>1, <3>3 DEF RestartAfterEdit, OnAPod, OnPod
      <4>2. CASE pod' = Restarted
        <5>1. pod'[i].disk = pod[i].disk /\ (pod'[i] = pod[i] \/ pod'[i].run = pod[i].disk)
          BY <1>1, <4>1, <4>2, EditsOfPasswords
        <5> QED
          BY <1>1, <2>1, <3>1, <5>1
      <4> QED
        BY <2>1, <4>1, <4>2
    <3> QED
      BY <1>7, <2>2, <3>2, <3>3 DEF EditStep, ChangePassword, RestartAfterPassword
  <2>3. CASE Starting
    <3>1. PICK j \in Pods : StartPod(j)
      BY <2>3 DEF Starting
    <3>2. CASE i # j
      BY <1>1, <2>1, <3>1, <3>2 DEF StartPod, TypeOK
    <3>3. CASE i = j
      <4>1. revision # 0
        BY <1>1, <3>1, SecretsAssumption DEF StartPod, Exists, Versions
      <4>2. pod'[i] = [up |-> TRUE, mount |-> revision, disk |-> copies[revision],
                       run |-> copies[revision]]
        BY <1>1, <3>1, <3>3 DEF StartPod, TypeOK
      <4> QED
        BY <1>1, <4>1, <4>2
    <3> QED
      BY <3>2, <3>3
  <2>4. CASE ~EditStep /\ ~Starting
    <3>1. pod' = pod
      BY <2>4, OthersKeepPods DEF CalmStep
    <3> QED
      BY <2>1, <3>1
  <2> QED
    BY <2>2, <2>3, <2>4
<1> QED
  BY <1>1, <1>3, <1>4, <1>5, <1>8, <1>9 DEF AdminDone

LEMMA AdminDoneStep ==
  ASSUME Context, CalmStep, ~ObserveTemplate, ~Together, template # 0, AdminDone
  PROVE  Stage'
<1>1. /\ TypeOK /\ Counted /\ template = Latest /\ LatestHolds(ns.data) /\ SearchHead /\ MountedCopyIsKept
      /\ Full(ns.data) /\ Latest \in Versions /\ copies \in [Versions -> Data] /\ ns.data \in Data
      /\ \A i \in Pods : pod[i].up =>
           /\ copies[pod[i].mount].admin = ns.data.admin
           /\ pod[i].run.admin = ns.data.admin /\ pod[i].disk.admin = ns.data.admin
      /\ revision' = revision /\ (revision # 0 => revision \in Versions)
      /\ (revision # 0 => copies[revision].admin = ns.data.admin)
  <2>1. Latest \in Versions /\ Exists(Latest)
    BY LatestIsThere, SecretsAssumption DEF AdminDone, LatestHolds, IsLatest, Versions
  <2>2. revision # 0 => revision \in Versions
    BY SecretsAssumption DEF Context, Bookkeeping, MountsACopy, BaseInv, TypeOK, Versions, Bare
  <2> QED
    BY <2>1, <2>2, RevisionIsKept
       DEF Context, Bookkeeping, BaseInv, AdminDone, LatestHolds, NothingIsMissing, Exists, CalmStep,
           TypeOK, Secret
<1>2. \A i \in Pods : pod[i].up => Exists(pod[i].mount) \/ pod[i].mount = Bare
  BY <1>1 DEF MountedCopyIsKept, Mounted
<1>3. ApplyNamespaceSecret = ns
  BY <1>1, SecretIsFilled
<1>4. Bare \notin Versions /\ copies[Latest].admin = ns.data.admin
  BY <1>1, SecretsAssumption DEF Versions, Bare, LatestHolds
<1>5. CASE ApplyTemplate
  <2>1. LatestHolds(ns'.data) /\ ns' = ns /\ template' = Latest /\ copies' = copies /\ pod' = pod
        /\ pc' = "secret"
    BY <1>1, <1>3, <1>5 DEF ApplyTemplate, world, Goto
  <2>2. Latest' = Latest
    BY <2>1 DEF Latest, Exists
  <2> QED
    BY <1>1, <2>1, <2>2 DEF Stage, AdminDone, LatestHolds
<1>6. CASE SyncMountedSecrets
  <2>1. Latest' = Latest /\ pod' = pod /\ template' = template /\ ns' = ns /\ target.data = ns.data
        /\ pc' \notin {"passwd", "restartAdmin", "note"}
    BY <1>3, <1>6, SyncKeepsCopies DEF Context, SyncMountedSecrets, world, SyncInv, SecretIsCopied, InLoop, Goto, Return
  <2>2. CASE copies' = copies
    BY <1>1, <2>1, <2>2 DEF Stage, AdminDone, LatestHolds
  <2>3. CASE copies' = [v \in Versions |->
             IF v \notin st.toSync THEN copies[v]
             ELSE IF SearchHead THEN [copies[v] EXCEPT !.admin = target.data.admin]
             ELSE [copies[v] EXCEPT !.cluster = ApplyNamespaceSecret.data.cluster]]
    <3>1. \A v \in Versions : copies'[v] \in {copies[v], [copies[v] EXCEPT !.admin = ns.data.admin]}
      BY <1>1, <2>1, <2>3
    <3>2. \A d \in Data : d.admin = ns.data.admin => [d EXCEPT !.admin = ns.data.admin] = d
      BY <1>1 DEF Data
    <3>3. \A v \in Versions : copies[v].admin = ns.data.admin => copies'[v] = copies[v]
      BY <1>1, <3>1, <3>2
    <3>4. \A i \in Pods : pod[i].up => copies'[pod[i].mount].admin = ns.data.admin
      <4> SUFFICES ASSUME NEW i \in Pods, pod[i].up PROVE copies'[pod[i].mount].admin = ns.data.admin
        OBVIOUS
      <4>1. pod[i].mount \in Versions
        BY <1>2 DEF Exists, Context, Bookkeeping, MountsACopy
      <4> QED
        BY <1>1, <3>3, <4>1
    <3> QED
      BY <1>1, <1>4, <2>1, <3>3, <3>4 DEF Stage, AdminDone, LatestHolds
  <2> QED
    BY <1>6, <2>2, <2>3 DEF SyncMountedSecrets
<1>7. CASE UpdatePods
  <2>1. /\ Latest' = Latest /\ template' = template /\ ns' = ns
        /\ pc' \notin {"passwd", "restartAdmin", "note"}
    BY <1>7, RemovalKeepsLatest DEF Context, UpdatePods, Goto, Return
  <2>2. CASE pc' = "finish"
    <3>1. /\ copies'[Latest] = copies[Latest] /\ copies'[revision] = copies[revision]
          /\ pod' = pod /\ \A i \in Pods : pod[i].mount = revision
      BY <1>7, <2>2, RemovalKeepsLatest DEF Context
    <3> QED
      BY <1>1, <1>4, <2>1, <3>1 DEF Stage, AdminDone, LatestHolds
  <2>3. CASE copies' = copies /\ pc' # "finish"
    <3>1. \A i \in Pods : pod'[i] = pod[i] \/ ~pod'[i].up
      <4>1. pod \in [Pods -> PodStates]
        BY <1>1 DEF TypeOK
      <4> QED
        BY <1>7, <4>1 DEF UpdatePods, Absent
    <3> QED
      BY <1>1, <2>1, <2>3, <3>1 DEF Stage, AdminDone, LatestHolds
  <2> QED
    BY <1>7, <2>2, <2>3, RemovalKeepsLatest DEF Context
<1>8. CASE ChangeSecret
  <2>1. template' = template
    BY <1>8 DEF ChangeSecret
  <2> QED
    BY <1>8, <2>1, SettledChange DEF Stage
<1>9. CASE ~ChangeSecret /\ ~ApplyTemplate /\ ~SyncMountedSecrets /\ ~UpdatePods
  BY <1>9, AdminDoneStays DEF Stage
<1> QED
  BY <1>5, <1>6, <1>7, <1>8, <1>9

\* The facts about a change of the password in progress.
LEMMA ChangingFacts ==
  ASSUME Context, CalmStep, NEW v \in Versions, Changing(v)
  PROVE  /\ TypeOK /\ OnAPod /\ template = Latest /\ Latest \in Versions /\ Latest # 0 /\ SearchHead
         /\ Full(ns.data) /\ ApplyNamespaceSecret = ns /\ ns.rv \in Nat /\ st.rv \in Nat /\ st \in Statuses
         /\ pc \in InLoop => target.data = ns.data
         /\ \A i \in Pods : Mounted(i) /\ MountedData(i) = copies[v]
         /\ at \in 1 .. Replicas + 1 /\ Len(st.adminChanged) \in Nat /\ Replicas \in Nat \ {0}
         /\ st.rv <= ns.rv
<1>1. TypeOK /\ OnAPod /\ Counted /\ template = Latest /\ NothingIsMissing /\ st.rv <= ns.rv
      /\ (pc \in InLoop => target.data = ns.data)
  BY DEF Context, Bookkeeping, BaseInv, VersionsArePast, SyncInv, SecretIsCopied
<1>2. Latest \in Versions /\ Latest # 0 /\ Exists(Latest) /\ copies[Latest] = ns.data
  BY LatestIsThere, SecretsAssumption DEF Changing, LatestHolds, IsLatest, Versions
<1>3. Full(ns.data)
  BY <1>1, <1>2 DEF NothingIsMissing, Exists
<1>4. \A i \in Pods : Mounted(i) /\ MountedData(i) = copies[v]
  BY DEF Changing, Mounted, MountedData
<1>5. ns.rv \in Nat /\ st.rv \in Nat /\ st \in Statuses /\ at \in 1 .. Replicas + 1
      /\ st.adminChanged \in Seq({TRUE})
  BY <1>1 DEF TypeOK, Secret, Statuses
<1>6. Len(st.adminChanged) \in Nat
  BY <1>5
<1> QED
  BY <1>1, <1>2, <1>3, <1>4, <1>5, <1>6, SecretIsFilled, SecretsAssumption DEF CalmStep

\* A step that changes neither the copies, nor the pods, nor the flags.
LEMMA ChangingStays ==
  ASSUME NEW v \in Versions, Changing(v), revision' = revision,
         copies' = copies, ns'.data = ns.data, ns'.rv >= ns.rv, ns.rv \in Nat, ns'.rv \in Nat, st.rv \in Nat,
         st' = st, pod' = pod, template' = template, template # 0,
         pc' \in {"idle", "template", "secret", "loop", "passwd"},
         pc # "note",
         pc' = "loop" => at' <= Len(st.adminChanged) + 1,
         pc' = "passwd" => at' = Len(st.adminChanged) + 1
  PROVE  Stage'
<1>1. Latest' = Latest
  BY DEF Latest, Exists
<1>2. Changing(v)'
  BY <1>1 DEF Changing, LatestHolds, Exists, Flagged
<1> QED
  BY <1>2 DEF Stage

LEMMA ChangingStep ==
  ASSUME Context, CalmStep, ~ObserveTemplate, template # 0, NEW v \in Versions, Changing(v)
  PROVE  Stage'
<1>1. /\ TypeOK /\ OnAPod /\ template = Latest /\ Latest \in Versions /\ Latest # 0 /\ SearchHead
      /\ Full(ns.data) /\ ApplyNamespaceSecret = ns /\ ns.rv \in Nat /\ st.rv \in Nat /\ st \in Statuses
      /\ (pc \in InLoop => target.data = ns.data)
      /\ \A i \in Pods : Mounted(i) /\ MountedData(i) = copies[v]
      /\ at \in 1 .. Replicas + 1 /\ Len(st.adminChanged) \in Nat /\ Replicas \in Nat \ {0}
      /\ st.rv <= ns.rv /\ revision' = revision
  BY ChangingFacts, RevisionIsKept DEF CalmStep
<1>2. /\ copies[v].cluster = ns.data.cluster /\ copies[v].admin # ns.data.admin /\ LatestHolds(ns.data)
      /\ pc \in {"idle", "template", "secret", "loop", "passwd", "restartAdmin", "note"}
      /\ (pc = "loop" => at <= Len(st.adminChanged) + 1)
      /\ (pc \in {"passwd", "restartAdmin"} => at = Len(st.adminChanged) + 1)
      /\ \A i \in Pods : pod[i].up /\ pod[i].mount = v
  BY DEF Changing
<1>3. CASE ApplySplunkConfig
  <2>1. ns'.data = ns.data /\ ns'.rv >= ns.rv /\ ns'.rv \in Nat
    <3>1. [ns EXCEPT !.rv = @ + 1].data = ns.data /\ [ns EXCEPT !.rv = @ + 1].rv = ns.rv + 1
      BY <1>1 DEF TypeOK, Secret
    <3>2. ns' = ns \/ ns' = [ns EXCEPT !.rv = @ + 1]
      BY <1>1, <1>3, Zenon DEF ApplySplunkConfig
    <3>3. CASE ns' = ns
      BY <1>1, <3>3
    <3>4. CASE ns' = [ns EXCEPT !.rv = @ + 1]
      <4>1. ns'.data = ns.data /\ ns'.rv = ns.rv + 1
        BY <3>1, <3>4, Zenon
      <4> QED
        BY <1>1, <4>1
    <3> QED
      BY <3>2, <3>3, <3>4
  <2>2. copies' = copies /\ st' = st /\ pod' = pod /\ template' = template /\ pc' = "template" /\ pc = "idle"
    BY <1>3 DEF ApplySplunkConfig, Goto, world
  <2> QED
    BY <1>1, <2>1, <2>2, ChangingStays
<1>4. CASE ApplyTemplate
  <2>1. LatestHolds(ns'.data) /\ ns' = ns /\ template' = Latest /\ copies' = copies /\ pod' = pod
        /\ pc' = "secret" /\ pc = "template" /\ st' = st
    BY <1>1, <1>2, <1>4 DEF ApplyTemplate, world, Goto
  <2> QED
    BY <1>1, <2>1, ChangingStays
<1>5. CASE CheckSecretVersion
  <2>1. st.rv \notin {0, ns.rv} /\ ns' = ns
    BY <1>1, <1>5 DEF Changing, CheckSecretVersion
  <2>2. pc' = "loop" /\ pc = "secret" /\ at' = 1 /\ st' = st /\ copies' = copies /\ pod' = pod /\ template' = template
    BY <1>5, <2>1 DEF CheckSecretVersion, Goto, world
  <2> QED
    BY <1>1, <2>1, <2>2, ChangingStays
<1>6. CASE LookAtPod
  <2>1. /\ pc = "loop" /\ at \in Pods /\ target.data = ns.data
        /\ UNCHANGED <<st, ns, copies, template, pod>>
    BY <1>1, <1>6 DEF LookAtPod, config, world, InLoop, Return
  <2>2. Mounted(at) /\ MountedData(at).cluster = target.data.cluster /\ CheckAdmin
    BY <1>1, <1>2, <1>6, <2>1 DEF LookAtPod
  <2>3. CASE Flagged(st.adminChanged, at)
    <3>1. pc' = "loop" /\ at' = at + 1 /\ at <= Len(st.adminChanged)
      BY <2>2, <2>3 DEF CheckAdmin, NextPod, Goto, Flagged
    <3> QED
      BY <1>1, <2>1, <3>1, ChangingStays
  <2>4. CASE ~Flagged(st.adminChanged, at)
    <3>1. pc' = "passwd" /\ at' = at
      BY <1>1, <1>2, <2>1, <2>2, <2>4 DEF CheckAdmin, Goto
    <3>2. at = Len(st.adminChanged) + 1
      BY <1>1, <1>2, <2>1, <2>4 DEF Flagged
    <3> QED
      BY <1>1, <2>1, <3>1, <3>2, ChangingStays
  <2> QED
    BY <2>3, <2>4
<1>7. CASE ChangePassword
  <2>1. /\ pc = "passwd" /\ at \in Pods /\ target.data = ns.data
        /\ UNCHANGED <<st, ns, copies, template>>
    BY <1>1, <1>7 DEF ChangePassword, config, InLoop, OnPod, OnAPod, Return
  <2>2. CASE pc' = "idle" /\ pod' = pod
    BY <1>1, <2>1, <2>2, ChangingStays
  <2>3. CASE /\ pod' = [pod EXCEPT ![at].disk.admin = target.data.admin]
             /\ Goto("restartAdmin") /\ at' = at
    <3>1. /\ \A i \in Pods : pod'[i].run = pod[i].run /\ (i # at => pod'[i] = pod[i])
          /\ pod'[at].disk.admin = ns.data.admin
      BY <1>1, <2>1, <2>3, EditsOfPasswords
    <3>2. \A i \in Pods : pod'[i].up = pod[i].up /\ pod'[i].mount = pod[i].mount
      BY <1>1, <1>7, EditsKeepMounts DEF EditStep
    <3>3. Latest' = Latest /\ pc' = "restartAdmin"
      BY <2>1, <2>3 DEF Latest, Exists, Goto
    <3>4. Changing(v)'
      BY <1>1, <2>1, <2>3, <3>1, <3>2, <3>3 DEF Changing, LatestHolds, Exists, Flagged
    <3> QED
      BY <2>1, <3>4 DEF Stage
  <2> QED
    BY <1>7, <2>2, <2>3 DEF ChangePassword, Return
<1>8. CASE RestartAfterPassword
  <2>1. /\ pc = "restartAdmin" /\ at \in Pods /\ target.data = ns.data
        /\ UNCHANGED <<ns, copies, template>>
    BY <1>1, <1>8 DEF RestartAfterPassword, config, InLoop, OnPod, OnAPod
  <2>2. CASE pc' = "idle" /\ pod' = pod /\ st' = st
    BY <1>1, <2>1, <2>2, ChangingStays
  <2>3. CASE /\ pod' = Restarted /\ st' = [st EXCEPT !.adminChanged = Flag(@, at)]
             /\ Goto("note") /\ at' = at
    <3>1. /\ \A i \in Pods : pod'[i].disk = pod[i].disk /\ (i # at => pod'[i] = pod[i])
          /\ pod'[at].run = pod[at].disk
      BY <1>1, <2>1, <2>3, EditsOfPasswords
    <3>2. \A i \in Pods : pod'[i].up = pod[i].up /\ pod'[i].mount = pod[i].mount
      BY <1>1, <1>8, EditsKeepMounts DEF EditStep
    <3>3. Latest' = Latest /\ pc' = "note"
      BY <2>1, <2>3 DEF Latest, Exists, Goto
    <3>4. /\ st'.rv = st.rv /\ st'.toSync = st.toSync
          /\ st'.adminChanged = Flag(st.adminChanged, at)
      BY <1>1, <2>3 DEF Statuses
    <3>5. Len(st'.adminChanged) = at
      <4>1. at = Len(st.adminChanged) + 1 /\ st.adminChanged \in Seq({TRUE})
        BY <1>1, <1>2, <2>1 DEF Statuses
      <4>2. ASSUME NEW S, NEW s \in Seq(S), NEW e \in S PROVE Len(Append(s, e)) = Len(s) + 1
        OBVIOUS
      <4>3. TRUE \in {TRUE}
        OBVIOUS
      <4>4. Len(Append(st.adminChanged, TRUE)) = Len(st.adminChanged) + 1
        BY <4>1, <4>2, <4>3, Zenon
      <4>5. Flag(st.adminChanged, at) = Append(st.adminChanged, TRUE)
        <5>1. ~(at <= Len(st.adminChanged))
          BY <1>1, <4>1
        <5> QED
          BY <5>1, Zenon DEF Flag
      <4> QED
        BY <3>4, <4>1, <4>4, <4>5
    <3>6. \A i \in Pods : Flagged(st'.adminChanged, i) <=> (Flagged(st.adminChanged, i) \/ i = at)
      BY <1>1, <1>2, <2>1, <3>5 DEF Flagged, Pods
    <3>7. \A i \in Pods : /\ pod'[i].run.admin = IF Flagged(st'.adminChanged, i) THEN ns.data.admin
                                                 ELSE copies[v].admin
                          /\ Flagged(st'.adminChanged, i) => pod'[i].disk.admin = ns.data.admin
      BY <2>1, <3>1, <3>6 DEF Changing
    <3>8. Changing(v)'
      BY <1>1, <2>1, <2>3, <3>2, <3>3, <3>4, <3>5, <3>7 DEF Changing, LatestHolds, Exists
    <3> QED
      BY <2>1, <3>8 DEF Stage
  <2> QED
    BY <1>8, <2>2, <2>3 DEF RestartAfterPassword, Return, CalmStep
<1>9. CASE NoteSecret
  <2>1. /\ pc = "note" /\ at \in Pods
        /\ UNCHANGED <<ns, copies, template, pod>>
    BY <1>1, <1>9 DEF NoteSecret, config, world, OnPod, OnAPod
  <2>2. st' = [st EXCEPT !.toSync = @ \cup {pod[at].mount}] /\ NextPod
    BY <1>1, <1>9, <2>1 DEF NoteSecret, CalmStep
  <2>3. /\ st'.rv = st.rv /\ st'.toSync = st.toSync \cup {v} /\ st'.adminChanged = st.adminChanged
        /\ at' = at + 1 /\ pc' = "loop" /\ Latest' = Latest
    BY <1>1, <1>2, <2>1, <2>2 DEF Statuses, NextPod, Goto, Latest, Exists
  <2>4. Changing(v)'
    BY <1>1, <2>1, <2>3 DEF Changing, LatestHolds, Exists, Flagged
  <2> QED
    BY <2>1, <2>4 DEF Stage
<1>10. CASE SyncMountedSecrets
  <2>1. /\ pc = "loop" /\ at > Replicas /\ target.data = ns.data
        /\ UNCHANGED <<pod, template>>
    BY <1>1, <1>10 DEF SyncMountedSecrets, world, InLoop
  <2>2. Len(st.adminChanged) >= Replicas /\ st.adminChanged # <<>>
    <3>1. Len(<<>>) = 0
      OBVIOUS
    <3> QED
      BY <1>1, <1>2, <2>1, <3>1
  <2>3. \A i \in Pods : Flagged(st.adminChanged, i)
    BY <1>1, <2>2 DEF Flagged, Pods
  <2>4. st.toSync = {v} /\ Exists(v)
    BY <2>1, <2>2 DEF Changing
  <2>5. /\ copies' = [u \in Versions |->
             IF u \notin st.toSync THEN copies[u]
             ELSE IF SearchHead THEN [copies[u] EXCEPT !.admin = target.data.admin]
             ELSE [copies[u] EXCEPT !.cluster = ApplyNamespaceSecret.data.cluster]]
        /\ ns' = ns /\ pc' = "pods"
    BY <1>1, <1>10, <2>4 DEF SyncMountedSecrets, CalmStep, Goto
  <2>6. copies'[v] = [copies[v] EXCEPT !.admin = ns.data.admin] /\ copies'[Latest] = copies[Latest]
    BY <1>1, <2>1, <2>4, <2>5 DEF Changing
  <2>7. copies'[v].admin = ns.data.admin
    BY <1>1, <2>6 DEF TypeOK, Data
  <2>8. Latest' = Latest
    BY <1>10, SyncKeepsCopies DEF Context
  <2>9. \A i \in Pods : /\ pod'[i].mount = v
                        /\ pod'[i].run.admin = ns.data.admin /\ pod'[i].disk.admin = ns.data.admin
    BY <2>1, <2>3 DEF Changing
  <2>10. copies'[revision].admin = ns.data.admin
    BY <1>2, <2>6, <2>7 DEF Changing, LatestHolds
  <2> QED
    BY <1>1, <1>2, <2>1, <2>5, <2>6, <2>7, <2>8, <2>9, <2>10 DEF Stage, AdminDone, LatestHolds
<1>11. ~ChangeSecret
  <2>1. 1 \in Pods /\ v # Latest
    BY <1>1 DEF Pods, Changing
  <2> QED
    BY <1>1, <1>2, <2>1 DEF CalmStep, Settled, NoneOutdated
<1>12. ~ \E i \in Pods : StartPod(i)
  BY <1>2 DEF StartPod
<1> QED
  BY <1>2, <1>3, <1>4, <1>5, <1>6, <1>7, <1>8, <1>9, <1>10, <1>11, <1>12 DEF CalmStep, Next, Reconcile,
         EnableMaintenance, EditSecret, RestartAfterEdit, UpdatePods, EndMaintenance, ResetStatus

\* The status of the StatefulSet catches up: new pods mount the latest copy.
LEMMA ObserveStep ==
  ASSUME Context, ObserveTemplate, Stage
  PROVE  Stage'
<1>1. /\ UNCHANGED <<cluster, ns, copies, template, pod, st, pc, at>> /\ Latest' = Latest
      /\ revision' = Latest /\ revision # template /\ template = Latest
  BY DEF ObserveTemplate, world, recon, Latest, Exists, Context, Bookkeeping
<1>2. template # 0
  BY <1>1 DEF Context, Bookkeeping, MountsACopy
<1>3. CASE AdminDone
  BY <1>1, <1>2, <1>3 DEF Stage, AdminDone, LatestHolds
<1>4. ~JustChanged
  BY <1>1 DEF JustChanged
<1>5. CASE \E v \in Versions : Changing(v)
  <2>1. PICK v \in Versions : Changing(v)
    BY <1>5
  <2>2. Changing(v)'
    BY <1>1, <2>1 DEF Changing, LatestHolds, Exists, Flagged
  <2> QED
    BY <1>1, <1>2, <2>2 DEF Stage
<1> QED
  BY <1>2, <1>3, <1>4, <1>5 DEF Stage

LEMMA AccessStep ==
  ASSUME ~Together, SecretsInv, AccessInv, [Next]_vars
  PROVE  AccessInv'
<1>1. CASE Next
  <2> SUFFICES ASSUME SearchHead', Retried' PROVE Bookkeeping' /\ Stage'
    BY DEF AccessInv
  <2>1. TypeOK /\ SearchHead /\ BaseInv /\ VersionsArePast
    BY <1>1, ClusterIsFixed DEF SecretsInv, BaseInv, SearchHead
  <2>2. Retried /\ CalmStep
    BY <1>1, <2>1, RetriedIsCalm
  <2>3. ~Happened("race")
    BY <2>1, <2>2 DEF Retried, Happened
  <2>4. Context /\ Stage
    BY <2>1, <2>2, <2>3 DEF Context, AccessInv, SecretsInv
  <2>5. Bookkeeping'
    BY <2>2, <2>4, MountsACopyStep, NumberedStep, NotedIsChangedStep, TemplateIsNewestStep
       DEF Context, Bookkeeping
  <2>6. Stage'
    BY <2>2, <2>4, NotYetStep, JustChangedStep, AdminDoneStep, ChangingStep, ObserveStep DEF Stage
  <2> QED
    BY <2>5, <2>6
<1>2. CASE UNCHANGED vars
  <2>1. UNCHANGED <<cluster, ns, copies, template, revision, pod, st, saved, pc, at, seen, phase, used>>
    BY <1>2 DEF vars, config, world, recon
  <2>2. Latest' = Latest
    BY <2>1 DEF Latest, Exists
  <2> QED
    BY <2>1, <2>2 DEF AccessInv, SearchHead, Retried, Bookkeeping, MountsACopy, Numbered, NotedIsChanged,
       Stage, NotYet, AdminDone, JustChanged, Changing, LatestHolds, Exists, Flagged
<1> QED
  BY <1>1, <1>2

\* Once the mounted secrets are synchronised, the password in them is the one that
\* the search heads run with, so that the operator's calls succeed, whatever calls
\* have failed while the passwords were changed pod by pod. The hypothesis is that
\* the user does not change both tokens in one write: a failed call between the two
\* edits then makes ApplyShcSecret skip the password of that pod.
THEOREM AccessIsNeverLost == ~Together => (Spec => []SyncKeepsAccess)
<1> SUFFICES ASSUME ~Together PROVE Spec => []SyncKeepsAccess
  OBVIOUS
<1>1. Init => SecretsInv /\ AccessInv
  <2> SUFFICES ASSUME Init PROVE SecretsInv /\ AccessInv
    OBVIOUS
  <2>1. SecretsInv
    BY SecretsInit
  <2>2. Latest = 0
    BY LatestIsThere DEF Init, IsLatest, Exists, NoData, Versions
  <2> QED
    BY <2>1, <2>2, SecretsAssumption DEF Init, AccessInv, Bookkeeping, MountsACopy, Numbered, NotedIsChanged,
       Stage, NotYet, Absent, NoStatus, Bare
<1>2. SecretsInv /\ AccessInv /\ [Next]_vars => (SecretsInv /\ AccessInv)'
  BY SecretsStep, AccessStep
<1>3. SecretsInv /\ AccessInv => SyncKeepsAccess
  <2> SUFFICES ASSUME SecretsInv, AccessInv, Retried, SearchHead, pc = "pods", NEW i \in Pods, Mounted(i)
               PROVE  Authenticates(i)
    BY DEF SyncKeepsAccess, AccessIsKept
  <2>1. AdminDone
    BY DEF AccessInv, Stage, NotYet, JustChanged, Changing
  <2> QED
    BY <2>1 DEF AdminDone, Authenticates, Mounted, MountedData
<1> QED
  BY <1>1, <1>2, <1>3, PTL DEF Spec
=============================================================================
