--------------------------- MODULE ReconcileProofs ---------------------------
(***************************************************************************)
(* Theorems about Reconcile, for any deployments, any number of workers    *)
(* and any sequence of changes and faults: the upgrade path is followed, a     *)
(* stored phase Ready is true once the status of the StatefulSet has       *)
(* caught up, and the types are kept.                                      *)
(***************************************************************************)
EXTENDS Reconcile, FiniteSetTheorems, WellFoundedInduction, TLAPS

----------------------------------------------------------------------------
(* The hypotheses on deployments                                            *)

\* The kinds whose Apply function calls UpgradePathValidation, and the ones
\* among them that it makes wait for a cluster manager.
WaitForLicense == {"ClusterManager", "MonitoringConsole", "SearchHeadCluster", "IndexerCluster"}
WaitForManager == {"MonitoringConsole", "SearchHeadCluster", "IndexerCluster"}

OrderedRefs ==
  \A d \in Deployments : \A c \in DOMAIN d.kind :
    /\ (d.license[c] # None /\ d.kind[d.license[c]] = "LicenseManager") => d.kind[c] \in WaitForLicense
    /\ (d.manager[c] # None /\ d.kind[d.manager[c]] = "ClusterManager") => d.kind[c] \in WaitForManager

----------------------------------------------------------------------------
(* The inductive invariants                                                 *)

\* The shape of what the upgrade path reads.
SpecOfUser == [image : Nat \ {0}, replicas : Replicas, console : Consoles \cup {None}, deleting : BOOLEAN]

RecordShape(r) ==
  r = [at |-> r.at, spec |-> r.spec, manager |-> r.manager, rev |-> r.rev, ready |-> r.ready, again |-> r.again]

Shape ==
  /\ dep \in Deployments /\ live \subseteq CRs
  /\ spec \in [CRs -> SpecOfUser]
  /\ sets = [s \in SetNames |-> sets[s]] /\ \A s \in SetNames : sets[s].image \in Nat
  /\ rec = [c \in CRs |-> rec[c]] /\ \A c \in CRs : RecordShape(rec[c]) /\ rec[c].spec \in SpecOfUser
  /\ faults \in Seq(Faults)

\* A reconcile is at a step of its own Apply function.
OwnStep(c, step) ==
  \/ step \in {"idle", "unregister", "references", "finalize", "save"}
  \/ \E i \in 1 .. Len(StepsOf(c)) : step = StepsOf(c)[i]
StepsAreOwn == \A c \in CRs : OwnStep(c, rec[c].at)

\* All resources have the image of the operator, and so have the reconciles.
OneImage ==
  /\ \A c, d \in CRs : spec[c].image = spec[d].image
  /\ \A c \in CRs : rec[c].at # "idle" => rec[c].spec.image = spec[c].image

\* A search head cluster has a deployer before it has search heads.
DeployerIsFirst ==
  \A c \in SearchHeads :
    (sets[Main(c)].image # 0 \/ rec[c].at \in {"move", "update"}) => sets[Deployer(c)].image # 0

\* Where the reconcile of c may change the StatefulSet after a wait.
AfterLicense(c, step) ==
  /\ Kind(c) \in WaitForLicense
  /\ \/ step \in {"manager", "others", "deployer", "delete9", "update"}
     \/ step = "move" /\ Kind(c) = "SearchHeadCluster"
AfterManager(c, step) ==
  /\ Kind(c) \in WaitForManager
  /\ \/ step \in {"others", "deployer", "delete9", "update"}
     \/ step = "move" /\ Kind(c) = "SearchHeadCluster"

\* A resource that is not new has passed its waits: whom it waits for has the
\* image, or does not exist, or could not be read.
LicenseFirst ==
  \A c \in CRs :
    (AfterLicense(c, rec[c].at) /\ sets[Main(c)].image # 0 /\ LicenseManagerRef(c) \in live)
      => sets[Main(LicenseManagerRef(c))].image = rec[c].spec.image
ManagerFirst ==
  \A c \in CRs :
    (AfterManager(c, rec[c].at) /\ sets[Main(c)].image # 0 /\ ClusterManagerRef(c) \in live)
      => (sets[Main(ClusterManagerRef(c))].image = rec[c].spec.image \/ Happened("get", faults))

OrderInv ==
  Shape /\ StepsAreOwn /\ OneImage /\ DeployerIsFirst /\ LicenseFirst /\ ManagerFirst

\* The ConfigMaps and the pods are functions of records.
ConfigMap == [urls : [Registering -> Seq(CRs \X Replicas)], rev : Nat, owned : BOOLEAN]
ConfigMapShape ==
  /\ console \in [Consoles -> ConfigMap]
  /\ pods = [s \in SetNames |-> pods[s]] /\ observed = [s \in SetNames |-> observed[s]]

\* Only a reconcile that has found its StatefulSet up to date is to store Ready.
ReadyIsLate == \A c \in CRs : rec[c].ready => rec[c].at \in {"register", "finish", "wake", "save"}

\* A console that has read its ConfigMap is told of every change of it.
HasRead(c) == rec[c].at \notin {"idle", "read", "unregister", "references", "finalize", "save"} \/ rec[c].ready
Told(c) == console[c].owned /\ rec[c].rev = console[c].rev

\* The instances of c are in the ConfigMap of its console.
Listed(c) ==
  (spec[c].console \in live /\ Kind(c) \in Registering)
    => ToSet(Urls(c, spec[c].replicas)) \subseteq ToSet(console[spec[c].console].urls[Kind(c)])

\* The pods run what the reconcile has read.
RunsTemplate(c) ==
  LET run == pods[Main(c)] IN
  /\ run.image = rec[c].spec.image /\ run.replicas = rec[c].spec.replicas
  /\ run.console = rec[c].spec.console /\ run.rev = rec[c].rev

\* What the reconcile of c has found out is still so, unless it is due to run again,
\* or the status of the StatefulSet has not caught up.
Current(c) ==
  /\ rec[c].at # "idle" => rec[c].spec = spec[c]
  /\ rec[c].ready => RunsTemplate(c) \/ StatusLags(c)
  /\ Kind(c) = "MonitoringConsole" /\ HasRead(c) => Told(c)
  /\ rec[c].ready /\ ~rec[c].again /\ rec[c].at \in {"finish", "wake", "save"} => Listed(c)
  /\ c \in ready /\ rec[c].at = "idle" =>
       (Serves(c) \/ StatusLags(c)) /\ (Kind(c) = "MonitoringConsole" => console[c].owned)

ReadyInv ==
  /\ ConfigMapShape /\ ReadyIsLate
  /\ \A c \in live \ queue : Current(c)

\* The bounds behind the types: only resources that exist are reconciled, and an
\* image is no newer than the changes so far allow.
Bounds ==
  /\ Active \subseteq live /\ IsFiniteSet(Active)
  /\ Len(changes) + Len(faults) <= MaxEvents
  /\ \A c \in CRs : spec[c].image <= Len(changes) + 1

TypeInv == OrderInv /\ ReadyInv /\ TypeOK /\ Bounds

----------------------------------------------------------------------------
(* The steps of the Apply functions                                         *)

\* Every set of numbers that is not empty has a least element.
LEMMA LeastNumber ==
  ASSUME NEW T \in SUBSET Nat, T # {} PROVE \E x \in T : \A y \in T : x <= y
<1>1. IsWellFoundedOn(OpToRel(<, Nat), Nat)  BY NatLessThanWellFounded
<1>2. PICK x \in T : \A y \in T : ~(<<y, x>> \in OpToRel(<, Nat))  BY <1>1, WFMin
<1>3. \A y \in T : ~(y < x)  BY <1>2 DEF OpToRel
<1> QED  BY <1>3

LEMMA KindType ==
  ASSUME dep \in Deployments, NEW c \in CRs
  PROVE  /\ Kind(c) \in Kinds
         /\ Kind(c) \in {"LicenseManager", "LicenseMaster", "ClusterManager", "ClusterMaster", "MonitoringConsole",
                         "SearchHeadCluster", "IndexerCluster", "Standalone", "IngestorCluster"}
<1>1. IsDeployment(dep)  BY ReconcileAssumption
<1>2. Kind(c) \in Kinds  BY <1>1 DEF IsDeployment, CRs, Kind
<1> QED  BY <1>2 DEF Kinds, Managers

\* The steps of each kind.
LEMMA StepsByKind ==
  ASSUME dep \in Deployments, NEW c \in CRs
  PROVE  /\ Kind(c) = "LicenseManager" => StepsOf(c) = <<"move", "update", "register", "wake">>
         /\ Kind(c) = "LicenseMaster" => StepsOf(c) = <<"move", "update", "register">>
         /\ Kind(c) = "ClusterManager" => StepsOf(c) = <<"move", "license", "update", "register", "wake">>
         /\ Kind(c) = "ClusterMaster" => StepsOf(c) = <<"move", "update", "register", "finish">>
         /\ Kind(c) = "MonitoringConsole" => StepsOf(c) = <<"read", "license", "manager", "others", "update">>
         /\ Kind(c) = "SearchHeadCluster" =>
              StepsOf(c) = <<"license", "manager", "deployer", "move", "update", "register", "finish">>
         /\ Kind(c) = "IndexerCluster" => StepsOf(c) = <<"license", "manager", "delete9", "update", "finish">>
         /\ Kind(c) = "Standalone" => StepsOf(c) = <<"move", "update", "register", "finish">>
         /\ Kind(c) = "IngestorCluster" => StepsOf(c) = <<"move", "update", "finish", "register">>
  BY DEF StepsOf, ApplyLicenseManager, ApplyLicenseMaster, ApplyClusterManager, ApplyClusterMaster,
         ApplyMonitoringConsole, ApplySearchHeadCluster, ApplyIndexerClusterManager, ApplyIndexerCluster,
         ApplyStandalone, ApplyIngestorCluster

\* No step occurs twice, and none of them is the end of a reconcile.
LEMMA StepsAreDistinct ==
  ASSUME dep \in Deployments, NEW c \in CRs
  PROVE  /\ StepsOf(c) \in Seq(Steps) /\ Len(StepsOf(c)) \in Nat
         /\ \A i, j \in 1 .. Len(StepsOf(c)) : StepsOf(c)[i] = StepsOf(c)[j] => i = j
         /\ \A i \in 1 .. Len(StepsOf(c)) : StepsOf(c)[i] \notin {"idle", "save", "unregister", "references", "finalize"}
<1>1. CASE Kind(c) = "LicenseManager"
  <2>1. PICK s : s = <<"move", "update", "register", "wake">>  OBVIOUS
  <2>2. s \in Seq(Steps) /\ Len(s) = 4 /\ Len(s) \in Nat  BY <2>1 DEF Steps
  <2>3. s[1] = "move" /\ s[2] = "update" /\ s[3] = "register" /\ s[4] = "wake"  BY <2>1
  <2>4. \A i \in 1 .. 4 : i = 1 \/ i = 2 \/ i = 3 \/ i = 4  OBVIOUS
  <2>5. StepsOf(c) = s  BY <1>1, <2>1, StepsByKind
  <2>6. \A i, j \in 1 .. 4 : s[i] = s[j] => i = j  BY <2>3, <2>4
  <2>7. \A i \in 1 .. 4 : s[i] \notin {"idle", "save", "unregister", "references", "finalize"}  BY <2>3, <2>4
  <2> QED  BY <2>2, <2>5, <2>6, <2>7, Zenon
<1>2. CASE Kind(c) = "LicenseMaster"
  <2>1. PICK s : s = <<"move", "update", "register">>  OBVIOUS
  <2>2. s \in Seq(Steps) /\ Len(s) = 3 /\ Len(s) \in Nat  BY <2>1 DEF Steps
  <2>3. s[1] = "move" /\ s[2] = "update" /\ s[3] = "register"  BY <2>1
  <2>4. \A i \in 1 .. 3 : i = 1 \/ i = 2 \/ i = 3  OBVIOUS
  <2>5. StepsOf(c) = s  BY <1>2, <2>1, StepsByKind
  <2>6. \A i, j \in 1 .. 3 : s[i] = s[j] => i = j  BY <2>3, <2>4
  <2>7. \A i \in 1 .. 3 : s[i] \notin {"idle", "save", "unregister", "references", "finalize"}  BY <2>3, <2>4
  <2> QED  BY <2>2, <2>5, <2>6, <2>7, Zenon
<1>3. CASE Kind(c) = "ClusterManager"
  <2>1. PICK s : s = <<"move", "license", "update", "register", "wake">>  OBVIOUS
  <2>2. s \in Seq(Steps) /\ Len(s) = 5 /\ Len(s) \in Nat  BY <2>1 DEF Steps
  <2>3. s[1] = "move" /\ s[2] = "license" /\ s[3] = "update" /\ s[4] = "register" /\ s[5] = "wake"
    BY <2>1
  <2>4. \A i \in 1 .. 5 : i = 1 \/ i = 2 \/ i = 3 \/ i = 4 \/ i = 5  OBVIOUS
  <2>5. StepsOf(c) = s  BY <1>3, <2>1, StepsByKind
  <2>6. \A i, j \in 1 .. 5 : s[i] = s[j] => i = j  BY <2>3, <2>4
  <2>7. \A i \in 1 .. 5 : s[i] \notin {"idle", "save", "unregister", "references", "finalize"}  BY <2>3, <2>4
  <2> QED  BY <2>2, <2>5, <2>6, <2>7, Zenon
<1>4. CASE Kind(c) = "ClusterMaster"
  <2>1. PICK s : s = <<"move", "update", "register", "finish">>  OBVIOUS
  <2>2. s \in Seq(Steps) /\ Len(s) = 4 /\ Len(s) \in Nat  BY <2>1 DEF Steps
  <2>3. s[1] = "move" /\ s[2] = "update" /\ s[3] = "register" /\ s[4] = "finish"  BY <2>1
  <2>4. \A i \in 1 .. 4 : i = 1 \/ i = 2 \/ i = 3 \/ i = 4  OBVIOUS
  <2>5. StepsOf(c) = s  BY <1>4, <2>1, StepsByKind
  <2>6. \A i, j \in 1 .. 4 : s[i] = s[j] => i = j  BY <2>3, <2>4
  <2>7. \A i \in 1 .. 4 : s[i] \notin {"idle", "save", "unregister", "references", "finalize"}  BY <2>3, <2>4
  <2> QED  BY <2>2, <2>5, <2>6, <2>7, Zenon
<1>5. CASE Kind(c) = "MonitoringConsole"
  <2>1. PICK s : s = <<"read", "license", "manager", "others", "update">>  OBVIOUS
  <2>2. s \in Seq(Steps) /\ Len(s) = 5 /\ Len(s) \in Nat  BY <2>1 DEF Steps
  <2>3. s[1] = "read" /\ s[2] = "license" /\ s[3] = "manager" /\ s[4] = "others" /\ s[5] = "update"  BY <2>1
  <2>4. \A i \in 1 .. 5 : i = 1 \/ i = 2 \/ i = 3 \/ i = 4 \/ i = 5  OBVIOUS
  <2>5. StepsOf(c) = s  BY <1>5, <2>1, StepsByKind
  <2>6. \A i, j \in 1 .. 5 : s[i] = s[j] => i = j  BY <2>3, <2>4
  <2>7. \A i \in 1 .. 5 : s[i] \notin {"idle", "save", "unregister", "references", "finalize"}  BY <2>3, <2>4
  <2> QED  BY <2>2, <2>5, <2>6, <2>7, Zenon
<1>6. CASE Kind(c) = "SearchHeadCluster"
  <2>1. PICK s : s = <<"license", "manager", "deployer", "move", "update", "register", "finish">>  OBVIOUS
  <2>2. s \in Seq(Steps) /\ Len(s) = 7 /\ Len(s) \in Nat  BY <2>1 DEF Steps
  <2>3. s[1] = "license" /\ s[2] = "manager" /\ s[3] = "deployer" /\ s[4] = "move"
        /\ s[5] = "update" /\ s[6] = "register" /\ s[7] = "finish"
    BY <2>1
  <2>4. \A i \in 1 .. 7 : i = 1 \/ i = 2 \/ i = 3 \/ i = 4 \/ i = 5 \/ i = 6 \/ i = 7  OBVIOUS
  <2>5. StepsOf(c) = s  BY <1>6, <2>1, StepsByKind
  <2>6. \A i, j \in 1 .. 7 : s[i] = s[j] => i = j  BY <2>3, <2>4
  <2>7. \A i \in 1 .. 7 : s[i] \notin {"idle", "save", "unregister", "references", "finalize"}  BY <2>3, <2>4
  <2> QED  BY <2>2, <2>5, <2>6, <2>7, Zenon
<1>7. CASE Kind(c) = "IndexerCluster"
  <2>1. PICK s : s = <<"license", "manager", "delete9", "update", "finish">>  OBVIOUS
  <2>2. s \in Seq(Steps) /\ Len(s) = 5 /\ Len(s) \in Nat  BY <2>1 DEF Steps
  <2>3. s[1] = "license" /\ s[2] = "manager" /\ s[3] = "delete9"
        /\ s[4] = "update" /\ s[5] = "finish"
    BY <2>1
  <2>4. \A i \in 1 .. 5 : i = 1 \/ i = 2 \/ i = 3 \/ i = 4 \/ i = 5  OBVIOUS
  <2>5. StepsOf(c) = s  BY <1>7, <2>1, StepsByKind
  <2>6. \A i, j \in 1 .. 5 : s[i] = s[j] => i = j  BY <2>3, <2>4
  <2>7. \A i \in 1 .. 5 : s[i] \notin {"idle", "save", "unregister", "references", "finalize"}  BY <2>3, <2>4
  <2> QED  BY <2>2, <2>5, <2>6, <2>7, Zenon
<1>8. CASE Kind(c) = "Standalone"
  <2>1. PICK s : s = <<"move", "update", "register", "finish">>  OBVIOUS
  <2>2. s \in Seq(Steps) /\ Len(s) = 4 /\ Len(s) \in Nat  BY <2>1 DEF Steps
  <2>3. s[1] = "move" /\ s[2] = "update" /\ s[3] = "register" /\ s[4] = "finish"  BY <2>1
  <2>4. \A i \in 1 .. 4 : i = 1 \/ i = 2 \/ i = 3 \/ i = 4  OBVIOUS
  <2>5. StepsOf(c) = s  BY <1>8, <2>1, StepsByKind
  <2>6. \A i, j \in 1 .. 4 : s[i] = s[j] => i = j  BY <2>3, <2>4
  <2>7. \A i \in 1 .. 4 : s[i] \notin {"idle", "save", "unregister", "references", "finalize"}  BY <2>3, <2>4
  <2> QED  BY <2>2, <2>5, <2>6, <2>7, Zenon
<1>9. CASE Kind(c) = "IngestorCluster"
  <2>1. PICK s : s = <<"move", "update", "finish", "register">>  OBVIOUS
  <2>2. s \in Seq(Steps) /\ Len(s) = 4 /\ Len(s) \in Nat  BY <2>1 DEF Steps
  <2>3. s[1] = "move" /\ s[2] = "update" /\ s[3] = "finish" /\ s[4] = "register"  BY <2>1
  <2>4. \A i \in 1 .. 4 : i = 1 \/ i = 2 \/ i = 3 \/ i = 4  OBVIOUS
  <2>5. StepsOf(c) = s  BY <1>9, <2>1, StepsByKind
  <2>6. \A i, j \in 1 .. 4 : s[i] = s[j] => i = j  BY <2>3, <2>4
  <2>7. \A i \in 1 .. 4 : s[i] \notin {"idle", "save", "unregister", "references", "finalize"}  BY <2>3, <2>4
  <2> QED  BY <2>2, <2>5, <2>6, <2>7, Zenon
<1> QED  BY <1>1, <1>2, <1>3, <1>4, <1>5, <1>6, <1>7, <1>8, <1>9, KindType

\* After step k comes the first later one that is not passed over.
LEMMA NextStepIs ==
  ASSUME dep \in Deployments, NEW c \in CRs, NEW step, NEW k \in 0 .. Len(StepsOf(c)),
         IF k = 0 THEN step = "idle" ELSE step = StepsOf(c)[k]
  PROVE  \/ /\ NextStep(c, step) = "save"
            /\ \A j \in k + 1 .. Len(StepsOf(c)) : Skipped(c, StepsOf(c)[j])
         \/ \E i \in k + 1 .. Len(StepsOf(c)) :
              /\ NextStep(c, step) = StepsOf(c)[i]
              /\ \A j \in k + 1 .. i - 1 : Skipped(c, StepsOf(c)[j])
<1> DEFINE all == Append(StepsOf(c), "save")
           n == Len(StepsOf(c))
           from == IF step = "idle" THEN 1 ELSE 1 + CHOOSE i \in 1 .. Len(all) : all[i] = step
           First(i) == /\ ~Skipped(c, all[i])
                       /\ \A j \in from .. i - 1 : Skipped(c, all[j])
<1>1. /\ StepsOf(c) \in Seq(Steps) /\ n \in Nat
      /\ \A i, j \in 1 .. n : StepsOf(c)[i] = StepsOf(c)[j] => i = j
      /\ \A i \in 1 .. n : StepsOf(c)[i] \notin {"idle", "save", "unregister", "references", "finalize"}
  BY StepsAreDistinct
<1>2. Len(all) = n + 1 /\ all[n + 1] = "save" /\ \A i \in 1 .. n : all[i] = StepsOf(c)[i]
  BY <1>1
<1> HIDE DEF all, n
<1>3. from = k + 1
  <2>1. CASE k = 0  BY <2>1
  <2>2. CASE k # 0
    <3>1. k \in 1 .. n  BY <1>1, <2>2 DEF n
    <3>2. step = StepsOf(c)[k] /\ step # "idle" /\ step # "save"  BY <1>1, <2>2, <3>1
    <3>3. \A i \in 1 .. n + 1 : all[i] = step => i = k  BY <1>1, <1>2, <3>1, <3>2
    <3>4. all[k] = step /\ k \in 1 .. Len(all)  BY <1>1, <1>2, <3>1, <3>2
    <3>5. (CHOOSE i \in 1 .. Len(all) : all[i] = step) = k  BY <1>2, <3>3, <3>4
    <3>6. from = 1 + k  BY <3>2, <3>5
    <3> QED  BY <3>1, <3>6
  <2> QED  BY <2>1, <2>2
<1>4. \E i \in from .. Len(all) : First(i)
  <2> DEFINE T == {i \in from .. Len(all) : ~Skipped(c, all[i])}
  <2>1. n + 1 \in T
    <3>1. ~Skipped(c, "save")  BY DEF Skipped
    <3>2. n + 1 \in from .. Len(all)  BY <1>1, <1>2, <1>3 DEF n
    <3> QED  BY <1>2, <3>1, <3>2
  <2>2. T \in SUBSET Nat
    <3>1. k \in Nat  BY <1>1 DEF n
    <3>2. k + 1 .. n + 1 \subseteq Nat  BY <1>1, <3>1
    <3>3. from .. Len(all) = k + 1 .. n + 1  BY <1>2, <1>3
    <3> QED  BY <3>2, <3>3
  <2>3. PICK x \in T : \A y \in T : x <= y  BY <2>1, <2>2, LeastNumber
  <2>4. ASSUME NEW j \in from .. x - 1 PROVE Skipped(c, all[j])
    <3>1. j \in from .. Len(all) /\ ~(x <= j)  BY <1>1, <1>2, <1>3, <2>2, <2>3
    <3>2. j \notin T  BY <2>3, <3>1
    <3> QED  BY <3>1, <3>2
  <2> QED  BY <2>3, <2>4
<1>5. PICK i \in from .. Len(all) : First(i) /\ NextStep(c, step) = all[i]
  <2>1. NextStep(c, step) = all[CHOOSE i \in from .. Len(all) : First(i)]  BY DEF NextStep, all, n
  <2> HIDE DEF First, from
  <2> QED  BY <1>4, <2>1
<1> HIDE DEF from
<1>6. \A j \in k + 1 .. i - 1 : j \in 1 .. n /\ Skipped(c, StepsOf(c)[j])
  <2>1. i \in Nat /\ k \in Nat /\ i <= n + 1  BY <1>1, <1>2, <1>3, <1>5
  <2>2. \A j \in k + 1 .. i - 1 : j \in 1 .. n  BY <1>1, <2>1
  <2>3. \A j \in k + 1 .. i - 1 : Skipped(c, all[j])  BY <1>3, <1>5
  <2> QED  BY <1>2, <2>2, <2>3
<1>7. CASE i = n + 1  BY <1>1, <1>2, <1>5, <1>6, <1>7 DEF n
<1>8. CASE i # n + 1
  <2>1. i \in k + 1 .. n /\ i \in 1 .. n  BY <1>1, <1>2, <1>3, <1>5, <1>8
  <2> QED  BY <1>2, <1>5, <1>6, <2>1 DEF n
<1> QED  BY <1>7, <1>8

\* The next step of a reconcile is one of its own.
LEMMA OwnNext ==
  ASSUME dep \in Deployments, NEW c \in CRs, NEW step, OwnStep(c, step),
         step \notin {"unregister", "references", "finalize", "save"}
  PROVE  OwnStep(c, NextStep(c, step))
<1>1. Len(StepsOf(c)) \in Nat  BY StepsAreDistinct
<1>2. PICK k \in 0 .. Len(StepsOf(c)) : IF k = 0 THEN step = "idle" ELSE step = StepsOf(c)[k]
  <2>1. CASE step = "idle"  BY <1>1, <2>1
  <2>2. CASE step # "idle"
    <3>1. PICK i \in 1 .. Len(StepsOf(c)) : step = StepsOf(c)[i]  BY <2>2 DEF OwnStep
    <3>2. i \in 0 .. Len(StepsOf(c)) /\ i # 0  BY <1>1, <3>1
    <3> QED  BY <3>1, <3>2
  <2> QED  BY <2>1, <2>2
<1>3. \/ NextStep(c, step) = "save"
      \/ \E i \in k + 1 .. Len(StepsOf(c)) : NextStep(c, step) = StepsOf(c)[i]
  BY <1>2, NextStepIs
<1>4. k + 1 .. Len(StepsOf(c)) \subseteq 1 .. Len(StepsOf(c))  BY <1>1
<1> QED  BY <1>3, <1>4 DEF OwnStep

\* A wait is passed over only as Skipped says, and nothing comes back to a wait
\* once the StatefulSet has been applied.
WaitsAreKept(c, step, next) ==
  /\ (AfterLicense(c, next) /\ ~AfterLicense(c, step) /\ step # "license") => Skipped(c, "license")
  /\ (AfterManager(c, next) /\ ~AfterManager(c, step) /\ step # "manager") => Skipped(c, "manager")
  /\ step \in {"update", "register", "finish", "wake"} => ~AfterLicense(c, next)
  /\ (Kind(c) = "SearchHeadCluster" /\ next \in {"move", "update"}) => step \in {"deployer", "move"}

LEMMA WaitsInOrder ==
  ASSUME dep \in Deployments, NEW c \in CRs, Kind(c) \in WaitForLicense,
         NEW step, OwnStep(c, step), step \notin {"unregister", "references", "finalize", "save"}
  PROVE  WaitsAreKept(c, step, NextStep(c, step))
<1> DEFINE next == NextStep(c, step)
<1>1. Len(StepsOf(c)) \in Nat  BY StepsAreDistinct
<1>2. PICK k \in 0 .. Len(StepsOf(c)) : IF k = 0 THEN step = "idle" ELSE step = StepsOf(c)[k]
  <2>1. CASE step = "idle"  BY <1>1, <2>1
  <2>2. CASE step # "idle"
    <3>1. PICK i \in 1 .. Len(StepsOf(c)) : step = StepsOf(c)[i]  BY <2>2 DEF OwnStep
    <3>2. i \in 0 .. Len(StepsOf(c)) /\ i # 0  BY <1>1, <3>1
    <3> QED  BY <3>1, <3>2
  <2> QED  BY <2>1, <2>2
<1>3. \/ next = "save"
      \/ \E i \in k + 1 .. Len(StepsOf(c)) :
           /\ next = StepsOf(c)[i]
           /\ \A j \in k + 1 .. i - 1 : Skipped(c, StepsOf(c)[j])
  BY <1>2, NextStepIs
<1> HIDE DEF next
<1>4. next = "save" => WaitsAreKept(c, step, next)  BY DEF WaitsAreKept, AfterLicense, AfterManager
<1>5. SUFFICES ASSUME NEW i \in k + 1 .. Len(StepsOf(c)), next = StepsOf(c)[i],
                      \A j \in k + 1 .. i - 1 : Skipped(c, StepsOf(c)[j])
               PROVE  WaitsAreKept(c, step, next)
  BY <1>3, <1>4 DEF next
<1>6. k \in Nat /\ i \in Nat /\ k < i  BY <1>1
<1>7. CASE Kind(c) = "ClusterManager"
  <2>1. PICK s : s = <<"move", "license", "update", "register", "wake">>  OBVIOUS
  <2>2. StepsOf(c) = s /\ Len(s) = 5  BY <1>7, <2>1, StepsByKind
  <2>3. s[1] = "move" /\ s[2] = "license" /\ s[3] = "update" /\ s[4] = "register" /\ s[5] = "wake"
    BY <2>1
  <2>4. (i = 1 \/ i = 2 \/ i = 3 \/ i = 4 \/ i = 5)
        /\ (k = 0 \/ k = 1 \/ k = 2 \/ k = 3 \/ k = 4)
    BY <1>5, <1>6, <2>2
  <2>5. next = s[i] /\ (k = 0 => step = "idle") /\ (k # 0 => step = s[k])  BY <1>2, <1>5, <2>2
  <2>6. k < 2 /\ 2 < i => Skipped(c, "license")
    <3>1. k < 2 /\ 2 < i => 2 \in k + 1 .. i - 1  BY <1>6
    <3> QED  BY <1>5, <2>2, <2>3, <3>1
  <2> HIDE DEF next
  <2> QED  BY <1>6, <1>7, <2>3, <2>4, <2>5, <2>6
    DEF WaitsAreKept, AfterLicense, AfterManager, WaitForLicense, WaitForManager
<1>8. CASE Kind(c) = "MonitoringConsole"
  <2>1. PICK s : s = <<"read", "license", "manager", "others", "update">>  OBVIOUS
  <2>2. StepsOf(c) = s /\ Len(s) = 5  BY <1>8, <2>1, StepsByKind
  <2>3. s[1] = "read" /\ s[2] = "license" /\ s[3] = "manager" /\ s[4] = "others" /\ s[5] = "update"  BY <2>1
  <2>4. (i = 1 \/ i = 2 \/ i = 3 \/ i = 4 \/ i = 5)
        /\ (k = 0 \/ k = 1 \/ k = 2 \/ k = 3 \/ k = 4)
    BY <1>5, <1>6, <2>2
  <2>5. next = s[i] /\ (k = 0 => step = "idle") /\ (k # 0 => step = s[k])  BY <1>2, <1>5, <2>2
  <2>6. k < 2 /\ 2 < i => Skipped(c, "license")
    <3>1. k < 2 /\ 2 < i => 2 \in k + 1 .. i - 1  BY <1>6
    <3> QED  BY <1>5, <2>2, <2>3, <3>1
  <2>7. k < 3 /\ 3 < i => Skipped(c, "manager")
    <3>1. k < 3 /\ 3 < i => 3 \in k + 1 .. i - 1  BY <1>6
    <3> QED  BY <1>5, <2>2, <2>3, <3>1
  <2> HIDE DEF next
  <2> QED  BY <1>6, <1>8, <2>3, <2>4, <2>5, <2>6, <2>7
    DEF WaitsAreKept, AfterLicense, AfterManager, WaitForLicense, WaitForManager
<1>9. CASE Kind(c) = "SearchHeadCluster"
  <2>1. PICK s : s = <<"license", "manager", "deployer", "move", "update", "register", "finish">>  OBVIOUS
  <2>2. StepsOf(c) = s /\ Len(s) = 7  BY <1>9, <2>1, StepsByKind
  <2>3. s[1] = "license" /\ s[2] = "manager" /\ s[3] = "deployer" /\ s[4] = "move"
        /\ s[5] = "update" /\ s[6] = "register" /\ s[7] = "finish"
    BY <2>1
  <2>4. (i = 1 \/ i = 2 \/ i = 3 \/ i = 4 \/ i = 5 \/ i = 6 \/ i = 7)
        /\ (k = 0 \/ k = 1 \/ k = 2 \/ k = 3 \/ k = 4 \/ k = 5 \/ k = 6)
    BY <1>5, <1>6, <2>2
  <2>5. next = s[i] /\ (k = 0 => step = "idle") /\ (k # 0 => step = s[k])  BY <1>2, <1>5, <2>2
  <2>6. k < 1 /\ 1 < i => Skipped(c, "license")
    <3>1. k < 1 /\ 1 < i => 1 \in k + 1 .. i - 1  BY <1>6
    <3> QED  BY <1>5, <2>2, <2>3, <3>1
  <2>7. k < 2 /\ 2 < i => Skipped(c, "manager")
    <3>1. k < 2 /\ 2 < i => 2 \in k + 1 .. i - 1  BY <1>6
    <3> QED  BY <1>5, <2>2, <2>3, <3>1
  <2>8. ~(k < 3 /\ 3 < i)
    <3>1. k < 3 /\ 3 < i => 3 \in k + 1 .. i - 1  BY <1>6
    <3>2. ~Skipped(c, "deployer")  BY DEF Skipped
    <3> QED  BY <1>5, <2>2, <2>3, <3>1, <3>2
  <2> HIDE DEF next
  <2> QED  BY <1>6, <1>9, <2>3, <2>4, <2>5, <2>6, <2>7, <2>8
    DEF WaitsAreKept, AfterLicense, AfterManager, WaitForLicense, WaitForManager
<1>10. CASE Kind(c) = "IndexerCluster"
  <2>1. PICK s : s = <<"license", "manager", "delete9", "update", "finish">>  OBVIOUS
  <2>2. StepsOf(c) = s /\ Len(s) = 5  BY <1>10, <2>1, StepsByKind
  <2>3. s[1] = "license" /\ s[2] = "manager" /\ s[3] = "delete9"
        /\ s[4] = "update" /\ s[5] = "finish"
    BY <2>1
  <2>4. (i = 1 \/ i = 2 \/ i = 3 \/ i = 4 \/ i = 5)
        /\ (k = 0 \/ k = 1 \/ k = 2 \/ k = 3 \/ k = 4)
    BY <1>5, <1>6, <2>2
  <2>5. next = s[i] /\ (k = 0 => step = "idle") /\ (k # 0 => step = s[k])  BY <1>2, <1>5, <2>2
  <2>6. k < 1 /\ 1 < i => Skipped(c, "license")
    <3>1. k < 1 /\ 1 < i => 1 \in k + 1 .. i - 1  BY <1>6
    <3> QED  BY <1>5, <2>2, <2>3, <3>1
  <2>7. k < 2 /\ 2 < i => Skipped(c, "manager")
    <3>1. k < 2 /\ 2 < i => 2 \in k + 1 .. i - 1  BY <1>6
    <3> QED  BY <1>5, <2>2, <2>3, <3>1
  <2> HIDE DEF next
  <2> QED  BY <1>6, <1>10, <2>3, <2>4, <2>5, <2>6, <2>7
    DEF WaitsAreKept, AfterLicense, AfterManager, WaitForLicense, WaitForManager
<1> QED  BY <1>7, <1>8, <1>9, <1>10 DEF WaitForLicense

----------------------------------------------------------------------------
(* What never changes, and what goes                                        *)

LEMMA DepIsKept ==
  ASSUME [Next]_vars PROVE dep' = dep /\ CRs' = CRs /\ SetNames' = SetNames /\ SearchHeads' = SearchHeads
<1>1. dep' = dep
  BY DEF Next, Reconciling, Begin, ReadConfigMap, MoveConsole, WaitForLicenseManager, WaitForClusterManager,
         WaitForOthers, UpdateDeployer, DeleteSetForNine, Update, Register, Finish, Wake, Unregister, CheckReferences, Finalize,
         Save, At, ApiFails, UserChanges, Observe, StartPods, PodFails, Crash, Upgrade, vars
<1> QED  BY <1>1 DEF CRs, SetNames, SearchHeads, Kind, Deployer

\* Resources only go, one at a time, at the end of their deletion.
LEMMA LiveStep ==
  ASSUME [Next]_vars
  PROVE  \/ live' = live
         \/ \E c \in CRs : Finalize(c) /\ live' = live \ {c}
  BY DEF Next, Reconciling, Begin, ReadConfigMap, MoveConsole, WaitForLicenseManager, WaitForClusterManager,
         WaitForOthers, UpdateDeployer, DeleteSetForNine, Update, Register, Finish, Wake, Unregister, CheckReferences, Finalize,
         Save, At, ApiFails, UserChanges, Observe, StartPods, PodFails, Crash, Upgrade, vars

LEMMA RefsAreNames ==
  ASSUME dep \in Deployments, NEW c \in CRs
  PROVE  /\ None \notin CRs
         /\ LicenseManagerRef(c) \in CRs \cup {None} /\ ClusterManagerRef(c) \in CRs \cup {None}
         /\ LicenseManagerRef(c) # None => Kind(LicenseManagerRef(c)) = "LicenseManager"
         /\ ClusterManagerRef(c) # None => Kind(ClusterManagerRef(c)) = "ClusterManager"
<1>1. IsDeployment(dep)  BY ReconcileAssumption
<1> QED  BY <1>1 DEF IsDeployment, CRs, LicenseManagerRef, ClusterManagerRef, Kind

----------------------------------------------------------------------------
(* What the actions do to what the upgrade path reads                       *)

\* The reconcile of c goes to another step; the other ones stay where they are.
GoesTo(c, new) ==
  /\ rec' = [d \in CRs |-> rec'[d]] /\ \A d \in CRs \ {c} : rec'[d] = rec[d]
  /\ RecordShape(rec'[c]) /\ rec'[c].at = new /\ rec'[c].spec = rec[c].spec

LEMMA RecMoves ==
  ASSUME Shape, NEW c \in CRs, NEW new, NEW x,
         \/ rec' = [rec EXCEPT ![c].at = new]
         \/ rec' = [rec EXCEPT ![c].at = new, ![c].again = x]
         \/ rec' = [rec EXCEPT ![c].again = x, ![c].at = new]
         \/ rec' = [rec EXCEPT ![c].rev = x, ![c].at = new]
         \/ rec' = [rec EXCEPT ![c].ready = x, ![c].at = new]
  PROVE  GoesTo(c, new)
<1>1. rec = [d \in CRs |-> rec[d]] /\ RecordShape(rec[c])  BY DEF Shape
<1>2. rec' = [d \in CRs |-> rec'[d]] /\ \A d \in CRs \ {c} : rec'[d] = rec[d]  BY <1>1
<1>3. PICK at, sp, manager, rev, rdy, again :
        rec[c] = [at |-> at, spec |-> sp, manager |-> manager, rev |-> rev, ready |-> rdy, again |-> again]
  BY <1>1 DEF RecordShape
<1>4. rec[c].spec = sp  BY <1>3
<1>6. \E manager1, rev1, rdy1, again1 :
        rec'[c] = [at |-> new, spec |-> sp, manager |-> manager1, rev |-> rev1, ready |-> rdy1, again |-> again1]
  <2>1. CASE rec' = [rec EXCEPT ![c].at = new]
    <3>1. rec'[c] = [rec[c] EXCEPT !.at = new]  BY <1>1, <2>1
    <3>2. rec'[c] = [at |-> new, spec |-> sp, manager |-> manager, rev |-> rev, ready |-> rdy, again |-> again]
      BY <1>3, <3>1
    <3> QED  BY <3>2, Zenon
  <2>2. CASE rec' = [rec EXCEPT ![c].at = new, ![c].again = x]
    <3>1. PICK r : r = [rec[c] EXCEPT !.at = new]  OBVIOUS
    <3>2. r = [at |-> new, spec |-> sp, manager |-> manager, rev |-> rev, ready |-> rdy, again |-> again]  BY <1>3, <3>1
    <3>3. rec'[c] = [r EXCEPT !.again = x]  BY <1>1, <2>2, <3>1
    <3>4. rec'[c] = [at |-> new, spec |-> sp, manager |-> manager, rev |-> rev, ready |-> rdy, again |-> x]
      BY <3>2, <3>3
    <3> QED  BY <3>4, Zenon
  <2>3. CASE rec' = [rec EXCEPT ![c].again = x, ![c].at = new]
    <3>1. PICK r : r = [rec[c] EXCEPT !.again = x]  OBVIOUS
    <3>2. r = [at |-> at, spec |-> sp, manager |-> manager, rev |-> rev, ready |-> rdy, again |-> x]  BY <1>3, <3>1
    <3>3. rec'[c] = [r EXCEPT !.at = new]  BY <1>1, <2>3, <3>1
    <3>4. rec'[c] = [at |-> new, spec |-> sp, manager |-> manager, rev |-> rev, ready |-> rdy, again |-> x]
      BY <3>2, <3>3
    <3> QED  BY <3>4, Zenon
  <2>4. CASE rec' = [rec EXCEPT ![c].rev = x, ![c].at = new]
    <3>1. PICK r : r = [rec[c] EXCEPT !.rev = x]  OBVIOUS
    <3>2. r = [at |-> at, spec |-> sp, manager |-> manager, rev |-> x, ready |-> rdy, again |-> again]  BY <1>3, <3>1
    <3>3. rec'[c] = [r EXCEPT !.at = new]  BY <1>1, <2>4, <3>1
    <3>4. rec'[c] = [at |-> new, spec |-> sp, manager |-> manager, rev |-> x, ready |-> rdy, again |-> again]
      BY <3>2, <3>3
    <3> QED  BY <3>4, Zenon
  <2>5. CASE rec' = [rec EXCEPT ![c].ready = x, ![c].at = new]
    <3>1. PICK r : r = [rec[c] EXCEPT !.ready = x]  OBVIOUS
    <3>2. r = [at |-> at, spec |-> sp, manager |-> manager, rev |-> rev, ready |-> x, again |-> again]  BY <1>3, <3>1
    <3>3. rec'[c] = [r EXCEPT !.at = new]  BY <1>1, <2>5, <3>1
    <3>4. rec'[c] = [at |-> new, spec |-> sp, manager |-> manager, rev |-> rev, ready |-> x, again |-> again]
      BY <3>2, <3>3
    <3> QED  BY <3>4, Zenon
  <2> QED  BY <2>1, <2>2, <2>3, <2>4, <2>5
<1>7. RecordShape(rec'[c]) /\ rec'[c].at = new /\ rec'[c].spec = sp  BY <1>6 DEF RecordShape
<1> QED  BY <1>2, <1>4, <1>7 DEF GoesTo

\* The names of the StatefulSets.
LEMMA NamesOfSets ==
  ASSUME NEW c \in CRs
  PROVE  /\ Main(c) \in SetNames /\ (c \in SearchHeads => Deployer(c) \in SetNames)
         /\ \A d : (Main(d) = Main(c) => d = c) /\ Main(d) # Deployer(c) /\ (Deployer(d) = Deployer(c) => d = c)
  BY DEF Main, Deployer, SetNames

LEMMA MainIsDeployed ==
  ASSUME OrderInv, NEW c \in CRs, sets[Main(c)].image # 0 PROVE Deployed(c)
  BY DEF OrderInv, DeployerIsFirst, Deployed

\* A wait that is passed over does not matter to the StatefulSet.
LEMMA SkippedIsFree ==
  ASSUME OrderInv, NEW c \in CRs, sets[Main(c)].image # 0
  PROVE  /\ Skipped(c, "license") => LicenseManagerRef(c) \notin live
         /\ Skipped(c, "manager") => ClusterManagerRef(c) \notin live
<1>1. Deployed(c)  BY MainIsDeployed
<1>2. None \notin live  BY RefsAreNames DEF OrderInv, Shape
<1> QED  BY <1>1, <1>2 DEF Skipped

\* What has gone wrong is not forgotten.
FaultsGrow == faults' = faults \/ \E k \in Faults : faults' = Append(faults, k)

LEMMA FaultsStay ==
  ASSUME Shape, FaultsGrow
  PROVE  faults' \in Seq(Faults) /\ (Happened("get", faults) => Happened("get", faults'))
<1>1. faults \in Seq(Faults)  BY DEF Shape
<1>2. CASE faults' = faults  BY <1>1, <1>2
<1>3. ASSUME NEW k \in Faults, faults' = Append(faults, k)
      PROVE  faults' \in Seq(Faults) /\ (Happened("get", faults) => Happened("get", faults'))
  <2>1. faults' \in Seq(Faults) /\ Len(faults') = Len(faults) + 1 /\ Len(faults) \in Nat  BY <1>1, <1>3
  <2>2. \A i \in 1 .. Len(faults) : faults'[i] = faults[i] /\ i \in 1 .. Len(faults')  BY <1>1, <1>3, <2>1
  <2> QED  BY <2>1, <2>2 DEF Happened
<1> QED  BY <1>2, <1>3 DEF FaultsGrow

\* A reconcile may go on: to its end, or to the next step with its wait over.
Allowed(c, new) ==
  \/ new \in {"save", "references", "finalize"}
  \/ new = "register" /\ OwnStep(c, "register")
  \/ /\ new = NextStep(c, rec[c].at) /\ rec[c].at \notin {"unregister", "references", "finalize", "save"}
     /\ rec[c].at = "license" =>
          (LicenseManagerRef(c) \in live => sets[Main(LicenseManagerRef(c))].image = rec[c].spec.image)
     /\ rec[c].at = "manager" =>
          (ClusterManagerRef(c) \in live =>
             sets[Main(ClusterManagerRef(c))].image = rec[c].spec.image \/ Happened("get", faults'))

LEMMA AllowedIsOwn ==
  ASSUME OrderInv, NEW c \in CRs, NEW new, Allowed(c, new) PROVE OwnStep(c, new)
<1>1. OwnStep(c, rec[c].at) /\ dep \in Deployments  BY DEF OrderInv, StepsAreOwn, Shape
<1>2. OwnStep(c, "save") /\ OwnStep(c, "references") /\ OwnStep(c, "finalize")  BY DEF OwnStep
<1> QED  BY <1>1, <1>2, OwnNext DEF Allowed

\* The waits of a reconcile that is allowed to go on are over.
LEMMA AllowedIsChecked ==
  ASSUME OrderInv, FaultsGrow, NEW c \in CRs, NEW new, Allowed(c, new)
  PROVE  /\ (AfterLicense(c, new) /\ sets[Main(c)].image # 0 /\ LicenseManagerRef(c) \in live)
              => sets[Main(LicenseManagerRef(c))].image = rec[c].spec.image
         /\ (AfterManager(c, new) /\ sets[Main(c)].image # 0 /\ ClusterManagerRef(c) \in live)
              => (sets[Main(ClusterManagerRef(c))].image = rec[c].spec.image \/ Happened("get", faults'))
         /\ rec[c].at = "update" => ~AfterLicense(c, new) /\ ~AfterManager(c, new)
         /\ (c \in SearchHeads /\ new \in {"move", "update"}) => rec[c].at \in {"deployer", "move"}
<1>1. CASE new \in {"save", "references", "finalize", "register"}
  BY <1>1 DEF AfterLicense, AfterManager
<1>2. CASE Kind(c) \notin WaitForLicense
  BY <1>2 DEF AfterLicense, AfterManager, WaitForLicense, WaitForManager, SearchHeads
<1>3. CASE new \notin {"save", "references", "finalize", "register"} /\ Kind(c) \in WaitForLicense
  <2>1. /\ new = NextStep(c, rec[c].at) /\ rec[c].at \notin {"unregister", "references", "finalize", "save"}
        /\ rec[c].at = "license" =>
             (LicenseManagerRef(c) \in live => sets[Main(LicenseManagerRef(c))].image = rec[c].spec.image)
        /\ rec[c].at = "manager" =>
             (ClusterManagerRef(c) \in live =>
                sets[Main(ClusterManagerRef(c))].image = rec[c].spec.image \/ Happened("get", faults'))
    BY <1>3 DEF Allowed
  <2>2. WaitsAreKept(c, rec[c].at, new)
    BY <1>3, <2>1, WaitsInOrder DEF OrderInv, StepsAreOwn, Shape
  <2>3. (AfterLicense(c, new) /\ sets[Main(c)].image # 0 /\ LicenseManagerRef(c) \in live)
          => sets[Main(LicenseManagerRef(c))].image = rec[c].spec.image
    BY <2>1, <2>2, SkippedIsFree DEF WaitsAreKept, OrderInv, LicenseFirst
  <2>4. (AfterManager(c, new) /\ sets[Main(c)].image # 0 /\ ClusterManagerRef(c) \in live)
          => (sets[Main(ClusterManagerRef(c))].image = rec[c].spec.image \/ Happened("get", faults'))
    BY <2>1, <2>2, SkippedIsFree, FaultsStay DEF WaitsAreKept, OrderInv, ManagerFirst
  <2>5. AfterManager(c, new) => AfterLicense(c, new)
    BY DEF AfterManager, AfterLicense, WaitForManager, WaitForLicense
  <2> QED  BY <2>2, <2>3, <2>4, <2>5 DEF WaitsAreKept, SearchHeads
<1> QED  BY <1>1, <1>2, <1>3

\* What a step of the reconcile of c may do to the StatefulSets.
SetsMove(c) ==
  /\ sets' = [s \in SetNames |-> sets'[s]] /\ \A s \in SetNames : sets'[s].image \in Nat
  /\ \A d \in CRs \ {c} : sets'[Main(d)] = sets[Main(d)]
  /\ \A d \in SearchHeads \ {c} : sets'[Deployer(d)] = sets[Deployer(d)]
  /\ \/ sets'[Main(c)].image = sets[Main(c)].image
     \/ rec[c].at = "update" /\ sets'[Main(c)].image = rec[c].spec.image
     \/ rec[c].at = "delete9" /\ Kind(c) = "IndexerCluster" /\ sets'[Main(c)].image = 0
  /\ /\ c \in SearchHeads
     /\ sets[Deployer(c)].image # 0 \/ (rec[c].at = "deployer" /\ rec'[c].at \in {"move", "update"})
     => sets'[Deployer(c)].image # 0

\* A step of a reconcile that keeps to this keeps the order.
LEMMA OrderedStep ==
  ASSUME OrderInv, NEW c \in CRs, NEW new, rec[c].at # "idle", GoesTo(c, new), Allowed(c, new), SetsMove(c),
         FaultsGrow, UNCHANGED <<dep, live, spec>>
  PROVE  OrderInv'
<1>1. CRs' = CRs /\ SetNames' = SetNames /\ SearchHeads' = SearchHeads
  BY DEF CRs, SetNames, SearchHeads, Kind, Deployer
<1>2. \A d : /\ LicenseManagerRef(d)' = LicenseManagerRef(d) /\ ClusterManagerRef(d)' = ClusterManagerRef(d)
             /\ Kind(d)' = Kind(d) /\ StepsOf(d)' = StepsOf(d)
  BY DEF LicenseManagerRef, ClusterManagerRef, Kind, StepsOf
<1>3. /\ dep \in Deployments /\ live \subseteq CRs /\ spec \in [CRs -> SpecOfUser]
      /\ \A d \in CRs : RecordShape(rec[d]) /\ rec[d].spec \in SpecOfUser
  BY DEF OrderInv, Shape
<1>4. Shape'
  <2>1. faults' \in Seq(Faults)  BY FaultsStay DEF OrderInv
  <2>2. \A d \in CRs : RecordShape(rec'[d]) /\ rec'[d].spec \in SpecOfUser  BY <1>3 DEF GoesTo
  <2> QED  BY <1>1, <1>3, <2>1, <2>2 DEF Shape, GoesTo, SetsMove, RecordShape
<1>5. StepsAreOwn'
  <2>1. \A d \in CRs : OwnStep(d, rec'[d].at)  BY AllowedIsOwn DEF GoesTo, OrderInv, StepsAreOwn
  <2> QED  BY <1>1, <1>2, <2>1 DEF StepsAreOwn, OwnStep
<1>6. OneImage'
  <2>1. \A d \in CRs : rec'[d].at # "idle" => rec[d].at # "idle" /\ rec'[d].spec = rec[d].spec  BY DEF GoesTo
  <2> QED  BY <1>1, <2>1 DEF OneImage, OrderInv
<1>7. DeployerIsFirst'
  <2> SUFFICES ASSUME NEW d \in SearchHeads, sets'[Main(d)].image # 0 \/ rec'[d].at \in {"move", "update"}
               PROVE  sets'[Deployer(d)].image # 0
    BY <1>1 DEF DeployerIsFirst, Main, Deployer
  <2>1. d \in CRs  BY DEF SearchHeads
  <2>2. CASE d # c  BY <2>1, <2>2 DEF SetsMove, GoesTo, OrderInv, DeployerIsFirst
  <2>3. CASE d = c
    <3>1. rec[c].at = "delete9" => Kind(c) # "SearchHeadCluster" \/ sets'[Main(c)].image = sets[Main(c)].image
      BY DEF SetsMove
    <3>2. sets[Main(c)].image # 0 \/ rec[c].at \in {"update", "deployer", "move"}
      <4>1. CASE rec'[d].at \in {"move", "update"}
        BY <2>3, <4>1, AllowedIsChecked DEF GoesTo
      <4>2. CASE sets'[Main(d)].image # 0  BY <2>3, <4>2 DEF SetsMove
      <4> QED  BY <4>1, <4>2
    <3>3. sets[Deployer(c)].image # 0 \/ (rec[c].at = "deployer" /\ rec'[c].at \in {"move", "update"})
      BY <2>3, <3>2 DEF OrderInv, DeployerIsFirst, SetsMove
    <3> QED  BY <2>3, <3>3 DEF SetsMove
  <2> QED  BY <2>2, <2>3
<1>8. ASSUME NEW d \in CRs, d # c, NEW r \in live, rec[d].at # "idle",
             sets[Main(r)].image = rec[d].spec.image, Kind(r) # "IndexerCluster"
      PROVE  sets'[Main(r)].image = rec'[d].spec.image
  <2>1. r \in CRs /\ rec'[d].spec = rec[d].spec  BY <1>3, <1>8 DEF GoesTo
  <2>2. rec[d].spec.image = rec[c].spec.image  BY <1>8 DEF OrderInv, OneImage
  <2> QED  BY <1>8, <2>1, <2>2 DEF SetsMove
<1>9. LicenseFirst'
  <2> SUFFICES ASSUME NEW d \in CRs, AfterLicense(d, rec'[d].at), sets'[Main(d)].image # 0,
                      LicenseManagerRef(d) \in live
               PROVE  sets'[Main(LicenseManagerRef(d))].image = rec'[d].spec.image
    BY <1>1, <1>2 DEF LicenseFirst, AfterLicense, Main
  <2>1. None \notin CRs /\ LicenseManagerRef(d) \in CRs /\ Kind(LicenseManagerRef(d)) = "LicenseManager"
    BY <1>3, RefsAreNames
  <2>2. CASE d # c
    <3>1. rec'[d] = rec[d] /\ sets'[Main(d)] = sets[Main(d)]  BY <2>2 DEF GoesTo, SetsMove
    <3>2. sets[Main(LicenseManagerRef(d))].image = rec[d].spec.image  BY <3>1 DEF OrderInv, LicenseFirst
    <3>3. rec[d].at # "idle"  BY <3>1 DEF AfterLicense
    <3> QED  BY <1>8, <2>1, <2>2, <3>2, <3>3
  <2>3. CASE d = c
    <3>1. AfterLicense(c, new) /\ rec'[c].spec = rec[c].spec  BY <2>3 DEF GoesTo
    <3>2. rec[c].at # "update"  BY <3>1, AllowedIsChecked
    <3>3. sets[Main(c)].image # 0  BY <2>3, <3>2 DEF SetsMove
    <3>4. sets[Main(LicenseManagerRef(c))].image = rec[c].spec.image  BY <2>3, <3>1, <3>3, AllowedIsChecked
    <3>5. LicenseManagerRef(c) # c  BY <2>1, <2>3, <3>1 DEF AfterLicense, WaitForLicense
    <3>6. sets'[Main(LicenseManagerRef(c))] = sets[Main(LicenseManagerRef(c))]  BY <2>1, <2>3, <3>5 DEF SetsMove
    <3> QED  BY <2>3, <3>1, <3>4, <3>6
  <2> QED  BY <2>2, <2>3
<1>10. ManagerFirst'
  <2> SUFFICES ASSUME NEW d \in CRs, AfterManager(d, rec'[d].at), sets'[Main(d)].image # 0,
                      ClusterManagerRef(d) \in live, ~Happened("get", faults')
               PROVE  sets'[Main(ClusterManagerRef(d))].image = rec'[d].spec.image
    BY <1>1, <1>2 DEF ManagerFirst, AfterManager, Main, Happened
  <2>1. None \notin CRs /\ ClusterManagerRef(d) \in CRs /\ Kind(ClusterManagerRef(d)) = "ClusterManager"
    BY <1>3, RefsAreNames
  <2>2. CASE d # c
    <3>1. rec'[d] = rec[d] /\ sets'[Main(d)] = sets[Main(d)]  BY <2>2 DEF GoesTo, SetsMove
    <3>2. ~Happened("get", faults)  BY FaultsStay DEF OrderInv
    <3>3. sets[Main(ClusterManagerRef(d))].image = rec[d].spec.image  BY <3>1, <3>2 DEF OrderInv, ManagerFirst
    <3>4. rec[d].at # "idle"  BY <3>1 DEF AfterManager
    <3> QED  BY <1>8, <2>1, <2>2, <3>3, <3>4
  <2>3. CASE d = c
    <3>1. AfterManager(c, new) /\ rec'[c].spec = rec[c].spec  BY <2>3 DEF GoesTo
    <3>2. rec[c].at # "update"  BY <3>1, AllowedIsChecked
    <3>3. sets[Main(c)].image # 0  BY <2>3, <3>2 DEF SetsMove
    <3>4. sets[Main(ClusterManagerRef(c))].image = rec[c].spec.image  BY <2>3, <3>1, <3>3, AllowedIsChecked
    <3>5. ClusterManagerRef(c) # c  BY <2>1, <2>3, <3>1 DEF AfterManager, WaitForManager
    <3>6. sets'[Main(ClusterManagerRef(c))] = sets[Main(ClusterManagerRef(c))]  BY <2>1, <2>3, <3>5 DEF SetsMove
    <3> QED  BY <2>3, <3>1, <3>4, <3>6
  <2> QED  BY <2>2, <2>3
<1> QED  BY <1>4, <1>5, <1>6, <1>7, <1>9, <1>10 DEF OrderInv

----------------------------------------------------------------------------
(* Every action keeps the order                                             *)

LEMMA OrderedInit == ASSUME Init PROVE OrderInv
<1>1. \A c \in CRs : rec[c] = Idle  BY DEF Init
<1>2. \A c \in CRs : rec[c].at = "idle"  BY <1>1 DEF Idle
<1>3. Shape
  <2>1. \A c \in CRs : dep.console[c] \in Consoles \cup {None}
    <3>1. IsDeployment(dep)  BY ReconcileAssumption DEF Init
    <3> QED  BY <3>1 DEF IsDeployment, CRs
  <2>2. spec \in [CRs -> SpecOfUser]  BY <2>1 DEF Init, SpecOfUser, Replicas
  <2>3. \A s \in SetNames : sets[s].image = 0  BY DEF Init, NoSet
  <2>4. RecordShape(Idle) /\ Idle.spec \in SpecOfUser  BY DEF RecordShape, Idle, SpecOfUser, Replicas
  <2>5. faults \in Seq(Faults)  BY DEF Init
  <2> QED  BY <1>1, <2>2, <2>3, <2>4, <2>5 DEF Shape, Init
<1>4. StepsAreOwn  BY <1>2 DEF StepsAreOwn, OwnStep
<1>5. OneImage  BY <1>2 DEF OneImage, Init
<1>6. \A c \in CRs : sets[Main(c)].image = 0
  BY NamesOfSets DEF Init, NoSet
<1>7. DeployerIsFirst /\ LicenseFirst /\ ManagerFirst
  BY <1>2, <1>6 DEF DeployerIsFirst, LicenseFirst, ManagerFirst, SearchHeads
<1> QED  BY <1>3, <1>4, <1>5, <1>7 DEF OrderInv

\* A step that leaves the StatefulSets alone.
LEMMA QuietStep ==
  ASSUME OrderInv, NEW c \in CRs, NEW new, rec[c].at \notin {"idle", "deployer"} \/ new = "save",
         rec[c].at # "idle", GoesTo(c, new), Allowed(c, new), FaultsGrow, UNCHANGED <<dep, live, spec, sets>>
  PROVE  OrderInv'
<1>1. SetsMove(c)
  BY DEF SetsMove, OrderInv, Shape, GoesTo
<1> QED  BY <1>1, OrderedStep

LEMMA ReturnKeeps ==
  ASSUME OrderInv, NEW c \in CRs, rec[c].at # "idle", Return(c), FaultsGrow,
         UNCHANGED <<dep, live, spec, sets>>
  PROVE  OrderInv'
<1>1. GoesTo(c, "save")  BY RecMoves DEF Return, OrderInv
<1>2. Allowed(c, "save")  BY DEF Allowed
<1> QED  BY <1>1, <1>2, QuietStep

\* A step that is not a wait, and goes on.
LEMMA DoneKeeps ==
  ASSUME OrderInv, NEW c \in CRs, Done(c), FaultsGrow, UNCHANGED <<dep, live, spec, sets>>,
         rec[c].at \notin {"idle", "deployer", "license", "manager", "unregister", "references", "finalize", "save"}
  PROVE  OrderInv'
<1>1. GoesTo(c, NextStep(c, rec[c].at))  BY RecMoves DEF Done, OrderInv
<1>2. Allowed(c, NextStep(c, rec[c].at))  BY DEF Allowed
<1> QED  BY <1>1, <1>2, QuietStep

LEMMA ReadConfigMapKeeps ==
  ASSUME OrderInv, NEW c \in CRs, ReadConfigMap(c) PROVE OrderInv'
<1>1. PICK x : x = console'[c].rev  OBVIOUS
<1>2. rec' = [rec EXCEPT ![c].rev = x, ![c].at = NextStep(c, "read")]  BY <1>1 DEF ReadConfigMap
<1>3. GoesTo(c, NextStep(c, "read"))  BY <1>2, RecMoves DEF OrderInv
<1>4. rec[c].at = "read" /\ UNCHANGED <<dep, live, spec, sets>> /\ FaultsGrow
  BY DEF ReadConfigMap, At, Fine, FaultsGrow
<1>5. Allowed(c, NextStep(c, "read"))  BY <1>4 DEF Allowed
<1> QED  BY <1>3, <1>4, <1>5, QuietStep

LEMMA PlainStepsKeep ==
  ASSUME OrderInv, NEW c \in CRs, MoveConsole(c) \/ WaitForOthers(c) \/ Finish(c) \/ Wake(c) PROVE OrderInv'
<1>1. Done(c) \/ Return(c)  BY DEF MoveConsole, WaitForOthers, Finish, Wake
<1>2. FaultsGrow /\ UNCHANGED <<dep, live, spec, sets>>
  BY DEF MoveConsole, WaitForOthers, Finish, Wake, At, Fine, FaultsGrow
<1>3. rec[c].at \in {"move", "others", "finish", "wake"}
  BY DEF MoveConsole, WaitForOthers, Finish, Wake, At
<1> QED  BY <1>1, <1>2, <1>3, DoneKeeps, ReturnKeeps

LEMMA WaitForLicenseManagerKeeps ==
  ASSUME OrderInv, NEW c \in CRs, WaitForLicenseManager(c) PROVE OrderInv'
<1>1. rec[c].at = "license" /\ FaultsGrow /\ UNCHANGED <<dep, live, spec, sets>>
  BY DEF WaitForLicenseManager, At, Fine, FaultsGrow
<1>2. CASE Return(c)  BY <1>1, <1>2, ReturnKeeps
<1>3. CASE Done(c) /\ (LicenseManagerRef(c) \notin live \/ IsUpgraded(c, LicenseManagerRef(c)))
  <2>1. GoesTo(c, NextStep(c, "license"))  BY <1>1, <1>3, RecMoves DEF Done, OrderInv
  <2>2. Allowed(c, NextStep(c, "license"))  BY <1>1, <1>3 DEF Allowed, IsUpgraded
  <2> QED  BY <1>1, <2>1, <2>2, QuietStep
<1> QED  BY <1>2, <1>3 DEF WaitForLicenseManager

LEMMA WaitForClusterManagerKeeps ==
  ASSUME OrderInv, NEW c \in CRs, WaitForClusterManager(c) PROVE OrderInv'
<1>1. rec[c].at = "manager" /\ FaultsGrow /\ UNCHANGED <<dep, live, spec, sets>>
  BY DEF WaitForClusterManager, At, Fine, Fault, FaultsGrow
<1>2. CASE Return(c)  BY <1>1, <1>2, ReturnKeeps
<1>3. CASE /\ Done(c)
           /\ \/ IsUpgraded(c, ClusterManagerRef(c)) \/ ClusterManagerRef(c) \notin live
              \/ Fault("get")
  <2>1. GoesTo(c, NextStep(c, "manager"))  BY <1>1, <1>3, RecMoves DEF Done, OrderInv
  <2>2. Fault("get") => Happened("get", faults')
    <3> SUFFICES ASSUME Fault("get") PROVE Happened("get", faults')  OBVIOUS
    <3>1. faults \in Seq(Faults) /\ "get" \in Faults /\ faults' = Append(faults, "get")
      BY DEF OrderInv, Shape, Fault
    <3>2. Len(faults') = Len(faults) + 1 /\ Len(faults) \in Nat /\ faults'[Len(faults) + 1] = "get"  BY <3>1
    <3>3. Len(faults) + 1 \in 1 .. Len(faults')  BY <3>2
    <3> QED  BY <3>2, <3>3 DEF Happened
  <2>3. Allowed(c, NextStep(c, "manager"))  BY <1>1, <1>3, <2>2 DEF Allowed, IsUpgraded
  <2> QED  BY <1>1, <2>1, <2>3, QuietStep
<1> QED  BY <1>2, <1>3 DEF WaitForClusterManager

LEMMA RegisterKeeps ==
  ASSUME OrderInv, NEW c \in CRs, Register(c) PROVE OrderInv'
<1>1. rec[c].at = "register" /\ FaultsGrow /\ UNCHANGED <<dep, live, spec, sets>>
  BY DEF Register, At, Fine, FaultsGrow
<1>2. PICK new : new = IF rec[c].ready THEN NextStep(c, "register") ELSE "save"  OBVIOUS
<1>3. GoesTo(c, new)
  <2>1. rec' = [rec EXCEPT ![c].at = new]  BY <1>2 DEF Register
  <2> QED  BY <2>1, RecMoves DEF OrderInv
<1>4. Allowed(c, new)  BY <1>1, <1>2 DEF Allowed
<1> QED  BY <1>1, <1>3, <1>4, QuietStep

LEMMA UnregisterKeeps ==
  ASSUME OrderInv, NEW c \in CRs, Unregister(c) PROVE OrderInv'
<1>1. rec[c].at = "unregister" /\ FaultsGrow /\ UNCHANGED <<dep, live, spec, sets>>
  BY DEF Unregister, At, Fine, FaultsGrow
<1>2. PICK new : new = Removal(c)  OBVIOUS
<1>3. GoesTo(c, new)  BY <1>2, RecMoves DEF OrderInv, Unregister
<1>4. Allowed(c, new)  BY <1>2 DEF Allowed, Removal
<1> QED  BY <1>1, <1>3, <1>4, QuietStep

LEMMA CheckReferencesKeeps ==
  ASSUME OrderInv, NEW c \in CRs, CheckReferences(c) PROVE OrderInv'
<1>1. rec[c].at = "references" /\ FaultsGrow /\ UNCHANGED <<dep, live, spec, sets>>
  BY DEF CheckReferences, At, Fine, FaultsGrow
<1>2. CASE Return(c)  BY <1>1, <1>2, ReturnKeeps
<1>3. CASE rec' = [rec EXCEPT ![c].at = "finalize"]
  <2>1. GoesTo(c, "finalize")  BY <1>3, RecMoves DEF OrderInv
  <2>2. Allowed(c, "finalize")  BY DEF Allowed
  <2> QED  BY <1>1, <2>1, <2>2, QuietStep
<1> QED  BY <1>2, <1>3 DEF CheckReferences

LEMMA ApiFailsKeeps ==
  ASSUME OrderInv, NEW c \in CRs, ApiFails(c) PROVE OrderInv'
<1>1. rec[c].at # "idle" /\ FaultsGrow /\ UNCHANGED <<dep, live, spec, sets>> /\ Return(c)
  BY DEF ApiFails, Fault, FaultsGrow
<1> QED  BY <1>1, ReturnKeeps

\* What ApplyStatefulSet and UpdateStatefulSetPods write is the template.
LEMMA SetsAreWritten ==
  ASSUME OrderInv, NEW s \in SetNames, NEW t, t.image \in Nat \ {0},
         t = [image |-> t.image, replicas |-> t.replicas, console |-> t.console, rev |-> t.rev],
         ApplyStatefulSet(s, t) \/ UpdateStatefulSetPods(s, t)
  PROVE  /\ sets' = [u \in SetNames |-> sets'[u]] /\ \A u \in SetNames \ {s} : sets'[u] = sets[u]
         /\ sets'[s].image = sets[s].image \/ sets'[s].image = t.image
         /\ sets'[s].image \in Nat \ {0}
<1>1. sets = [u \in SetNames |-> sets[u]] /\ sets[s].image \in Nat  BY DEF OrderInv, Shape
<1>2. CASE sets' = [sets EXCEPT ![s] = t]  BY <1>1, <1>2
<1>3. CASE sets' = sets /\ sets[s].image # 0  BY <1>1, <1>3
<1>4. CASE sets' = [sets EXCEPT ![s] = [t EXCEPT !.replicas = sets[s].replicas]]
  <2>1. sets'[s] = [t EXCEPT !.replicas = sets[s].replicas]  BY <1>1, <1>4
  <2>2. sets'[s].image = t.image  BY <2>1
  <2> QED  BY <1>1, <1>4, <2>2
<1> QED  BY <1>2, <1>3, <1>4 DEF ApplyStatefulSet, UpdateStatefulSetPods, HasUpdates

\* Which kinds have the steps that change a StatefulSet.
LEMMA OwnDeployer ==
  ASSUME dep \in Deployments, NEW c \in CRs, OwnStep(c, "deployer") PROVE Kind(c) = "SearchHeadCluster"
<1>1. PICK i \in 1 .. Len(StepsOf(c)) : "deployer" = StepsOf(c)[i]  BY DEF OwnStep
<1>2. (i \in 1 .. 6 /\ Len(StepsOf(c)) \in {3, 4, 5, 6}) \/ Kind(c) = "SearchHeadCluster"
  BY <1>1, KindType, StepsByKind
<1>3. i = 1 \/ i = 2 \/ i = 3 \/ i = 4 \/ i = 5 \/ i = 6 \/ Kind(c) = "SearchHeadCluster"  BY <1>2
<1> QED  BY <1>1, <1>2, <1>3, KindType, StepsByKind

LEMMA OwnDelete ==
  ASSUME dep \in Deployments, NEW c \in CRs, OwnStep(c, "delete9") PROVE Kind(c) = "IndexerCluster"
<1>1. PICK i \in 1 .. Len(StepsOf(c)) : "delete9" = StepsOf(c)[i]  BY DEF OwnStep
<1>2. i \in 1 .. 7 /\ (Kind(c) # "SearchHeadCluster" => i \in 1 .. 6)  BY <1>1, KindType, StepsByKind
<1>3. CASE Kind(c) = "SearchHeadCluster"
  <2>1. i = 1 \/ i = 2 \/ i = 3 \/ i = 4 \/ i = 5 \/ i = 6 \/ i = 7  BY <1>2
  <2> QED  BY <1>1, <1>3, <2>1, StepsByKind
<1>4. CASE Kind(c) # "SearchHeadCluster"
  <2>1. i = 1 \/ i = 2 \/ i = 3 \/ i = 4 \/ i = 5 \/ i = 6  BY <1>2, <1>4
  <2> QED  BY <1>1, <1>2, <1>4, <2>1, KindType, StepsByKind
<1> QED  BY <1>3, <1>4

LEMMA UpdateDeployerKeeps ==
  ASSUME OrderInv, NEW c \in CRs, UpdateDeployer(c) PROVE OrderInv'
<1>1. rec[c].at = "deployer" /\ FaultsGrow /\ UNCHANGED <<dep, live, spec>> /\ Done(c)
  BY DEF UpdateDeployer, At, Fine, FaultsGrow
<1>2. c \in SearchHeads  BY <1>1, OwnDeployer DEF OrderInv, StepsAreOwn, Shape, SearchHeads
<1>3. PICK t : t = [Template(c) EXCEPT !.replicas = 1, !.console = None]  OBVIOUS
<1>4. t = [image |-> rec[c].spec.image, replicas |-> 1, console |-> None, rev |-> rec[c].rev]
  BY <1>3 DEF Template
<1>5. t.image = rec[c].spec.image /\ t.image \in Nat \ {0}
  <2>1. rec[c].spec \in SpecOfUser  BY DEF OrderInv, Shape
  <2> QED  BY <1>4, <2>1 DEF SpecOfUser
<1>6. t = [image |-> t.image, replicas |-> t.replicas, console |-> t.console, rev |-> t.rev]  BY <1>4
<1>7. ApplyStatefulSet(Deployer(c), t) \/ UpdateStatefulSetPods(Deployer(c), t)
  BY <1>3 DEF UpdateDeployer
<1>8. Deployer(c) \in SetNames  BY <1>2, NamesOfSets
<1>9. /\ sets' = [u \in SetNames |-> sets'[u]] /\ \A u \in SetNames \ {Deployer(c)} : sets'[u] = sets[u]
      /\ sets'[Deployer(c)].image \in Nat \ {0}
  BY <1>5, <1>6, <1>7, <1>8, SetsAreWritten
<1>10. \A d \in CRs : Main(d) # Deployer(c) /\ Main(d) \in SetNames  BY NamesOfSets
<1>11. \A d \in SearchHeads \ {c} : Deployer(d) # Deployer(c) /\ Deployer(d) \in SetNames
  BY NamesOfSets DEF SearchHeads
<1>12. \A u \in SetNames : sets[u].image \in Nat  BY DEF OrderInv, Shape
<1>13. SetsMove(c)  BY <1>9, <1>10, <1>11, <1>12 DEF SetsMove
<1>14. GoesTo(c, NextStep(c, "deployer"))  BY <1>1, RecMoves DEF Done, OrderInv
<1>15. Allowed(c, NextStep(c, "deployer"))  BY <1>1 DEF Allowed
<1> QED  BY <1>1, <1>13, <1>14, <1>15, OrderedStep

LEMMA DeleteSetForNineKeeps ==
  ASSUME OrderInv, NEW c \in CRs, DeleteSetForNine(c) PROVE OrderInv'
<1>1. rec[c].at = "delete9" /\ FaultsGrow /\ UNCHANGED <<dep, live, spec>> /\ Done(c)
  BY DEF DeleteSetForNine, At, Fine, FaultsGrow
<1>2. Kind(c) = "IndexerCluster"  BY <1>1, OwnDelete DEF OrderInv, StepsAreOwn, Shape
<1>3. CASE sets' = sets
  BY <1>1, <1>3, DoneKeeps
<1>4. CASE sets' = [sets EXCEPT ![Main(c)] = NoSet]
  <2>1. sets = [u \in SetNames |-> sets[u]] /\ \A u \in SetNames : sets[u].image \in Nat  BY DEF OrderInv, Shape
  <2>2. Main(c) \in SetNames /\ \A d \in CRs \ {c} : Main(d) # Main(c) /\ Main(d) \in SetNames  BY NamesOfSets
  <2>3. \A d \in SearchHeads : Main(c) # Deployer(d) /\ Deployer(d) \in SetNames  BY NamesOfSets DEF SearchHeads
  <2>4. sets'[Main(c)] = NoSet /\ \A u \in SetNames \ {Main(c)} : sets'[u] = sets[u]  BY <1>4, <2>1, <2>2
  <2>5. sets' = [u \in SetNames |-> sets'[u]]  BY <1>4, <2>1
  <2>6. NoSet.image = 0  BY DEF NoSet
  <2>7. c \notin SearchHeads  BY <1>2 DEF SearchHeads
  <2>8. \A u \in SetNames : sets'[u].image \in Nat  BY <2>1, <2>4, <2>6
  <2>9. SetsMove(c)  BY <1>1, <1>2, <2>2, <2>3, <2>4, <2>5, <2>6, <2>7, <2>8 DEF SetsMove
  <2>10. GoesTo(c, NextStep(c, "delete9"))  BY <1>1, RecMoves DEF Done, OrderInv
  <2>11. Allowed(c, NextStep(c, "delete9"))  BY <1>1 DEF Allowed
  <2> QED  BY <1>1, <2>9, <2>10, <2>11, OrderedStep
<1> QED  BY <1>3, <1>4 DEF DeleteSetForNine

\* What Update does to the StatefulSet of its resource.
LEMMA UpdateWrites ==
  ASSUME OrderInv, NEW c \in CRs, Update(c)
  PROVE  /\ sets' = [u \in SetNames |-> sets'[u]] /\ \A u \in SetNames \ {Main(c)} : sets'[u] = sets[u]
         /\ sets'[Main(c)].image = sets[Main(c)].image \/ sets'[Main(c)].image = rec[c].spec.image
         /\ sets'[Main(c)].image \in Nat
<1>1. sets = [u \in SetNames |-> sets[u]] /\ \A u \in SetNames : sets[u].image \in Nat  BY DEF OrderInv, Shape
<1>2. Main(c) \in SetNames  BY NamesOfSets
<1>3. CASE sets' = sets  BY <1>1, <1>2, <1>3
<1>4. CASE ApplyStatefulSet(Main(c), Template(c)) \/ UpdateStatefulSetPods(Main(c), Template(c))
  <2>1. PICK t : t = Template(c)  OBVIOUS
  <2>2. t = [image |-> rec[c].spec.image, replicas |-> rec[c].spec.replicas,
             console |-> rec[c].spec.console, rev |-> rec[c].rev]
    BY <2>1 DEF Template
  <2>3. t.image = rec[c].spec.image /\ t.image \in Nat \ {0}
    <3>1. rec[c].spec \in SpecOfUser  BY DEF OrderInv, Shape
    <3> QED  BY <2>2, <3>1 DEF SpecOfUser
  <2>4. t = [image |-> t.image, replicas |-> t.replicas, console |-> t.console, rev |-> t.rev]  BY <2>2
  <2>5. ApplyStatefulSet(Main(c), t) \/ UpdateStatefulSetPods(Main(c), t)  BY <1>4, <2>1
  <2> QED  BY <1>2, <2>3, <2>4, <2>5, SetsAreWritten
<1> QED  BY <1>3, <1>4 DEF Update

LEMMA UpdateKeeps ==
  ASSUME OrderInv, NEW c \in CRs, Update(c) PROVE OrderInv'
<1>1. rec[c].at = "update" /\ FaultsGrow /\ UNCHANGED <<dep, live, spec>>
  BY DEF Update, At, Fine, FaultsGrow
<1>2. SetsMove(c)
  <2>1. /\ sets' = [u \in SetNames |-> sets'[u]] /\ \A u \in SetNames \ {Main(c)} : sets'[u] = sets[u]
        /\ sets'[Main(c)].image = sets[Main(c)].image \/ sets'[Main(c)].image = rec[c].spec.image
        /\ sets'[Main(c)].image \in Nat
    BY UpdateWrites
  <2>2. \A d \in CRs \ {c} : Main(d) # Main(c) /\ Main(d) \in SetNames  BY NamesOfSets
  <2>3. \A d \in SearchHeads : Main(c) # Deployer(d) /\ Deployer(d) \in SetNames  BY NamesOfSets DEF SearchHeads
  <2>4. \A u \in SetNames : sets'[u].image \in Nat  BY <2>1 DEF OrderInv, Shape
  <2> QED  BY <1>1, <2>1, <2>2, <2>3, <2>4 DEF SetsMove
<1>3. \E new : GoesTo(c, new) /\ Allowed(c, new)
  <2>1. CASE Return(c)
    <3>1. GoesTo(c, "save")  BY <2>1, RecMoves DEF Return, OrderInv
    <3> QED  BY <3>1 DEF Allowed
  <2>2. CASE rec' = [rec EXCEPT ![c].ready = TRUE, ![c].at = NextStep(c, "update")]
    <3>1. GoesTo(c, NextStep(c, "update"))  BY <2>2, RecMoves DEF OrderInv
    <3>2. Allowed(c, NextStep(c, "update"))  BY <1>1 DEF Allowed
    <3> QED  BY <3>1, <3>2
  <2>3. CASE rec' = [rec EXCEPT ![c].again = TRUE, ![c].at = Unconditional(c)]
    <3>1. GoesTo(c, Unconditional(c))  BY <2>3, RecMoves DEF OrderInv
    <3>2. "register" \in ToSet(StepsOf(c)) => OwnStep(c, "register")
      <4>1. StepsOf(c) \in Seq(Steps) /\ Len(StepsOf(c)) \in Nat  BY StepsAreDistinct DEF OrderInv, Shape
      <4>2. DOMAIN StepsOf(c) = 1 .. Len(StepsOf(c))  BY <4>1
      <4> QED  BY <4>2 DEF ToSet, OwnStep
    <3>3. Allowed(c, Unconditional(c))  BY <3>2 DEF Allowed, Unconditional
    <3> QED  BY <3>1, <3>3
  <2> QED  BY <2>1, <2>2, <2>3 DEF Update
<1> QED  BY <1>1, <1>2, <1>3, OrderedStep

LEMMA BeginKeeps ==
  ASSUME OrderInv, NEW c \in CRs, Begin(c) PROVE OrderInv'
<1>1. UNCHANGED <<dep, live, spec, sets, faults>> /\ rec[c].at = "idle"  BY DEF Begin
<1>2. CRs' = CRs /\ SetNames' = SetNames /\ SearchHeads' = SearchHeads
  BY <1>1 DEF CRs, SetNames, SearchHeads, Kind, Deployer
<1>3. \A d : /\ LicenseManagerRef(d)' = LicenseManagerRef(d) /\ ClusterManagerRef(d)' = ClusterManagerRef(d)
             /\ Kind(d)' = Kind(d) /\ StepsOf(d)' = StepsOf(d)
  BY <1>1 DEF LicenseManagerRef, ClusterManagerRef, Kind, StepsOf
<1>4. PICK first, m, a :
        /\ rec' = [rec EXCEPT ![c] =
             [at |-> first, spec |-> spec[c], manager |-> m, rev |-> 0, ready |-> FALSE, again |-> a]]
        /\ first \in {"save", "references", "finalize", "unregister"} \/ first = NextStep(c, "idle")
  BY Zenon DEF Begin, Removal
<1>5. /\ dep \in Deployments /\ spec \in [CRs -> SpecOfUser] /\ rec = [d \in CRs |-> rec[d]]
      /\ \A d \in CRs : RecordShape(rec[d]) /\ rec[d].spec \in SpecOfUser
  BY DEF OrderInv, Shape
<1>6. /\ rec' = [d \in CRs |-> rec'[d]] /\ \A d \in CRs \ {c} : rec'[d] = rec[d]
      /\ rec'[c] = [at |-> first, spec |-> spec[c], manager |-> m, rev |-> 0, ready |-> FALSE, again |-> a]
  BY <1>4, <1>5
<1>7. rec'[c].at = first /\ rec'[c].spec = spec[c] /\ RecordShape(rec'[c])  BY <1>6 DEF RecordShape
<1>8. OwnStep(c, first)
  <2>1. OwnStep(c, "idle")  BY DEF OwnStep
  <2> QED  BY <1>4, <1>5, <2>1, OwnNext DEF OwnStep
<1>9. Kind(c) \in WaitForLicense => WaitsAreKept(c, "idle", first)
  <2>1. OwnStep(c, "idle")  BY DEF OwnStep
  <2>2. CASE first \in {"save", "references", "finalize", "unregister"}
    BY <2>2 DEF WaitsAreKept, AfterLicense, AfterManager
  <2> QED  BY <1>4, <1>5, <2>1, <2>2, WaitsInOrder
<1>10. Shape'
  <2>1. \A d \in CRs : RecordShape(rec'[d]) /\ rec'[d].spec \in SpecOfUser  BY <1>5, <1>6, <1>7
  <2> QED  BY <1>1, <1>2, <1>6, <2>1 DEF Shape, RecordShape, OrderInv
<1>11. StepsAreOwn'
  <2>1. \A d \in CRs : OwnStep(d, rec'[d].at)  BY <1>6, <1>7, <1>8 DEF OrderInv, StepsAreOwn
  <2> QED  BY <1>2, <1>3, <2>1 DEF StepsAreOwn, OwnStep
<1>12. OneImage'
  BY <1>1, <1>2, <1>6, <1>7 DEF OneImage, OrderInv
<1>13. DeployerIsFirst'
  <2>1. c \in SearchHeads => first \notin {"move", "update"}
    BY <1>9 DEF SearchHeads, WaitForLicense, WaitsAreKept
  <2>2. \A d \in SearchHeads : d \in CRs  BY DEF SearchHeads
  <2> SUFFICES ASSUME NEW d \in SearchHeads, sets[Main(d)].image # 0 \/ rec'[d].at \in {"move", "update"}
               PROVE  sets[Deployer(d)].image # 0
    BY <1>1, <1>2 DEF DeployerIsFirst, Main, Deployer
  <2> QED  BY <1>6, <1>7, <2>1, <2>2 DEF OrderInv, DeployerIsFirst
<1>14. LicenseFirst'
  <2> SUFFICES ASSUME NEW d \in CRs, AfterLicense(d, rec'[d].at), sets[Main(d)].image # 0,
                      LicenseManagerRef(d) \in live
               PROVE  sets[Main(LicenseManagerRef(d))].image = rec'[d].spec.image
    BY <1>1, <1>2, <1>3 DEF LicenseFirst, AfterLicense, Main
  <2>1. CASE d # c  BY <1>6, <2>1 DEF OrderInv, LicenseFirst
  <2>2. CASE d = c
    <3>1. AfterLicense(c, first) /\ Kind(c) \in WaitForLicense  BY <1>7, <2>2 DEF AfterLicense
    <3>2. Skipped(c, "license")  BY <1>9, <3>1 DEF WaitsAreKept, AfterLicense
    <3> QED  BY <2>2, <3>2, SkippedIsFree
  <2> QED  BY <2>1, <2>2
<1>15. ManagerFirst'
  <2> SUFFICES ASSUME NEW d \in CRs, AfterManager(d, rec'[d].at), sets[Main(d)].image # 0,
                      ClusterManagerRef(d) \in live, ~Happened("get", faults)
               PROVE  sets[Main(ClusterManagerRef(d))].image = rec'[d].spec.image
    BY <1>1, <1>2, <1>3 DEF ManagerFirst, AfterManager, Main, Happened
  <2>1. CASE d # c  BY <1>6, <2>1 DEF OrderInv, ManagerFirst
  <2>2. CASE d = c
    <3>1. AfterManager(c, first) /\ Kind(c) \in WaitForLicense
      BY <1>7, <2>2 DEF AfterManager, WaitForManager, WaitForLicense
    <3>2. Skipped(c, "manager")  BY <1>9, <3>1 DEF WaitsAreKept, AfterManager
    <3> QED  BY <2>2, <3>2, SkippedIsFree
  <2> QED  BY <2>1, <2>2
<1> QED  BY <1>10, <1>11, <1>12, <1>13, <1>14, <1>15 DEF OrderInv

\* Reconciles end, resources go with all they own, or nothing of this changes.
Settles ==
  /\ dep' = dep /\ live' \subseteq live /\ FaultsGrow
  /\ rec' = [d \in CRs |-> rec'[d]] /\ \A d \in CRs : rec'[d] = rec[d] \/ rec'[d] = Idle
  /\ sets' = [s \in SetNames |-> sets'[s]] /\ \A s \in SetNames : sets'[s].image \in Nat
  /\ \A d \in CRs :
       \/ /\ sets'[Main(d)] = sets[Main(d)]
          /\ d \in SearchHeads => sets'[Deployer(d)] = sets[Deployer(d)]
       \/ d \notin live' /\ rec'[d] = Idle /\ sets'[Main(d)].image = 0
  /\ spec' \in [CRs -> SpecOfUser]
  /\ \/ \A d \in CRs : spec'[d].image = spec[d].image
     \/ (\A d \in CRs : rec'[d] = Idle) /\ (\A d, e \in CRs : spec'[d].image = spec'[e].image)

LEMMA SettlingKeeps == ASSUME OrderInv, Settles PROVE OrderInv'
<1>1. CRs' = CRs /\ SetNames' = SetNames /\ SearchHeads' = SearchHeads
  BY DEF CRs, SetNames, SearchHeads, Kind, Deployer, Settles
<1>2. \A d : /\ LicenseManagerRef(d)' = LicenseManagerRef(d) /\ ClusterManagerRef(d)' = ClusterManagerRef(d)
             /\ Kind(d)' = Kind(d) /\ StepsOf(d)' = StepsOf(d)
  BY DEF LicenseManagerRef, ClusterManagerRef, Kind, StepsOf, Settles
<1>3. Idle.at = "idle" /\ RecordShape(Idle) /\ Idle.spec \in SpecOfUser
  BY DEF Idle, RecordShape, SpecOfUser, Replicas
<1>4. \A d \in CRs : rec'[d].at # "idle" => rec'[d] = rec[d]  BY <1>3 DEF Settles
<1>5. Shape'
  <2>1. faults' \in Seq(Faults)  BY FaultsStay DEF OrderInv, Settles
  <2>2. \A d \in CRs : RecordShape(rec'[d]) /\ rec'[d].spec \in SpecOfUser  BY <1>3 DEF Settles, OrderInv, Shape
  <2>3. dep' \in Deployments /\ live' \subseteq CRs  BY DEF Settles, OrderInv, Shape
  <2> QED  BY <1>1, <2>1, <2>2, <2>3 DEF Shape, Settles, RecordShape
<1>6. StepsAreOwn'
  <2>1. \A d \in CRs : OwnStep(d, rec'[d].at)  BY <1>4 DEF OrderInv, StepsAreOwn, OwnStep
  <2> QED  BY <1>1, <1>2, <2>1 DEF StepsAreOwn, OwnStep
<1>7. OneImage'
  <2>1. \A c, d \in CRs : spec'[c].image = spec'[d].image  BY DEF OrderInv, OneImage, Settles
  <2>2. \A c \in CRs : rec'[c].at # "idle" => rec'[c].spec.image = spec'[c].image
    BY <1>3, <1>4 DEF OrderInv, OneImage, Settles
  <2> QED  BY <1>1, <2>1, <2>2 DEF OneImage
<1>8. DeployerIsFirst'
  <2> SUFFICES ASSUME NEW d \in SearchHeads, sets'[Main(d)].image # 0 \/ rec'[d].at \in {"move", "update"}
               PROVE  sets'[Deployer(d)].image # 0
    BY <1>1 DEF DeployerIsFirst, Main, Deployer
  <2>1. d \in CRs  BY DEF SearchHeads
  <2>2. sets'[Main(d)] = sets[Main(d)] /\ sets'[Deployer(d)] = sets[Deployer(d)]  BY <1>3, <2>1 DEF Settles
  <2> QED  BY <1>4, <2>1, <2>2 DEF OrderInv, DeployerIsFirst
<1>9. LicenseFirst'
  <2> SUFFICES ASSUME NEW d \in CRs, AfterLicense(d, rec'[d].at), sets'[Main(d)].image # 0,
                      LicenseManagerRef(d) \in live'
               PROVE  sets'[Main(LicenseManagerRef(d))].image = rec'[d].spec.image
    BY <1>1, <1>2 DEF LicenseFirst, AfterLicense, Main
  <2>1. LicenseManagerRef(d) \in live /\ LicenseManagerRef(d) \in CRs  BY DEF Settles, OrderInv, Shape
  <2>2. rec'[d] = rec[d]  BY <1>4 DEF AfterLicense
  <2>3. sets'[Main(d)] = sets[Main(d)] /\ sets'[Main(LicenseManagerRef(d))] = sets[Main(LicenseManagerRef(d))]
    BY <2>1 DEF Settles
  <2> QED  BY <2>1, <2>2, <2>3 DEF OrderInv, LicenseFirst
<1>10. ManagerFirst'
  <2> SUFFICES ASSUME NEW d \in CRs, AfterManager(d, rec'[d].at), sets'[Main(d)].image # 0,
                      ClusterManagerRef(d) \in live', ~Happened("get", faults')
               PROVE  sets'[Main(ClusterManagerRef(d))].image = rec'[d].spec.image
    BY <1>1, <1>2 DEF ManagerFirst, AfterManager, Main, Happened
  <2>1. ClusterManagerRef(d) \in live /\ ClusterManagerRef(d) \in CRs  BY DEF Settles, OrderInv, Shape
  <2>2. rec'[d] = rec[d]  BY <1>4 DEF AfterManager
  <2>3. sets'[Main(d)] = sets[Main(d)] /\ sets'[Main(ClusterManagerRef(d))] = sets[Main(ClusterManagerRef(d))]
    BY <2>1 DEF Settles
  <2>4. ~Happened("get", faults)  BY FaultsStay DEF OrderInv, Settles
  <2> QED  BY <2>1, <2>2, <2>3, <2>4 DEF OrderInv, ManagerFirst
<1> QED  BY <1>5, <1>6, <1>7, <1>8, <1>9, <1>10 DEF OrderInv

\* Nothing that the upgrade path reads has changed, but for the user's wishes.
LEMMA UnreadSettles ==
  ASSUME OrderInv, UNCHANGED <<dep, live, sets, rec>>, FaultsGrow, spec' \in [CRs -> SpecOfUser],
         \A d \in CRs : spec'[d].image = spec[d].image
  PROVE  Settles
  BY DEF Settles, OrderInv, Shape

LEMMA SaveKeeps == ASSUME OrderInv, NEW c \in CRs, Save(c) PROVE OrderInv'
<1>1. UNCHANGED <<dep, live, spec, sets>> /\ FaultsGrow /\ rec' = [rec EXCEPT ![c] = Idle]
  BY DEF Save, At, Fine, FaultsGrow
<1>2. rec = [d \in CRs |-> rec[d]]  BY DEF OrderInv, Shape
<1>3. rec' = [d \in CRs |-> rec'[d]] /\ \A d \in CRs : rec'[d] = rec[d] \/ rec'[d] = Idle  BY <1>1, <1>2
<1>4. Settles  BY <1>1, <1>3 DEF Settles, OrderInv, Shape
<1> QED  BY <1>4, SettlingKeeps

LEMMA FinalizeKeeps == ASSUME OrderInv, NEW c \in CRs, Finalize(c) PROVE OrderInv'
<1>1. UNCHANGED <<dep, spec>> /\ FaultsGrow  BY DEF Finalize, At, Fine, FaultsGrow
<1>2. /\ live' = live \ {c} /\ rec' = [rec EXCEPT ![c] = Idle]
      /\ sets' = [s \in SetNames |-> IF s[1] = c THEN NoSet ELSE sets[s]]
  BY DEF Finalize
<1>3. rec = [d \in CRs |-> rec[d]] /\ spec \in [CRs -> SpecOfUser] /\ \A s \in SetNames : sets[s].image \in Nat
  BY DEF OrderInv, Shape
<1>4. /\ rec' = [d \in CRs |-> rec'[d]] /\ \A d \in CRs : rec'[d] = rec[d] \/ rec'[d] = Idle
      /\ rec'[c] = Idle
  BY <1>2, <1>3
<1>5. NoSet.image = 0  BY DEF NoSet
<1>6. sets' = [s \in SetNames |-> sets'[s]] /\ \A s \in SetNames : sets'[s].image \in Nat
  BY <1>2, <1>3, <1>5
<1>7. ASSUME NEW d \in CRs
      PROVE  \/ sets'[Main(d)] = sets[Main(d)] /\ (d \in SearchHeads => sets'[Deployer(d)] = sets[Deployer(d)])
             \/ d \notin live' /\ rec'[d] = Idle /\ sets'[Main(d)].image = 0
  <2>1. Main(d) \in SetNames /\ (d \in SearchHeads => Deployer(d) \in SetNames)  BY NamesOfSets
  <2>2. Main(d)[1] = d /\ Deployer(d)[1] = d  BY DEF Main, Deployer
  <2>3. CASE d = c  BY <1>2, <1>4, <1>5, <2>1, <2>2, <2>3
  <2>4. CASE d # c  BY <1>2, <2>1, <2>2, <2>4
  <2> QED  BY <2>3, <2>4
<1>8. Settles  BY <1>1, <1>2, <1>3, <1>4, <1>6, <1>7 DEF Settles
<1> QED  BY <1>8, SettlingKeeps

LEMMA CrashKeeps == ASSUME OrderInv, Crash PROVE OrderInv'
<1>1. UNCHANGED <<dep, live, spec, sets>> /\ FaultsGrow /\ rec' = [c \in CRs |-> Idle]
  BY DEF Crash, Fault, FaultsGrow
<1>2. Settles  BY <1>1 DEF Settles, OrderInv, Shape
<1> QED  BY <1>2, SettlingKeeps

LEMMA UpgradeKeeps == ASSUME OrderInv, Upgrade PROVE OrderInv'
<1>1. PICK new : new = 1 + Max({spec[c].image : c \in CRs})  OBVIOUS
<1>2. /\ UNCHANGED <<dep, live, sets, faults>> /\ rec' = [c \in CRs |-> Idle]
      /\ spec' = [c \in CRs |-> [spec[c] EXCEPT !.image = new]]
  BY <1>1 DEF Upgrade
<1>3. \A c \in CRs : spec[c] \in SpecOfUser  BY DEF OrderInv, Shape
<1>4. ASSUME NEW c \in CRs PROVE new \in Nat \ {0}
  <2>1. PICK x : x = spec[c].image  OBVIOUS
  <2>2. x \in Nat  BY <1>3, <2>1 DEF SpecOfUser
  <2>3. {spec[d].image : d \in CRs} = {x}  BY <2>1 DEF OrderInv, OneImage
  <2>4. Max({x}) = x  BY <2>2 DEF Max
  <2>5. new = 1 + x  BY <1>1, <2>3, <2>4, Zenon
  <2> QED  BY <2>2, <2>5
<1>5. \A c \in CRs : [spec[c] EXCEPT !.image = new] \in SpecOfUser /\ [spec[c] EXCEPT !.image = new].image = new
  BY <1>3, <1>4 DEF SpecOfUser
<1>6. spec' \in [CRs -> SpecOfUser] /\ \A c, d \in CRs : spec'[c].image = spec'[d].image  BY <1>2, <1>5
<1>7. FaultsGrow  BY <1>2 DEF FaultsGrow
<1>8. Settles  BY <1>2, <1>6, <1>7 DEF Settles, OrderInv, Shape
<1> QED  BY <1>8, SettlingKeeps

LEMMA UserChangesKeeps == ASSUME OrderInv, NEW c \in CRs, UserChanges(c) PROVE OrderInv'
<1>1. UNCHANGED <<dep, live, sets, rec, faults>>  BY DEF UserChanges
<1>2. spec \in [CRs -> SpecOfUser]  BY DEF OrderInv, Shape
<1>3. \A r \in Replicas : 3 - r \in Replicas  BY DEF Replicas
<1>4. PICK new \in SpecOfUser : new.image = spec[c].image /\ spec' = [spec EXCEPT ![c] = new]
  <2>1. CASE spec' = [spec EXCEPT ![c].replicas = 3 - @]
    <3>1. [spec[c] EXCEPT !.replicas = 3 - spec[c].replicas] \in SpecOfUser  BY <1>2, <1>3 DEF SpecOfUser
    <3>2. [spec[c] EXCEPT !.replicas = 3 - spec[c].replicas].image = spec[c].image  BY <1>2 DEF SpecOfUser
    <3> QED  BY <1>2, <2>1, <3>1, <3>2, Zenon
  <2>2. ASSUME NEW m \in Consoles \cup {None}, spec' = [spec EXCEPT ![c].console = m]
        PROVE  \E new \in SpecOfUser : new.image = spec[c].image /\ spec' = [spec EXCEPT ![c] = new]
    <3>1. [spec[c] EXCEPT !.console = m] \in SpecOfUser  BY <1>2 DEF SpecOfUser
    <3>2. [spec[c] EXCEPT !.console = m].image = spec[c].image  BY <1>2 DEF SpecOfUser
    <3> QED  BY <2>2, <3>1, <3>2, Zenon
  <2>3. CASE spec' = [spec EXCEPT ![c].deleting = TRUE]
    <3>1. [spec[c] EXCEPT !.deleting = TRUE] \in SpecOfUser  BY <1>2 DEF SpecOfUser
    <3>2. [spec[c] EXCEPT !.deleting = TRUE].image = spec[c].image  BY <1>2 DEF SpecOfUser
    <3> QED  BY <2>3, <3>1, <3>2, Zenon
  <2> QED  BY <2>1, <2>2, <2>3 DEF UserChanges
<1>5. spec' \in [CRs -> SpecOfUser] /\ \A d \in CRs : spec'[d].image = spec[d].image  BY <1>2, <1>4
<1>6. FaultsGrow  BY <1>1 DEF FaultsGrow
<1> QED  BY <1>1, <1>5, <1>6, UnreadSettles, SettlingKeeps

LEMMA OrderKept == ASSUME OrderInv, [Next]_vars PROVE OrderInv'
<1>1. CASE \E c \in CRs : Reconciling(c)
  BY <1>1, BeginKeeps, ReadConfigMapKeeps, PlainStepsKeep, WaitForLicenseManagerKeeps, WaitForClusterManagerKeeps,
     UpdateDeployerKeeps, DeleteSetForNineKeeps, UpdateKeeps, RegisterKeeps, UnregisterKeeps,
     CheckReferencesKeeps, FinalizeKeeps, SaveKeeps
     DEF Reconciling
<1>2. CASE \E c \in CRs : ApiFails(c) \/ UserChanges(c)  BY <1>2, ApiFailsKeeps, UserChangesKeeps
<1>3. CASE \/ \E s \in SetNames : Observe(s) \/ StartPods(s) \/ PodFails(s)
           \/ UNCHANGED vars
  <2>1. UNCHANGED <<dep, live, spec, sets, rec>> /\ FaultsGrow
    BY <1>3 DEF Observe, StartPods, PodFails, Fault, FaultsGrow, vars
  <2>2. spec \in [CRs -> SpecOfUser]  BY DEF OrderInv, Shape
  <2> QED  BY <2>1, <2>2, UnreadSettles, SettlingKeeps
<1> QED  BY <1>1, <1>2, <1>3, CrashKeeps, UpgradeKeeps DEF Next

----------------------------------------------------------------------------
(* The order of upgrades                                                    *)

\* The image of a StatefulSet changes, while its resource stays, only in the
\* reconcile of that resource and after its waits.
LEMMA OnlyWritersUpgrade ==
  ASSUME OrderInv, [Next]_vars, NEW c \in CRs, Upgrades(c)
  PROVE  rec[c].at \in {"update", "delete9"}
<1>1. ASSUME NEW d \in CRs, Update(d) PROVE rec[c].at = "update"
  <2>1. \A u \in SetNames \ {Main(d)} : sets'[u] = sets[u]  BY <1>1, UpdateWrites
  <2>2. c = d  BY <2>1, NamesOfSets DEF Upgrades
  <2> QED  BY <1>1, <2>2 DEF Update, At
<1>2. ASSUME NEW d \in CRs, DeleteSetForNine(d) PROVE rec[c].at = "delete9"
  <2>1. sets = [u \in SetNames |-> sets[u]]  BY DEF OrderInv, Shape
  <2>2. \A u \in SetNames \ {Main(d)} : sets'[u] = sets[u]  BY <1>2, <2>1 DEF DeleteSetForNine
  <2>3. c = d  BY <2>2, NamesOfSets DEF Upgrades
  <2> QED  BY <1>2, <2>3 DEF DeleteSetForNine, At
<1>3. ASSUME NEW d \in CRs, UpdateDeployer(d) PROVE FALSE
  <2>1. sets = [u \in SetNames |-> sets[u]]  BY DEF OrderInv, Shape
  <2>2. \A u \in SetNames \ {Deployer(d)} : sets'[u] = sets[u]
    BY <1>3, <2>1 DEF UpdateDeployer, ApplyStatefulSet, UpdateStatefulSetPods
  <2>3. Main(c) \in SetNames /\ Main(c) # Deployer(d)  BY NamesOfSets
  <2> QED  BY <2>2, <2>3 DEF Upgrades
<1>4. ASSUME NEW d \in CRs, Finalize(d) PROVE FALSE
  <2>1. Main(c) \in SetNames /\ Main(c)[1] = c  BY NamesOfSets DEF Main
  <2>2. live' = live \ {d} /\ sets' = [s \in SetNames |-> IF s[1] = d THEN NoSet ELSE sets[s]]
    BY <1>4 DEF Finalize
  <2> QED  BY <2>1, <2>2 DEF Upgrades
<1>5. sets' # sets  BY DEF Upgrades
<1>6. \E d \in CRs : Update(d) \/ DeleteSetForNine(d) \/ UpdateDeployer(d) \/ Finalize(d)
  BY <1>5 DEF Next, Reconciling, Begin, ReadConfigMap, MoveConsole, WaitForLicenseManager,
     WaitForClusterManager, WaitForOthers, Register, Finish, Wake, Unregister, CheckReferences, Save, ApiFails, UserChanges,
     Observe, StartPods, PodFails, Crash, Upgrade, vars
<1> QED  BY <1>1, <1>2, <1>3, <1>4, <1>6

\* Where everything that refers to a LicenseManager or a ClusterManager is of a
\* kind that UpgradePathValidation makes wait for it, no StatefulSet gets another
\* image before the managers it refers to have it, unless reading one has failed:
\* whatever is changed, fails, or is reconciled at the same time.
THEOREM UpgradesAreOrdered == OrderedRefs => (Spec => UpgradeInOrder)
<1> SUFFICES ASSUME OrderedRefs PROVE Spec => UpgradeInOrder  OBVIOUS
<1> DEFINE InOrder ==
      \A c \in CRs : Upgrades(c) /\ ~Happened("get", faults) =>
        \A r \in {LicenseManagerRef(c), ClusterManagerRef(c)} \cap live :
          sets[Main(r)].image >= rec[c].spec.image
<1>1. Init => OrderInv  BY OrderedInit
<1>2. OrderInv /\ [Next]_vars => OrderInv'  BY OrderKept
<1>3. OrderInv /\ [Next]_vars => InOrder
  <2> SUFFICES ASSUME OrderInv, [Next]_vars, NEW c \in CRs, Upgrades(c), ~Happened("get", faults),
                      NEW r \in live, r = LicenseManagerRef(c) \/ r = ClusterManagerRef(c)
               PROVE  sets[Main(r)].image >= rec[c].spec.image
    OBVIOUS
  <2>1. rec[c].at \in {"update", "delete9"} /\ sets[Main(c)].image # 0  BY OnlyWritersUpgrade DEF Upgrades
  <2>2. r # None /\ rec[c].spec.image \in Nat
    <3>1. None \notin CRs  BY RefsAreNames DEF OrderInv, Shape
    <3>2. live \subseteq CRs /\ rec[c].spec \in SpecOfUser  BY DEF OrderInv, Shape
    <3> QED  BY <3>1, <3>2 DEF SpecOfUser
  <2>3. CASE r = LicenseManagerRef(c)
    <3>1. Kind(c) \in WaitForLicense
      BY <2>2, <2>3 DEF OrderedRefs, OrderInv, Shape, LicenseManagerRef, Kind, CRs
    <3>2. sets[Main(r)].image = rec[c].spec.image
      BY <2>1, <2>3, <3>1 DEF OrderInv, LicenseFirst, AfterLicense
    <3> QED  BY <2>2, <3>2
  <2>4. CASE r = ClusterManagerRef(c)
    <3>1. Kind(c) \in WaitForManager
      BY <2>2, <2>4 DEF OrderedRefs, OrderInv, Shape, ClusterManagerRef, Kind, CRs
    <3>2. sets[Main(r)].image = rec[c].spec.image
      BY <2>1, <2>4, <3>1 DEF OrderInv, ManagerFirst, AfterManager
    <3> QED  BY <2>2, <3>2
  <2> QED  BY <2>3, <2>4
<1>4. OrderInv /\ [Next]_vars => [InOrder]_vars  BY <1>3
<1> QED  BY <1>1, <1>2, <1>4, PTL DEF Spec, UpgradeInOrder, InOrder

----------------------------------------------------------------------------
(* The lists of URLs                                                        *)

\* The contiguous parts of a list.
LEMMA InSubSeqs ==
  ASSUME NEW s, NEW t
  PROVE  s \in SubSeqs(t) <=> \E i, j \in 0 .. Len(t) : s = SubSeq(t, i + 1, j)
  BY SMT DEF SubSeqs

LEMMA IsSubSeqs ==
  ASSUME NEW s, NEW t, s \in SubSeqs(t)
  PROVE  \E i, j \in 0 .. Len(t) : s = SubSeq(t, i + 1, j)
  BY InSubSeqs

\* Lists that are joined, and parts of a list.
LEMMA ConcatIs ==
  ASSUME NEW U, NEW p \in Seq(U), NEW q \in Seq(U)
  PROVE  /\ p \o q \in Seq(U) /\ Len(p \o q) = Len(p) + Len(q)
         /\ \A k \in 1 .. Len(p) : (p \o q)[k] = p[k]
         /\ \A k \in 1 .. Len(q) : (p \o q)[Len(p) + k] = q[k]
  OBVIOUS

LEMMA SubSeqIs ==
  ASSUME NEW U, NEW t \in Seq(U), NEW i \in 0 .. Len(t), NEW j \in 0 .. Len(t)
  PROVE  /\ SubSeq(t, i + 1, j) \in Seq(U)
         /\ Len(SubSeq(t, i + 1, j)) = IF i < j THEN j - i ELSE 0
         /\ \A k \in 1 .. Len(SubSeq(t, i + 1, j)) : SubSeq(t, i + 1, j)[k] = t[i + k]
  OBVIOUS

\* A part of a prefix is a part of the list.
LEMMA SubSeqOfPrefix ==
  ASSUME NEW U, NEW t \in Seq(U), NEW n \in 0 .. Len(t), NEW i \in 0 .. n, NEW j \in 0 .. n
  PROVE  SubSeq(SubSeq(t, 1, n), i + 1, j) = SubSeq(t, i + 1, j)
<1> DEFINE w == SubSeq(t, 1, n)
<1>1. w \in Seq(U) /\ Len(w) = n /\ \A k \in 1 .. n : w[k] = t[k]  OBVIOUS
<1> HIDE DEF w
<1> DEFINE a == SubSeq(w, i + 1, j)
           b == SubSeq(t, i + 1, j)
<1>2. a \in Seq(U) /\ Len(a) = (IF i < j THEN j - i ELSE 0) /\ \A k \in 1 .. Len(a) : a[k] = w[i + k]
  BY <1>1, SubSeqIs
<1>3. b \in Seq(U) /\ Len(b) = (IF i < j THEN j - i ELSE 0) /\ \A k \in 1 .. Len(b) : b[k] = t[i + k]
  BY SubSeqIs
<1> HIDE DEF a, b
<1>4. a = b
  <2>1. ASSUME NEW k \in 1 .. Len(a) PROVE a[k] = b[k]
    <3>1. i + k \in 1 .. n /\ k \in 1 .. Len(b)  BY <1>2, <1>3
    <3> QED  BY <1>1, <1>2, <1>3, <3>1
  <2> QED  BY <1>2, <1>3, <2>1
<1> QED  BY <1>4 DEF a, b, w

\* The place that IndexFirstSubSeq returns is one where the list is.
LEMMA FoundIsThere ==
  ASSUME NEW U, NEW t \in Seq(U), NEW s \in Seq(U), Len(s) \in Nat \ {0}, s \in SubSeqs(t)
  PROVE  /\ IndexFirstSubSeq(s, t) \in 1 .. Len(t) - Len(s) + 1
         /\ \A k \in 1 .. Len(s) : t[IndexFirstSubSeq(s, t) + k - 1] = s[k]
<1> DEFINE In(i) == s \in SubSeqs(SubSeq(t, 1, i))
           ends == {i \in 0 .. Len(t) : In(i)}
           last == CHOOSE i \in 0 .. Len(t) : In(i) /\ \A j \in 0 .. i - 1 : ~In(j)
<1>1. In(Len(t))
  <2>1. SubSeq(t, 1, Len(t)) = t  OBVIOUS
  <2> QED  BY <2>1
<1>2. ends \in SUBSET Nat /\ ends # {}  BY <1>1
<1>3. PICK n \in ends : \A y \in ends : n <= y  BY <1>2, LeastNumber
<1>4. n \in 0 .. Len(t) /\ In(n) /\ \A j \in 0 .. n - 1 : ~In(j)  BY <1>3
<1>5. last \in 0 .. Len(t) /\ In(last) /\ \A j \in 0 .. last - 1 : ~In(j)
  <2> HIDE DEF In
  <2> QED  BY <1>4
<1>6. IndexFirstSubSeq(s, t) = last - (Len(s) - 1)  BY DEF IndexFirstSubSeq
<1> HIDE DEF last
<1> DEFINE w == SubSeq(t, 1, last)
<1>7. w \in Seq(U) /\ Len(w) = last  BY <1>5
<1> HIDE DEF w
<1>8. PICK i \in 0 .. last, j \in 0 .. last : s = SubSeq(t, i + 1, j)
  <2>1. \E i, j \in 0 .. Len(w) : s = SubSeq(w, i + 1, j)
    <3>1. s \in SubSeqs(w)  BY <1>5 DEF w
    <3> HIDE DEF In, ends
    <3> QED  BY <3>1, IsSubSeqs
  <2> HIDE DEF In, ends
  <2>2. PICK i, j \in 0 .. last : s = SubSeq(w, i + 1, j)  BY <1>7, <2>1
  <2>3. SubSeq(w, i + 1, j) = SubSeq(t, i + 1, j)  BY <1>5, SubSeqOfPrefix DEF w
  <2> QED  BY <2>2, <2>3
<1>9. i \in 0 .. Len(t) /\ j \in 0 .. Len(t)  BY <1>5
<1>10. i < j /\ Len(s) = j - i /\ \A k \in 1 .. Len(s) : s[k] = t[i + k]  BY <1>8, <1>9, SubSeqIs
<1>11. j = last
  <2> SUFFICES ASSUME j # last PROVE FALSE  OBVIOUS
  <2> DEFINE v == SubSeq(t, 1, j)
  <2>1. j \in 0 .. last - 1 /\ i \in 0 .. j /\ j \in 0 .. j  BY <1>5, <1>9, <1>10
  <2>2. Len(v) = j  BY <1>9
  <2>3. s = SubSeq(v, i + 1, j)  BY <1>8, <1>9, <2>1, SubSeqOfPrefix
  <2> HIDE DEF v
  <2>4. s \in SubSeqs(v)  BY <2>1, <2>2, <2>3, InSubSeqs
  <2> QED  BY <1>5, <2>1, <2>4 DEF v
<1>12. IndexFirstSubSeq(s, t) = i + 1  BY <1>5, <1>6, <1>9, <1>10, <1>11
<1> QED  BY <1>5, <1>9, <1>10, <1>11, <1>12

\* DeleteURLsConfigMap leaves all other URLs.
LEMMA DeleteKeeps ==
  ASSUME NEW U, NEW t \in Seq(U), NEW s \in Seq(U), Len(s) \in Nat \ {0}
  PROVE  /\ DeleteURLs(t, s) \in Seq(U)
         /\ \A x \in ToSet(t) : x \notin ToSet(s) => x \in ToSet(DeleteURLs(t, s))
<1>1. CASE s \notin SubSeqs(t)  BY <1>1 DEF DeleteURLs, ReplaceFirstSubSeq
<1>2. CASE s \in SubSeqs(t)
  <2> DEFINE n == IndexFirstSubSeq(s, t)
             pre == SubSeq(t, 1, n - 1)
             post == SubSeq(t, n + Len(s), Len(t))
  <2>1. n \in 1 .. Len(t) - Len(s) + 1 /\ \A k \in 1 .. Len(s) : t[n + k - 1] = s[k]  BY <1>2, FoundIsThere
  <2>2. DeleteURLs(t, s) = (pre \o <<>>) \o post  BY <1>2 DEF DeleteURLs, ReplaceFirstSubSeq, ReplaceSubSeqAt
  <2> HIDE DEF n
  <2>3. /\ pre \in Seq(U) /\ Len(pre) = n - 1 /\ \A k \in 1 .. n - 1 : pre[k] = t[k]
        /\ post \in Seq(U) /\ Len(post) = Len(t) - n - Len(s) + 1
        /\ \A k \in 1 .. Len(post) : post[k] = t[k + n + Len(s) - 1]
    BY <2>1
  <2> HIDE DEF pre, post
  <2>4. pre \o <<>> = pre  BY <2>3
  <2>5. DeleteURLs(t, s) = pre \o post  BY <2>2, <2>4
  <2> DEFINE d == pre \o post
  <2>6. d \in Seq(U) /\ Len(d) = Len(pre) + Len(post)  BY <2>3, ConcatIs
  <2>7. ASSUME NEW k \in 1 .. Len(t), t[k] \notin ToSet(s) PROVE t[k] \in ToSet(d)
    <3>1. k < n \/ k >= n + Len(s)
      <4> SUFFICES ASSUME k >= n, k < n + Len(s) PROVE FALSE  BY <2>1
      <4>1. k - n + 1 \in 1 .. Len(s)  BY <2>1
      <4>2. t[n + (k - n + 1) - 1] = s[k - n + 1]  BY <2>1, <4>1
      <4>3. n + (k - n + 1) - 1 = k  BY <2>1
      <4> QED  BY <2>7, <4>1, <4>2, <4>3 DEF ToSet
    <3>2. CASE k < n
      <4>1. d[k] = t[k] /\ k \in 1 .. Len(d)  BY <2>1, <2>3, <3>2
      <4> QED  BY <4>1 DEF ToSet
    <3>3. CASE k >= n + Len(s)
      <4> DEFINE m == k - n - Len(s) + 1
      <4>1. m \in 1 .. Len(post) /\ m + n + Len(s) - 1 = k  BY <2>1, <2>3, <3>3
      <4>2. post[m] = t[k]  BY <2>3, <4>1
      <4> HIDE DEF m
      <4>3. d[Len(pre) + m] = post[m] /\ Len(pre) + m \in 1 .. Len(d)  BY <2>1, <2>3, <4>1
      <4> QED  BY <4>2, <4>3 DEF ToSet
    <3> QED  BY <3>1, <3>2, <3>3
  <2> HIDE DEF d
  <2>8. DeleteURLs(t, s) = d  BY <2>5 DEF d
  <2> QED  BY <2>6, <2>7, <2>8 DEF ToSet
<1> QED  BY <1>1, <1>2

\* A URL is added unless it is there.
Grow(s, u) == IF Contains(s, u) THEN s ELSE Append(s, u)

LEMMA GrowIs == ASSUME NEW U, NEW s \in Seq(U), NEW u \in U
  PROVE /\ Grow(s, u) \in Seq(U)
        /\ ToSet(Grow(s, u)) = ToSet(s) \cup {u}
<1>1. CASE Contains(s, u)  BY <1>1 DEF Grow, Contains, ToSet
<1>2. CASE ~Contains(s, u)  BY <1>2 DEF Grow, Contains, ToSet
<1> QED BY <1>1, <1>2

\* AddURLsConfigMap, for the one or two URLs of a resource.
LEMMA AddIs == ASSUME NEW U, NEW urls \in Seq(U), NEW new \in Seq(U), Len(new) \in 1 .. 2
  PROVE AddURLs(urls, new) = IF Len(new) = 1 THEN Grow(urls, new[1])
                             ELSE Grow(Grow(urls, new[1]), new[2])
<1> DEFINE step(f) == [i \in 0 .. Len(new) |->
        IF i = 0 THEN urls
        ELSE IF Contains(f[i - 1], new[i]) THEN f[i - 1] ELSE Append(f[i - 1], new[i])]
    g == [i \in 0 .. Len(new) |-> IF i = 0 THEN urls
                                  ELSE IF i = 1 THEN Grow(urls, new[1])
                                  ELSE Grow(Grow(urls, new[1]), new[2])]
    added == CHOOSE f : f = step(f)
<1>1. g = step(g)  BY DEF Grow
<1>2. added = step(added)  BY <1>1, Zenon
<1>3. AddURLs(urls, new) = added[Len(new)]  BY DEF AddURLs
<1> HIDE DEF added
<1>4. added = [i \in 0 .. Len(new) |->
        IF i = 0 THEN urls
        ELSE IF Contains(added[i - 1], new[i]) THEN added[i - 1]
        ELSE Append(added[i - 1], new[i])]
  BY <1>2
<1>5. ASSUME NEW i \in 1 .. Len(new), NEW j \in Nat, j = i - 1
      PROVE  added[i] = Grow(added[j], new[i])
  <2>1. i \in 0 .. Len(new) /\ i # 0  OBVIOUS
  <2>2. added[i] = IF Contains(added[i - 1], new[i]) THEN added[i - 1]
                   ELSE Append(added[i - 1], new[i])
    BY <1>4, <2>1
  <2>3. i - 1 = j  BY <1>5
  <2> QED  BY <2>2, <2>3 DEF Grow
<1>6. added[0] = urls  BY <1>4
<1>7. added[1] = Grow(added[0], new[1])  BY <1>5
<1>8. Len(new) = 2 => added[2] = Grow(added[1], new[2])  BY <1>5
<1>9. AddURLs(urls, new) = added[Len(new)]  BY <1>3
<1>10. CASE Len(new) = 1  BY <1>6, <1>7, <1>9, <1>10
<1>11. CASE Len(new) = 2  BY <1>6, <1>7, <1>8, <1>9, <1>11
<1> QED  BY <1>10, <1>11

\* AddURLsConfigMap adds, and loses nothing.
LEMMA AddKeeps ==
  ASSUME NEW U, NEW urls \in Seq(U), NEW new \in Seq(U), Len(new) \in 1 .. 2
  PROVE  /\ AddURLs(urls, new) \in Seq(U)
         /\ ToSet(AddURLs(urls, new)) = ToSet(urls) \cup ToSet(new)
<1>1. \A s \in Seq(U), u \in U : Grow(s, u) \in Seq(U) /\ ToSet(Grow(s, u)) = ToSet(s) \cup {u}  BY GrowIs
<1>2. CASE Len(new) = 1
  <2>1. new[1] \in U /\ ToSet(new) = {new[1]}  BY <1>2 DEF ToSet
  <2>2. AddURLs(urls, new) = Grow(urls, new[1])  BY <1>2, AddIs
  <2>3. Grow(urls, new[1]) \in Seq(U) /\ ToSet(Grow(urls, new[1])) = ToSet(urls) \cup {new[1]}  BY <2>1, <1>1
  <2> QED  BY <2>1, <2>2, <2>3
<1>3. CASE Len(new) = 2
  <2>1. new[1] \in U /\ new[2] \in U /\ ToSet(new) = {new[1], new[2]}  BY <1>3 DEF ToSet
  <2>2. AddURLs(urls, new) = Grow(Grow(urls, new[1]), new[2])  BY <1>3, AddIs
  <2>3. Grow(urls, new[1]) \in Seq(U) /\ ToSet(Grow(urls, new[1])) = ToSet(urls) \cup {new[1]}  BY <2>1, <1>1
  <2>4. /\ Grow(Grow(urls, new[1]), new[2]) \in Seq(U)
        /\ ToSet(Grow(Grow(urls, new[1]), new[2])) = ToSet(Grow(urls, new[1])) \cup {new[2]}
    BY <2>1, <2>3, <1>1
  <2> QED  BY <2>1, <2>2, <2>3, <2>4
<1> QED  BY <1>2, <1>3

\* The URLs of a resource name it.
LEMMA UrlsAre ==
  ASSUME dep \in Deployments, NEW c \in CRs, NEW r \in Replicas
  PROVE  /\ Urls(c, r) \in Seq(CRs \X Replicas)
         /\ \A x \in ToSet(Urls(c, r)) : x[1] = c
         /\ Kind(c) \in Registering => Len(Urls(c, r)) \in 1 .. 2
         /\ Kind(c) \notin Registering => ToSet(Urls(c, r)) = {}
<1>1. CASE Kind(c) \in {"Standalone", "SearchHeadCluster"}
  <2>1. Urls(c, r) = [i \in 1 .. r |-> <<c, i>>]  BY <1>1 DEF Urls
  <2>2. r \in 1 .. 2 /\ \A i \in 1 .. r : i \in Replicas  BY DEF Replicas
  <2>3. [i \in 1 .. r |-> <<c, i>>] \in Seq(CRs \X Replicas) /\ Len([i \in 1 .. r |-> <<c, i>>]) = r  BY <2>2
  <2>4. \A x \in ToSet([i \in 1 .. r |-> <<c, i>>]) : x[1] = c  BY <2>2, <2>3 DEF ToSet
  <2>5. Kind(c) \in Registering  BY <1>1 DEF Registering
  <2> QED  BY <2>1, <2>2, <2>3, <2>4, <2>5
<1>2. CASE Kind(c) \in Managers
  <2>1. Urls(c, r) = <<<<c, 1>>>>  BY <1>2 DEF Urls, Managers
  <2>2. <<<<c, 1>>>> \in Seq(CRs \X Replicas) /\ Len(<<<<c, 1>>>>) = 1  BY DEF Replicas
  <2>3. \A x \in ToSet(<<<<c, 1>>>>) : x[1] = c  BY DEF ToSet
  <2>4. Kind(c) \in Registering  BY <1>2 DEF Registering
  <2> QED  BY <2>1, <2>2, <2>3, <2>4
<1>3. CASE Kind(c) \notin Managers \cup {"Standalone", "SearchHeadCluster"}
  <2>1. Urls(c, r) = <<>>  BY <1>3 DEF Urls
  <2>2. <<>> \in Seq(CRs \X Replicas) /\ ToSet(<<>>) = {}  BY DEF ToSet
  <2>3. Kind(c) \notin Registering  BY <1>3 DEF Registering
  <2> QED  BY <2>1, <2>2, <2>3
<1> QED  BY <1>1, <1>2, <1>3

\* ApplyMonitoringConsoleEnvConfigMap changes the list of one kind.
LEMMA ApplyIs ==
  ASSUME ConfigMapShape, NEW m \in Consoles, NEW c \in CRs, Kind(c) \in Registering,
         NEW urls \in Seq(CRs \X Replicas)
  PROVE  /\ Apply(m, c, urls) \in ConfigMap /\ Apply(m, c, urls).owned = console[m].owned
         /\ Apply(m, c, urls).urls[Kind(c)] = urls
         /\ \A k \in Registering \ {Kind(c)} : Apply(m, c, urls).urls[k] = console[m].urls[k]
<1>1. console[m] \in ConfigMap  BY DEF ConfigMapShape
<1>2. CASE console[m].urls[Kind(c)] = urls  BY <1>1, <1>2 DEF Apply
<1>3. CASE console[m].urls[Kind(c)] # urls
  <2>1. PICK u, v, o : /\ console[m] = [urls |-> u, rev |-> v, owned |-> o]
                       /\ u \in [Registering -> Seq(CRs \X Replicas)] /\ v \in Nat /\ o \in BOOLEAN
    BY <1>1 DEF ConfigMap
  <2>2. PICK w : w = [u EXCEPT ![Kind(c)] = urls]  OBVIOUS
  <2>3. /\ w \in [Registering -> Seq(CRs \X Replicas)] /\ w[Kind(c)] = urls
        /\ \A k \in Registering \ {Kind(c)} : w[k] = u[k]
    BY <2>1, <2>2
  <2>4. Apply(m, c, urls) = [console[m] EXCEPT !.urls[Kind(c)] = urls, !.rev = @ + 1]  BY <1>3 DEF Apply
  <2>5. Apply(m, c, urls) = [urls |-> w, rev |-> v + 1, owned |-> o]
    <3>1. console[m].urls = u  BY <2>1
    <3>2. [console[m] EXCEPT !.urls[Kind(c)] = urls] = [urls |-> w, rev |-> v, owned |-> o]
      <4>1. [console[m] EXCEPT !.urls = w] = [urls |-> w, rev |-> v, owned |-> o]  BY <2>1
      <4>2. [console[m] EXCEPT !.urls[Kind(c)] = urls] = [console[m] EXCEPT !.urls = w]  BY <2>2, <3>1
      <4> QED  BY <4>1, <4>2
    <3>3. PICK y : y = [console[m] EXCEPT !.urls[Kind(c)] = urls]  OBVIOUS
    <3>4. y.rev = console[m].rev /\ y.rev = v BY <2>1, <3>2, <3>3
    <3>5. Apply(m, c, urls) = [y EXCEPT !.rev = @ + 1]  BY <2>4, <3>3
    <3> QED  BY <3>2, <3>3, <3>5
  <2>6. v + 1 \in Nat  BY <2>1
  <2> QED  BY <2>1, <2>3, <2>5, <2>6 DEF ConfigMap
<1> QED  BY <1>2, <1>3

\* Adding URLs loses none.
LEMMA AddedIs ==
  ASSUME dep \in Deployments, ConfigMapShape, NEW m \in Consoles, NEW c \in CRs, NEW r \in Replicas
  PROVE  /\ Added(m, c, r) \in ConfigMap /\ Added(m, c, r).owned = console[m].owned
         /\ \A k \in Registering : ToSet(console[m].urls[k]) \subseteq ToSet(Added(m, c, r).urls[k])
         /\ Kind(c) \in Registering => ToSet(Urls(c, r)) \subseteq ToSet(Added(m, c, r).urls[Kind(c)])
<1>1. console[m] \in ConfigMap  BY DEF ConfigMapShape
<1>2. CASE Kind(c) \notin Registering  BY <1>1, <1>2 DEF Added
<1>3. CASE Kind(c) \in Registering
  <2>1. Urls(c, r) \in Seq(CRs \X Replicas) /\ Len(Urls(c, r)) \in 1 .. 2  BY <1>3, UrlsAre
  <2>2. PICK old : old = console[m].urls[Kind(c)]  OBVIOUS
  <2>3. old \in Seq(CRs \X Replicas)  BY <1>1, <1>3, <2>2 DEF ConfigMap
  <2>4. PICK new : new = AddURLs(old, Urls(c, r))  OBVIOUS
  <2>5. new \in Seq(CRs \X Replicas) /\ ToSet(new) = ToSet(old) \cup ToSet(Urls(c, r))
    BY <2>1, <2>3, <2>4, AddKeeps
  <2>6. Added(m, c, r) = Apply(m, c, new)  BY <1>3, <2>2, <2>4 DEF Added
  <2>7. /\ Apply(m, c, new) \in ConfigMap /\ Apply(m, c, new).owned = console[m].owned
        /\ Apply(m, c, new).urls[Kind(c)] = new
        /\ \A k \in Registering \ {Kind(c)} : Apply(m, c, new).urls[k] = console[m].urls[k]
    BY <1>3, <2>5, ApplyIs
  <2> QED  BY <2>2, <2>5, <2>6, <2>7
<1> QED  BY <1>2, <1>3

\* Deleting the URLs of one resource loses none of the others.
LEMMA DeletedIs ==
  ASSUME dep \in Deployments, ConfigMapShape, NEW m \in Consoles, NEW c \in CRs, NEW r \in Replicas
  PROVE  /\ Deleted(m, c, r) \in ConfigMap /\ Deleted(m, c, r).owned = console[m].owned
         /\ \A k \in Registering : \A x \in ToSet(console[m].urls[k]) :
              x[1] # c => x \in ToSet(Deleted(m, c, r).urls[k])
<1>1. console[m] \in ConfigMap  BY DEF ConfigMapShape
<1>2. CASE Kind(c) \notin Registering  BY <1>1, <1>2 DEF Deleted
<1>3. CASE Kind(c) \in Registering
  <2>1. /\ Urls(c, r) \in Seq(CRs \X Replicas) /\ Len(Urls(c, r)) \in 1 .. 2
        /\ \A x \in ToSet(Urls(c, r)) : x[1] = c
    BY <1>3, UrlsAre
  <2>2. PICK old : old = console[m].urls[Kind(c)]  OBVIOUS
  <2>3. old \in Seq(CRs \X Replicas)  BY <1>1, <1>3, <2>2 DEF ConfigMap
  <2>4. PICK new : new = DeleteURLs(old, Urls(c, r))  OBVIOUS
  <2>5. Len(Urls(c, r)) \in Nat \ {0}  BY <2>1
  <2>6. /\ new \in Seq(CRs \X Replicas)
        /\ \A x \in ToSet(old) : x \notin ToSet(Urls(c, r)) => x \in ToSet(new)
    BY <2>1, <2>3, <2>4, <2>5, DeleteKeeps
  <2>7. Deleted(m, c, r) = Apply(m, c, new)  BY <1>3, <2>2, <2>4 DEF Deleted
  <2>8. /\ Apply(m, c, new) \in ConfigMap /\ Apply(m, c, new).owned = console[m].owned
        /\ Apply(m, c, new).urls[Kind(c)] = new
        /\ \A k \in Registering \ {Kind(c)} : Apply(m, c, new).urls[k] = console[m].urls[k]
    BY <1>3, <2>6, ApplyIs
  <2> QED  BY <2>1, <2>2, <2>6, <2>7, <2>8
<1> QED  BY <1>2, <1>3

----------------------------------------------------------------------------
(* What the actions do to what is stored as Ready                           *)

\* What becomes of a reconcile; the others stay as they are.
Becomes(c, new, rev, rdy, again) ==
  /\ \A d \in CRs \ {c} : rec'[d] = rec[d]
  /\ rec'[c].at = new /\ rec'[c].spec = rec[c].spec /\ rec'[c].manager = rec[c].manager
  /\ rec'[c].rev = rev /\ rec'[c].ready = rdy /\ rec'[c].again = again

LEMMA RecBecomes ==
  ASSUME Shape, NEW c \in CRs, NEW new, NEW x
  PROVE  /\ rec' = [rec EXCEPT ![c].at = new]
              => Becomes(c, new, rec[c].rev, rec[c].ready, rec[c].again)
         /\ rec' = [rec EXCEPT ![c].at = new, ![c].again = x]
              => Becomes(c, new, rec[c].rev, rec[c].ready, x)
         /\ rec' = [rec EXCEPT ![c].again = x, ![c].at = new]
              => Becomes(c, new, rec[c].rev, rec[c].ready, x)
         /\ rec' = [rec EXCEPT ![c].rev = x, ![c].at = new]
              => Becomes(c, new, x, rec[c].ready, rec[c].again)
         /\ rec' = [rec EXCEPT ![c].ready = x, ![c].at = new]
              => Becomes(c, new, rec[c].rev, x, rec[c].again)
<1>1. rec = [d \in CRs |-> rec[d]] /\ RecordShape(rec[c])  BY DEF Shape
<1>2. PICK at, sp, manager, rev, rdy, again :
        rec[c] = [at |-> at, spec |-> sp, manager |-> manager, rev |-> rev, ready |-> rdy, again |-> again]
  BY <1>1 DEF RecordShape
<1>3. /\ rec[c].spec = sp /\ rec[c].manager = manager /\ rec[c].rev = rev
      /\ rec[c].ready = rdy /\ rec[c].again = again
  BY <1>2
<1>4. ASSUME NEW r, rec' = [rec EXCEPT ![c] = r]
      PROVE  rec'[c] = r /\ \A d \in CRs \ {c} : rec'[d] = rec[d]
  BY <1>1, <1>4
<1>5. ASSUME rec' = [rec EXCEPT ![c].at = new]
      PROVE  Becomes(c, new, rec[c].rev, rec[c].ready, rec[c].again)
  <2>1. rec'[c] = [rec[c] EXCEPT !.at = new] /\ \A d \in CRs \ {c} : rec'[d] = rec[d]  BY <1>1, <1>5
  <2>2. rec'[c] = [at |-> new, spec |-> sp, manager |-> manager, rev |-> rev, ready |-> rdy, again |-> again]
    BY <1>2, <2>1
  <2> QED  BY <1>3, <2>1, <2>2 DEF Becomes
<1>6. ASSUME rec' = [rec EXCEPT ![c].at = new, ![c].again = x] \/ rec' = [rec EXCEPT ![c].again = x, ![c].at = new]
      PROVE  Becomes(c, new, rec[c].rev, rec[c].ready, x)
  <2>1. rec'[c] = [at |-> new, spec |-> sp, manager |-> manager, rev |-> rev, ready |-> rdy, again |-> x]
    <3>1. CASE rec' = [rec EXCEPT ![c].at = new, ![c].again = x]
      <4>1. PICK r : r = [rec[c] EXCEPT !.at = new]  OBVIOUS
      <4>2. r = [at |-> new, spec |-> sp, manager |-> manager, rev |-> rev, ready |-> rdy, again |-> again]
        BY <1>2, <4>1
      <4>3. rec'[c] = [r EXCEPT !.again = x]  BY <1>1, <3>1, <4>1
      <4> QED  BY <4>2, <4>3
    <3>2. CASE rec' = [rec EXCEPT ![c].again = x, ![c].at = new]
      <4>1. PICK r : r = [rec[c] EXCEPT !.again = x]  OBVIOUS
      <4>2. r = [at |-> at, spec |-> sp, manager |-> manager, rev |-> rev, ready |-> rdy, again |-> x]
        BY <1>2, <4>1
      <4>3. rec'[c] = [r EXCEPT !.at = new]  BY <1>1, <3>2, <4>1
      <4> QED  BY <4>2, <4>3
    <3> QED  BY <1>6, <3>1, <3>2
  <2>2. \A d \in CRs \ {c} : rec'[d] = rec[d]  BY <1>1, <1>6
  <2> QED  BY <1>3, <2>1, <2>2 DEF Becomes
<1>7. ASSUME rec' = [rec EXCEPT ![c].rev = x, ![c].at = new]
      PROVE  Becomes(c, new, x, rec[c].ready, rec[c].again)
  <2>1. PICK r : r = [rec[c] EXCEPT !.rev = x]  OBVIOUS
  <2>2. r = [at |-> at, spec |-> sp, manager |-> manager, rev |-> x, ready |-> rdy, again |-> again]
    BY <1>2, <2>1
  <2>3. rec'[c] = [r EXCEPT !.at = new] /\ \A d \in CRs \ {c} : rec'[d] = rec[d]  BY <1>1, <1>7, <2>1
  <2>4. rec'[c] = [at |-> new, spec |-> sp, manager |-> manager, rev |-> x, ready |-> rdy, again |-> again]
    BY <2>2, <2>3
  <2> QED  BY <1>3, <2>3, <2>4 DEF Becomes
<1>8. ASSUME rec' = [rec EXCEPT ![c].ready = x, ![c].at = new]
      PROVE  Becomes(c, new, rec[c].rev, x, rec[c].again)
  <2>1. PICK r : r = [rec[c] EXCEPT !.ready = x]  OBVIOUS
  <2>2. r = [at |-> at, spec |-> sp, manager |-> manager, rev |-> rev, ready |-> x, again |-> again]
    BY <1>2, <2>1
  <2>3. rec'[c] = [r EXCEPT !.at = new] /\ \A d \in CRs \ {c} : rec'[d] = rec[d]  BY <1>1, <1>8, <2>1
  <2>4. rec'[c] = [at |-> new, spec |-> sp, manager |-> manager, rev |-> rev, ready |-> x, again |-> again]
    BY <2>2, <2>3
  <2> QED  BY <1>3, <2>3, <2>4 DEF Becomes
<1> QED  BY <1>5, <1>6, <1>7, <1>8

\* After the StatefulSet, only late steps follow; an instance that has a console
\* is registered next.
Late == {"register", "finish", "wake", "save"}

LEMMA LateSteps ==
  ASSUME dep \in Deployments, NEW c \in CRs
  PROVE  /\ \A step \in {"update", "register", "finish", "wake"} :
              OwnStep(c, step) => NextStep(c, step) \in Late
         /\ (OwnStep(c, "update") /\ Kind(c) \in Registering /\ rec[c].spec.console # None)
              => NextStep(c, "update") = "register"
         /\ Kind(c) = "MonitoringConsole" => NextStep(c, "idle") = "read"
<1> DEFINE n == Len(StepsOf(c))
<1>1. n \in Nat /\ \A i, j \in 1 .. n : StepsOf(c)[i] = StepsOf(c)[j] => i = j  BY StepsAreDistinct
<1> DEFINE Splits(u) == /\ StepsOf(c)[u] = "update" /\ \A i \in u + 1 .. n : StepsOf(c)[i] \in Late
                        /\ \A i \in 1 .. n : StepsOf(c)[i] \in Late => i > u
                        /\ Kind(c) \in Registering => u + 1 <= n /\ StepsOf(c)[u + 1] = "register"
<1>2. \E u \in 1 .. n : Splits(u)
  <2>1. CASE Kind(c) \in {"LicenseManager", "LicenseMaster", "ClusterMaster", "Standalone", "IngestorCluster"}
    <3> DEFINE Short == /\ n = 3 \/ (n = 4 /\ StepsOf(c)[4] \in Late)
                        /\ StepsOf(c)[1] = "move" /\ StepsOf(c)[2] = "update" /\ StepsOf(c)[3] \in Late
                        /\ Kind(c) # "IngestorCluster" => StepsOf(c)[3] = "register"
    <3>1. Kind(c) = "LicenseManager" => Short  BY StepsByKind DEF Late
    <3>2. Kind(c) = "LicenseMaster" => Short  BY StepsByKind DEF Late
    <3>3. Kind(c) = "ClusterMaster" => Short  BY StepsByKind DEF Late
    <3>4. Kind(c) = "Standalone" => Short  BY StepsByKind DEF Late
    <3>5. Kind(c) = "IngestorCluster" => Short  BY StepsByKind DEF Late
    <3>6. Short  BY <2>1, <3>1, <3>2, <3>3, <3>4, <3>5
    <3>7. n = 3 \/ n = 4  BY <3>6
    <3>8. \A i \in 1 .. n : i = 1 \/ i = 2 \/ i = 3 \/ (i = 4 /\ n = 4)
      <4> HIDE DEF n
      <4> QED  BY <3>7
    <3>9. \A i \in 3 .. n : StepsOf(c)[i] \in Late  BY <3>6, <3>8
    <3>10. \A i \in 1 .. n : StepsOf(c)[i] \in Late => i > 2  BY <3>6, <3>8 DEF Late
    <3>11. Kind(c) \in Registering => 3 <= n /\ StepsOf(c)[3] = "register"
      BY <2>1, <3>6 DEF Registering, Managers
    <3>12. 2 \in 1 .. n /\ 2 + 1 = 3  BY <3>6
    <3>13. StepsOf(c)[2] = "update"  BY <3>6
    <3> HIDE DEF n
    <3> QED  BY <3>13, <3>9, <3>10, <3>11, <3>12
  <2>2. CASE Kind(c) = "ClusterManager"
    <3>1. n = 5 /\ StepsOf(c)[1] = "move" /\ StepsOf(c)[2] = "license" /\ StepsOf(c)[3] = "update"
          /\ StepsOf(c)[4] = "register" /\ StepsOf(c)[5] = "wake"
      BY <2>2, StepsByKind
    <3>2. \A i \in 1 .. n : i = 1 \/ i = 2 \/ i = 3 \/ i = 4 \/ i = 5  BY <3>1
    <3>3. \A i \in 4 .. n : StepsOf(c)[i] \in Late  BY <3>1, <3>2 DEF Late
    <3>4. \A i \in 1 .. n : StepsOf(c)[i] \in Late => i > 3  BY <3>1, <3>2 DEF Late
    <3>5. 3 \in 1 .. n /\ 3 + 1 = 4 /\ 4 <= n  BY <3>1
    <3> HIDE DEF n
    <3> QED  BY <3>1, <3>3, <3>4, <3>5
  <2>3. CASE Kind(c) = "MonitoringConsole"
    <3>1. n = 5 /\ StepsOf(c)[1] = "read" /\ StepsOf(c)[2] = "license" /\ StepsOf(c)[3] = "manager"
          /\ StepsOf(c)[4] = "others" /\ StepsOf(c)[5] = "update"
      BY <2>3, StepsByKind
    <3>2. \A i \in 1 .. n : i = 1 \/ i = 2 \/ i = 3 \/ i = 4 \/ i = 5  BY <3>1
    <3>3. \A i \in 6 .. n : FALSE  BY <3>1
    <3>4. \A i \in 1 .. n : StepsOf(c)[i] \in Late => i > 5  BY <3>1, <3>2 DEF Late
    <3>5. Kind(c) \notin Registering  BY <2>3 DEF Registering, Managers
    <3>6. 5 \in 1 .. n /\ 5 + 1 = 6  BY <3>1
    <3> HIDE DEF n
    <3> QED  BY <3>1, <3>3, <3>4, <3>5, <3>6
  <2>4. CASE Kind(c) = "SearchHeadCluster"
    <3>1. n = 7 /\ StepsOf(c)[1] = "license" /\ StepsOf(c)[2] = "manager" /\ StepsOf(c)[3] = "deployer"
          /\ StepsOf(c)[4] = "move" /\ StepsOf(c)[5] = "update" /\ StepsOf(c)[6] = "register"
          /\ StepsOf(c)[7] = "finish"
      BY <2>4, StepsByKind
    <3>2. \A i \in 1 .. n : i = 1 \/ i = 2 \/ i = 3 \/ i = 4 \/ i = 5 \/ i = 6 \/ i = 7  BY <3>1
    <3>3. \A i \in 6 .. n : StepsOf(c)[i] \in Late  BY <3>1, <3>2 DEF Late
    <3>4. \A i \in 1 .. n : StepsOf(c)[i] \in Late => i > 5  BY <3>1, <3>2 DEF Late
    <3>5. 5 \in 1 .. n /\ 5 + 1 = 6 /\ 6 <= n  BY <3>1
    <3> HIDE DEF n
    <3> QED  BY <3>1, <3>3, <3>4, <3>5
  <2>5. CASE Kind(c) = "IndexerCluster"
    <3>1. n = 5 /\ StepsOf(c)[1] = "license" /\ StepsOf(c)[2] = "manager" /\ StepsOf(c)[3] = "delete9"
          /\ StepsOf(c)[4] = "update" /\ StepsOf(c)[5] = "finish"
      BY <2>5, StepsByKind
    <3>2. \A i \in 1 .. n : i = 1 \/ i = 2 \/ i = 3 \/ i = 4 \/ i = 5  BY <3>1
    <3>3. \A i \in 5 .. n : StepsOf(c)[i] \in Late  BY <3>1, <3>2 DEF Late
    <3>4. \A i \in 1 .. n : StepsOf(c)[i] \in Late => i > 4  BY <3>1, <3>2 DEF Late
    <3>5. Kind(c) \notin Registering  BY <2>5 DEF Registering, Managers
    <3>6. 4 \in 1 .. n /\ 4 + 1 = 5  BY <3>1
    <3> HIDE DEF n
    <3> QED  BY <3>1, <3>3, <3>4, <3>5, <3>6
  <2> HIDE DEF Splits, n
  <2> QED  BY <2>1, <2>2, <2>3, <2>4, <2>5, KindType
<1>3. PICK u \in 1 .. n : Splits(u)  BY <1>2
<1>4. ASSUME NEW step \in {"update", "register", "finish", "wake"}, OwnStep(c, step)
      PROVE  NextStep(c, step) \in Late
  <2>1. PICK k \in 1 .. n : StepsOf(c)[k] = step  BY <1>4 DEF OwnStep
  <2>2. k >= u  BY <1>1, <1>3, <2>1 DEF Late
  <2>3. k \in 0 .. Len(StepsOf(c)) /\ k # 0  BY <1>1, <2>1
  <2>4. NextStep(c, step) = "save" \/ \E i \in k + 1 .. n : NextStep(c, step) = StepsOf(c)[i]
    BY <2>1, <2>3, NextStepIs
  <2>5. \A i \in k + 1 .. n : i \in u + 1 .. n  BY <1>1, <2>1, <2>2
  <2> HIDE DEF n
  <2> QED  BY <1>3, <2>4, <2>5 DEF Late
<1>5. ASSUME OwnStep(c, "update"), Kind(c) \in Registering, rec[c].spec.console # None
      PROVE  NextStep(c, "update") = "register"
  <2>1. u \in 0 .. Len(StepsOf(c)) /\ u # 0 /\ u \in Nat  BY <1>1, <1>3
  <2>2. \/ /\ NextStep(c, "update") = "save"
           /\ \A j \in u + 1 .. n : Skipped(c, StepsOf(c)[j])
        \/ \E i \in u + 1 .. n : /\ NextStep(c, "update") = StepsOf(c)[i]
                                 /\ \A j \in u + 1 .. i - 1 : Skipped(c, StepsOf(c)[j])
    BY <1>3, <2>1, NextStepIs
  <2>3. ~Skipped(c, StepsOf(c)[u + 1])  BY <1>3, <1>5 DEF Skipped
  <2>4. u + 1 \in u + 1 .. n  BY <1>1, <1>3, <1>5, <2>1
  <2>5. ASSUME NEW i \in u + 1 .. n, i # u + 1 PROVE u + 1 \in u + 1 .. i - 1  BY <1>1, <2>1, <2>5
  <2> HIDE DEF n
  <2> QED  BY <1>3, <1>5, <2>2, <2>3, <2>4, <2>5
<1>6. ASSUME Kind(c) = "MonitoringConsole" PROVE NextStep(c, "idle") = "read"
  <2>1. StepsOf(c)[1] = "read" /\ n = 5  BY <1>6, StepsByKind
  <2>2. 0 \in 0 .. Len(StepsOf(c)) /\ 1 \in 0 + 1 .. n /\ 0 + 1 = 1  BY <2>1
  <2>3. \/ \A j \in 0 + 1 .. n : Skipped(c, StepsOf(c)[j])
        \/ \E i \in 0 + 1 .. n : /\ NextStep(c, "idle") = StepsOf(c)[i]
                                 /\ \A j \in 0 + 1 .. i - 1 : Skipped(c, StepsOf(c)[j])
    BY <2>2, NextStepIs
  <2>4. ~Skipped(c, StepsOf(c)[1])  BY <2>1 DEF Skipped
  <2>5. ASSUME NEW i \in 0 + 1 .. n, i # 1 PROVE 1 \in 0 + 1 .. i - 1  BY <2>1, <2>5
  <2> HIDE DEF n
  <2> QED  BY <2>1, <2>2, <2>3, <2>4, <2>5
<1> QED  BY <1>4, <1>5, <1>6
\* An owner is told when its ConfigMap changes, and the URLs of d stay.
OwnersAreTold ==
  \A d \in (live' \cap Consoles) \ queue' :
    console[d].owned => console'[d].owned /\ console'[d].rev = console[d].rev
UrlsStay(d) ==
  Kind(d) \in Registering =>
    \A m \in live' \cap Consoles : \A x \in ToSet(console[m].urls[Kind(d)]) :
      x[1] = d => x \in ToSet(console'[m].urls[Kind(d)])

\* The StatefulSet of d, its status and its pods stay as they are.
SameSet(d) ==
  /\ pods'[Main(d)] = pods[Main(d)] /\ sets'[Main(d)] = sets[Main(d)]
  /\ observed'[Main(d)] = observed[Main(d)]

\* Nothing changes for d.
Undisturbed(d) ==
  /\ d \in live' \ queue' /\ d \in live \ queue /\ OwnersAreTold /\ UrlsStay(d)
  /\ rec'[d] = rec[d] /\ spec'[d] = spec[d] /\ SameSet(d)
  /\ d \in ready' => d \in ready

\* A console is the console of others by its name.
LEMMA ConsoleKind ==
  ASSUME dep \in Deployments, NEW c \in CRs, Kind(c) = "MonitoringConsole" PROVE c \in Consoles
<1>1. IsDeployment(dep)  BY ReconcileAssumption
<1> QED  BY <1>1 DEF IsDeployment, Kind, CRs

LEMMA ConsoleIsName ==
  ASSUME OrderInv, NEW d \in CRs, spec[d].console \in live PROVE spec[d].console \in Consoles
<1>1. None \notin live  BY RefsAreNames DEF OrderInv, Shape
<1>2. spec[d] \in SpecOfUser  BY DEF OrderInv, Shape
<1> QED  BY <1>1, <1>2 DEF SpecOfUser

\* The URLs stay listed.
LEMMA ListedStays ==
  ASSUME OrderInv, dep' = dep, live' \subseteq live, NEW d \in CRs, spec'[d] = spec[d], UrlsStay(d), Listed(d)
  PROVE  Listed(d)'
<1>1. Kind(d)' = Kind(d) /\ \A r : Urls(d, r)' = Urls(d, r)  BY DEF Kind, Urls
<1>2. SUFFICES ASSUME spec[d].console \in live', Kind(d) \in Registering
               PROVE  ToSet(Urls(d, spec[d].replicas)) \subseteq ToSet(console'[spec[d].console].urls[Kind(d)])
  BY <1>1 DEF Listed
<1>3. spec[d].console \in live' \cap Consoles  BY <1>2, ConsoleIsName
<1>4. spec[d].replicas \in Replicas  BY DEF OrderInv, Shape, SpecOfUser
<1>5. \A x \in ToSet(Urls(d, spec[d].replicas)) : x[1] = d  BY <1>4, UrlsAre DEF OrderInv, Shape
<1>6. ToSet(Urls(d, spec[d].replicas)) \subseteq ToSet(console[spec[d].console].urls[Kind(d)])
  BY <1>2 DEF Listed
<1> QED  BY <1>2, <1>3, <1>5, <1>6 DEF UrlsStay

\* To serve is to run what the spec asks for, and to be listed.
LEMMA ServesIs ==
  ASSUME OrderInv, NEW d \in CRs, Serves(d)
  PROVE  /\ pods[Main(d)].image = spec[d].image /\ pods[Main(d)].replicas = spec[d].replicas
         /\ pods[Main(d)].console = spec[d].console
         /\ Kind(d) = "MonitoringConsole" => pods[Main(d)].rev = console[d].rev
         /\ Listed(d)
  BY DEF Serves, Listed

LEMMA ServesNext ==
  ASSUME OrderInv, dep' = dep, NEW d \in CRs, spec'[d] = spec[d],
         pods'[Main(d)].image = spec[d].image, pods'[Main(d)].replicas = spec[d].replicas,
         pods'[Main(d)].console = spec[d].console,
         Kind(d) = "MonitoringConsole" => pods'[Main(d)].rev = console'[d].rev,
         Listed(d)'
  PROVE  Serves(d)'
<1>1. Kind(d)' = Kind(d) /\ (\A r : Urls(d, r)' = Urls(d, r)) /\ Main(d)' = Main(d)  BY DEF Kind, Urls, Main
<1>2. spec[d].replicas \in Replicas  BY DEF OrderInv, Shape, SpecOfUser
<1>3. Kind(d) \notin Registering => ToSet(Urls(d, spec[d].replicas)) = {}  BY <1>2, UrlsAre DEF OrderInv, Shape
<1>4. spec[d].console \in live' =>
        ToSet(Urls(d, spec[d].replicas)) \subseteq
          ToSet(IF Kind(d) \in Registering THEN console'[spec[d].console].urls[Kind(d)] ELSE <<>>)
  BY <1>1, <1>3 DEF Listed
<1> QED  BY <1>1, <1>4 DEF Serves

\* What is so for d stays so.
LEMMA UndisturbedKeeps ==
  ASSUME OrderInv, ReadyInv, dep' = dep, live' \subseteq live, NEW d \in CRs, Undisturbed(d)
  PROVE  Current(d)'
<1>1. Current(d)  BY DEF Undisturbed, ReadyInv
<1>2. Kind(d)' = Kind(d) /\ Main(d)' = Main(d)  BY DEF Kind, Main
<1>3. /\ rec'[d] = rec[d] /\ spec'[d] = spec[d] /\ pods'[Main(d)] = pods[Main(d)]
      /\ d \in ready' => d \in ready
      /\ StatusLags(d) => StatusLags(d)'
  BY <1>2 DEF Undisturbed, SameSet, StatusLags
<1>4. Listed(d) => Listed(d)'  BY <1>3, ListedStays DEF Undisturbed
<1>5. Kind(d) = "MonitoringConsole" => d \in Consoles  BY ConsoleKind DEF OrderInv, Shape
<1>6. Kind(d) = "MonitoringConsole" /\ console[d].owned => console'[d].owned /\ console'[d].rev = console[d].rev
  BY <1>5 DEF Undisturbed, OwnersAreTold
<1>7. rec'[d].at # "idle" => rec'[d].spec = spec'[d]  BY <1>1, <1>3 DEF Current
<1>8. rec'[d].ready => (RunsTemplate(d) \/ StatusLags(d))'
  BY <1>1, <1>2, <1>3 DEF Current, RunsTemplate
<1>9. Kind(d) = "MonitoringConsole" /\ HasRead(d)' => Told(d)'  BY <1>1, <1>3, <1>6 DEF Current, HasRead, Told
<1>10. rec'[d].ready /\ ~rec'[d].again /\ rec'[d].at \in {"finish", "wake", "save"} => Listed(d)'
  BY <1>1, <1>3, <1>4 DEF Current
<1>11. ASSUME d \in ready', rec'[d].at = "idle"
       PROVE  (Serves(d) \/ StatusLags(d))' /\ (Kind(d) = "MonitoringConsole" => console'[d].owned)
  <2>1. (Serves(d) \/ StatusLags(d)) /\ (Kind(d) = "MonitoringConsole" => console[d].owned)
    BY <1>1, <1>3, <1>11 DEF Current
  <2>2. Serves(d) =>
        /\ pods[Main(d)].image = spec[d].image /\ pods[Main(d)].replicas = spec[d].replicas
        /\ pods[Main(d)].console = spec[d].console
        /\ Kind(d) = "MonitoringConsole" => pods[Main(d)].rev = console[d].rev
        /\ Listed(d)
    BY ServesIs
  <2>3. Serves(d) => Serves(d)'  BY <1>3, <1>4, <1>6, <2>1, <2>2, ServesNext
  <2> QED  BY <1>3, <1>6, <2>1, <2>3
<1> QED  BY <1>2, <1>7, <1>8, <1>9, <1>10, <1>11 DEF Current

\* A step in the reconcile of c.
StepOf(c) ==
  /\ dep' = dep /\ live' \subseteq live /\ spec' = spec /\ ready' \subseteq ready \cup {c}
  /\ queue \subseteq queue' \cup {c}
  /\ \A d \in CRs \ {c} : rec'[d] = rec[d] /\ SameSet(d) /\ UrlsStay(d)
  /\ OwnersAreTold
  /\ console' \in [Consoles -> ConfigMap] /\ pods' = [s \in SetNames |-> pods'[s]]
  /\ observed' = [s \in SetNames |-> observed'[s]]

\* It is left to show what it does to c itself.
LEMMA StepKeeps ==
  ASSUME OrderInv, ReadyInv, NEW c \in CRs, StepOf(c),
         rec'[c].ready => rec'[c].at \in Late,
         c \in live' \ queue' => Current(c)'
  PROVE  ReadyInv'
<1>1. dep' = dep  BY DEF StepOf
<1>2. CRs' = CRs /\ SetNames' = SetNames /\ ConfigMap' = ConfigMap
  BY <1>1 DEF CRs, SetNames, SearchHeads, Kind, Deployer, ConfigMap
<1>3. ConfigMapShape'  BY <1>2 DEF StepOf, ConfigMapShape
<1>4. ReadyIsLate'  BY <1>2 DEF StepOf, ReadyInv, ReadyIsLate, Late
<1>5. ASSUME NEW d \in live' \ queue' PROVE Current(d)'
  <2>1. CASE d = c  BY <2>1, <1>5
  <2>2. CASE d # c
    <3>1. d \in CRs  BY <1>5 DEF StepOf, OrderInv, Shape
    <3>2. Undisturbed(d)  BY <1>5, <2>2, <3>1 DEF Undisturbed, StepOf
    <3> QED  BY <1>1, <3>1, <3>2, UndisturbedKeeps DEF StepOf
  <2> QED  BY <2>1, <2>2
<1> QED  BY <1>3, <1>4, <1>5 DEF ReadyInv

\* A step that leaves the ConfigMaps alone.
LEMMA PlainStep ==
  ASSUME OrderInv, ReadyInv, NEW c \in CRs,
         dep' = dep, live' = live, spec' = spec, ready' \subseteq ready \cup {c}, queue \subseteq queue' \cup {c},
         \A d \in CRs \ {c} : rec'[d] = rec[d] /\ SameSet(d),
         console' = console, pods' = [s \in SetNames |-> pods'[s]], observed' = [s \in SetNames |-> observed'[s]]
  PROVE  StepOf(c)
<1>1. OwnersAreTold /\ \A d : UrlsStay(d)  BY DEF OwnersAreTold, UrlsStay
<1>2. console' \in [Consoles -> ConfigMap]  BY DEF ReadyInv, ConfigMapShape
<1> QED  BY <1>1, <1>2 DEF StepOf

----------------------------------------------------------------------------
(* The reconcile itself                                                     *)

\* A step before it is known whether the StatefulSet is up to date.
LEMMA EarlyStep ==
  ASSUME OrderInv, ReadyInv, NEW c \in CRs, StepOf(c), c \in live \ queue, c \in live' \ queue',
         rec[c].at # "idle", rec'[c].at # "idle", rec'[c].spec = rec[c].spec, ~rec'[c].ready,
         rec'[c].rev = rec[c].rev, HasRead(c)' => HasRead(c)
  PROVE  Current(c)'
<1>1. Current(c)  BY DEF ReadyInv
<1>2. Kind(c)' = Kind(c)  BY DEF StepOf, Kind
<1>3. Kind(c) = "MonitoringConsole" => c \in Consoles  BY ConsoleKind DEF OrderInv, Shape
<1>4. Kind(c) = "MonitoringConsole" /\ HasRead(c)' => Told(c)'
  BY <1>1, <1>3 DEF Current, Told, StepOf, OwnersAreTold
<1>5. rec'[c].spec = spec'[c]  BY <1>1 DEF Current, StepOf
<1> QED  BY <1>2, <1>4, <1>5 DEF Current

\* A step after that.
LEMMA LateStep ==
  ASSUME OrderInv, ReadyInv, NEW c \in CRs, StepOf(c), c \in live \ queue, c \in live' \ queue',
         rec[c].at # "idle", rec'[c].at # "idle", rec'[c].spec = rec[c].spec, rec[c].ready,
         rec'[c].rev = rec[c].rev, SameSet(c),
         rec'[c].ready /\ ~rec'[c].again /\ rec'[c].at \in {"finish", "wake", "save"} => Listed(c)'
  PROVE  Current(c)'
<1>1. Current(c)  BY DEF ReadyInv
<1>2. Kind(c)' = Kind(c) /\ Main(c)' = Main(c)  BY DEF StepOf, Kind, Main
<1>3. Kind(c) = "MonitoringConsole" => c \in Consoles  BY ConsoleKind DEF OrderInv, Shape
<1>4. HasRead(c)  BY DEF HasRead
<1>5. Kind(c) = "MonitoringConsole" => Told(c)'  BY <1>1, <1>3, <1>4 DEF Current, Told, StepOf, OwnersAreTold
<1>6. rec'[c].spec = spec'[c]  BY <1>1 DEF Current, StepOf
<1>7. (RunsTemplate(c) \/ StatusLags(c))'
  <2>1. StatusLags(c) => StatusLags(c)'  BY <1>2 DEF SameSet, StatusLags
  <2>2. RunsTemplate(c) => RunsTemplate(c)'  BY <1>2 DEF SameSet, RunsTemplate
  <2> QED  BY <1>1, <2>1, <2>2 DEF Current
<1> QED  BY <1>2, <1>5, <1>6, <1>7 DEF Current

\* A reconcile is not over before it has stored the phase.
LEMMA NextIsBusy ==
  ASSUME dep \in Deployments, NEW c \in CRs, NEW step, OwnStep(c, step),
         step \notin {"unregister", "references", "finalize", "save"}
  PROVE  NextStep(c, step) # "idle"
<1>1. /\ Len(StepsOf(c)) \in Nat
      /\ \A i \in 1 .. Len(StepsOf(c)) : StepsOf(c)[i] \notin {"idle", "save", "unregister", "references", "finalize"}
  BY StepsAreDistinct
<1>2. PICK k \in 0 .. Len(StepsOf(c)) : IF k = 0 THEN step = "idle" ELSE step = StepsOf(c)[k]
  <2>1. CASE step = "idle"  BY <1>1, <2>1
  <2>2. CASE step # "idle"
    <3>1. PICK i \in 1 .. Len(StepsOf(c)) : step = StepsOf(c)[i]  BY <2>2 DEF OwnStep
    <3>2. i \in 0 .. Len(StepsOf(c)) /\ i # 0  BY <1>1, <3>1
    <3> QED  BY <3>1, <3>2
  <2> QED  BY <2>1, <2>2
<1>3. \/ NextStep(c, step) = "save"
      \/ \E i \in k + 1 .. Len(StepsOf(c)) : NextStep(c, step) = StepsOf(c)[i]
  BY <1>2, NextStepIs
<1>4. k + 1 .. Len(StepsOf(c)) \subseteq 1 .. Len(StepsOf(c))  BY <1>1
<1> QED  BY <1>1, <1>3, <1>4

\* The reconcile returns early.
LEMMA ReturnKeepsReady ==
  ASSUME OrderInv, ReadyInv, NEW c \in CRs, Return(c), rec[c].at # "idle",
         UNCHANGED <<dep, live, spec, ready, sets, observed, pods, console, queue>>
  PROVE  ReadyInv'
<1>1. Becomes(c, "save", rec[c].rev, rec[c].ready, TRUE)  BY RecBecomes DEF Return, OrderInv
<1>2. pods' = [s \in SetNames |-> pods'[s]] /\ observed' = [s \in SetNames |-> observed'[s]]
  BY DEF ReadyInv, ConfigMapShape
<1>3. StepOf(c) /\ SameSet(c)  BY <1>1, <1>2, PlainStep DEF Becomes, SameSet
<1>4. ASSUME c \in live' \ queue' PROVE Current(c)'
  <2>1. CASE rec[c].ready  BY <1>1, <1>3, <1>4, <2>1, LateStep DEF Becomes
  <2>2. CASE ~rec[c].ready
    <3>1. ~HasRead(c)'  BY <1>1, <2>2 DEF Becomes, HasRead
    <3> QED  BY <1>1, <1>3, <1>4, <2>2, <3>1, EarlyStep DEF Becomes
  <2> QED  BY <2>1, <2>2
<1>5. rec'[c].ready => rec'[c].at \in Late  BY <1>1 DEF Becomes, Late
<1> QED  BY <1>3, <1>4, <1>5, StepKeeps

\* A step before the StatefulSet is looked at is done.
LEMMA EarlyDone ==
  ASSUME OrderInv, ReadyInv, NEW c \in CRs, Done(c), StepOf(c), queue \subseteq queue',
         rec[c].at \notin {"idle", "read", "unregister", "references", "finalize", "register", "finish", "wake", "save"}
  PROVE  ReadyInv'
<1> DEFINE next == NextStep(c, rec[c].at)
<1>1. Becomes(c, next, rec[c].rev, rec[c].ready, rec[c].again)  BY RecBecomes DEF Done, OrderInv
<1>2. next # "idle"  BY NextIsBusy DEF OrderInv, Shape, StepsAreOwn
<1>3. ~rec[c].ready  BY DEF ReadyInv, ReadyIsLate
<1>4. HasRead(c)  BY DEF HasRead
<1>5. ASSUME c \in live' \ queue' PROVE Current(c)'
  <2>1. c \in live \ queue  BY <1>5 DEF StepOf
  <2> QED  BY <1>1, <1>2, <1>3, <1>4, <1>5, <2>1, EarlyStep DEF Becomes
<1> QED  BY <1>1, <1>3, <1>5, StepKeeps DEF Becomes

\* A step after that is done.
LEMMA LateDone ==
  ASSUME OrderInv, ReadyInv, NEW c \in CRs, Done(c), StepOf(c), queue \subseteq queue', SameSet(c), console' = console,
         rec[c].at \in {"finish", "wake"}
  PROVE  ReadyInv'
<1> DEFINE next == NextStep(c, rec[c].at)
<1>1. Becomes(c, next, rec[c].rev, rec[c].ready, rec[c].again)  BY RecBecomes DEF Done, OrderInv
<1>2. next \in Late
  <2>1. OwnStep(c, rec[c].at) /\ dep \in Deployments  BY DEF OrderInv, Shape, StepsAreOwn
  <2> QED  BY <2>1, LateSteps
<1>3. HasRead(c)  BY DEF HasRead
<1> HIDE DEF next
<1>4. rec'[c].at # "idle" /\ rec'[c].at \in Late  BY <1>1, <1>2 DEF Becomes, Late
<1>5. ASSUME c \in live' \ queue' PROVE Current(c)'
  <2>1. c \in live \ queue  BY <1>5 DEF StepOf
  <2>2. CASE ~rec[c].ready  BY <1>1, <1>3, <1>4, <1>5, <2>1, <2>2, EarlyStep DEF Becomes
  <2>3. CASE rec[c].ready
    <3>1. ~rec[c].again => Listed(c)  BY <2>1, <2>3 DEF ReadyInv, Current
    <3>2. UrlsStay(c)  BY DEF UrlsStay
    <3>3. ~rec[c].again => Listed(c)'  BY <3>1, <3>2, ListedStays DEF StepOf
    <3> QED  BY <1>1, <1>4, <1>5, <2>1, <2>3, <3>3, LateStep DEF Becomes
  <2> QED  BY <2>2, <2>3
<1> QED  BY <1>1, <1>4, <1>5, StepKeeps DEF Becomes

\* UpgradePathValidation, what follows the StatefulSet, and errors.
LEMMA WaitsKeepReady ==
  ASSUME OrderInv, ReadyInv, NEW c \in CRs,
         WaitForLicenseManager(c) \/ WaitForClusterManager(c) \/ WaitForOthers(c) \/ Finish(c) \/ ApiFails(c)
  PROVE  ReadyInv'
<1>1. UNCHANGED <<dep, live, spec, ready, sets, observed, pods, console, queue>>
  BY DEF WaitForLicenseManager, WaitForClusterManager, WaitForOthers, Finish, ApiFails, At
<1>2. rec[c].at # "idle"
  BY DEF WaitForLicenseManager, WaitForClusterManager, WaitForOthers, Finish, ApiFails, At
<1>3. Return(c) \/ (Done(c) /\ rec[c].at \in {"license", "manager", "others", "finish"})
  <2>1. WaitForLicenseManager(c) => rec[c].at = "license" /\ (Done(c) \/ Return(c))
    BY DEF WaitForLicenseManager, At
  <2>2. WaitForClusterManager(c) => rec[c].at = "manager" /\ (Done(c) \/ Return(c))
    BY DEF WaitForClusterManager, At
  <2>3. WaitForOthers(c) => rec[c].at = "others" /\ (Done(c) \/ Return(c))  BY DEF WaitForOthers, At
  <2>4. Finish(c) => rec[c].at = "finish" /\ (Done(c) \/ Return(c))  BY DEF Finish, At
  <2>5. ApiFails(c) => Return(c)  BY DEF ApiFails
  <2> QED  BY <2>1, <2>2, <2>3, <2>4, <2>5
<1>4. CASE Return(c)  BY <1>1, <1>2, <1>4, ReturnKeepsReady
<1>5. CASE Done(c) /\ rec[c].at \in {"license", "manager", "others", "finish"}
  <2>1. Becomes(c, NextStep(c, rec[c].at), rec[c].rev, rec[c].ready, rec[c].again)
    BY <1>5, RecBecomes DEF Done, OrderInv
  <2>2. pods' = [s \in SetNames |-> pods'[s]] /\ observed' = [s \in SetNames |-> observed'[s]]
  BY <1>1 DEF ReadyInv, ConfigMapShape
  <2>3. StepOf(c) /\ SameSet(c)  BY <1>1, <2>1, <2>2, PlainStep DEF Becomes, SameSet
  <2>4. CASE rec[c].at = "finish"  BY <1>1, <1>5, <2>3, <2>4, LateDone
  <2>5. CASE rec[c].at # "finish"  BY <1>1, <1>5, <2>3, <2>5, EarlyDone
  <2> QED  BY <2>4, <2>5
<1> QED  BY <1>3, <1>4, <1>5

LEMMA WakeKeepsReady ==
  ASSUME OrderInv, ReadyInv, NEW c \in CRs, Wake(c) PROVE ReadyInv'
<1>1. /\ UNCHANGED <<dep, live, spec, ready, sets, observed, pods, console>> /\ Done(c) /\ rec[c].at = "wake"
      /\ queue \subseteq queue'
  BY DEF Wake, At, Enqueue
<1>2. Becomes(c, NextStep(c, rec[c].at), rec[c].rev, rec[c].ready, rec[c].again)
  BY <1>1, RecBecomes DEF Done, OrderInv
<1>3. pods' = [s \in SetNames |-> pods'[s]] /\ observed' = [s \in SetNames |-> observed'[s]]
  BY <1>1 DEF ReadyInv, ConfigMapShape
<1>4. StepOf(c) /\ SameSet(c)  BY <1>1, <1>2, <1>3, PlainStep DEF Becomes, SameSet
<1> QED  BY <1>1, <1>4, LateDone

\* What ApplyStatefulSet and UpdateStatefulSetPods do to the pods.
LEMMA PodsAreWritten ==
  ASSUME OrderInv, ReadyInv, NEW s \in SetNames, NEW t, ApplyStatefulSet(s, t) \/ UpdateStatefulSetPods(s, t)
  PROVE  /\ pods' = [u \in SetNames |-> pods'[u]]
         /\ \A u \in SetNames \ {s} : pods'[u] = pods[u] /\ sets'[u] = sets[u]
<1>1. pods = [u \in SetNames |-> pods[u]] /\ sets = [u \in SetNames |-> sets[u]]
  BY DEF ReadyInv, ConfigMapShape, OrderInv, Shape
<1>2. pods' = pods \/ pods' = [pods EXCEPT ![s] = NoSet]  BY DEF ApplyStatefulSet, UpdateStatefulSetPods
<1>3. sets' = sets \/ \E u : sets' = [sets EXCEPT ![s] = u]  BY DEF ApplyStatefulSet, UpdateStatefulSetPods
<1> QED  BY <1>1, <1>2, <1>3

LEMMA SetStepsKeepReady ==
  ASSUME OrderInv, ReadyInv, NEW c \in CRs, UpdateDeployer(c) \/ DeleteSetForNine(c) PROVE ReadyInv'
<1>1. UNCHANGED <<dep, live, spec, ready, console, queue>> /\ Done(c) /\ rec[c].at \in {"deployer", "delete9"}
  BY DEF UpdateDeployer, DeleteSetForNine, At
<1>2. /\ pods = [u \in SetNames |-> pods[u]] /\ observed = [u \in SetNames |-> observed[u]]
      /\ sets = [u \in SetNames |-> sets[u]]
  BY DEF ReadyInv, ConfigMapShape, OrderInv, Shape
<1>3. /\ pods' = [u \in SetNames |-> pods'[u]] /\ observed' = [u \in SetNames |-> observed'[u]]
      /\ \A d \in CRs \ {c} : SameSet(d)
  <2>1. CASE UpdateDeployer(c)
    <3>1. rec[c].at = "deployer" /\ observed' = observed  BY <2>1 DEF UpdateDeployer, At
    <3>2. c \in SearchHeads  BY <3>1, OwnDeployer DEF OrderInv, StepsAreOwn, Shape, SearchHeads
    <3>3. Deployer(c) \in SetNames /\ \A d \in CRs : Main(d) # Deployer(c) /\ Main(d) \in SetNames
      BY <3>2, NamesOfSets
    <3>4. PICK t : ApplyStatefulSet(Deployer(c), t) \/ UpdateStatefulSetPods(Deployer(c), t)
      BY <2>1 DEF UpdateDeployer
    <3> QED  BY <1>2, <3>1, <3>3, <3>4, PodsAreWritten DEF SameSet
  <2>2. CASE DeleteSetForNine(c)
    <3>1. \/ UNCHANGED <<sets, observed, pods>>
          \/ /\ pods' = [pods EXCEPT ![Main(c)] = NoSet] /\ sets' = [sets EXCEPT ![Main(c)] = NoSet]
             /\ observed' = [observed EXCEPT ![Main(c)] = NoSet]
      BY <2>2 DEF DeleteSetForNine
    <3>2. \A d \in CRs \ {c} : Main(d) # Main(c) /\ Main(d) \in SetNames  BY NamesOfSets
    <3> QED  BY <1>2, <3>1, <3>2 DEF SameSet
  <2> QED  BY <2>1, <2>2
<1>4. Becomes(c, NextStep(c, rec[c].at), rec[c].rev, rec[c].ready, rec[c].again)
  BY <1>1, RecBecomes DEF Done, OrderInv
<1>5. StepOf(c)  BY <1>1, <1>3, <1>4, PlainStep DEF Becomes
<1> QED  BY <1>1, <1>5, EarlyDone

\* GetMCConfigMap
LEMMA ReadKeepsReady ==
  ASSUME OrderInv, ReadyInv, NEW c \in CRs, ReadConfigMap(c) PROVE ReadyInv'
<1>1. UNCHANGED <<dep, live, spec, ready, sets, observed, pods, queue>> /\ rec[c].at = "read"  BY DEF ReadConfigMap, At
<1>2. PICK x : x = console'[c].rev  OBVIOUS
<1>3. rec' = [rec EXCEPT ![c].rev = x, ![c].at = NextStep(c, "read")]  BY <1>2 DEF ReadConfigMap
<1>4. Becomes(c, NextStep(c, "read"), x, rec[c].ready, rec[c].again)  BY <1>3, RecBecomes DEF OrderInv
<1>5. console \in [Consoles -> ConfigMap]  BY DEF ReadyInv, ConfigMapShape
<1>6. /\ console' \in [Consoles -> ConfigMap]
      /\ \A m \in Consoles : /\ console'[m].urls = console[m].urls
                             /\ console[m].owned => console'[m] = console[m]
      /\ c \in Consoles => console'[c].owned
  <2>1. CASE console[c].owned
    <3>1. console' = console  BY <2>1 DEF ReadConfigMap
    <3> QED  BY <1>5, <2>1, <3>1
  <2>2. CASE ~console[c].owned
    <3>1. console' = [console EXCEPT ![c].owned = TRUE, ![c].rev = @ + 1]  BY <2>2 DEF ReadConfigMap
    <3>2. CASE c \notin Consoles
      <4>1. console' = [m \in Consoles |-> console'[m]]  BY <1>5, <3>1
      <4>2. ASSUME NEW m \in Consoles PROVE console'[m] = console[m]
        <5>1. m # c  BY <3>2
        <5> QED  BY <1>5, <3>1, <5>1
      <4>3. console' \in [Consoles -> ConfigMap]  BY <1>5, <4>1, <4>2
      <4> QED  BY <3>2, <4>2, <4>3
    <3>3. CASE c \in Consoles
      <4>1. PICK u, v, o : /\ console[c] = [urls |-> u, rev |-> v, owned |-> o]
                           /\ u \in [Registering -> Seq(CRs \X Replicas)] /\ v \in Nat /\ o \in BOOLEAN
        BY <1>5, <3>3 DEF ConfigMap
      <4>2. PICK y : y = [console[c] EXCEPT !.owned = TRUE]  OBVIOUS
      <4>3. y = [urls |-> u, rev |-> v, owned |-> TRUE]
        <5>1. ASSUME NEW o1, NEW z, z = [console[c] EXCEPT !.owned = o1]
              PROVE  z = [urls |-> u, rev |-> v, owned |-> o1]
          BY <4>1, <5>1
        <5> QED  BY <4>2, <5>1, Zenon
      <4>4. console'[c] = [y EXCEPT !.rev = @ + 1]  BY <1>5, <3>1, <3>3, <4>2
      <4>5. console'[c] = [urls |-> u, rev |-> v + 1, owned |-> TRUE]  BY <4>3, <4>4
      <4>6. v + 1 \in Nat  BY <4>1
      <4>7. console'[c] \in ConfigMap  BY <4>1, <4>5, <4>6 DEF ConfigMap
      <4>8. console'[c].urls = console[c].urls /\ console'[c].owned  BY <4>1, <4>5
      <4>9. \A m \in Consoles \ {c} : console'[m] = console[m]  BY <1>5, <3>1
      <4>10. console' = [m \in Consoles |-> console'[m]]  BY <1>5, <3>1
      <4>11. \A m \in Consoles : console'[m] \in ConfigMap  BY <1>5, <4>7, <4>9
      <4>12. console' \in [Consoles -> ConfigMap]  BY <4>10, <4>11
      <4> QED  BY <2>2, <4>8, <4>9, <4>12
    <3> QED  BY <3>2, <3>3
  <2> QED  BY <2>1, <2>2
<1>7. OwnersAreTold /\ \A d : UrlsStay(d)  BY <1>6 DEF OwnersAreTold, UrlsStay
<1>8. pods' = [s \in SetNames |-> pods'[s]] /\ observed' = [s \in SetNames |-> observed'[s]]
  BY <1>1 DEF ReadyInv, ConfigMapShape
<1>9. StepOf(c)  BY <1>1, <1>4, <1>6, <1>7, <1>8 DEF StepOf, Becomes, SameSet
<1>10. ~rec[c].ready  BY <1>1 DEF ReadyInv, ReadyIsLate
<1>11. NextStep(c, "read") # "idle"  BY <1>1, NextIsBusy DEF OrderInv, Shape, StepsAreOwn
<1>12. ASSUME c \in live' \ queue' PROVE Current(c)'
  <2>1. Current(c)  BY <1>1, <1>12 DEF ReadyInv
  <2>2. Kind(c)' = Kind(c)  BY <1>1 DEF Kind
  <2>3. Kind(c) = "MonitoringConsole" => c \in Consoles  BY ConsoleKind DEF OrderInv, Shape
  <2>4. Kind(c) = "MonitoringConsole" => Told(c)'  BY <1>2, <1>4, <1>6, <2>3 DEF Told, Becomes
  <2>5. rec'[c].spec = spec'[c] /\ ~rec'[c].ready /\ rec'[c].at # "idle"
    BY <1>1, <1>4, <1>10, <1>11, <2>1 DEF Current, Becomes
  <2> QED  BY <2>2, <2>4, <2>5 DEF Current
<1> QED  BY <1>4, <1>9, <1>10, <1>12, StepKeeps DEF Becomes
\* A step that changes ConfigMaps as ApplyMonitoringConsoleEnvConfigMap does, and
\* tells the owners.
LEMMA ConsoleStep ==
  ASSUME OrderInv, ReadyInv, NEW c \in CRs, NEW r \in Replicas, NEW touched,
         UNCHANGED <<dep, live, spec, ready, sets, observed, pods>>, \A d \in CRs \ {c} : rec'[d] = rec[d],
         console' = [m \in Consoles |-> console'[m]],
         \A m \in Consoles : console'[m] \in {console[m], Added(m, c, r), Deleted(m, c, r)},
         \A m \in Consoles \ touched : console'[m] = console[m],
         queue \subseteq queue', \A m \in touched \cap Consoles : Owners(m) \cap live \subseteq queue'
  PROVE  StepOf(c)
<1>1. console \in [Consoles -> ConfigMap] /\ dep \in Deployments /\ ConfigMapShape
  BY DEF ReadyInv, ConfigMapShape, OrderInv, Shape
<1>2. \A m \in Consoles : console'[m] \in ConfigMap /\ console'[m].owned = console[m].owned
  BY <1>1, AddedIs, DeletedIs
<1>3. console' \in [Consoles -> ConfigMap]  BY <1>2
<1>4. OwnersAreTold
  <2> SUFFICES ASSUME NEW d \in (live' \cap Consoles) \ queue', console[d].owned
               PROVE  console'[d].owned /\ console'[d].rev = console[d].rev
    BY DEF OwnersAreTold
  <2>1. d \in Owners(d)  BY DEF Owners
  <2>2. d \notin touched  BY <2>1
  <2> QED  BY <2>2
<1>5. ASSUME NEW d \in CRs \ {c} PROVE UrlsStay(d)
  <2> SUFFICES ASSUME Kind(d) \in Registering, NEW m \in Consoles,
                      NEW x \in ToSet(console[m].urls[Kind(d)]), x[1] = d
               PROVE  x \in ToSet(console'[m].urls[Kind(d)])
    BY DEF UrlsStay
  <2>1. x \in ToSet(Added(m, c, r).urls[Kind(d)])  BY <1>1, AddedIs
  <2>2. x \in ToSet(Deleted(m, c, r).urls[Kind(d)])  BY <1>1, <1>5, DeletedIs
  <2> QED  BY <2>1, <2>2
<1>6. pods' = [s \in SetNames |-> pods'[s]] /\ observed' = [s \in SetNames |-> observed'[s]]
  BY DEF ReadyInv, ConfigMapShape
<1> QED  BY <1>3, <1>4, <1>5, <1>6 DEF StepOf, SameSet

\* validateMonitoringConsoleRef
LEMMA MoveKeepsReady ==
  ASSUME OrderInv, ReadyInv, NEW c \in CRs, MoveConsole(c) PROVE ReadyInv'
<1>1. /\ UNCHANGED <<dep, live, spec, ready, sets, observed, pods>> /\ Done(c) /\ rec[c].at = "move"
  BY DEF MoveConsole, At
<1>2. Becomes(c, NextStep(c, rec[c].at), rec[c].rev, rec[c].ready, rec[c].again)
  BY <1>1, RecBecomes DEF Done, OrderInv
<1>3. PICK old, new :
        /\ console' = [m \in Consoles |-> CASE m = old -> Deleted(m, c, rec[c].spec.replicas)
                                            [] m = new -> Added(m, c, rec[c].spec.replicas)
                                            [] OTHER -> console[m]]
        /\ Enqueue(UNION {Owners(m) : m \in {old, new} \ {None}})
  BY DEF MoveConsole
<1>4. rec[c].spec.replicas \in Replicas  BY DEF OrderInv, Shape, SpecOfUser
<1>5. PICK r \in Replicas : r = rec[c].spec.replicas  BY <1>4
<1>6. /\ console' = [m \in Consoles |-> console'[m]]
      /\ \A m \in Consoles : console'[m] \in {console[m], Added(m, c, r), Deleted(m, c, r)}
      /\ \A m \in Consoles \ {old, new} : console'[m] = console[m]
  BY <1>3, <1>5
<1>7. None \notin Consoles  BY ReconcileAssumption
<1>8. queue \subseteq queue' /\ \A m \in {old, new} \cap Consoles : Owners(m) \cap live \subseteq queue'
  BY <1>3, <1>7 DEF Enqueue
<1>9. \A d \in CRs \ {c} : rec'[d] = rec[d]  BY <1>2 DEF Becomes
<1>10. StepOf(c)  BY <1>1, <1>6, <1>8, <1>9, ConsoleStep
<1> QED  BY <1>1, <1>8, <1>10, EarlyDone

\* What Register and Unregister do.
LEMMA OneConsoleStep ==
  ASSUME OrderInv, ReadyInv, NEW c \in CRs, NEW m, NEW r \in Replicas, NEW new,
         UNCHANGED <<dep, live, spec, ready, sets, observed, pods>>, \A d \in CRs \ {c} : rec'[d] = rec[d],
         console' = [console EXCEPT ![m] = new], new = Added(m, c, r) \/ new = Deleted(m, c, r),
         IF console' = console THEN queue' = queue ELSE Enqueue(Owners(m))
  PROVE  StepOf(c) /\ queue \subseteq queue' /\ (m \in Consoles => console'[m] = new)
<1>1. console \in [Consoles -> ConfigMap]  BY DEF ReadyInv, ConfigMapShape
<1>2. /\ console' = [k \in Consoles |-> console'[k]] /\ \A k \in Consoles \ {m} : console'[k] = console[k]
      /\ m \in Consoles => console'[m] = new
  BY <1>1
<1>3. \A k \in Consoles : console'[k] \in {console[k], Added(k, c, r), Deleted(k, c, r)}  BY <1>2
<1>4. queue \subseteq queue'  BY DEF Enqueue
<1>5. CASE console' = console
  <2>1. pods' = [s \in SetNames |-> pods'[s]] /\ observed' = [s \in SetNames |-> observed'[s]]
  BY DEF ReadyInv, ConfigMapShape
  <2>2. StepOf(c)  BY <1>4, <1>5, <2>1, PlainStep DEF SameSet
  <2> QED  BY <1>2, <1>4, <2>2
<1>6. CASE console' # console
  <2>1. \A k \in {m} \cap Consoles : Owners(k) \cap live \subseteq queue'  BY <1>6 DEF Enqueue
  <2>2. PICK touched : touched = {m}  OBVIOUS
  <2>3. StepOf(c)  BY <1>2, <1>3, <1>4, <2>1, <2>2, ConsoleStep
  <2> QED  BY <1>2, <1>4, <2>3
<1> QED  BY <1>5, <1>6

LEMMA UnregisterKeepsReady ==
  ASSUME OrderInv, ReadyInv, NEW c \in CRs, Unregister(c) PROVE ReadyInv'
<1>1. UNCHANGED <<dep, live, spec, ready, sets, observed, pods>> /\ rec[c].at = "unregister"  BY DEF Unregister, At
<1>2. /\ Becomes(c, Removal(c), rec[c].rev, rec[c].ready, rec[c].again)
      /\ Removal(c) \in {"references", "finalize"}
  BY RecBecomes DEF Unregister, OrderInv, Removal
<1>3. rec[c].spec.replicas \in Replicas  BY DEF OrderInv, Shape, SpecOfUser
<1>4. PICK r, m, new : /\ r \in Replicas /\ r = rec[c].spec.replicas
                       /\ m = rec[c].spec.console /\ new = Deleted(m, c, r)
  BY <1>3
<1>5. /\ console' = [console EXCEPT ![m] = new]
      /\ IF console' = console THEN queue' = queue ELSE Enqueue(Owners(m))
  BY <1>4 DEF Unregister
<1>6. \A d \in CRs \ {c} : rec'[d] = rec[d]  BY <1>2 DEF Becomes
<1>7. StepOf(c) /\ queue \subseteq queue'  BY <1>1, <1>4, <1>5, <1>6, OneConsoleStep
<1>8. ~rec[c].ready  BY <1>1 DEF ReadyInv, ReadyIsLate
<1>9. ~HasRead(c)'  BY <1>2, <1>8 DEF HasRead, Becomes
<1>10. ASSUME c \in live' \ queue' PROVE Current(c)'
  <2>1. c \in live \ queue  BY <1>1, <1>7, <1>10
  <2> QED  BY <1>1, <1>2, <1>7, <1>8, <1>9, <1>10, <2>1, EarlyStep DEF Becomes
<1> QED  BY <1>2, <1>7, <1>8, <1>10, StepKeeps DEF Becomes

LEMMA ReferencesKeepReady ==
  ASSUME OrderInv, ReadyInv, NEW c \in CRs, CheckReferences(c) PROVE ReadyInv'
<1>1. UNCHANGED <<dep, live, spec, ready, sets, observed, pods, console, queue>> /\ rec[c].at = "references"
  BY DEF CheckReferences, At
<1>2. CASE Return(c)  BY <1>1, <1>2, ReturnKeepsReady
<1>3. CASE rec' = [rec EXCEPT ![c].at = "finalize"]
  <2>1. Becomes(c, "finalize", rec[c].rev, rec[c].ready, rec[c].again)  BY <1>3, RecBecomes DEF OrderInv
  <2>2. pods' = [s \in SetNames |-> pods'[s]] /\ observed' = [s \in SetNames |-> observed'[s]]
    BY <1>1 DEF ReadyInv, ConfigMapShape
  <2>3. StepOf(c)  BY <1>1, <2>1, <2>2, PlainStep DEF Becomes, SameSet
  <2>4. ~rec[c].ready  BY <1>1 DEF ReadyInv, ReadyIsLate
  <2>5. ~HasRead(c)'  BY <2>1, <2>4 DEF HasRead, Becomes
  <2>6. ASSUME c \in live' \ queue' PROVE Current(c)'
    BY <1>1, <2>1, <2>3, <2>4, <2>5, <2>6, EarlyStep DEF Becomes
  <2> QED  BY <2>1, <2>3, <2>4, <2>6, StepKeeps DEF Becomes
<1> QED  BY <1>2, <1>3 DEF CheckReferences

LEMMA RegisterKeepsReady ==
  ASSUME OrderInv, ReadyInv, NEW c \in CRs, Register(c) PROVE ReadyInv'
<1>1. UNCHANGED <<dep, live, spec, ready, sets, observed, pods>> /\ rec[c].at = "register"  BY DEF Register, At
<1>2. PICK next : next = IF rec[c].ready THEN NextStep(c, "register") ELSE "save"  OBVIOUS
<1>3. rec' = [rec EXCEPT ![c].at = next]  BY <1>2 DEF Register
<1>4. Becomes(c, next, rec[c].rev, rec[c].ready, rec[c].again)  BY <1>3, RecBecomes DEF OrderInv
<1>5. next \in Late /\ next # "idle"
  <2>1. OwnStep(c, rec[c].at) /\ dep \in Deployments  BY DEF OrderInv, Shape, StepsAreOwn
  <2>2. NextStep(c, "register") \in Late  BY <1>1, <2>1, LateSteps
  <2> QED  BY <1>2, <2>2 DEF Late
<1>6. rec[c].spec.replicas \in Replicas  BY DEF OrderInv, Shape, SpecOfUser
<1>7. PICK r, m, new : /\ r \in Replicas /\ r = rec[c].spec.replicas
                       /\ m = rec[c].spec.console /\ new = Added(m, c, r)
  BY <1>6
<1>8. /\ console' = [console EXCEPT ![m] = new]
      /\ IF console' = console THEN queue' = queue ELSE Enqueue(Owners(m))
  BY <1>7 DEF Register
<1>9. \A d \in CRs \ {c} : rec'[d] = rec[d]  BY <1>4 DEF Becomes
<1>10. StepOf(c) /\ queue \subseteq queue' /\ (m \in Consoles => console'[m] = new)
  <2>1. r \in Replicas /\ (new = Added(m, c, r) \/ new = Deleted(m, c, r))  BY <1>7
  <2> QED  BY <1>1, <1>8, <1>9, <2>1, OneConsoleStep
<1>11. HasRead(c)  BY <1>1 DEF HasRead
<1>12. ASSUME c \in live' \ queue' PROVE Current(c)'
  <2>1. c \in live \ queue  BY <1>1, <1>10, <1>12
  <2>2. CASE ~rec[c].ready  BY <1>1, <1>4, <1>5, <1>10, <1>11, <1>12, <2>1, <2>2, EarlyStep DEF Becomes
  <2>3. CASE rec[c].ready
    <3>1. rec[c].spec = spec[c]  BY <1>1, <2>1 DEF ReadyInv, Current
    <3>2. Listed(c)'
      <4>1. Kind(c)' = Kind(c) /\ \A x : Urls(c, x)' = Urls(c, x)  BY <1>1 DEF Kind, Urls
      <4>2. SUFFICES ASSUME m \in live, Kind(c) \in Registering
                     PROVE  ToSet(Urls(c, r)) \subseteq ToSet(console'[m].urls[Kind(c)])
        BY <1>1, <1>7, <3>1, <4>1 DEF Listed
      <4>3. m \in Consoles  BY <1>7, <3>1, <4>2, ConsoleIsName
      <4>4. ToSet(Urls(c, r)) \subseteq ToSet(Added(m, c, r).urls[Kind(c)])
        BY <1>7, <4>2, <4>3, AddedIs DEF OrderInv, Shape, ReadyInv
      <4> QED  BY <1>7, <1>10, <4>3, <4>4
    <3>3. SameSet(c)  BY <1>1 DEF SameSet
    <3> QED  BY <1>1, <1>4, <1>5, <1>10, <1>12, <2>1, <2>3, <3>2, <3>3, LateStep DEF Becomes
  <2> QED  BY <2>2, <2>3
<1> QED  BY <1>4, <1>5, <1>10, <1>12, StepKeeps DEF Becomes

\* What UpdateStatefulSetPods takes for up to date is so, or the status lags.
LEMMA FoundReady ==
  ASSUME NEW c \in CRs, PhaseReady(c) PROVE RunsTemplate(c) \/ StatusLags(c)
<1>1. PICK p, o, t : p = pods[Main(c)] /\ o = observed[Main(c)] /\ t = sets[Main(c)]  OBVIOUS
<1>2. /\ t = Template(c) /\ p.image # 0 /\ p.replicas = t.replicas
      /\ <<p.image, p.console, p.rev>> = <<o.image, o.console, o.rev>>
  BY <1>1 DEF PhaseReady, UpToDate, AllReady, Outdated, Revision
<1>3. p.image = o.image /\ p.console = o.console /\ p.rev = o.rev  BY <1>2
<1>4. /\ t.image = rec[c].spec.image /\ t.replicas = rec[c].spec.replicas
      /\ t.console = rec[c].spec.console /\ t.rev = rec[c].rev
  BY <1>2 DEF Template
<1>5. CASE o = t  BY <1>1, <1>2, <1>3, <1>4, <1>5 DEF RunsTemplate
<1>6. CASE o # t  BY <1>1, <1>2, <1>6 DEF StatusLags
<1> QED  BY <1>5, <1>6

\* The StatefulSet is up to date, or it is not and the reconcile is run again.
LEMMA UpdateKeepsReady ==
  ASSUME OrderInv, ReadyInv, NEW c \in CRs, Update(c) PROVE ReadyInv'
<1>1. UNCHANGED <<dep, live, spec, ready, observed, console, queue>> /\ rec[c].at = "update"  BY DEF Update, At
<1>2. pods = [u \in SetNames |-> pods[u]] /\ observed = [u \in SetNames |-> observed[u]]
  BY DEF ReadyInv, ConfigMapShape
<1>3. ~rec[c].ready  BY <1>1 DEF ReadyInv, ReadyIsLate
<1>4. HasRead(c)  BY <1>1 DEF HasRead
<1>5. CASE Blocked(c) /\ UNCHANGED <<sets, pods>> /\ Return(c)  BY <1>1, <1>5, ReturnKeepsReady
<1>6. CASE /\ PhaseReady(c) /\ UNCHANGED <<sets, pods>>
           /\ rec' = [rec EXCEPT ![c].ready = TRUE, ![c].at = NextStep(c, "update")]
  <2> DEFINE next == NextStep(c, "update")
  <2>1. Becomes(c, next, rec[c].rev, TRUE, rec[c].again)  BY <1>6, RecBecomes, Zenon DEF OrderInv
  <2>2. OwnStep(c, "update") /\ dep \in Deployments  BY <1>1 DEF OrderInv, Shape, StepsAreOwn
  <2>3. next \in Late /\ (Kind(c) \in Registering /\ rec[c].spec.console # None => next = "register")
    BY <2>2, LateSteps
  <2> HIDE DEF next
  <2>4. StepOf(c)  BY <1>1, <1>2, <1>6, <2>1, PlainStep DEF Becomes, SameSet
  <2>5. ASSUME c \in live' \ queue' PROVE Current(c)'
    <3>1. Current(c)  BY <1>1, <2>5 DEF ReadyInv
    <3>2. Kind(c)' = Kind(c) /\ Main(c)' = Main(c)
      BY <1>1 DEF Kind, Main
    <3>3. rec'[c].spec = spec'[c] /\ rec'[c].at # "idle"  BY <1>1, <2>1, <2>3, <3>1 DEF Current, Becomes, Late
    <3>4. (RunsTemplate(c) \/ StatusLags(c))'
      <4>1. RunsTemplate(c) \/ StatusLags(c)  BY <1>6, FoundReady
      <4>2. StatusLags(c) => StatusLags(c)'  BY <1>1, <1>6, <3>2 DEF StatusLags
      <4>3. RunsTemplate(c) => RunsTemplate(c)'  BY <1>6, <2>1, <3>2 DEF RunsTemplate, Becomes
      <4> QED  BY <4>1, <4>2, <4>3
    <3>5. Kind(c) = "MonitoringConsole" => Told(c)'  BY <1>1, <1>4, <2>1, <3>1 DEF Current, Told, Becomes
    <3>6. rec'[c].at \in {"finish", "wake", "save"} => Listed(c)'
      <4>1. None \notin live  BY RefsAreNames DEF OrderInv, Shape
      <4>2. rec[c].spec.console = spec[c].console  BY <1>1, <3>1 DEF Current
      <4> QED  BY <1>1, <2>1, <2>3, <3>2, <4>1, <4>2 DEF Listed, Becomes
    <3> QED  BY <3>2, <3>3, <3>4, <3>5, <3>6 DEF Current
  <2> QED  BY <2>1, <2>3, <2>4, <2>5, StepKeeps DEF Becomes
<1>7. CASE /\ \/ ApplyStatefulSet(Main(c), Template(c)) \/ UpdateStatefulSetPods(Main(c), Template(c))
              \/ UNCHANGED <<sets, pods>>
           /\ rec' = [rec EXCEPT ![c].again = TRUE, ![c].at = Unconditional(c)]
  <2>1. Becomes(c, Unconditional(c), rec[c].rev, rec[c].ready, TRUE)  BY <1>7, RecBecomes, Zenon DEF OrderInv
  <2>2. Unconditional(c) \in {"register", "save"}  BY DEF Unconditional
  <2>3. Main(c) \in SetNames /\ \A d \in CRs \ {c} : Main(d) # Main(c) /\ Main(d) \in SetNames  BY NamesOfSets
  <2>4. /\ pods' = [u \in SetNames |-> pods'[u]]
        /\ \A u \in SetNames \ {Main(c)} : pods'[u] = pods[u] /\ sets'[u] = sets[u]
    <3>1. CASE UNCHANGED <<sets, pods>>  BY <1>2, <3>1
    <3>2. PICK t : t = Template(c)  OBVIOUS
    <3>3. CASE ApplyStatefulSet(Main(c), t) \/ UpdateStatefulSetPods(Main(c), t)  BY <2>3, <3>3, PodsAreWritten
    <3> QED  BY <1>7, <3>1, <3>2, <3>3
  <2>5. StepOf(c)  BY <1>1, <1>2, <2>1, <2>3, <2>4, PlainStep DEF Becomes, SameSet
  <2>6. ASSUME c \in live' \ queue' PROVE Current(c)'
    BY <1>1, <1>3, <1>4, <2>1, <2>2, <2>5, <2>6, EarlyStep DEF Becomes
  <2> QED  BY <1>3, <2>1, <2>5, <2>6, StepKeeps DEF Becomes
<1> QED  BY <1>5, <1>6, <1>7 DEF Update

\* A resource goes, and its ConfigMap with it.
LEMMA FinalizeKeepsReady ==
  ASSUME OrderInv, ReadyInv, NEW c \in CRs, Finalize(c) PROVE ReadyInv'
<1>1. UNCHANGED <<dep, spec>>  BY DEF Finalize, At
<1>2. /\ live' = live \ {c} /\ ready' = ready \ {c} /\ queue' = queue \ {c}
      /\ sets' = [s \in SetNames |-> IF s[1] = c THEN NoSet ELSE sets[s]]
      /\ observed' = [s \in SetNames |-> IF s[1] = c THEN NoSet ELSE observed[s]]
      /\ pods' = [s \in SetNames |-> IF s[1] = c THEN NoSet ELSE pods[s]]
      /\ console' = IF c \in Consoles
                    THEN [console EXCEPT ![c] = [urls |-> NoUrls, rev |-> @.rev + 1, owned |-> FALSE]]
                    ELSE console
      /\ rec' = [rec EXCEPT ![c] = Idle]
  BY DEF Finalize
<1>3. console \in [Consoles -> ConfigMap]  BY DEF ReadyInv, ConfigMapShape
<1>4. console' \in [Consoles -> ConfigMap] /\ \A m \in Consoles \ {c} : console'[m] = console[m]
  <2>1. CASE c \notin Consoles  BY <1>2, <1>3, <2>1
  <2>2. CASE c \in Consoles
    <3>1. PICK new : new = [urls |-> NoUrls, rev |-> console[c].rev + 1, owned |-> FALSE]  OBVIOUS
    <3>2. NoUrls \in [Registering -> Seq(CRs \X Replicas)]
      <4>1. <<>> \in Seq(CRs \X Replicas)  OBVIOUS
      <4> QED  BY <4>1 DEF NoUrls
    <3>3. console[c].rev \in Nat  BY <1>3, <2>2 DEF ConfigMap
    <3>4. console[c].rev + 1 \in Nat  BY <3>3
    <3>5. new \in ConfigMap  BY <3>1, <3>2, <3>4 DEF ConfigMap
    <3>6. console' = [console EXCEPT ![c] = new]  BY <1>2, <2>2, <3>1, Zenon
    <3> QED  BY <1>3, <3>5, <3>6
  <2> QED  BY <2>1, <2>2
<1>5. rec = [d \in CRs |-> rec[d]]  BY DEF OrderInv, Shape
<1>6. rec'[c] = Idle /\ \A d \in CRs \ {c} : rec'[d] = rec[d]  BY <1>2, <1>5
<1>7. ASSUME NEW d \in CRs \ {c} PROVE SameSet(d)
  <2>1. Main(d) \in SetNames /\ Main(d)[1] = d  BY NamesOfSets DEF Main
  <2> QED  BY <1>2, <2>1 DEF SameSet
<1>8. pods' = [s \in SetNames |-> pods'[s]] /\ observed' = [s \in SetNames |-> observed'[s]]  BY <1>2
<1>9. OwnersAreTold /\ \A d : UrlsStay(d)  BY <1>2, <1>4 DEF OwnersAreTold, UrlsStay
<1>10. StepOf(c)  BY <1>1, <1>2, <1>4, <1>6, <1>7, <1>8, <1>9 DEF StepOf
<1>11. ~rec'[c].ready  BY <1>6 DEF Idle
<1> QED  BY <1>2, <1>10, <1>11, StepKeeps

\* What is stored is what was found, and it is still so.
LEMMA SaveKeepsReady ==
  ASSUME OrderInv, ReadyInv, NEW c \in CRs, Save(c) PROVE ReadyInv'
<1>1. UNCHANGED <<dep, live, spec, sets, observed, pods, console>> /\ rec[c].at = "save"  BY DEF Save, At
<1>2. rec = [d \in CRs |-> rec[d]]  BY DEF OrderInv, Shape
<1>3. rec'[c] = Idle /\ \A d \in CRs \ {c} : rec'[d] = rec[d]  BY <1>2 DEF Save
<1>4. Idle.at = "idle" /\ ~Idle.ready  BY DEF Idle
<1>5. /\ ready' = IF rec[c].ready THEN ready \cup {c} ELSE ready \ {c}
      /\ queue' = queue \cup ((IF Requeued(c) THEN {c} ELSE {}) \cap live)
  BY DEF Save, Enqueue
<1>6. pods' = [s \in SetNames |-> pods'[s]] /\ observed' = [s \in SetNames |-> observed'[s]]
  BY <1>1 DEF ReadyInv, ConfigMapShape
<1>7. StepOf(c)  BY <1>1, <1>3, <1>5, <1>6, PlainStep DEF SameSet
<1>8. ASSUME c \in live' \ queue' PROVE Current(c)'
  <2>1. c \in live \ queue /\ ~Requeued(c)  BY <1>1, <1>5, <1>8
  <2>2. Current(c)  BY <2>1 DEF ReadyInv
  <2>3. rec[c].ready /\ ~rec[c].again  BY <2>1 DEF Requeued
  <2>4. Kind(c)' = Kind(c) /\ Main(c)' = Main(c)  BY <1>1 DEF Kind, Main
  <2>5. rec[c].spec = spec[c] /\ (RunsTemplate(c) \/ StatusLags(c)) /\ Listed(c)
    BY <1>1, <2>2, <2>3 DEF Current
  <2>6. Kind(c) = "MonitoringConsole" => Told(c)  BY <2>2, <2>3 DEF Current, HasRead
  <2>7. RunsTemplate(c) =>
        /\ pods[Main(c)].image = spec[c].image /\ pods[Main(c)].replicas = spec[c].replicas
        /\ pods[Main(c)].console = spec[c].console /\ pods[Main(c)].rev = rec[c].rev
    BY <2>5 DEF RunsTemplate
  <2>8. UrlsStay(c)  BY <1>1 DEF UrlsStay
  <2>9. Listed(c)'  BY <1>1, <2>5, <2>8, ListedStays
  <2>10. (Serves(c) \/ StatusLags(c))'
    <3>1. CASE RunsTemplate(c)
      <4>1. Serves(c)'  BY <1>1, <2>6, <2>7, <2>9, <3>1, ServesNext DEF Told
      <4> QED  BY <4>1
    <3>2. CASE StatusLags(c)  BY <1>1, <2>4, <3>2 DEF StatusLags
    <3> QED  BY <2>5, <3>1, <3>2
  <2>11. Kind(c) = "MonitoringConsole" => console'[c].owned  BY <1>1, <2>6 DEF Told
  <2>12. ~HasRead(c)'  BY <1>3, <1>4 DEF HasRead
  <2> QED  BY <1>3, <1>4, <2>4, <2>10, <2>11, <2>12 DEF Current
<1> QED  BY <1>3, <1>4, <1>7, <1>8, StepKeeps

\* A reconcile reads its resource.
LEMMA BeginKeepsReady ==
  ASSUME OrderInv, ReadyInv, NEW c \in CRs, Begin(c) PROVE ReadyInv'
<1>1. /\ UNCHANGED <<dep, live, spec, ready, sets, observed, pods, console>>
      /\ queue' = queue \ {c} /\ rec[c].at = "idle"
  BY DEF Begin
<1>2. rec = [d \in CRs |-> rec[d]]  BY DEF OrderInv, Shape
<1> DEFINE indexer == Kind(c) = "IndexerCluster"
           first == IF indexer /\ ManagerReady(c) /\ ~Answers(c) THEN "save"
                    ELSE IF ~spec[c].deleting THEN NextStep(c, "idle")
                    ELSE IF indexer \/ Kind(c) = "MonitoringConsole" \/ spec[c].console = None
                         THEN Removal(c) ELSE "unregister"
           new == [at |-> first, spec |-> spec[c], manager |-> indexer /\ ManagerReady(c), rev |-> 0,
                   ready |-> FALSE, again |-> first = "save"]
<1>3. rec' = [rec EXCEPT ![c] = new]  BY DEF Begin
<1>4. new.at = first /\ new.spec = spec[c] /\ ~new.ready  OBVIOUS
<1>5. OwnStep(c, "idle") /\ dep \in Deployments  BY DEF OwnStep, OrderInv, Shape
<1>6. first # "idle"  BY <1>5, NextIsBusy DEF Removal
<1>7. Kind(c) = "MonitoringConsole" => first \in {"save", "read", "references", "finalize", "unregister"}
  BY <1>5, LateSteps DEF Removal
<1> HIDE DEF first, new
<1>8. rec'[c] = new /\ \A d \in CRs \ {c} : rec'[d] = rec[d]  BY <1>2, <1>3
<1>9. pods' = [s \in SetNames |-> pods'[s]] /\ observed' = [s \in SetNames |-> observed'[s]]
  BY <1>1 DEF ReadyInv, ConfigMapShape
<1>10. StepOf(c)  BY <1>1, <1>8, <1>9, PlainStep DEF SameSet
<1>11. Current(c)'
  <2>1. Kind(c)' = Kind(c)  BY <1>1 DEF Kind
  <2>2. Kind(c) = "MonitoringConsole" => ~HasRead(c)'  BY <1>4, <1>7, <1>8 DEF HasRead
  <2> QED  BY <1>1, <1>4, <1>6, <1>8, <2>1, <2>2 DEF Current
<1> QED  BY <1>4, <1>8, <1>10, <1>11, StepKeeps

\* What Kubernetes and the user do.
LEMMA OutsideKeepsReady ==
  ASSUME OrderInv, ReadyInv, NEW cs,
         dep' = dep, live' = live, ready' = ready, console' = console, rec' = rec,
         pods' = [s \in SetNames |-> pods'[s]], observed' = [s \in SetNames |-> observed'[s]],
         queue' = queue \cup (cs \cap live),
         \A d \in CRs \ cs : spec'[d] = spec[d] /\ SameSet(d)
  PROVE  ReadyInv'
<1>1. CRs' = CRs /\ SetNames' = SetNames /\ ConfigMap' = ConfigMap
  BY DEF CRs, SetNames, SearchHeads, Kind, Deployer, ConfigMap
<1>2. ConfigMapShape' /\ ReadyIsLate'  BY <1>1 DEF ReadyInv, ConfigMapShape, ReadyIsLate
<1>3. OwnersAreTold /\ \A d : UrlsStay(d)  BY DEF OwnersAreTold, UrlsStay
<1>4. ASSUME NEW d \in live' \ queue' PROVE Current(d)'
  <2>1. d \in CRs \ cs  BY <1>4 DEF OrderInv, Shape
  <2>2. Undisturbed(d)  BY <1>3, <1>4, <2>1 DEF Undisturbed
  <2> QED  BY <2>1, <2>2, UndisturbedKeeps
<1> QED  BY <1>2, <1>4 DEF ReadyInv

\* After a restart of the operator everything is due.
LEMMA RestartKeepsReady ==
  ASSUME OrderInv, ReadyInv, Crash \/ Upgrade PROVE ReadyInv'
<1>1. UNCHANGED <<dep, live, observed, pods, console>> /\ rec' = [c \in CRs |-> Idle] /\ queue' = live
  BY DEF Crash, Upgrade
<1>2. CRs' = CRs /\ SetNames' = SetNames /\ ConfigMap' = ConfigMap
  BY <1>1 DEF CRs, SetNames, SearchHeads, Kind, Deployer, ConfigMap
<1>3. ConfigMapShape'  BY <1>1, <1>2 DEF ReadyInv, ConfigMapShape
<1>4. ReadyIsLate'
  <2>1. ~Idle.ready  BY DEF Idle
  <2> QED  BY <1>1, <1>2, <2>1 DEF ReadyIsLate
<1> QED  BY <1>1, <1>3, <1>4 DEF ReadyInv

LEMMA ReadyKept == ASSUME OrderInv, ReadyInv, [Next]_vars PROVE ReadyInv'
<1>1. CASE \E c \in CRs : Reconciling(c)
  BY <1>1, BeginKeepsReady, ReadKeepsReady, MoveKeepsReady, WaitsKeepReady, SetStepsKeepReady, UpdateKeepsReady,
     RegisterKeepsReady, WakeKeepsReady, UnregisterKeepsReady, ReferencesKeepReady, FinalizeKeepsReady,
     SaveKeepsReady
     DEF Reconciling
<1>2. CASE \E c \in CRs : ApiFails(c)  BY <1>2, WaitsKeepReady
<1>3. pods = [s \in SetNames |-> pods[s]] /\ observed = [s \in SetNames |-> observed[s]]
  BY DEF ReadyInv, ConfigMapShape
<1>4. ASSUME NEW c \in CRs, UserChanges(c) PROVE ReadyInv'
  <2>1. /\ UNCHANGED <<dep, live, ready, sets, observed, pods, console, rec>>
        /\ queue' = queue \cup ({c} \cap live)
    BY <1>4 DEF UserChanges, Enqueue
  <2>2. spec \in [CRs -> SpecOfUser]  BY DEF OrderInv, Shape
  <2>3. \A d \in CRs \ {c} : spec'[d] = spec[d]  BY <1>4, <2>2 DEF UserChanges
  <2>4. \A d \in CRs \ {c} : SameSet(d)  BY <2>1 DEF SameSet
  <2> QED  BY <1>3, <2>1, <2>3, <2>4, OutsideKeepsReady
<1>5. ASSUME NEW s \in SetNames, Observe(s) \/ StartPods(s) \/ PodFails(s) PROVE ReadyInv'
  <2>1. UNCHANGED <<dep, live, spec, ready, sets, console, rec>> /\ queue' = queue \cup ({s[1]} \cap live)
    BY <1>5 DEF Observe, StartPods, PodFails, Enqueue, Owner
  <2>2. /\ pods' = pods \/ \E t : pods' = [pods EXCEPT ![s] = t]
        /\ observed' = observed \/ \E t : observed' = [observed EXCEPT ![s] = t]
    BY <1>5 DEF Observe, StartPods, PodFails
  <2>3. ASSUME NEW d \in CRs \ {s[1]} PROVE SameSet(d)
    <3>1. Main(d) \in SetNames /\ Main(d)[1] = d  BY NamesOfSets DEF Main
    <3>2. Main(d) # s  BY <2>3, <3>1
    <3> QED  BY <1>3, <2>1, <2>2, <3>1, <3>2 DEF SameSet
  <2>4. pods' = [u \in SetNames |-> pods'[u]] /\ observed' = [u \in SetNames |-> observed'[u]]
    BY <1>3, <2>2
  <2>5. PICK cs : cs = {s[1]}  OBVIOUS
  <2> QED  BY <2>1, <2>3, <2>4, <2>5, OutsideKeepsReady
<1>6. CASE UNCHANGED vars
  <2>1. PICK cs : cs = {}  OBVIOUS
  <2>2. queue' = queue \cup (cs \cap live)  BY <1>6, <2>1 DEF vars
  <2> QED  BY <1>3, <1>6, <2>2, OutsideKeepsReady DEF vars, SameSet
<1> QED  BY <1>1, <1>2, <1>4, <1>5, <1>6, RestartKeepsReady DEF Next

LEMMA ReadyInit == ASSUME Init PROVE ReadyInv
<1>1. live \ queue = {}  BY DEF Init
<1>2. ReadyIsLate
  <2>1. ~Idle.ready  BY DEF Idle
  <2> QED  BY <2>1 DEF Init, ReadyIsLate
<1>3. ConfigMapShape
  <2>1. NoUrls \in [Registering -> Seq(CRs \X Replicas)]
    <3>1. <<>> \in Seq(CRs \X Replicas)  OBVIOUS
    <3> QED  BY <3>1 DEF NoUrls
  <2>2. [urls |-> NoUrls, rev |-> 0, owned |-> FALSE] \in ConfigMap  BY <2>1 DEF ConfigMap
  <2>3. console = [m \in Consoles |-> [urls |-> NoUrls, rev |-> 0, owned |-> FALSE]]  BY DEF Init
  <2>4. pods = [s \in SetNames |-> pods[s]] /\ observed = [s \in SetNames |-> observed[s]]  BY DEF Init
  <2>5. PICK x : x = [urls |-> NoUrls, rev |-> 0, owned |-> FALSE]  OBVIOUS
  <2>6. console \in [Consoles -> ConfigMap]  BY <2>2, <2>3, <2>5
  <2> QED  BY <2>4, <2>6 DEF ConfigMapShape
<1> QED  BY <1>1, <1>2, <1>3 DEF ReadyInv

\* A phase Ready that is stored in the status of a resource, and that no reconcile
\* is about to revise, is true once the status of the StatefulSet has caught up: the
\* pods run what the spec asks for, the console of the resource knows its instances,
\* and a console runs with the ConfigMap as it is; whatever is changed, fails, is
\* deleted or is reconciled at the same time.
THEOREM ReadyHolds == Spec => []ReadyIsTrue
<1>1. Init => OrderInv /\ ReadyInv  BY OrderedInit, ReadyInit
<1>2. OrderInv /\ ReadyInv /\ [Next]_vars => (OrderInv /\ ReadyInv)'  BY OrderKept, ReadyKept
<1>3. ReadyInv => ReadyIsTrue  BY DEF ReadyInv, Current, ReadyIsTrue, Quiescent
<1> QED  BY <1>1, <1>2, <1>3, PTL DEF Spec

----------------------------------------------------------------------------
(* Types                                                                    *)

\* What happens is counted.
LEMMA EventsKept ==
  ASSUME TypeInv, [Next]_vars
  PROVE  /\ changes' \in Seq(Changes) /\ faults' \in Seq(Faults) /\ Len(changes) <= Len(changes')
         /\ Len(changes') + Len(faults') <= MaxEvents
<1>1. changes \in Seq(Changes) /\ faults \in Seq(Faults) /\ Len(changes) + Len(faults) <= MaxEvents
  BY DEF TypeInv, TypeOK, Bounds
<1>2. Len(changes) \in Nat /\ Len(faults) \in Nat /\ MaxEvents \in Nat  BY <1>1, ReconcileAssumption
<1> DEFINE Kept == UNCHANGED <<changes, faults>>
           Failed == \E k : Fault(k) /\ changes' = changes
           Changed == \E k : Change(k) /\ faults' = faults
<1>3. Kept \/ Failed \/ Changed
  <2>1. ASSUME NEW c \in CRs, Reconciling(c) PROVE Kept \/ Failed
    <3>1. CASE Begin(c)  BY <3>1 DEF Begin
    <3>2. CASE WaitForClusterManager(c)  BY <3>2 DEF WaitForClusterManager, At, Fine
    <3> QED  BY <2>1, <3>1, <3>2
             DEF Reconciling, ReadConfigMap, MoveConsole, WaitForLicenseManager, WaitForOthers, UpdateDeployer,
                 DeleteSetForNine, Update, Register, Finish, Wake, Unregister, CheckReferences, Finalize, Save, At, Fine
  <2>2. ASSUME NEW c \in CRs, ApiFails(c) \/ UserChanges(c) PROVE Failed \/ Changed
    BY <2>2 DEF ApiFails, UserChanges
  <2>3. ASSUME NEW s \in SetNames, Observe(s) \/ StartPods(s) \/ PodFails(s) PROVE Kept \/ Failed
    BY <2>3 DEF Observe, StartPods, PodFails
  <2>4. Crash \/ Upgrade => Failed \/ Changed  BY DEF Crash, Upgrade
  <2> QED  BY <2>1, <2>2, <2>3, <2>4 DEF Next, vars
<1>4. ASSUME NEW k, Fault(k), changes' = changes
      PROVE  /\ faults' \in Seq(Faults) /\ changes' \in Seq(Changes) /\ Len(changes) <= Len(changes')
             /\ Len(changes') + Len(faults') <= MaxEvents
  <2>1. k \in Faults /\ faults' = Append(faults, k) /\ Len(changes) + Len(faults) < MaxEvents  BY <1>4 DEF Fault
  <2>2. faults' \in Seq(Faults) /\ Len(faults') = Len(faults) + 1  BY <1>1, <2>1
  <2> QED  BY <1>1, <1>2, <1>4, <2>1, <2>2
<1>5. ASSUME NEW k, Change(k), faults' = faults
      PROVE  /\ faults' \in Seq(Faults) /\ changes' \in Seq(Changes) /\ Len(changes) <= Len(changes')
             /\ Len(changes') + Len(faults') <= MaxEvents
  <2>1. k \in Changes /\ changes' = Append(changes, k) /\ Len(changes) + Len(faults) < MaxEvents  BY <1>5 DEF Change
  <2>2. changes' \in Seq(Changes) /\ Len(changes') = Len(changes) + 1  BY <1>1, <2>1
  <2> QED  BY <1>1, <1>2, <1>5, <2>1, <2>2
<1>6. CASE Kept  BY <1>1, <1>2, <1>6
<1> QED  BY <1>3, <1>4, <1>5, <1>6

\* The images of the specs.
LEMMA ImagesKept ==
  ASSUME TypeInv, [Next]_vars
  PROVE  \A c \in CRs : spec'[c].image <= Len(changes') + 1
<1>1. /\ \A c \in CRs : spec[c].image \in Nat /\ spec[c].image <= Len(changes) + 1
      /\ changes \in Seq(Changes)
  BY DEF TypeInv, Bounds, TypeOK, OrderInv, Shape, SpecOfUser
<1>2. changes' \in Seq(Changes) /\ Len(changes) <= Len(changes')  BY EventsKept
<1>3. Len(changes) \in Nat /\ Len(changes') \in Nat  BY <1>1, <1>2
<1>4. CASE \A c \in CRs : spec'[c].image = spec[c].image  BY <1>1, <1>2, <1>3, <1>4
<1>5. CASE Upgrade
  <2>1. PICK new : new = 1 + Max({spec[c].image : c \in CRs})  OBVIOUS
  <2>2. spec' = [c \in CRs |-> [spec[c] EXCEPT !.image = new]] /\ changes' = Append(changes, "upgrade")
    BY <1>5, <2>1 DEF Upgrade, Change
  <2>3. Len(changes') = Len(changes) + 1  BY <1>1, <2>2
  <2>4. ASSUME NEW c \in CRs PROVE new <= Len(changes') + 1
    <3>1. PICK x : x = spec[c].image  OBVIOUS
    <3>2. {spec[d].image : d \in CRs} = {x}  BY <3>1 DEF TypeInv, OrderInv, OneImage
    <3>3. Max({x}) = x  BY <1>1, <3>1 DEF Max
    <3>4. new = 1 + x  BY <2>1, <3>2, <3>3, Zenon
    <3> QED  BY <1>1, <1>3, <2>3, <3>1, <3>4
  <2>5. \A c \in CRs : spec[c] \in SpecOfUser  BY DEF TypeInv, OrderInv, Shape
  <2>6. \A c \in CRs : spec'[c].image = new  BY <2>2, <2>5 DEF SpecOfUser
  <2> QED  BY <2>4, <2>6
<1>6. ASSUME NEW c \in CRs, UserChanges(c) PROVE \A d \in CRs : spec'[d].image = spec[d].image
  <2>1. spec \in [CRs -> SpecOfUser]  BY DEF TypeInv, OrderInv, Shape
  <2>2. \/ spec' = [spec EXCEPT ![c].replicas = 3 - @]
        \/ \E m \in Consoles \cup {None} : spec' = [spec EXCEPT ![c].console = m]
        \/ spec' = [spec EXCEPT ![c].deleting = TRUE]
    BY <1>6 DEF UserChanges
  <2> QED  BY <2>1, <2>2 DEF SpecOfUser
<1>7. spec' = spec \/ Upgrade \/ \E c \in CRs : UserChanges(c)
  BY DEF Next, Reconciling, Begin, ReadConfigMap, MoveConsole, WaitForLicenseManager, WaitForClusterManager,
         WaitForOthers, UpdateDeployer, DeleteSetForNine, Update, Register, Finish, Wake, Unregister, CheckReferences, Finalize,
         Save, At, ApiFails, Observe, StartPods, PodFails, Crash, vars
<1> QED  BY <1>4, <1>5, <1>6, <1>7

\* An image of a spec that is within its bound.
LEMMA SpecTyped ==
  ASSUME NEW s \in SpecOfUser, s.image <= MaxEvents + 1 PROVE s \in Specs
<1>1. s.image \in Images  BY ReconcileAssumption DEF SpecOfUser, Images
<1> QED  BY <1>1 DEF SpecOfUser, Specs

LEMMA SpecsKept ==
  ASSUME TypeInv, [Next]_vars PROVE spec' \in [CRs -> Specs]
<1>1. OrderInv' /\ CRs' = CRs  BY OrderKept, DepIsKept DEF TypeInv
<1>2. spec' \in [CRs -> SpecOfUser]  BY <1>1 DEF OrderInv, Shape, SpecOfUser
<1>3. /\ changes' \in Seq(Changes) /\ faults' \in Seq(Faults) /\ Len(changes') + Len(faults') <= MaxEvents
      /\ \A c \in CRs : spec'[c].image <= Len(changes') + 1
  BY EventsKept, ImagesKept
<1>4. ASSUME NEW c \in CRs PROVE spec'[c] \in Specs
  <2>1. Len(changes') \in Nat /\ Len(faults') \in Nat  BY <1>3
  <2>2. spec'[c] \in SpecOfUser /\ spec'[c].image \in Nat  BY <1>2 DEF SpecOfUser
  <2>3. spec'[c].image <= MaxEvents + 1  BY <1>3, <2>1, <2>2, ReconcileAssumption
  <2> QED  BY <2>2, <2>3, SpecTyped
<1> QED  BY <1>2, <1>4

\* Only a monitoring console reads its ConfigMap.
LEMMA OwnRead ==
  ASSUME dep \in Deployments, NEW c \in CRs, OwnStep(c, "read") PROVE Kind(c) = "MonitoringConsole"
<1>1. PICK i \in 1 .. Len(StepsOf(c)) : "read" = StepsOf(c)[i]  BY DEF OwnStep
<1>2. i \in 1 .. 7 /\ (Kind(c) # "SearchHeadCluster" => i \in 1 .. 6)  BY <1>1, KindType, StepsByKind
<1>3. CASE Kind(c) = "SearchHeadCluster"
  <2>1. i = 1 \/ i = 2 \/ i = 3 \/ i = 4 \/ i = 5 \/ i = 6 \/ i = 7  BY <1>2
  <2> QED  BY <1>1, <1>3, <2>1, StepsByKind
<1>4. CASE Kind(c) # "SearchHeadCluster"
  <2>1. i = 1 \/ i = 2 \/ i = 3 \/ i = 4 \/ i = 5 \/ i = 6  BY <1>2, <1>4
  <2> QED  BY <1>1, <1>2, <1>4, <2>1, KindType, StepsByKind
<1> QED  BY <1>3, <1>4

\* The reconcile of c goes on.
Moves(c) ==
  /\ rec[c].at # "idle"
  /\ \E new : \E rev \in Nat, rdy, again \in BOOLEAN : Becomes(c, new, rev, rdy, again)

LEMMA MovesIs ==
  ASSUME TypeInv, NEW c \in CRs, rec[c].at # "idle", NEW new, NEW x \in Nat,
         \/ rec' = [rec EXCEPT ![c].at = new]
         \/ rec' = [rec EXCEPT ![c].at = new, ![c].again = TRUE]
         \/ rec' = [rec EXCEPT ![c].again = TRUE, ![c].at = new]
         \/ rec' = [rec EXCEPT ![c].rev = x, ![c].at = new]
         \/ rec' = [rec EXCEPT ![c].ready = TRUE, ![c].at = new]
  PROVE  Moves(c)
<1>1. rec[c].rev \in Nat /\ rec[c].ready \in BOOLEAN /\ rec[c].again \in BOOLEAN
  BY DEF TypeInv, TypeOK, Reconciles
<1>2. Shape  BY DEF TypeInv, OrderInv
<1>3. \/ Becomes(c, new, rec[c].rev, rec[c].ready, rec[c].again)
      \/ Becomes(c, new, rec[c].rev, rec[c].ready, TRUE)
      \/ Becomes(c, new, x, rec[c].ready, rec[c].again)
      \/ Becomes(c, new, rec[c].rev, TRUE, rec[c].again)
  BY <1>2, RecBecomes
<1> QED  BY <1>1, <1>3 DEF Moves

LEMMA ReturnMoves ==
  ASSUME TypeInv, NEW c \in CRs, rec[c].at # "idle", Return(c) \/ Done(c) PROVE Moves(c)
  BY MovesIs DEF Return, Done

LEMMA ReadMoves ==
  ASSUME TypeInv, NEW c \in CRs, ReadConfigMap(c) PROVE Moves(c)
<1>1. rec[c].at = "read"  BY DEF ReadConfigMap, At
<1>2. c \in Consoles  BY <1>1, OwnRead, ConsoleKind DEF TypeInv, OrderInv, StepsAreOwn, Shape
<1>3. console' \in [Consoles -> ConfigMap]
  <2>1. Next /\ dep' = dep  BY DEF Next, Reconciling, ReadConfigMap, At
  <2>2. ReadyInv'  BY <2>1, ReadyKept DEF TypeInv
  <2>3. ConfigMap' = ConfigMap  BY <2>1 DEF ConfigMap, CRs
  <2> QED  BY <2>2, <2>3 DEF ReadyInv, ConfigMapShape
<1>4. console'[c].rev \in Nat  BY <1>2, <1>3 DEF ConfigMap
<1>5. PICK x \in Nat : x = console'[c].rev  BY <1>4
<1>6. rec' = [rec EXCEPT ![c].rev = x, ![c].at = NextStep(c, "read")]  BY <1>5 DEF ReadConfigMap
<1> QED  BY <1>1, <1>6, MovesIs

\* What becomes of the reconciles in a step.
LEMMA RecSteps ==
  ASSUME TypeInv, [Next]_vars
  PROVE  \/ rec' = rec \/ rec' = [c \in CRs |-> Idle]
         \/ \E c \in CRs : Begin(c) \/ Moves(c)
         \/ \E c \in CRs : rec[c].at # "idle" /\ rec' = [rec EXCEPT ![c] = Idle]
<1>1. ASSUME NEW c \in CRs, Reconciling(c) PROVE
         \/ Begin(c) \/ Moves(c)
         \/ rec[c].at # "idle" /\ rec' = [rec EXCEPT ![c] = Idle]
  <2>1. CASE ReadConfigMap(c)  BY <2>1, ReadMoves
  <2>2. CASE \/ MoveConsole(c) \/ WaitForLicenseManager(c) \/ WaitForClusterManager(c) \/ WaitForOthers(c)
             \/ UpdateDeployer(c) \/ DeleteSetForNine(c) \/ Finish(c) \/ Wake(c)
    <3>1. rec[c].at # "idle" /\ (Return(c) \/ Done(c))
      BY <2>2 DEF MoveConsole, WaitForLicenseManager, WaitForClusterManager, WaitForOthers, UpdateDeployer,
                  DeleteSetForNine, Finish, Wake, At
    <3> QED  BY <3>1, ReturnMoves
  <2>3. CASE Update(c)
    <3>1. rec[c].at # "idle"  BY <2>3 DEF Update, At
    <3>2. CASE Return(c)  BY <3>1, <3>2, ReturnMoves
    <3>3. CASE rec' = [rec EXCEPT ![c].ready = TRUE, ![c].at = NextStep(c, "update")]
      BY <3>1, <3>3, MovesIs
    <3>4. CASE rec' = [rec EXCEPT ![c].again = TRUE, ![c].at = Unconditional(c)]
      BY <3>1, <3>4, MovesIs
    <3> QED  BY <2>3, <3>2, <3>3, <3>4 DEF Update
  <2>4. CASE Register(c)
    <3>1. PICK new : new = IF rec[c].ready THEN NextStep(c, "register") ELSE "save"  OBVIOUS
    <3>2. rec[c].at # "idle" /\ rec' = [rec EXCEPT ![c].at = new]  BY <2>4, <3>1 DEF Register, At
    <3> QED  BY <3>2, MovesIs
  <2>5. CASE Unregister(c)
    <3>1. rec[c].at # "idle" /\ rec' = [rec EXCEPT ![c].at = Removal(c)]  BY <2>5 DEF Unregister, At
    <3>2. PICK new : new = Removal(c)  OBVIOUS
    <3> QED  BY <3>1, <3>2, MovesIs
  <2>6. CASE CheckReferences(c)
    <3>1. rec[c].at # "idle" /\ (Return(c) \/ rec' = [rec EXCEPT ![c].at = "finalize"])
      BY <2>6 DEF CheckReferences, At
    <3> QED  BY <3>1, MovesIs, ReturnMoves
  <2>7. CASE Finalize(c) \/ Save(c)  BY <2>7 DEF Finalize, Save, At
  <2> QED  BY <1>1, <2>1, <2>2, <2>3, <2>4, <2>5, <2>6, <2>7 DEF Reconciling
<1>2. ASSUME NEW c \in CRs, ApiFails(c) PROVE Moves(c)
  <2>1. rec[c].at # "idle" /\ Return(c)  BY <1>2 DEF ApiFails
  <2> QED  BY <2>1, ReturnMoves
<1>3. Crash \/ Upgrade => rec' = [c \in CRs |-> Idle]  BY DEF Crash, Upgrade
<1>4. \A c \in CRs : UserChanges(c) => rec' = rec  BY DEF UserChanges
<1>5. \A s \in SetNames : Observe(s) \/ StartPods(s) \/ PodFails(s) => rec' = rec  BY DEF Observe, StartPods, PodFails
<1>6. UNCHANGED vars => rec' = rec  BY DEF vars
<1> QED  BY <1>1, <1>2, <1>3, <1>4, <1>5, <1>6 DEF Next

\* A record of the right shape with fields of their types is a reconcile.
LEMMA ReconcileTyped ==
  ASSUME NEW r, RecordShape(r), r.at \in Steps, r.spec \in Specs, r.manager \in BOOLEAN, r.rev \in Nat,
         r.ready \in BOOLEAN, r.again \in BOOLEAN
  PROVE  r \in Reconciles
  BY DEF RecordShape, Reconciles

LEMMA ReconcilesKept ==
  ASSUME TypeInv, [Next]_vars PROVE rec' \in [CRs -> Reconciles]
<1>1. OrderInv' /\ CRs' = CRs /\ dep' = dep  BY OrderKept, DepIsKept DEF TypeInv
<1>2. rec' = [c \in CRs |-> rec'[c]] /\ \A c \in CRs : RecordShape(rec'[c])  BY <1>1 DEF OrderInv, Shape, RecordShape
<1>3. ASSUME NEW c \in CRs PROVE rec'[c].at \in Steps
  <2>1. OwnStep(c, rec'[c].at)
    <3>1. \A step : OwnStep(c, step)' <=> OwnStep(c, step)
      BY <1>1 DEF OwnStep, StepsOf, Kind, ClusterManagerRef
    <3> QED  BY <1>1, <3>1 DEF OrderInv, StepsAreOwn, OwnStep
  <2>2. StepsOf(c) \in Seq(Steps)  BY StepsAreDistinct DEF TypeInv, OrderInv, Shape
  <2>3. \A i \in 1 .. Len(StepsOf(c)) : StepsOf(c)[i] \in Steps  BY <2>2
  <2>4. {"idle", "unregister", "references", "finalize", "save"} \subseteq Steps  BY DEF Steps
  <2> QED  BY <2>1, <2>3, <2>4 DEF OwnStep
<1>4. \A c \in CRs : rec[c] \in Reconciles /\ spec[c] \in Specs  BY DEF TypeInv, TypeOK
<1>5. Idle \in Reconciles
  <2>1. 1 \in Images  BY ReconcileAssumption DEF Images
  <2>2. "idle" \in Steps  BY DEF Steps
  <2> QED  BY <2>1, <2>2 DEF Idle, Reconciles, Specs, Replicas
<1>6. ASSUME NEW c \in CRs
      PROVE  /\ rec'[c].spec \in Specs /\ rec'[c].manager \in BOOLEAN /\ rec'[c].rev \in Nat
             /\ rec'[c].ready \in BOOLEAN /\ rec'[c].again \in BOOLEAN
  <2>1. CASE rec'[c] \in Reconciles  BY <2>1 DEF Reconciles
  <2>2. rec = [d \in CRs |-> rec[d]]  BY DEF TypeInv, OrderInv, Shape
  <2>3. ASSUME NEW d \in CRs, rec' = [rec EXCEPT ![d] = Idle] PROVE rec'[c] \in Reconciles
    BY <1>4, <1>5, <2>2, <2>3
  <2>4. ASSUME NEW d \in CRs, Moves(d), c # d PROVE rec'[c] \in Reconciles  BY <1>4, <2>4 DEF Moves, Becomes
  <2>5. CASE Moves(c)
    <3>1. /\ rec'[c].spec = rec[c].spec /\ rec'[c].manager = rec[c].manager
          /\ rec'[c].rev \in Nat /\ rec'[c].ready \in BOOLEAN /\ rec'[c].again \in BOOLEAN
      BY <2>5 DEF Moves, Becomes
    <3>2. rec[c].spec \in Specs /\ rec[c].manager \in BOOLEAN  BY <1>4 DEF Reconciles
    <3> QED  BY <3>1, <3>2
  <2>6. ASSUME NEW d \in CRs, Begin(d), c # d PROVE rec'[c] \in Reconciles
    <3>1. PICK r : rec' = [rec EXCEPT ![d] = r]  BY <2>6 DEF Begin
    <3> QED  BY <1>4, <2>2, <2>6, <3>1
  <2>7. CASE Begin(c)
    <3>1. PICK first, m, again :
            /\ m \in BOOLEAN /\ again \in BOOLEAN
            /\ rec' = [rec EXCEPT ![c] = [at |-> first, spec |-> spec[c], manager |-> m, rev |-> 0,
                                          ready |-> FALSE, again |-> again]]
      <4> DEFINE indexer == Kind(c) = "IndexerCluster"
                 first == IF indexer /\ ManagerReady(c) /\ ~Answers(c) THEN "save"
                          ELSE IF ~spec[c].deleting THEN NextStep(c, "idle")
                          ELSE IF indexer \/ Kind(c) = "MonitoringConsole" \/ spec[c].console = None
                               THEN Removal(c) ELSE "unregister"
                 m == indexer /\ ManagerReady(c)
                 again == first = "save"
      <4>1. rec' = [rec EXCEPT ![c] = [at |-> first, spec |-> spec[c], manager |-> m, rev |-> 0,
                                       ready |-> FALSE, again |-> again]]
        BY <2>7 DEF Begin
      <4>2. m \in BOOLEAN /\ again \in BOOLEAN  OBVIOUS
      <4> HIDE DEF first, m, again
      <4> QED  BY <4>1, <4>2
    <3>2. rec'[c] = [at |-> first, spec |-> spec[c], manager |-> m, rev |-> 0, ready |-> FALSE, again |-> again]
      BY <2>2, <3>1
    <3>3. m \in BOOLEAN /\ again \in BOOLEAN  BY <3>1
    <3>4. /\ rec'[c].spec = spec[c] /\ rec'[c].manager = m /\ rec'[c].rev \in Nat
          /\ rec'[c].ready = FALSE /\ rec'[c].again = again
      BY <3>2
    <3>5. spec[c] \in Specs  BY <1>4
    <3> QED  BY <3>3, <3>4, <3>5, Zenon
  <2>8. CASE rec' = rec \/ rec' = [d \in CRs |-> Idle]  BY <1>4, <1>5, <2>1, <2>8
  <2> QED  BY <2>1, <2>3, <2>4, <2>5, <2>6, <2>7, <2>8, RecSteps
<1>7. \A c \in CRs : rec'[c] \in Reconciles  BY <1>2, <1>3, <1>6, ReconcileTyped
<1> QED  BY <1>2, <1>7

\* The templates that the reconcile of c writes.
LEMMA TemplateTyped ==
  ASSUME TypeInv, NEW c \in CRs
  PROVE  Template(c) \in Templates /\ [Template(c) EXCEPT !.replicas = 1, !.console = None] \in Templates
<1>1. rec[c].spec \in Specs /\ rec[c].rev \in Nat  BY DEF TypeInv, TypeOK, Reconciles
<1>2. /\ rec[c].spec.image \in Images /\ rec[c].spec.replicas \in Replicas
      /\ rec[c].spec.console \in Consoles \cup {None}
  BY <1>1 DEF Specs
<1>3. 1 \in Replicas  BY DEF Replicas
<1>4. Template(c) = [image |-> rec[c].spec.image, replicas |-> rec[c].spec.replicas,
                     console |-> rec[c].spec.console, rev |-> rec[c].rev]
  BY DEF Template
<1>5. Template(c) \in Templates  BY <1>1, <1>2, <1>4 DEF Templates
<1> QED  BY <1>3, <1>5 DEF Templates

LEMMA NoSetTyped == NoSet \in Templates
  BY DEF NoSet, Templates, Replicas

LEMMA WritesTyped ==
  ASSUME TypeInv, NEW s \in SetNames, NEW t \in Templates, ApplyStatefulSet(s, t) \/ UpdateStatefulSetPods(s, t)
  PROVE  sets' \in [SetNames -> Templates] /\ pods' \in [SetNames -> Templates]
<1>1. sets \in [SetNames -> Templates] /\ pods \in [SetNames -> Templates]  BY DEF TypeInv, TypeOK
<1>2. [t EXCEPT !.replicas = sets[s].replicas] \in Templates
  <2>1. sets[s].replicas \in Replicas  BY <1>1 DEF Templates
  <2> QED  BY <2>1 DEF Templates
<1>3. \/ sets' = sets \/ sets' = [sets EXCEPT ![s] = t]
      \/ sets' = [sets EXCEPT ![s] = [t EXCEPT !.replicas = sets[s].replicas]]
  BY DEF ApplyStatefulSet, UpdateStatefulSetPods
<1>4. pods' = pods \/ pods' = [pods EXCEPT ![s] = NoSet]  BY DEF ApplyStatefulSet, UpdateStatefulSetPods
<1>5. sets' \in [SetNames -> Templates]
  <2>1. PICK u \in Templates : u = [t EXCEPT !.replicas = sets[s].replicas]  BY <1>2
  <2>2. sets' = sets \/ sets' = [sets EXCEPT ![s] = t] \/ sets' = [sets EXCEPT ![s] = u]  BY <1>3, <2>1
  <2> QED  BY <1>1, <2>2
<1> QED  BY <1>1, <1>4, <1>5, NoSetTyped

\* The StatefulSets and the pods.
LEMMA TemplatesKept ==
  ASSUME TypeInv, [Next]_vars
  PROVE  \A f \in {sets', observed', pods'} : f \in [SetNames -> Templates]
<1> DEFINE Typed(f) == f \in [SetNames -> Templates]
<1>1. Typed(sets) /\ Typed(observed) /\ Typed(pods)  BY DEF TypeInv, TypeOK
<1>2. CASE UNCHANGED <<sets, observed, pods>>  BY <1>1, <1>2
<1>3. ASSUME NEW c \in CRs, UpdateDeployer(c)
      PROVE  Typed(sets') /\ Typed(observed') /\ Typed(pods')
  <2>1. rec[c].at = "deployer"  BY <1>3 DEF UpdateDeployer, At
  <2>2. c \in SearchHeads  BY <2>1, OwnDeployer DEF TypeInv, OrderInv, StepsAreOwn, Shape, SearchHeads
  <2>3. PICK t \in Templates : t = [Template(c) EXCEPT !.replicas = 1, !.console = None]  BY TemplateTyped
  <2>4. observed' = observed /\ (ApplyStatefulSet(Deployer(c), t) \/ UpdateStatefulSetPods(Deployer(c), t))
    BY <1>3, <2>3 DEF UpdateDeployer
  <2>5. Deployer(c) \in SetNames  BY <2>2, NamesOfSets
  <2> QED  BY <1>1, <2>4, <2>5, WritesTyped
<1>4. ASSUME NEW c \in CRs, DeleteSetForNine(c)
      PROVE  Typed(sets') /\ Typed(observed') /\ Typed(pods')
  <2>1. \/ /\ sets' = [sets EXCEPT ![Main(c)] = NoSet] /\ pods' = [pods EXCEPT ![Main(c)] = NoSet]
           /\ observed' = [observed EXCEPT ![Main(c)] = NoSet]
        \/ UNCHANGED <<sets, observed, pods>>
    BY <1>4 DEF DeleteSetForNine
  <2> QED  BY <1>1, <2>1, NoSetTyped
<1>5. ASSUME NEW c \in CRs, Update(c)
      PROVE  Typed(sets') /\ Typed(observed') /\ Typed(pods')
  <2>1. PICK t \in Templates : t = Template(c)  BY TemplateTyped
  <2>2. /\ observed' = observed
        /\ ApplyStatefulSet(Main(c), t) \/ UpdateStatefulSetPods(Main(c), t) \/ UNCHANGED <<sets, pods>>
    BY <1>5, <2>1 DEF Update
  <2>3. Main(c) \in SetNames  BY NamesOfSets
  <2> QED  BY <1>1, <2>2, <2>3, WritesTyped
<1>6. ASSUME NEW c \in CRs, Finalize(c) PROVE Typed(sets') /\ Typed(observed') /\ Typed(pods')
  <2>1. /\ sets' = [s \in SetNames |-> IF s[1] = c THEN NoSet ELSE sets[s]]
        /\ observed' = [s \in SetNames |-> IF s[1] = c THEN NoSet ELSE observed[s]]
        /\ pods' = [s \in SetNames |-> IF s[1] = c THEN NoSet ELSE pods[s]]
    BY <1>6 DEF Finalize
  <2> QED  BY <1>1, <2>1, NoSetTyped
<1>7. ASSUME NEW s \in SetNames, Observe(s) \/ StartPods(s) \/ PodFails(s)
      PROVE  Typed(sets') /\ Typed(observed') /\ Typed(pods')
  <2>1. \A t \in {sets[s], observed[s]} : t \in Templates  BY <1>1
  <2>2. /\ sets' = sets
        /\ observed' = observed \/ \E t \in {sets[s], observed[s]} : observed' = [observed EXCEPT ![s] = t]
        /\ \/ pods' = pods \/ pods' = [pods EXCEPT ![s] = NoSet]
           \/ \E t \in {sets[s], observed[s]} : pods' = [pods EXCEPT ![s] = t]
    BY <1>7 DEF Observe, StartPods, PodFails
  <2>3. ASSUME NEW t \in Templates, NEW f, Typed(f) PROVE Typed([f EXCEPT ![s] = t])  BY <2>3
  <2> QED  BY <1>1, <2>1, <2>2, <2>3, NoSetTyped
<1>8. \/ UNCHANGED <<sets, observed, pods>>
      \/ \E c \in CRs : UpdateDeployer(c) \/ DeleteSetForNine(c) \/ Update(c) \/ Finalize(c)
      \/ \E s \in SetNames : Observe(s) \/ StartPods(s) \/ PodFails(s)
  <2>1. ASSUME NEW c \in CRs, Reconciling(c)
        PROVE  \/ UNCHANGED <<sets, observed, pods>>
               \/ UpdateDeployer(c) \/ DeleteSetForNine(c) \/ Update(c) \/ Finalize(c)
    BY <2>1 DEF Reconciling, Begin, ReadConfigMap, MoveConsole, WaitForLicenseManager, WaitForClusterManager,
                WaitForOthers, Register, Finish, Wake, Unregister, CheckReferences, Save
  <2>2. ASSUME NEW c \in CRs, ApiFails(c) \/ UserChanges(c) PROVE UNCHANGED <<sets, observed, pods>>
    BY <2>2 DEF ApiFails, UserChanges
  <2>3. Crash \/ Upgrade \/ UNCHANGED vars => UNCHANGED <<sets, observed, pods>>
    BY DEF Crash, Upgrade, vars
  <2> QED  BY <2>1, <2>2, <2>3, Zenon DEF Next
<1> QED  BY <1>2, <1>3, <1>4, <1>5, <1>6, <1>7, <1>8

\* The annotations that wake a resource.
LEMMA TagsKept ==
  ASSUME TypeInv, [Next]_vars PROVE tag' \in [CRs -> {0} \cup Images]
<1>1. tag \in [CRs -> {0} \cup Images]  BY DEF TypeInv, TypeOK
<1>2. ASSUME NEW c \in CRs, Wake(c) PROVE tag' \in [CRs -> {0} \cup Images]
  <2>1. sets[Main(c)].image \in {0} \cup Images  BY NamesOfSets DEF TypeInv, TypeOK, Templates
  <2>2. PICK image \in {0} \cup Images : image = sets[Main(c)].image  BY <2>1
  <2>3. PICK woken : tag' = [r \in CRs |-> IF r \in woken THEN image ELSE tag[r]]  BY <1>2, <2>2 DEF Wake
  <2> QED  BY <1>1, <2>3
<1>3. tag' = tag \/ \E c \in CRs : Wake(c)
  BY DEF Next, Reconciling, Begin, ReadConfigMap, MoveConsole, WaitForLicenseManager, WaitForClusterManager,
         WaitForOthers, UpdateDeployer, DeleteSetForNine, Update, Register, Finish, Unregister, CheckReferences, Finalize, Save,
         ApiFails, UserChanges, Observe, StartPods, PodFails, Crash, Upgrade, vars
<1> QED  BY <1>1, <1>2, <1>3

\* Only resources that exist are queued, or have a status.
LEMMA NamesKept ==
  ASSUME TypeInv, [Next]_vars PROVE queue' \subseteq live' /\ ready' \subseteq live'
<1>1. queue \subseteq live /\ ready \subseteq live /\ Active \subseteq live  BY DEF TypeInv, TypeOK, Bounds
<1>2. ASSUME NEW c \in CRs, Finalize(c) PROVE queue' \subseteq live' /\ ready' \subseteq live'
  <2>1. live' = live \ {c} /\ ready' = ready \ {c} /\ queue' = queue \ {c}
    BY <1>2 DEF Finalize
  <2> QED  BY <1>1, <2>1
<1>3. ASSUME NEW c \in CRs, Save(c) PROVE queue' \subseteq live' /\ ready' \subseteq live'
  <2>1. c \in live  BY <1>1, <1>3 DEF Save, At, Active
  <2>2. live' = live /\ ready' \subseteq ready \cup {c}  BY <1>3 DEF Save
  <2>3. queue' \subseteq queue \cup live  BY <1>3 DEF Save, Enqueue
  <2> QED  BY <1>1, <2>1, <2>2, <2>3
<1>4. ASSUME NEW c \in CRs, Reconciling(c), ~Finalize(c), ~Save(c)
      PROVE  UNCHANGED <<live, ready>> /\ (queue' \subseteq queue \/ \E cs : Enqueue(cs))
  <2>1. CASE Begin(c)  BY <2>1 DEF Begin
  <2>2. CASE MoveConsole(c) \/ Wake(c)  BY <2>2 DEF MoveConsole, Wake
  <2>3. CASE Register(c) \/ Unregister(c)  BY <2>3 DEF Register, Unregister
  <2> QED  BY <1>4, <2>1, <2>2, <2>3
           DEF Reconciling, ReadConfigMap, WaitForLicenseManager, WaitForClusterManager, WaitForOthers,
               UpdateDeployer, DeleteSetForNine, Update, Finish, CheckReferences
<1>5. ASSUME NEW c \in CRs, ApiFails(c) \/ UserChanges(c)
      PROVE  UNCHANGED <<live, ready>> /\ (queue' \subseteq queue \/ \E cs : Enqueue(cs))
  BY <1>5 DEF ApiFails, UserChanges
<1>6. ASSUME NEW s \in SetNames, Observe(s) \/ StartPods(s) \/ PodFails(s)
      PROVE  UNCHANGED <<live, ready>> /\ (queue' \subseteq queue \/ \E cs : Enqueue(cs))
  BY <1>6 DEF Observe, StartPods, PodFails
<1>7. Crash \/ Upgrade => UNCHANGED <<live, ready>> /\ queue' = live  BY DEF Crash, Upgrade
<1>8. CASE UNCHANGED <<live, ready>> /\ (queue' \subseteq queue \/ \E cs : Enqueue(cs))
  BY <1>1, <1>8 DEF Enqueue
<1>9. CASE UNCHANGED vars  BY <1>1, <1>9 DEF vars
<1> QED  BY <1>1, <1>2, <1>3, <1>4, <1>5, <1>6, <1>7, <1>8, <1>9 DEF Next

\* No more reconciles than workers, each of a resource that exists.
LEMMA ActiveKept ==
  ASSUME TypeInv, [Next]_vars
  PROVE  Active' \subseteq live' /\ IsFiniteSet(Active') /\ Cardinality(Active') <= Workers
<1>1. CRs' = CRs /\ dep' = dep  BY DepIsKept
<1>2. /\ Active \subseteq live /\ IsFiniteSet(Active) /\ Cardinality(Active) <= Workers /\ queue \subseteq live
      /\ rec = [c \in CRs |-> rec[c]]
  BY DEF TypeInv, TypeOK, Bounds, OrderInv, Shape
<1>3. Cardinality(Active) \in Nat /\ Workers \in Nat  BY <1>2, FS_CardinalityType, ReconcileAssumption
<1>4. Active' = {c \in CRs : rec'[c].at # "idle"}  BY <1>1 DEF Active
<1>5. Idle.at = "idle"  BY DEF Idle
<1>6. ASSUME NEW c \in CRs, Begin(c)
      PROVE  Active' \subseteq live' /\ IsFiniteSet(Active') /\ Cardinality(Active') <= Workers
  <2>1. /\ c \in live /\ live' = live /\ Cardinality(Active) < Workers
    BY <1>2, <1>6 DEF Begin
  <2>2. PICK r : rec' = [rec EXCEPT ![c] = r]  BY <1>6 DEF Begin
  <2>3. Active' \subseteq Active \cup {c}  BY <1>2, <1>4, <2>2 DEF Active
  <2>4. /\ IsFiniteSet(Active \cup {c})
        /\ Cardinality(Active \cup {c}) <= Cardinality(Active) + 1
    <3>1. PICK x : x = c  OBVIOUS
    <3>2. PICK S : S = Active  OBVIOUS
    <3>3. /\ IsFiniteSet(S \cup {x})
          /\ Cardinality(S \cup {x}) \in {Cardinality(S), Cardinality(S) + 1}
      BY <1>2, <3>2, FS_AddElement
    <3> QED  BY <1>3, <3>1, <3>2, <3>3
  <2>5. IsFiniteSet(Active') /\ Cardinality(Active') <= Cardinality(Active \cup {c})  BY <2>3, <2>4, FS_Subset
  <2>6. Cardinality(Active') \in Nat /\ Cardinality(Active \cup {c}) \in Nat  BY <2>4, <2>5, FS_CardinalityType
  <2> QED  BY <1>2, <1>3, <2>1, <2>3, <2>4, <2>5, <2>6
<1>7. ASSUME Active' \subseteq Active, Active' \subseteq live'
      PROVE  Active' \subseteq live' /\ IsFiniteSet(Active') /\ Cardinality(Active') <= Workers
  <2>1. IsFiniteSet(Active') /\ Cardinality(Active') <= Cardinality(Active)  BY <1>2, <1>7, FS_Subset
  <2>2. Cardinality(Active') \in Nat  BY <2>1, FS_CardinalityType
  <2> QED  BY <1>2, <1>3, <1>7, <2>1, <2>2
<1>8. (\A c \in CRs : ~Begin(c)) => Active' \subseteq Active
  <2>1. CASE rec' = rec \/ rec' = [c \in CRs |-> Idle]  BY <1>4, <1>5, <2>1 DEF Active
  <2>2. ASSUME NEW c \in CRs, Moves(c) PROVE Active' \subseteq Active
    BY <1>4, <2>2 DEF Active, Moves, Becomes
  <2>3. ASSUME NEW c \in CRs, rec' = [rec EXCEPT ![c] = Idle] PROVE Active' \subseteq Active
    BY <1>2, <1>4, <1>5, <2>3 DEF Active
  <2> QED  BY <2>1, <2>2, <2>3, RecSteps
<1>9. ASSUME Active' \subseteq Active PROVE Active' \subseteq live'
  <2>1. CASE live' = live  BY <1>2, <1>9, <2>1
  <2>2. ASSUME NEW c \in CRs, Finalize(c), live' = live \ {c} PROVE Active' \subseteq live'
    <3>1. rec' = [rec EXCEPT ![c] = Idle]  BY <2>2 DEF Finalize
    <3>2. c \notin Active'  BY <1>2, <1>4, <1>5, <2>2, <3>1
    <3> QED  BY <1>2, <1>9, <2>2, <3>2
  <2> QED  BY <2>1, <2>2, LiveStep
<1> QED  BY <1>6, <1>7, <1>8, <1>9

LEMMA TypeInit == ASSUME Init PROVE TypeOK /\ Bounds
<1>1. OrderInv /\ ReadyInv  BY OrderedInit, ReadyInit
<1>2. changes = <<>> /\ faults = <<>> /\ live = CRs /\ ready = {} /\ queue = CRs  BY DEF Init
<1>3. changes \in Seq(Changes) /\ faults \in Seq(Faults) /\ Len(changes) = 0 /\ Len(faults) = 0  BY <1>2
<1>4. Active = {}  BY DEF Init, Active, Idle
<1>5. IsFiniteSet(Active) /\ Cardinality(Active) <= Workers
  BY <1>4, FS_EmptySet, ReconcileAssumption
<1>6. MaxEvents \in Nat /\ 1 \in Images  BY ReconcileAssumption DEF Images
<1>7. spec \in [CRs -> SpecOfUser] /\ \A c \in CRs : spec[c].image = 1
  <2>1. spec \in [CRs -> SpecOfUser]  BY <1>1 DEF OrderInv, Shape
  <2> QED  BY <2>1 DEF Init
<1>8. spec \in [CRs -> Specs]
  <2>1. \A c \in CRs : spec[c] \in Specs  BY <1>6, <1>7, SpecTyped
  <2> QED  BY <1>7, <2>1
<1>9. \A f \in {sets, observed, pods} : f \in [SetNames -> Templates]  BY NoSetTyped DEF Init
<1>10. tag \in [CRs -> {0} \cup Images]  BY DEF Init
<1>11. rec \in [CRs -> Reconciles]
  <2>1. "idle" \in Steps  BY DEF Steps
  <2>2. Idle \in Reconciles  BY <1>6, <2>1 DEF Idle, Reconciles, Specs, Replicas
  <2> QED  BY <2>2 DEF Init
<1>12. \A m \in Consoles : /\ DOMAIN console[m].urls = Registering /\ console[m].rev \in Nat
                           /\ \A k \in Registering : console[m].urls[k] \in Seq(CRs \X Replicas)
  BY <1>1 DEF ReadyInv, ConfigMapShape, ConfigMap
<1>13. TypeOK
  <2>1. dep \in Deployments  BY DEF Init
  <2> QED  BY <1>2, <1>3, <1>5, <1>8, <1>9, <1>10, <1>11, <1>12, <2>1 DEF TypeOK
<1>14. Bounds  BY <1>2, <1>3, <1>4, <1>5, <1>6, <1>7 DEF Bounds
<1> QED  BY <1>13, <1>14

LEMMA TypeKept == ASSUME TypeInv, [Next]_vars PROVE TypeInv'
<1>1. OrderInv' /\ ReadyInv'  BY OrderKept, ReadyKept DEF TypeInv
<1>2. CRs' = CRs /\ SetNames' = SetNames /\ dep' = dep  BY DepIsKept
<1>3. dep' \in Deployments /\ live' \subseteq CRs  BY <1>1, <1>2 DEF OrderInv, Shape
<1>4. \A m \in Consoles : /\ DOMAIN console'[m].urls = Registering /\ console'[m].rev \in Nat
                          /\ \A k \in Registering : console'[m].urls[k] \in Seq(CRs \X Replicas)
  <2>1. ConfigMap' = ConfigMap  BY <1>2 DEF ConfigMap
  <2>2. console' \in [Consoles -> ConfigMap]  BY <1>1, <2>1 DEF ReadyInv, ConfigMapShape
  <2> QED  BY <2>2 DEF ConfigMap
<1>5. TypeOK'
  BY <1>2, <1>3, <1>4, EventsKept, SpecsKept, ReconcilesKept, TemplatesKept, TagsKept, NamesKept, ActiveKept
     DEF TypeOK
<1>6. Bounds'  BY <1>2, EventsKept, ImagesKept, ActiveKept DEF Bounds
<1> QED  BY <1>1, <1>5, <1>6 DEF TypeInv

\* Every variable has its type in every state: only resources that exist are queued,
\* are reconciled or have a phase Ready, there are never more reconciles than workers,
\* and templates, annotations and what a reconcile has read stay within the images and
\* numbers of replicas there are.
THEOREM ReconcileTypeCorrect == Spec => []TypeOK
<1>1. Init => TypeInv  BY OrderedInit, ReadyInit, TypeInit DEF TypeInv
<1>2. TypeInv /\ [Next]_vars => TypeInv'  BY TypeKept
<1>3. TypeInv => TypeOK  BY DEF TypeInv
<1> QED  BY <1>1, <1>2, <1>3, PTL DEF Spec
=============================================================================
