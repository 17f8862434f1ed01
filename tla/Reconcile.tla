------------------------------ MODULE Reconcile ------------------------------
(***************************************************************************)
(* The reconcilers of all custom resources of one namespace, running side  *)
(* by side: the order in which they upgrade (UpgradePathValidation), the   *)
(* phase each stores in its status and the others read, the registration   *)
(* of instances in the ConfigMap of the monitoring console, deletion, and  *)
(* the work queues that decide who is reconciled again.                    *)
(*                                                                         *)
(* A resource is reconciled by the steps of its Apply function. What one   *)
(* StatefulSet goes through is in StatefulSetPods; here its pods run the   *)
(* template of the set, an older one, or are not ready. The status that    *)
(* the reconcilers read shows what the StatefulSet controller has          *)
(* observed, which may be an older template too.                           *)
(***************************************************************************)
EXTENDS Naturals, Sequences, FiniteSets, SequencesExt

CONSTANTS
  Deployments, \* what may be deployed: see IsDeployment
  Consoles,    \* names of monitoring consoles, deployed or not
  Workers,     \* bound: reconciles at the same time
  FirstNine,   \* the images from this one on are of version 9
  Changes,     \* what the user may do: "upgrade", "scale", "move", "delete"
  Faults,      \* what may go wrong: "api", "get", "crash", "pod"
  MaxEvents    \* bound: changes and faults together

Managers == {"LicenseManager", "LicenseMaster", "ClusterManager", "ClusterMaster"}
Kinds == Managers \cup {"MonitoringConsole", "SearchHeadCluster", "IndexerCluster",
                        "Standalone", "IngestorCluster"}
None == "none"

\* A deployment: the kind of each custom resource, and what it refers to.
IsDeployment(d) ==
  LET names == DOMAIN d.kind IN
  /\ d.kind \in [names -> Kinds] /\ None \notin names
  /\ \A c \in names : d.kind[c] = "MonitoringConsole" => c \in Consoles
  /\ d.license \in [names -> names \cup {None}]
  /\ d.manager \in [names -> names \cup {None}]
  /\ d.console \in [names -> Consoles \cup {None}]

ASSUME ReconcileAssumption ==
  /\ \A d \in Deployments : IsDeployment(d)
  /\ None \notin Consoles /\ Workers \in Nat \ {0} /\ FirstNine \in Nat
  /\ Changes \subseteq {"upgrade", "scale", "move", "delete"}
  /\ Faults \subseteq {"api", "get", "crash", "pod"}
  /\ MaxEvents \in Nat

VARIABLES
  dep,      \* the deployment; never changes
  live,     \* the resources that exist
  spec,     \* their specs
  ready,    \* the resources whose stored phase is Ready
  sets,     \* the StatefulSets: the template, image 0 when there is none
  observed, \* the template that the status of the StatefulSet is about
  pods,     \* the template that the pods run with, image 0 when not ready
  console,  \* the ConfigMap of each console
  tag,      \* annotation splunk/image-tag
  queue,    \* the work queues
  rec,      \* the reconciles
  changes,  \* what the user has done, as a sequence
  faults    \* what has gone wrong, as a sequence

vars == <<dep, live, spec, ready, sets, observed, pods, console, tag, queue, rec, changes, faults>>

CRs == DOMAIN dep.kind
Kind(c) == dep.kind[c]
OfKind(kind) == {c \in live : Kind(c) = kind}
Images == 1 .. MaxEvents + 1
Replicas == {1, 2}

\* A search head cluster has a second StatefulSet, for its deployer.
Deployer(c) == <<c, "deployer">>
SearchHeads == {c \in CRs : Kind(c) = "SearchHeadCluster"}
SetNames == {<<c, "">> : c \in CRs} \cup {Deployer(c) : c \in SearchHeads}
Main(c) == <<c, "">>

Specs == [image : Images, replicas : Replicas, console : Consoles \cup {None}, deleting : BOOLEAN]
Templates == [image : {0} \cup Images, replicas : Replicas,
              console : Consoles \cup {None}, rev : Nat]
NoSet == [image |-> 0, replicas |-> 1, console |-> None, rev |-> 0]

Steps == {"idle", "unregister", "references", "finalize", "read", "move", "license", "manager",
          "others", "deployer", "delete9", "update", "register", "finish", "wake", "save"}

\* A reconcile: where it is, the spec it has read, whether the cluster
\* manager's stored phase was Ready then, the ConfigMap's version it has
\* read, the phase it will store, and whether it is run again.
Reconciles == [at : Steps, spec : Specs, manager : BOOLEAN, rev : Nat,
               ready : BOOLEAN, again : BOOLEAN]
Idle == [at |-> "idle", manager |-> FALSE, rev |-> 0, ready |-> FALSE, again |-> FALSE,
         spec |-> [image |-> 1, replicas |-> 1, console |-> None, deleting |-> FALSE]]

----------------------------------------------------------------------------
(* The Apply functions, as the steps that change or wait for something.     *)
(* What comes before a wake (config, app framework) changes nothing here,   *)
(* and its failure is that of the wake.                                     *)

ApplyLicenseManager == <<"move", "update", "register", "wake">>
ApplyLicenseMaster == <<"move", "update", "register">>
ApplyClusterManager == <<"move", "license", "update", "register", "wake">>
ApplyClusterMaster == <<"move", "update", "register", "finish">>
ApplyMonitoringConsole == <<"read", "license", "manager", "others", "update">>
ApplySearchHeadCluster ==
  <<"license", "manager", "deployer", "move", "update", "register", "finish">>
ApplyIndexerClusterManager == <<"license", "manager", "delete9", "update", "finish">>
ApplyIndexerCluster == <<"license", "manager", "delete9", "update", "finish">>
ApplyStandalone == <<"move", "update", "register", "finish">>
ApplyIngestorCluster == <<"move", "update", "finish", "register">>

\* LicenseManagerRef and ClusterManagerRef; a LicenseMaster or ClusterMaster
\* is named by a reference of its own, that the upgrade path ignores.
LicenseManagerRef(c) ==
  IF dep.license[c] # None /\ Kind(dep.license[c]) = "LicenseManager" THEN dep.license[c] ELSE None
ClusterManagerRef(c) ==
  IF dep.manager[c] # None /\ Kind(dep.manager[c]) = "ClusterManager" THEN dep.manager[c] ELSE None

StepsOf(c) ==
  CASE Kind(c) = "LicenseManager" -> ApplyLicenseManager
    [] Kind(c) = "LicenseMaster" -> ApplyLicenseMaster
    [] Kind(c) = "ClusterManager" -> ApplyClusterManager
    [] Kind(c) = "ClusterMaster" -> ApplyClusterMaster
    [] Kind(c) = "MonitoringConsole" -> ApplyMonitoringConsole
    [] Kind(c) = "SearchHeadCluster" -> ApplySearchHeadCluster
    [] Kind(c) = "Standalone" -> ApplyStandalone
    [] Kind(c) = "IngestorCluster" -> ApplyIngestorCluster
    [] OTHER -> IF ClusterManagerRef(c) # None
                THEN ApplyIndexerClusterManager ELSE ApplyIndexerCluster

\* The upgrade path is only looked at once the StatefulSet (for search head
\* clusters: the deployer's) exists.
Deployed(c) == sets[IF c \in SearchHeads THEN Deployer(c) ELSE Main(c)].image # 0

\* The spec that the reconcile of c works with; one that begins reads it.
SpecOf(c) == IF rec[c].at = "idle" THEN spec[c] ELSE rec[c].spec

\* validateMonitoringConsoleRef compares with the StatefulSet's environment.
Moved(c) ==
  LET old == sets[Main(c)].console IN
  sets[Main(c)].image # 0 /\ old # None /\ old # SpecOf(c).console

\* Steps that the reconcile passes over.
Skipped(c, step) ==
  \/ step = "license" /\ (LicenseManagerRef(c) = None \/ ~Deployed(c))
  \/ step = "manager" /\ (~Deployed(c) \/ (ClusterManagerRef(c) = None /\ Kind(c) # "IndexerCluster"))
  \/ step = "others" /\ ~Deployed(c)
  \/ step = "move" /\ ~Moved(c)
  \/ step \in {"register", "unregister"} /\ rec[c].spec.console = None

\* The first step after a given one that is not passed over; "save" never is.
NextStep(c, step) ==
  LET all == Append(StepsOf(c), "save")
      from == IF step = "idle" THEN 1 ELSE 1 + CHOOSE i \in 1 .. Len(all) : all[i] = step
  IN all[CHOOSE i \in from .. Len(all) : /\ ~Skipped(c, all[i])
                                         /\ \A j \in from .. i - 1 : Skipped(c, all[j])]

----------------------------------------------------------------------------
(* The ConfigMap of a monitoring console                                    *)

\* The URLs that a resource contributes: one for each replica, or one.
Urls(c, replicas) ==
  IF Kind(c) \in {"Standalone", "SearchHeadCluster"} THEN [i \in 1 .. replicas |-> <<c, i>>]
  ELSE IF Kind(c) \in Managers THEN <<<<c, 1>>>>
  ELSE <<>>

\* Resources of one kind share an environment variable.
Registering == Managers \cup {"Standalone", "SearchHeadCluster"}
NoUrls == [k \in Registering |-> <<>>]

\* AddURLsConfigMap. (Its branch for scaling down is never taken.)
AddURLs(urls, new) ==
  LET added[i \in 0 .. Len(new)] ==
        IF i = 0 THEN urls
        ELSE IF Contains(added[i - 1], new[i]) THEN added[i - 1] ELSE Append(added[i - 1], new[i])
  IN added[Len(new)]

\* DeleteURLsConfigMap removes the joined list as one string: nothing
\* happens when the URLs are not next to each other.
DeleteURLs(urls, new) == ReplaceFirstSubSeq(<<>>, new, urls)

\* Mutant: a change of a ConfigMap is not an event.
NotWatched(m) == {}

\* The consoles that are told of a change: those that own the ConfigMap.
Owners(m) == IF console[m].owned THEN {m} ELSE {}

\* ApplyMonitoringConsoleEnvConfigMap: writes only what has changed.
Apply(m, c, urls) ==
  IF Kind(c) \notin Registering \/ console[m].urls[Kind(c)] = urls THEN console[m]
  ELSE [console[m] EXCEPT !.urls[Kind(c)] = urls, !.rev = @ + 1]
Added(m, c, replicas) ==
  IF Kind(c) \notin Registering THEN console[m]
  ELSE Apply(m, c, AddURLs(console[m].urls[Kind(c)], Urls(c, replicas)))
Deleted(m, c, replicas) ==
  IF Kind(c) \notin Registering THEN console[m]
  ELSE Apply(m, c, DeleteURLs(console[m].urls[Kind(c)], Urls(c, replicas)))

----------------------------------------------------------------------------
(* Reconciling                                                              *)

Active == {c \in CRs : rec[c].at # "idle"}
Fault(kind) == /\ kind \in Faults /\ Len(changes) + Len(faults) < MaxEvents
               /\ faults' = Append(faults, kind)
Fine == faults' = faults

\* The step of c is done; the reconcile goes on with the next one.
Done(c) == rec' = [rec EXCEPT ![c].at = NextStep(c, rec[c].at)]

\* The reconcile returns, to be run again later.
Return(c) == rec' = [rec EXCEPT ![c].at = "save", ![c].again = TRUE]

\* A work queue holds a resource once, however many events there are.
Enqueue(cs) == queue' = queue \cup (cs \cap live)

Init ==
  /\ dep \in Deployments
  /\ live = CRs /\ ready = {}
  /\ spec = [c \in CRs |-> [image |-> 1, replicas |-> 1, console |-> dep.console[c], deleting |-> FALSE]]
  /\ sets = [s \in SetNames |-> NoSet] /\ observed = sets /\ pods = sets
  /\ console = [m \in Consoles |-> [urls |-> NoUrls, rev |-> 0, owned |-> FALSE]]
  /\ tag = [c \in CRs |-> 0] /\ queue = CRs
  /\ rec = [c \in CRs |-> Idle]
  /\ changes = <<>> /\ faults = <<>>

\* The instance that answers REST calls for a cluster manager.
Answers(c) == pods[Main(dep.manager[c])].image # 0
ManagerReady(c) == dep.manager[c] \in ready \cap live

\* Only a cluster manager looks for references to it before it goes.
Removal(c) == IF Kind(c) = "ClusterManager" THEN "references" ELSE "finalize"

\* (Reconciler).Reconcile reads the resource; an indexer cluster then reads
\* the stored phase of its manager, and asks the manager for its
\* replication factor if that phase is Ready.
Begin(c) ==
  /\ rec[c].at = "idle" /\ c \in queue /\ Cardinality(Active) < Workers
  /\ queue' = queue \ {c}
  /\ LET indexer == Kind(c) = "IndexerCluster"
         first == IF indexer /\ ManagerReady(c) /\ ~Answers(c) THEN "save"
                  ELSE IF ~spec[c].deleting THEN NextStep(c, "idle")
                  ELSE IF indexer \/ Kind(c) = "MonitoringConsole" \/ spec[c].console = None
                       THEN Removal(c) ELSE "unregister"
     IN rec' = [rec EXCEPT ![c] =
          [at |-> first, spec |-> spec[c], manager |-> indexer /\ ManagerReady(c), rev |-> 0,
           ready |-> FALSE, again |-> first = "save"]]
  /\ UNCHANGED <<dep, live, spec, ready, sets, observed, pods, console, tag, changes, faults>>

At(c, step) == rec[c].at = step /\ UNCHANGED <<dep, changes>>

\* Any call of the Kubernetes API or of an instance fails: the reconcile
\* returns with the phase it has so far, which is Error before "update".
ApiFails(c) ==
  /\ rec[c].at \notin {"idle", "save"} /\ Fault("api")
  /\ Return(c)
  /\ UNCHANGED <<dep, live, spec, ready, sets, observed, pods, console, tag, queue, changes>>

\* GetMCConfigMap: the console becomes an owner of its ConfigMap.
ReadConfigMap(c) ==
  /\ At(c, "read") /\ Fine
  /\ console' = IF console[c].owned THEN console
                ELSE [console EXCEPT ![c].owned = TRUE, ![c].rev = @ + 1]
  /\ rec' = [rec EXCEPT ![c].rev = console'[c].rev, ![c].at = NextStep(c, "read")]
  /\ UNCHANGED <<live, spec, ready, sets, observed, pods, tag, queue>>

\* The URLs of the resource go from the old console to the new one.
MoveConsole(c) ==
  /\ At(c, "move") /\ Fine
  /\ LET old == sets[Main(c)].console
         new == rec[c].spec.console
     IN /\ console' = [m \in Consoles |->
             CASE m = old -> Deleted(m, c, rec[c].spec.replicas)
               [] m = new -> Added(m, c, rec[c].spec.replicas)
               [] OTHER -> console[m]]
        /\ Enqueue(UNION {Owners(m) : m \in {old, new} \ {None}})
  /\ Done(c)
  /\ UNCHANGED <<live, spec, ready, sets, observed, pods, tag>>

----------------------------------------------------------------------------
(* UpgradePathValidation                                                    *)

\* Mutant: the stored phase alone decides.
ReadyIsEnough(c, r) == r \in ready

\* The stored phase of the resource, and the image of its template.
IsUpgraded(c, r) == r \in ready /\ sets[Main(r)].image = rec[c].spec.image

\* A license manager that does not exist is not waited for.
WaitForLicenseManager(c) ==
  /\ At(c, "license") /\ Fine
  /\ LET r == LicenseManagerRef(c) IN
       IF r \notin live \/ IsUpgraded(c, r) THEN Done(c) ELSE Return(c)
  /\ UNCHANGED <<live, spec, ready, sets, observed, pods, console, tag, queue>>

\* The first resource of a list, in whichever order the API returns it.
FirstOf(list) == IF list = {} THEN {None} ELSE list

\* The search head clusters that have the same cluster manager, or like an
\* indexer cluster of a ClusterMaster have none; only one is looked at.
SearchHeadsOf(c) ==
  FirstOf({s \in OfKind("SearchHeadCluster") : ClusterManagerRef(s) = ClusterManagerRef(c)})
SearchHeadsUpgraded(c, s) == s = None \/ IsUpgraded(c, s)

\* Any error in reading the cluster manager is taken as if there were no
\* reference to one. Sites of a multisite cluster are meant to go one after
\* the other, but the comparison that finds the site before this one is
\* never true.
WaitForClusterManager(c) ==
  /\ At(c, "manager")
  /\ LET r == ClusterManagerRef(c)
         indexer == Kind(c) = "IndexerCluster"
     IN \/ /\ Fine /\ r \in live
           /\ IF IsUpgraded(c, r) /\ (indexer => Answers(c)) THEN Done(c) ELSE Return(c)
        \/ /\ IF r \in live THEN Fault("get") ELSE Fine
           /\ \E s \in SearchHeadsOf(c) :
                IF indexer => SearchHeadsUpgraded(c, s) THEN Done(c) ELSE Return(c)
  /\ UNCHANGED <<live, spec, ready, sets, observed, pods, console, tag, queue>>

\* A monitoring console waits for the search heads of its cluster manager,
\* and for the cluster managers and search head clusters that refer to it;
\* the image of those does not matter. Of the indexer clusters, listed once
\* more in place of the standalones, it waits for those that have its name:
\* the names of a deployment are distinct, so here there are none.
WaitForOthers(c) ==
  /\ At(c, "others") /\ Fine
  /\ \E s \in SearchHeadsOf(c) :
       IF /\ SearchHeadsUpgraded(c, s)
          /\ \A r \in OfKind("ClusterManager") \cup OfKind("SearchHeadCluster") :
               spec[r].console = c => r \in ready
          /\ \A r \in OfKind("IndexerCluster") : r = c => r \in ready
       THEN Done(c) ELSE Return(c)
  /\ UNCHANGED <<live, spec, ready, sets, observed, pods, console, tag, queue>>

----------------------------------------------------------------------------
(* StatefulSets                                                             *)

Template(c) == [image |-> rec[c].spec.image, replicas |-> rec[c].spec.replicas,
                console |-> rec[c].spec.console, rev |-> rec[c].rev]

\* Is there no StatefulSet yet, or one with another template. The number
\* of replicas is not part of the template.
HasUpdates(s, t) == sets[s].image = 0 \/ [sets[s] EXCEPT !.replicas = t.replicas] # t

ApplyStatefulSet(s, t) ==
  /\ HasUpdates(s, t)
  /\ sets' = [sets EXCEPT ![s] = IF sets[s].image = 0 THEN t ELSE [t EXCEPT !.replicas = sets[s].replicas]]
  /\ UNCHANGED pods

\* Status.ReadyReplicas is the number of replicas.
AllReady(s) == pods[s].image # 0 /\ pods[s].replicas = sets[s].replicas

\* The pods' label controller-revision-hash is not Status.UpdateRevision.
Revision(t) == <<t.image, t.console, t.rev>>
Outdated(s) == Revision(pods[s]) # Revision(observed[s])

\* What UpdateStatefulSetPods finds in the status that it fetches again.
UpToDate(s, t) == sets[s] = t /\ AllReady(s) /\ ~Outdated(s)

\* UpdateStatefulSetPods waits for the pods, scales the set, or recycles
\* the pods that run with another template.
UpdateStatefulSetPods(s, t) ==
  /\ ~HasUpdates(s, t)
  /\ IF ~AllReady(s) \/ UpToDate(s, t) THEN UNCHANGED <<sets, pods>>
     ELSE /\ sets' = [sets EXCEPT ![s] = t]
          /\ pods' = [pods EXCEPT ![s] = NoSet]

\* The deployer's phase is stored separately and stops nothing.
UpdateDeployer(c) ==
  /\ At(c, "deployer") /\ Fine
  /\ LET template == [Template(c) EXCEPT !.replicas = 1, !.console = None] IN
       ApplyStatefulSet(Deployer(c), template) \/ UpdateStatefulSetPods(Deployer(c), template)
  /\ Done(c)
  /\ UNCHANGED <<live, spec, ready, observed, console, tag, queue>>

\* The pods of an indexer cluster that go to version 9 all go at once.
DeleteSetForNine(c) ==
  /\ At(c, "delete9") /\ Fine
  /\ \/ /\ pods[Main(c)].image # 0 /\ pods[Main(c)].image < FirstNine
        /\ rec[c].spec.image >= FirstNine
        /\ sets' = [sets EXCEPT ![Main(c)] = NoSet]
        /\ observed' = [observed EXCEPT ![Main(c)] = NoSet]
        /\ pods' = [pods EXCEPT ![Main(c)] = NoSet]
     \/ /\ ~(/\ pods[Main(c)].image # 0 /\ pods[Main(c)].image < FirstNine
             /\ rec[c].spec.image >= FirstNine)
        /\ UNCHANGED <<sets, observed, pods>>
  /\ Done(c)
  /\ UNCHANGED <<live, spec, ready, console, tag, queue>>

\* (indexerClusterPodManager).Update changes nothing while the manager's
\* phase, as read at the start, is not Ready.
Blocked(c) == Kind(c) = "IndexerCluster" /\ ~rec[c].manager

\* Steps after "update" that are taken whatever the phase is.
Unconditional(c) ==
  IF Kind(c) # "IngestorCluster" /\ "register" \in ToSet(StepsOf(c)) /\ rec[c].spec.console # None
  THEN "register" ELSE "save"

\* An indexer cluster is left alone when its manager does not answer.
Managed(c) == Kind(c) = "IndexerCluster" => Answers(c)

PhaseReady(c) == UpToDate(Main(c), Template(c)) /\ Managed(c)

Update(c) ==
  /\ At(c, "update") /\ Fine
  /\ \/ /\ Blocked(c) /\ UNCHANGED <<sets, pods>>
        /\ Return(c)
     \/ /\ ~Blocked(c) /\ PhaseReady(c) /\ UNCHANGED <<sets, pods>>
        /\ rec' = [rec EXCEPT ![c].ready = TRUE, ![c].at = NextStep(c, "update")]
     \/ /\ ~Blocked(c) /\ ~PhaseReady(c)
        /\ \/ ApplyStatefulSet(Main(c), Template(c))
           \/ Managed(c) /\ UpdateStatefulSetPods(Main(c), Template(c))
           \/ ~Managed(c) /\ ~HasUpdates(Main(c), Template(c)) /\ UNCHANGED <<sets, pods>>
        /\ rec' = [rec EXCEPT ![c].again = TRUE, ![c].at = Unconditional(c)]
  /\ UNCHANGED <<live, spec, ready, observed, console, tag, queue>>

----------------------------------------------------------------------------
(* Once the StatefulSet is up to date                                       *)

\* ApplyMonitoringConsoleEnvConfigMap(..., true)
Register(c) ==
  /\ At(c, "register") /\ Fine
  /\ LET m == rec[c].spec.console IN
       /\ console' = [console EXCEPT ![m] = Added(m, c, rec[c].spec.replicas)]
       /\ IF console' = console THEN queue' = queue ELSE Enqueue(Owners(m))
  /\ rec' = [rec EXCEPT ![c].at = IF rec[c].ready THEN NextStep(c, "register") ELSE "save"]
  /\ UNCHANGED <<live, spec, ready, sets, observed, pods, tag>>

\* Telemetry, bundle push, queue configuration, apps, and for an indexer
\* cluster AutomateMCApplyChanges on the console of its manager.
Finish(c) ==
  /\ At(c, "finish") /\ Fine
  /\ LET m == IF Kind(c) = "IndexerCluster" /\ dep.manager[c] \in live
              THEN spec[dep.manager[c]].console ELSE None
     IN IF m \in CRs /\ sets[Main(m)].image # 0 /\ pods[Main(m)].image = 0
        THEN Return(c) ELSE Done(c)
  /\ UNCHANGED <<live, spec, ready, sets, observed, pods, console, tag, queue>>

\* changeClusterManagerAnnotations, changeMonitoringConsoleAnnotations: a
\* license manager wakes the cluster manager that it names, or one that names
\* it, and a cluster manager its console.
Woken(c) ==
  IF Kind(c) = "LicenseManager"
  THEN FirstOf({r \in OfKind("ClusterManager") :
         IF ClusterManagerRef(c) # None THEN r = ClusterManagerRef(c) ELSE dep.license[r] = c})
  ELSE FirstOf({r \in OfKind("MonitoringConsole") :
         IF rec[c].spec.console # None THEN r = rec[c].spec.console ELSE dep.manager[r] = c})

Wake(c) ==
  /\ At(c, "wake") /\ Fine
  /\ \E first \in Woken(c) :
       LET image == sets[Main(c)].image
           woken == {r \in {first} \ {None} : tag[r] # image}
       IN /\ tag' = [r \in CRs |-> IF r \in woken THEN image ELSE tag[r]]
          /\ Enqueue(woken)
  /\ Done(c)
  /\ UNCHANGED <<live, spec, ready, sets, observed, pods, console>>

----------------------------------------------------------------------------
(* Deletion, and the end of a reconcile                                     *)

Unregister(c) ==
  /\ At(c, "unregister") /\ Fine
  /\ LET m == rec[c].spec.console IN
       /\ console' = [console EXCEPT ![m] = Deleted(m, c, rec[c].spec.replicas)]
       /\ IF console' = console THEN queue' = queue ELSE Enqueue(Owners(m))
  /\ rec' = [rec EXCEPT ![c].at = Removal(c)]
  /\ UNCHANGED <<live, spec, ready, sets, observed, pods, tag>>

\* checkCmRemainingReferences
ReferTo(c) ==
  {r \in live \ {c} : /\ dep.manager[r] = c
                      /\ Kind(r) \in {"IndexerCluster", "SearchHeadCluster",
                                      "LicenseManager", "MonitoringConsole"}}

CheckReferences(c) ==
  /\ At(c, "references") /\ Fine
  /\ IF ReferTo(c) # {} THEN Return(c) ELSE rec' = [rec EXCEPT ![c].at = "finalize"]
  /\ UNCHANGED <<live, spec, ready, sets, observed, pods, console, tag, queue>>

\* CheckForDeletion: volumes and finalizer are removed, and the resource
\* goes with everything it owns.
Finalize(c) ==
  /\ At(c, "finalize") /\ Fine
  /\ live' = live \ {c} /\ ready' = ready \ {c} /\ queue' = queue \ {c}
  /\ sets' = [s \in SetNames |-> IF s[1] = c THEN NoSet ELSE sets[s]]
  /\ observed' = [s \in SetNames |-> IF s[1] = c THEN NoSet ELSE observed[s]]
  /\ pods' = [s \in SetNames |-> IF s[1] = c THEN NoSet ELSE pods[s]]
  /\ console' = IF c \in Consoles
                THEN [console EXCEPT ![c] = [urls |-> NoUrls, rev |-> @.rev + 1, owned |-> FALSE]]
                ELSE console
  /\ rec' = [rec EXCEPT ![c] = Idle]
  /\ UNCHANGED <<spec, tag>>

\* Mutant: a resource that is Ready but met an error is not queued again.
ForgetsErrors(c) == ~rec[c].ready

\* Every return asks for another run, except with phase Ready and no error.
Requeued(c) == rec[c].again \/ ~rec[c].ready

\* The deferred updateCRStatus.
Save(c) ==
  /\ At(c, "save") /\ Fine
  /\ ready' = IF rec[c].ready THEN ready \cup {c} ELSE ready \ {c}
  /\ rec' = [rec EXCEPT ![c] = Idle]
  /\ Enqueue(IF Requeued(c) THEN {c} ELSE {})
  /\ UNCHANGED <<live, spec, sets, observed, pods, console, tag>>

----------------------------------------------------------------------------
(* Kubernetes, Splunk and the user (external)                               *)

\* Mutant: a change of the status alone is not an event.
StatusNotWatched(s) == {}

\* StatefulsetChangedPredicate tells the owner of every change.
Owner(s) == {s[1]}

\* The StatefulSet controller takes note of the template, and the status of
\* the set shows its revision. (The revision is not looked at before the pods
\* are ready.)
Observe(s) ==
  /\ pods[s].image # 0 /\ observed[s] # sets[s]
  /\ observed' = [observed EXCEPT ![s] = sets[s]]
  /\ Enqueue(Owner(s))
  /\ UNCHANGED <<dep, live, spec, ready, sets, pods, console, tag, rec, changes, faults>>

\* The pods become ready with the template that the controller has observed,
\* which may not be the latest.
StartPods(s) ==
  /\ sets[s].image # 0 /\ pods[s].image = 0
  /\ \E t \in {sets[s], observed[s]} :
       /\ t.image # 0 /\ t.replicas = sets[s].replicas
       /\ pods' = [pods EXCEPT ![s] = t] /\ observed' = [observed EXCEPT ![s] = t]
  /\ Enqueue(Owner(s))
  /\ UNCHANGED <<dep, live, spec, ready, sets, console, tag, rec, changes, faults>>

PodFails(s) ==
  /\ pods[s].image # 0 /\ Fault("pod")
  /\ pods' = [pods EXCEPT ![s] = NoSet]
  /\ Enqueue(Owner(s))
  /\ UNCHANGED <<dep, live, spec, ready, sets, observed, console, tag, rec, changes>>

\* The operator restarts: every resource is reconciled from the beginning.
Crash ==
  /\ Active # {} /\ Fault("crash")
  /\ rec' = [c \in CRs |-> Idle] /\ queue' = live
  /\ UNCHANGED <<dep, live, spec, ready, sets, observed, pods, console, tag, changes>>

Change(kind) == /\ kind \in Changes /\ Len(changes) + Len(faults) < MaxEvents
                /\ changes' = Append(changes, kind)

\* The operator is replaced by one with a new RELATED_IMAGE_SPLUNK_ENTERPRISE.
Upgrade ==
  /\ Change("upgrade")
  /\ LET new == 1 + Max({spec[c].image : c \in CRs}) IN
       spec' = [c \in CRs |-> [spec[c] EXCEPT !.image = new]]
  /\ rec' = [c \in CRs |-> Idle] /\ queue' = live
  /\ UNCHANGED <<dep, live, ready, sets, observed, pods, console, tag, faults>>

UserChanges(c) ==
  /\ c \in live /\ ~spec[c].deleting
  /\ \/ /\ Change("scale") /\ Kind(c) \notin Managers \cup {"MonitoringConsole"}
        /\ spec' = [spec EXCEPT ![c].replicas = 3 - @]
     \/ /\ Change("move") /\ Kind(c) # "MonitoringConsole"
        /\ \E m \in (Consoles \cup {None}) \ {spec[c].console} : spec' = [spec EXCEPT ![c].console = m]
     \/ Change("delete") /\ spec' = [spec EXCEPT ![c].deleting = TRUE]
  /\ Enqueue({c})
  /\ UNCHANGED <<dep, live, ready, sets, observed, pods, console, tag, rec, faults>>

Reconciling(c) ==
  \/ Begin(c) \/ ReadConfigMap(c) \/ MoveConsole(c)
  \/ WaitForLicenseManager(c) \/ WaitForClusterManager(c) \/ WaitForOthers(c)
  \/ UpdateDeployer(c) \/ DeleteSetForNine(c) \/ Update(c)
  \/ Register(c) \/ Finish(c) \/ Wake(c)
  \/ Unregister(c) \/ CheckReferences(c) \/ Finalize(c) \/ Save(c)

Next ==
  \/ \E c \in CRs : Reconciling(c) \/ ApiFails(c) \/ UserChanges(c)
  \/ \E s \in SetNames : Observe(s) \/ StartPods(s) \/ PodFails(s)
  \/ Crash \/ Upgrade

\* A controller works off its queue, and Kubernetes observes sets and starts pods.
AllNames == UNION {DOMAIN d.kind : d \in Deployments}
Fairness ==
  /\ \A c \in AllNames : WF_vars(c \in CRs /\ Reconciling(c))
  /\ WF_vars(\E s \in SetNames : Observe(s) \/ StartPods(s))
Spec == Init /\ [][Next]_vars /\ Fairness

----------------------------------------------------------------------------
(* Properties                                                               *)

\* Every variable has its type.
TypeOK ==
  /\ dep \in Deployments /\ live \subseteq CRs /\ ready \subseteq live
  /\ spec \in [CRs -> Specs]
  /\ \A f \in {sets, observed, pods} : f \in [SetNames -> Templates]
  /\ \A m \in Consoles : /\ DOMAIN console[m].urls = Registering /\ console[m].rev \in Nat
                         /\ \A k \in Registering : console[m].urls[k] \in Seq(CRs \X Replicas)
  /\ tag \in [CRs -> {0} \cup Images]
  /\ queue \subseteq live
  /\ rec \in [CRs -> Reconciles] /\ Cardinality(Active) <= Workers
  /\ changes \in Seq(Changes) /\ faults \in Seq(Faults)

\* Nothing is left to do for c: no reconcile, and none is due.
Quiescent(c) == c \in live /\ rec[c].at = "idle" /\ c \notin queue

\* The spec of c is what runs: its pods, its entry in the console's
\* ConfigMap, and, for a console, the version of the ConfigMap it has read.
Serves(c) ==
  LET m == spec[c].console
      run == pods[Main(c)]
  IN /\ run.image = spec[c].image /\ run.replicas = spec[c].replicas /\ run.console = m
     /\ Kind(c) = "MonitoringConsole" => run.rev = console[c].rev
     /\ m \in live => ToSet(Urls(c, spec[c].replicas)) \subseteq
                         ToSet(IF Kind(c) \in Registering THEN console[m].urls[Kind(c)] ELSE <<>>)

\* The pods of c run, and the status of its StatefulSet is out of date.
StatusLags(c) == pods[Main(c)].image # 0 /\ observed[Main(c)] # sets[Main(c)]

\* A stored phase Ready that nobody is about to revise is true, whatever was
\* changed, has failed or was reconciled at the same time, once the status of
\* the StatefulSet has caught up. (Until then the pods may be the old ones:
\* README, Known limits.)
ReadyIsTrue == \A c \in ready : Quiescent(c) => Serves(c) \/ StatusLags(c)

Happened(kind, seq) == \E k \in 1 .. Len(seq) : seq[k] = kind

\* The template of a StatefulSet that exists gets the image that rec[c] has read.
Upgrades(c) == /\ sets[Main(c)].image # 0 /\ c \in live'
               /\ sets'[Main(c)].image # sets[Main(c)].image

\* No resource is upgraded before the license manager and the cluster
\* manager it refers to have the image, unless reading one has failed.
UpgradeInOrder ==
  [][\A c \in CRs : Upgrades(c) /\ ~Happened("get", faults) =>
       \A r \in {LicenseManagerRef(c), ClusterManagerRef(c)} \cap live :
         sets[Main(r)].image >= rec[c].spec.image]_vars

\* A known limit, which no run checks: that UpgradePathValidation waits until the
\* pods of the cluster manager run the image (README, Known limits).
WaitsForManager ==
  [][\A c \in CRs : Upgrades(c) /\ ClusterManagerRef(c) # None =>
       pods[Main(ClusterManagerRef(c))].image >= rec[c].spec.image]_vars

\* What is not deleted, and does not depend on something that is.
Stays(c) == /\ c \in live
            /\ ~spec[c].deleting
            /\ \A r \in {dep.license[c], dep.manager[c]} \ {None} : r \in live /\ ~spec[r].deleting
Goes(c) == c \in live /\ spec[c].deleting /\ ReferTo(c) = {}

\* Everything settles, nobody waits for somebody who waits for it: all
\* resources become Ready and serve, and a resource that is deleted goes
\* once nothing refers to it.
AllSettle ==
  <>[](\A c \in CRs : IF Stays(c) THEN c \in ready /\ Serves(c) ELSE Goes(c) => c \notin live)

============================================================================
