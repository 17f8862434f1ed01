---------------------------- MODULE AppRepoProofs ----------------------------
(***************************************************************************)
(* Theorems about AppRepo, for any deployments: its types, the reference   *)
(* count of the manual update, that no listing begins while a bundle is    *)
(* pushed, and that the status tells the truth about the pods.             *)
(***************************************************************************)
EXTENDS AppRepo, FiniteSetTheorems, TLAPS

----------------------------------------------------------------------------
(* The inductive invariants                                                 *)

\* A resource that exists and has got past the first half of a listing, now or
\* in an earlier reconcile, owns the ConfigMap of the manual updates.
OwnersHaveJoined ==
  \A c \in CRs :
    (spec[c].exists /\ (run[c].pc \notin {"idle", "save"} \/ saved[c].sources # {} \/ st[c].sources # {}))
      => c \in map.owners

\* A resource leaves only when its deletion was asked for.
LeavesWhenAsked == \A c \in CRs : run[c].pc \in {"delete", "finalize"} => spec[c].deleted

CountInv == TypeOK /\ OwnersHaveJoined /\ LeavesWhenAsked /\ RefCountRestored

\* Between two reconciles there is one copy of an app context.
IdleIsSaved == \A c \in CRs : run[c].pc = "idle" => st[c] = saved[c]

\* A reconcile lists only when no deployment was in progress, and does not
\* touch the ConfigMaps while polling.
ListsWhenFree ==
  \A c \in CRs : /\ run[c].pc = "list" => ~saved[c].busy
                 /\ Polling => run[c].pc \notin {"map", "crmap"}

\* While polling, a push that is wanted keeps the deployment in progress, and
\* there is none before the first listing.
PushIsBusy(ctx) ==
  ctx.stage \in {"Pending", "InProgress"} => (Polling => ctx.busy) /\ ctx.sources # {}

PushesAreBusy == \A c \in CRs : PushIsBusy(saved[c]) /\ PushIsBusy(st[c])

\* A push that the stored status knows to be running goes on or is over.
PushGoesOn ==
  \A c \in CRs : (Polling /\ saved[c].stage = "InProgress") => st[c].stage \in {"InProgress", "Complete"}

ListingInv == IdleIsSaved /\ ListsWhenFree /\ PushesAreBusy /\ PushGoesOn

\* What the store serves is the last version, and nobody has a later one.
LastIsLatest ==
  \A a \in Apps :
    /\ repo[a].now \in {0, repo[a].last}
    /\ \A c \in CRs : /\ pods[c][a] <= repo[a].last
                      /\ saved[c].apps[a].hash <= repo[a].last
                      /\ st[c].apps[a].hash <= repo[a].last

\* May the operator restart; does the store serve the version that was listed,
\* and no status get lost.
Restarts == "crash" \in setup.events
ListedIsServed == setup.provider \in {"aws", "minio"} /\ ~Restarts

IsDeployed(info, version) ==
  (info.state = "Active" /\ info.phase = "done") =>
    /\ version >= info.hash
    /\ ListedIsServed => version = info.hash

\* What the reconcile holds is true of the pods; so is the stored status, except
\* between a step of a reconcile and the save that follows it.
HeldIsTrue == \A c \in CRs, a \in Apps : IsDeployed(st[c].apps[a], pods[c][a])
StoredIsTrue ==
  \A c \in CRs, a \in Apps :
    (run[c].pc # "save" \/ Restarts) => IsDeployed(saved[c].apps[a], pods[c][a])

ScalesOnlyIfAsked == \A c \in CRs : spec[c].scaled => "scale" \in setup.events

\* A restart of the operator between a scale up and the save of the status
\* forgets the new pod (README, Known limits).
NoLostScaleUp == ~({"scale", "crash"} \subseteq setup.events)

DeployedInv ==
  LastIsLatest /\ ScalesOnlyIfAsked /\ (NoLostScaleUp => HeldIsTrue /\ StoredIsTrue)

----------------------------------------------------------------------------
(* Types                                                                    *)

WorldType ==
  /\ setup \in Setups
  /\ repo \in [Apps -> [now : Versions, last : Versions]]
  /\ spec \in [CRs -> [exists : BOOLEAN, sources : SUBSET Sources, deleted : BOOLEAN, scaled : BOOLEAN]]
  /\ pods \in [CRs -> [Apps -> Versions]]
MapType ==
  /\ map \in [owners : SUBSET CRs, on : BOOLEAN, refCount : 0 .. Cardinality(CRs)]
  /\ crmap \in [CRs -> {"none", "off", "on"}]
ContextType == saved \in [CRs -> Contexts] /\ st \in [CRs -> Contexts]
RunType == run \in [CRs -> Runs]
QueueType == queue \subseteq CRs /\ timer \subseteq CRs /\ unseen \subseteq CRs /\ events \in 0 .. MaxEvents

LEMMA TypeParts == TypeOK <=> WorldType /\ MapType /\ ContextType /\ RunType /\ QueueType
  BY DEF TypeOK, WorldType, MapType, ContextType, RunType, QueueType

\* The deployment never changes.
LEMMA SetupIsKept ==
  ASSUME [Next]_vars PROVE setup' = setup /\ CRs' = CRs /\ (Polling <=> Polling')
<1>1. setup' = setup
  BY DEF Next, Step, Check, CheckFails, List, ListFails, UpdateMap, UpdateCrMap, Configure, Leave, Delete, Collect, Pods,
         Deploy, Save, Wake, Tick, User, Upload, RemoveApp, EditCR, TriggerCR, Trigger, Crash, vars
<1> QED  BY <1>1 DEF CRs, Polling, PollInterval

LEMMA CRsAreFinite == setup \in Setups => IsFiniteSet(CRs) /\ setup.sources \subseteq Sources
  BY AppRepoAssumption DEF CRs

\* What a listing makes of an app.
LEMMA AppAfterType ==
  ASSUME NEW a \in Apps, NEW info \in AppInfo, NEW config,
         repo \in [Apps -> [now : Versions, last : Versions]]
  PROVE  AppAfter(a, info, config) \in AppInfo
<1>1. repo[a].now \in Versions  OBVIOUS
<1>2. [hash |-> repo[a].now, state |-> "Active", phase |-> "pending"] \in AppInfo  BY <1>1 DEF AppInfo
<1>3. AddOrUpdate(info, repo[a].now) \in AppInfo  BY <1>2 DEF AddOrUpdate
<1>4. Disable(info) \in AppInfo  BY DEF Disable, AppInfo
<1> QED  BY <1>3, <1>4, Zenon DEF AppAfter

LEMMA ListedType ==
  ASSUME NEW ctx \in Contexts, NEW config \in SUBSET Sources,
         repo \in [Apps -> [now : Versions, last : Versions]]
  PROVE  HandleAppRepoChanges(ctx, config) \in Contexts
<1>1. ctx.apps \in [Apps -> AppInfo] /\ ctx.sources \in SUBSET Sources  BY DEF Contexts
<1>2. AppsAfter(ctx.apps, config) \in [Apps -> AppInfo]
  <2>1. \A a \in Apps : ctx.apps[a] \in AppInfo  BY <1>1
  <2> QED  BY <2>1, AppAfterType DEF AppsAfter
<1>3. ctx.sources \cup config \in SUBSET Sources  BY <1>1
<1> HIDE DEF AppsAfter, BundleChanges
<1> QED  BY <1>2, <1>3 DEF HandleAppRepoChanges, Contexts

LEMMA ScaledUpType ==
  ASSUME NEW ctx \in Contexts PROVE ScaledUp(ctx) \in Contexts
<1> DEFINE Apps1 == [a \in Apps |-> IF ctx.apps[a].state = "Active" /\ ctx.apps[a].phase = "done"
                                    THEN [ctx.apps[a] EXCEPT !.phase = "pending"] ELSE ctx.apps[a]]
<1>1. ctx.apps \in [Apps -> AppInfo]  BY DEF Contexts
<1>2. Apps1 \in [Apps -> AppInfo]  BY <1>1 DEF AppInfo
<1>3. ScaledUp(ctx) = [ctx EXCEPT !.busy = TRUE, !.apps = Apps1]  BY DEF ScaledUp, Contexts
<1> HIDE DEF Apps1
<1> QED  BY <1>2, <1>3 DEF Contexts

\* The deployments begin with their types right.
LEMMA InitIsTyped == Init => TypeOK
<1> SUFFICES ASSUME Init PROVE TypeOK  OBVIOUS
<1>1. setup \in Setups /\ setup.sources \subseteq Sources /\ IsFiniteSet(CRs)  BY CRsAreFinite DEF Init
<1>2. MaxVersion \in Nat /\ 1 <= MaxVersion /\ MaxEvents \in Nat  BY AppRepoAssumption
<1>3. 0 \in Versions /\ 1 \in Versions  BY <1>2 DEF Versions
<1>4. WorldType  BY <1>1, <1>3 DEF Init, WorldType
<1>5. MapType
  <2>1. Cardinality(CRs) \in Nat  BY <1>1, FS_CardinalityType
  <2> QED  BY <2>1 DEF Init, MapType
<1>6. ContextType
  <2>1. [a \in Apps |-> NoInfo] \in [Apps -> AppInfo]  BY <1>3 DEF NoInfo, AppInfo
  <2>2. NoContext \in Contexts  BY <2>1 DEF NoContext, Contexts
  <2> QED  BY <2>2 DEF Init, ContextType
<1>7. RunType  BY DEF Init, RunType, Runs, Idle
<1>8. QueueType  BY <1>2 DEF Init, QueueType
<1> QED  BY <1>4, <1>5, <1>6, <1>7, <1>8, TypeParts

\* The counter of events.
LEMMA EventsType ==
  ASSUME QueueType, NEW e, Happens(e) PROVE events' \in 0 .. MaxEvents
<1>1. MaxEvents \in Nat  BY AppRepoAssumption
<1> QED  BY <1>1 DEF QueueType, Happens

LEMMA IdleType == Idle \in Runs  BY DEF Idle, Runs

LEMMA GotoType ==
  ASSUME RunType, NEW c \in CRs,
         NEW pc \in {"idle", "list", "map", "crmap", "config", "delete", "finalize", "pods", "deploy", "save"},
         CRs' = CRs, Goto(c, pc)
  PROVE  RunType'
  BY DEF RunType, Goto, Runs

LEMMA FailType ==
  ASSUME RunType, ContextType, NEW c \in CRs, CRs' = CRs, saved' = saved, Fail(c)
  PROVE  RunType' /\ ContextType'
<1>1. RunType'  BY DEF RunType, Fail, Runs
<1>2. ContextType'
  <2>1. PICK ctx : ctx = [st[c] EXCEPT !.busy = FALSE]  OBVIOUS
  <2>2. ctx \in Contexts  BY <2>1 DEF ContextType, Contexts
  <2>3. st' = [st EXCEPT ![c] = ctx]  BY <2>1 DEF Fail, ContextType
  <2> QED  BY <2>2, <2>3 DEF ContextType
<1> QED  BY <1>1, <1>2

\* No more owners stay than there are.
LEMMA FewerStay ==
  ASSUME TypeOK, NEW S \in SUBSET CRs
  PROVE  /\ IsFiniteSet(S) /\ IsFiniteSet(Stays(S)) /\ Stays(S) \subseteq S
         /\ Cardinality(S) \in Nat /\ Cardinality(Stays(S)) \in Nat /\ Cardinality(CRs) \in Nat
         /\ Cardinality(Stays(S)) <= Cardinality(S) /\ Cardinality(S) <= Cardinality(CRs)
<1>1. IsFiniteSet(CRs)  BY CRsAreFinite DEF TypeOK
<1>2. IsFiniteSet(S) /\ Cardinality(S) <= Cardinality(CRs)  BY <1>1, FS_Subset
<1>3. Stays(S) \subseteq S  BY DEF Stays
<1>4. IsFiniteSet(Stays(S)) /\ Cardinality(Stays(S)) <= Cardinality(S)  BY <1>2, <1>3, FS_Subset
<1> QED  BY <1>1, <1>2, <1>3, <1>4, FS_CardinalityType

\* The ConfigMap when a resource joins, leaves, or has listed.
LEMMA JoinedType ==
  ASSUME TypeOK, NEW c \in CRs
  PROVE  /\ Joined(c) \in [owners : SUBSET CRs, on : BOOLEAN, refCount : 0 .. Cardinality(CRs)]
         /\ Joined(c).owners = map.owners \cup {c}
         /\ RefCountRestored => (~Joined(c).on => Joined(c).refCount >= Cardinality(Stays(Joined(c).owners)))
<1>1. IsFiniteSet(CRs)  BY CRsAreFinite DEF TypeOK
<1>2. map \in [owners : SUBSET CRs, on : BOOLEAN, refCount : 0 .. Cardinality(CRs)]  BY DEF TypeOK
<1>3. CASE c \in map.owners
  <2>1. map.owners = map.owners \cup {c}  BY <1>3
  <2> QED  BY <1>2, <1>3, <2>1 DEF Joined, RefCountRestored
<1>4. CASE c \notin map.owners
  <2>1. IsFiniteSet(map.owners) /\ IsFiniteSet(map.owners \cup {c})
    BY <1>1, <1>2, FS_Subset, FS_AddElement
  <2>2. Cardinality(map.owners \cup {c}) = Cardinality(map.owners) + 1  BY <1>4, <2>1, FS_AddElement
  <2>3. Cardinality(map.owners \cup {c}) <= Cardinality(CRs)  BY <1>1, <1>2, FS_Subset
  <2>4. Cardinality(map.owners) \in Nat /\ Cardinality(CRs) \in Nat  BY <1>1, <2>1, FS_CardinalityType
  <2>5. PICK n : n = Cardinality(map.owners) + 1  OBVIOUS
  <2>6. n \in 0 .. Cardinality(CRs)  BY <2>2, <2>3, <2>4, <2>5
  <2>7. Joined(c) = [map EXCEPT !.owners = map.owners \cup {c}, !.refCount = n]
    BY <1>2, <1>4, <2>5 DEF Joined
  <2>8. Joined(c).owners = map.owners \cup {c} /\ Joined(c).refCount = Cardinality(map.owners \cup {c})
    BY <1>2, <2>2, <2>5, <2>7
  <2>9. PICK S \in SUBSET CRs : S = map.owners \cup {c}  BY <1>2
  <2>10. Joined(c).refCount >= Cardinality(Stays(Joined(c).owners))  BY <2>8, <2>9, FewerStay
  <2> QED  BY <1>2, <2>6, <2>7, <2>8, <2>10
<1> QED  BY <1>3, <1>4

LEMMA LeftType ==
  ASSUME TypeOK, NEW c \in map.owners
  PROVE  /\ Left(c) \in [owners : SUBSET CRs, on : BOOLEAN, refCount : 0 .. Cardinality(CRs)]
         /\ Left(c).owners = map.owners
         /\ Left(c).refCount = Cardinality(map.owners \ {c})
<1>1. map \in [owners : SUBSET CRs, on : BOOLEAN, refCount : 0 .. Cardinality(CRs)]  BY DEF TypeOK
<1>2. PICK S \in SUBSET CRs : S = map.owners  BY <1>1
<1>3. /\ IsFiniteSet(map.owners) /\ Cardinality(map.owners) \in Nat
      /\ Cardinality(map.owners) <= Cardinality(CRs) /\ Cardinality(CRs) \in Nat
  BY <1>2, FewerStay
<1>4. Cardinality(map.owners \ {c}) = Cardinality(map.owners) - 1 /\ IsFiniteSet(map.owners \ {c})
  BY <1>3, FS_RemoveElement
<1>5. Cardinality(map.owners \ {c}) \in Nat  BY <1>4, FS_CardinalityType
<1>6. CASE map.owners = {c}
  <2>1. Left(c) = [map EXCEPT !.on = FALSE, !.refCount = 0]  BY <1>6 DEF Left
  <2>2. Cardinality(map.owners \ {c}) = 0
    <3>1. map.owners \ {c} = {}  BY <1>6
    <3> QED  BY <3>1, FS_EmptySet
  <2>3. 0 \in 0 .. Cardinality(CRs)  BY <1>3
  <2>4. Left(c).owners = map.owners /\ Left(c).refCount = 0  BY <1>1, <2>1
  <2>5. Left(c) \in [owners : SUBSET CRs, on : BOOLEAN, refCount : 0 .. Cardinality(CRs)]
    BY <1>1, <2>1, <2>3
  <2> QED  BY <2>2, <2>4, <2>5
<1>7. CASE map.owners # {c}
  <2>1. PICK n : n = Cardinality(map.owners) - 1  OBVIOUS
  <2>2. n \in 0 .. Cardinality(CRs) /\ n = Cardinality(map.owners \ {c})  BY <1>3, <1>4, <1>5, <2>1
  <2>3. Left(c) = [map EXCEPT !.refCount = n]  BY <1>1, <1>7, <2>1 DEF Left
  <2> QED  BY <1>1, <2>2, <2>3
<1> QED  BY <1>6, <1>7

LEMMA UpdatedType ==
  ASSUME TypeOK, NEW turnOff \in BOOLEAN
  PROVE  /\ Updated(turnOff) \in [owners : SUBSET CRs, on : BOOLEAN, refCount : 0 .. Cardinality(CRs)]
         /\ Updated(turnOff).owners = map.owners
         /\ RefCountRestored =>
              (~Updated(turnOff).on => Updated(turnOff).refCount >= Cardinality(Stays(Updated(turnOff).owners)))
<1>1. IsFiniteSet(CRs)  BY CRsAreFinite DEF TypeOK
<1>2. map \in [owners : SUBSET CRs, on : BOOLEAN, refCount : 0 .. Cardinality(CRs)]  BY DEF TypeOK
<1>3. IsFiniteSet(map.owners) /\ Cardinality(map.owners) <= Cardinality(CRs)  BY <1>1, <1>2, FS_Subset
<1>4. Cardinality(CRs) \in Nat /\ Cardinality(map.owners) \in Nat  BY <1>1, <1>3, FS_CardinalityType
<1>5. CASE turnOff
  <2>1. Cardinality(map.owners) \in 0 .. Cardinality(CRs)  BY <1>3, <1>4
  <2>2. PICK n : n = Cardinality(map.owners)  OBVIOUS
  <2>3. Updated(turnOff) = [map EXCEPT !.on = FALSE, !.refCount = n]  BY <1>5, <2>2 DEF Updated
  <2>4. PICK S \in SUBSET CRs : S = map.owners  BY <1>2
  <2>5. n >= Cardinality(Stays(map.owners))  BY <2>2, <2>4, FewerStay
  <2> QED  BY <1>2, <2>1, <2>2, <2>3, <2>5
<1>6. CASE ~turnOff /\ map.on
  <2>1. PICK n : n = IF map.refCount > 0 THEN map.refCount - 1 ELSE 0  OBVIOUS
  <2>2. n \in 0 .. Cardinality(CRs)  BY <1>2, <1>4, <2>1
  <2>3. Updated(turnOff) = [map EXCEPT !.refCount = n]  BY <1>2, <1>6, <2>1 DEF Updated
  <2> QED  BY <1>2, <1>6, <2>2, <2>3
<1>7. CASE ~turnOff /\ ~map.on  BY <1>2, <1>7 DEF Updated, RefCountRestored
<1> QED  BY <1>5, <1>6, <1>7

\* What the user asks of a resource.
Specs == [exists : BOOLEAN, sources : SUBSET Sources, deleted : BOOLEAN, scaled : BOOLEAN]

LEMMA SpecType ==
  ASSUME NEW S, NEW f \in [S -> Specs], NEW c \in S
  PROVE  /\ [f EXCEPT ![c].exists = FALSE] \in [S -> Specs]
         /\ [f EXCEPT ![c].scaled = FALSE] \in [S -> Specs]
         /\ [f EXCEPT ![c].scaled = TRUE] \in [S -> Specs]
         /\ [f EXCEPT ![c].deleted = TRUE] \in [S -> Specs]
         /\ \A s \in SUBSET Sources : [f EXCEPT ![c].sources = s] \in [S -> Specs]
<1>1. f[c] \in Specs  OBVIOUS
<1>2. \A r \in Specs : [f EXCEPT ![c] = r] \in [S -> Specs]  OBVIOUS
<1>3. [f[c] EXCEPT !.scaled = FALSE] \in Specs  BY <1>1 DEF Specs
<1>4. [f[c] EXCEPT !.scaled = TRUE] \in Specs  BY <1>1 DEF Specs
<1>5. [f[c] EXCEPT !.deleted = TRUE] \in Specs  BY <1>1 DEF Specs
<1>6. \A s \in SUBSET Sources : [f[c] EXCEPT !.sources = s] \in Specs  BY <1>1 DEF Specs
<1>61. [f[c] EXCEPT !.exists = FALSE] \in Specs  BY <1>1 DEF Specs
<1>7. /\ [f EXCEPT ![c].exists = FALSE] \in [S -> Specs]
      /\ [f EXCEPT ![c].scaled = FALSE] \in [S -> Specs]
      /\ [f EXCEPT ![c].scaled = TRUE] \in [S -> Specs]
      /\ [f EXCEPT ![c].deleted = TRUE] \in [S -> Specs]
  BY <1>2, <1>3, <1>4, <1>5, <1>61, Zenon
<1>8. \A s \in SUBSET Sources : [f EXCEPT ![c].sources = s] \in [S -> Specs]
  BY <1>2, <1>6, Zenon
<1> QED  BY <1>7, <1>8

LEMMA KeptTypes ==
  ASSUME TypeOK, setup' = setup, CRs' = CRs
  PROVE  /\ UNCHANGED world => WorldType'
         /\ UNCHANGED maps => MapType'
         /\ UNCHANGED <<saved, st>> => ContextType'
         /\ UNCHANGED run => RunType'
         /\ UNCHANGED <<queue, timer, unseen, events>> => QueueType'
<1>1. UNCHANGED world => WorldType'  BY DEF TypeOK, WorldType, world
<1>2. UNCHANGED maps => MapType'  BY DEF TypeOK, MapType, maps
<1>3. UNCHANGED <<saved, st>> => ContextType'  BY DEF TypeOK, ContextType
<1>4. UNCHANGED run => RunType'  BY DEF TypeOK, RunType
<1>5. UNCHANGED <<queue, timer, unseen, events>> => QueueType'  BY DEF TypeOK, QueueType
<1> QED  BY <1>1, <1>2, <1>3, <1>4, <1>5

\* Every step of the reconcile of a resource keeps the types.
LEMMA CheckIsTyped ==
  ASSUME TypeOK, CRs' = CRs, NEW c \in CRs, Check(c) PROVE TypeOK'
<1>1. setup' = setup /\ UNCHANGED world /\ UNCHANGED <<saved, st>>  BY DEF Check
<1>2. WorldType' /\ ContextType'  BY <1>1, KeptTypes
<1>3. map' \in [owners : SUBSET CRs, on : BOOLEAN, refCount : 0 .. Cardinality(CRs)]
  BY JoinedType DEF Check, TypeOK
<1>4. MapType'  BY <1>3 DEF Check, MapType, TypeOK
<1>5. RunType'
  <2>1. PICK pc \in {"list", "config"}, turnOff \in BOOLEAN :
          run' = [run EXCEPT ![c] = [pc |-> pc, turnOff |-> turnOff, config |-> spec[c].sources,
                                     revisit |-> FALSE]]
    <3> DEFINE Wanted == ShouldCheck(c, map') \/ crmap[c] = "on" \/ saved[c].config # spec[c].sources
               Pc == IF Wanted /\ ~InProgress(c) THEN "list" ELSE "config"
               TurnOff == ~Polling /\ map'.on /\ map'.refCount = 1
    <3>1. run' = [run EXCEPT ![c] = [pc |-> Pc, turnOff |-> TurnOff, config |-> spec[c].sources,
                                     revisit |-> FALSE]]
      BY DEF Check
    <3>2. Pc \in {"list", "config"} /\ TurnOff \in BOOLEAN  OBVIOUS
    <3> HIDE DEF Pc, TurnOff
    <3> QED  BY <3>1, <3>2
  <2>2. spec[c].sources \in SUBSET Sources  BY DEF TypeOK
  <2>. DEFINE r == [pc |-> pc, turnOff |-> turnOff, config |-> spec[c].sources, revisit |-> FALSE]
  <2>3. r \in Runs  BY <2>2 DEF Runs
  <2> QED  BY <2>1, <2>3 DEF TypeOK, RunType
<1>6. QueueType'
  <2>1. Notified(map') \subseteq CRs  BY <1>3 DEF Notified, LiveOwners
  <2> QED  BY <2>1 DEF Check, TypeOK, QueueType
<1> QED  BY <1>2, <1>4, <1>5, <1>6, TypeParts, PTL

LEMMA CheckFailsIsTyped ==
  ASSUME TypeOK, CRs' = CRs, NEW c \in CRs, CheckFails(c) PROVE TypeOK'
<1>1. setup' = setup /\ UNCHANGED world /\ UNCHANGED maps  BY DEF CheckFails
<1>2. WorldType' /\ MapType'  BY <1>1, KeptTypes
<1>3. ContextType' /\ RunType'  BY FailType, TypeParts DEF CheckFails
<1>4. QueueType'  BY EventsType, TypeParts DEF CheckFails, QueueType
<1> QED  BY <1>2, <1>3, <1>4, TypeParts, PTL

LEMMA ListIsTyped ==
  ASSUME TypeOK, CRs' = CRs, NEW c \in CRs, List(c) \/ ListFails(c) PROVE TypeOK'
<1>1. setup' = setup /\ UNCHANGED world /\ UNCHANGED maps  BY DEF List, ListFails
<1>2. WorldType' /\ MapType'  BY <1>1, KeptTypes
<1>3. RunType'
  <2>1. AfterList \in {"map", "config"}  BY DEF AfterList
  <2> QED  BY <2>1, GotoType, TypeParts DEF List, ListFails
<1>4. ContextType'
  <2>1. PICK ctx0 : ctx0 = HandleAppRepoChanges(st[c], run[c].config)  OBVIOUS
  <2>2. ctx0 \in Contexts
    <3>1. st[c] \in Contexts /\ run[c].config \in SUBSET Sources  BY DEF TypeOK, Runs
    <3> QED  BY <2>1, <3>1, ListedType DEF TypeOK
  <2>3. CASE List(c)
    <3>1. PICK ctx : ctx = [ctx0 EXCEPT !.busy = TRUE, !.due = FALSE]  OBVIOUS
    <3>2. ctx \in Contexts  BY <2>2, <3>1 DEF Contexts
    <3>3. st' = [st EXCEPT ![c] = ctx]  BY <2>1, <2>3, <3>1 DEF List, TypeOK
    <3> QED  BY <2>3, <3>2, <3>3 DEF List, TypeOK, ContextType
  <2>4. CASE ListFails(c)
    <3>1. PICK ctx : ctx = [st[c] EXCEPT !.busy = TRUE, !.due = FALSE]  OBVIOUS
    <3>2. st[c] \in Contexts /\ st \in [CRs -> Contexts]  BY DEF TypeOK
    <3>3. ctx \in Contexts  BY <3>1, <3>2 DEF Contexts
    <3>4. st' = [st EXCEPT ![c].busy = TRUE, ![c].due = FALSE] /\ saved' = saved  BY <2>4 DEF ListFails
    <3>5. \A d \in CRs : st'[d] = IF d = c THEN ctx ELSE st[d]  BY <3>1, <3>2, <3>4 DEF Contexts
    <3>6. st' \in [CRs -> Contexts]
      <4>1. st' = [d \in CRs |-> st'[d]]  BY <3>2, <3>4
      <4>2. \A d \in CRs : st'[d] \in Contexts  BY <3>2, <3>3, <3>5
      <4> QED  BY <4>1, <4>2
    <3> QED  BY <3>4, <3>6 DEF TypeOK, ContextType
  <2> QED  BY <2>3, <2>4
<1>5. QueueType'
  <2>1. CASE List(c)  BY <2>1 DEF List, TypeOK, QueueType
  <2>2. CASE ListFails(c)  BY <2>2, EventsType, TypeParts DEF ListFails, QueueType
  <2> QED  BY <2>1, <2>2
<1> QED  BY <1>2, <1>3, <1>4, <1>5, TypeParts, PTL

LEMMA UpdateMapIsTyped ==
  ASSUME TypeOK, CRs' = CRs, NEW c \in CRs, UpdateMap(c) PROVE TypeOK'
<1>1. setup' = setup /\ UNCHANGED world /\ saved' = saved  BY DEF UpdateMap
<1>2. WorldType'  BY <1>1, KeptTypes
<1>3. CASE Happens("api") /\ Fail(c) /\ UNCHANGED <<map, queue>>
  <2>1. MapType'  BY <1>3 DEF UpdateMap, TypeOK, MapType
  <2>2. ContextType' /\ RunType'  BY <1>1, <1>3, FailType, TypeParts
  <2>3. QueueType'  BY <1>3, EventsType, TypeParts DEF UpdateMap, QueueType
  <2> QED  BY <1>2, <2>1, <2>2, <2>3, TypeParts, PTL
<1>4. CASE map' = Updated(run[c].turnOff) /\ queue' = (IF map.on THEN queue \cup LiveOwners(map) ELSE queue)
           /\ Goto(c, "crmap") /\ UNCHANGED <<st, events>>
  <2>1. MapType'
    <3>1. run[c].turnOff \in BOOLEAN  BY DEF TypeOK, Runs
    <3> QED  BY <1>4, <3>1, UpdatedType DEF UpdateMap, TypeOK, MapType
  <2>2. ContextType'  BY <1>1, <1>4, KeptTypes
  <2>3. RunType'  BY <1>4, GotoType, TypeParts
  <2>4. QueueType'
    <3>1. LiveOwners(map) \subseteq CRs  BY DEF LiveOwners, TypeOK
    <3> QED  BY <1>4, <3>1 DEF UpdateMap, TypeOK, QueueType
  <2> QED  BY <1>2, <2>1, <2>2, <2>3, <2>4, TypeParts, PTL
<1> QED  BY <1>3, <1>4 DEF UpdateMap

LEMMA UpdateCrMapIsTyped ==
  ASSUME TypeOK, CRs' = CRs, NEW c \in CRs, UpdateCrMap(c) PROVE TypeOK'
<1>1. setup' = setup /\ UNCHANGED world /\ saved' = saved  BY DEF UpdateCrMap
<1>2. WorldType'  BY <1>1, KeptTypes
<1>3. MapType'  BY DEF UpdateCrMap, TypeOK, MapType
<1>4. ContextType' /\ RunType'
  <2>1. CASE Fail(c)  BY <1>1, <2>1, FailType, TypeParts
  <2>2. CASE Goto(c, "config") /\ UNCHANGED st
    BY <1>1, <2>2, GotoType, KeptTypes, TypeParts DEF ContextType
  <2> QED  BY <2>1, <2>2 DEF UpdateCrMap
<1>5. QueueType'
  <2>1. CASE Happens("api")  BY <2>1, EventsType, TypeParts DEF UpdateCrMap, QueueType
  <2>2. CASE UNCHANGED events  BY <2>2 DEF UpdateCrMap, TypeOK, QueueType
  <2> QED  BY <2>1, <2>2 DEF UpdateCrMap
<1> QED  BY <1>2, <1>3, <1>4, <1>5, TypeParts, PTL

LEMMA ConfigureIsTyped ==
  ASSUME TypeOK, CRs' = CRs, NEW c \in CRs, Configure(c) PROVE TypeOK'
<1>1. setup' = setup /\ UNCHANGED world /\ UNCHANGED <<saved, st>>
      /\ UNCHANGED <<queue, timer, unseen, events>>
  BY DEF Configure
<1>2. WorldType' /\ ContextType' /\ QueueType'  BY <1>1, KeptTypes
<1>3. MapType'  BY DEF Configure, TypeOK, MapType
<1>4. RunType'  BY GotoType, TypeParts DEF Configure
<1> QED  BY <1>2, <1>3, <1>4, TypeParts, PTL

\* The record of a reconcile that is about to save.
LEMMA SaveRunType ==
  ASSUME RunType, NEW c \in CRs, CRs' = CRs, NEW again \in BOOLEAN,
         run' = [run EXCEPT ![c].pc = "save", ![c].revisit = again]
  PROVE  RunType'
<1>1. PICK r : r = [run[c] EXCEPT !.pc = "save", !.revisit = again]  OBVIOUS
<1>2. run[c] \in Runs /\ run \in [CRs -> Runs]  BY DEF RunType
<1>3. r \in Runs  BY <1>1, <1>2 DEF Runs
<1>4. \A d \in CRs : run'[d] = IF d = c THEN r ELSE run[d]  BY <1>1, <1>2 DEF Runs
<1>5. run' = [d \in CRs |-> run'[d]]  BY <1>2
<1>6. \A d \in CRs : run'[d] \in Runs  BY <1>2, <1>3, <1>4
<1> QED  BY <1>5, <1>6 DEF RunType

LEMMA LeaveIsTyped ==
  ASSUME TypeOK, OwnersHaveJoined, CRs' = CRs, NEW c \in CRs, Leave(c) PROVE TypeOK'
<1>1. setup' = setup /\ UNCHANGED world /\ UNCHANGED <<saved, st>>  BY DEF Leave
<1>2. WorldType' /\ ContextType'  BY <1>1, KeptTypes
<1>3. c \in map.owners  BY DEF Leave, Reconciles, OwnersHaveJoined
<1>4. map' \in [owners : SUBSET CRs, on : BOOLEAN, refCount : 0 .. Cardinality(CRs)]
  BY <1>3, LeftType DEF Leave, TypeOK
<1>5. MapType'  BY <1>4 DEF Leave, TypeOK, MapType
<1>6. RunType'
  <2>1. CASE Goto(c, "finalize")  BY <2>1, GotoType, TypeParts
  <2>2. CASE Again(c)  BY <2>2, SaveRunType, TypeParts DEF Again
  <2> QED  BY <2>1, <2>2 DEF Leave
<1>7. QueueType'
  <2>1. Notified(map') \subseteq CRs  BY <1>4 DEF Notified, LiveOwners
  <2>2. CASE Happens("api") /\ queue' = queue  BY <2>2, EventsType, TypeParts DEF Leave, QueueType
  <2>3. CASE queue' = queue \cup Notified(map') /\ UNCHANGED events  BY <2>1, <2>3 DEF Leave, TypeOK, QueueType
  <2> QED  BY <2>2, <2>3 DEF Leave
<1> QED  BY <1>2, <1>5, <1>6, <1>7, TypeParts, PTL

LEMMA DeleteIsTyped ==
  ASSUME TypeOK, CRs' = CRs, NEW c \in CRs, Delete(c) PROVE TypeOK'
<1>1. setup' = setup /\ UNCHANGED maps  BY DEF Delete
<1>2. MapType'  BY <1>1, KeptTypes
<1>3. WorldType'
  <2>1. spec' = spec \/ spec' = [spec EXCEPT ![c].exists = FALSE]  BY DEF Delete
  <2>2. spec \in [CRs -> Specs]  BY DEF TypeOK, Specs
  <2>3. [spec EXCEPT ![c].exists = FALSE] \in [CRs -> Specs]  BY <2>2, SpecType, Zenon
  <2>4. spec' \in [CRs -> Specs]  BY <2>1, <2>2, <2>3, Zenon
  <2> QED  BY <1>1, <2>4 DEF Delete, TypeOK, WorldType, Specs
<1>4. ContextType'
  <2>1. saved' = saved /\ (st' = st \/ st' = [st EXCEPT ![c] = saved[c]])  BY DEF Delete
  <2> QED  BY <2>1 DEF TypeOK, ContextType
<1>5. RunType'
  <2>1. CASE run' = [run EXCEPT ![c] = Idle]  BY <2>1, IdleType DEF TypeOK, RunType
  <2>2. CASE Again(c)  BY <2>2, SaveRunType, TypeParts DEF Again
  <2> QED  BY <2>1, <2>2 DEF Delete
<1>6. QueueType'
  <2>1. queue' \subseteq queue /\ timer' \subseteq timer /\ unseen' \subseteq unseen  BY DEF Delete
  <2>2. events' \in 0 .. MaxEvents  BY EventsType, TypeParts DEF Delete, TypeOK
  <2> QED  BY <2>1, <2>2 DEF TypeOK, QueueType
<1> QED  BY <1>2, <1>3, <1>4, <1>5, <1>6, TypeParts, PTL

LEMMA CollectIsTyped ==
  ASSUME TypeOK, CRs' = CRs, NEW c \in CRs, Collect(c) PROVE TypeOK'
<1>1. /\ setup' = setup /\ UNCHANGED world /\ UNCHANGED <<saved, st>> /\ UNCHANGED run
      /\ UNCHANGED <<queue, timer, unseen, events>>
  BY DEF Collect
<1>2. WorldType' /\ ContextType' /\ RunType' /\ QueueType'  BY <1>1, KeptTypes
<1>3. Cardinality(CRs) \in Nat  BY CRsAreFinite, FS_CardinalityType DEF TypeOK
<1>4. map' \in [owners : SUBSET CRs, on : BOOLEAN, refCount : 0 .. Cardinality(CRs)]
  <2>1. map \in [owners : SUBSET CRs, on : BOOLEAN, refCount : 0 .. Cardinality(CRs)]  BY DEF TypeOK
  <2>2. 0 \in 0 .. Cardinality(CRs)  BY <1>3
  <2>3. CASE map' = [owners |-> {}, on |-> FALSE, refCount |-> 0]  BY <2>2, <2>3
  <2>4. CASE map' = [map EXCEPT !.owners = map.owners \ {c}]  BY <2>1, <2>4
  <2> QED  BY <2>1, <2>3, <2>4 DEF Collect
<1>5. MapType'  BY <1>4 DEF Collect, TypeOK, MapType
<1> QED  BY <1>2, <1>5, TypeParts, PTL

\* What an entry of the scheduler does: which apps it tries, which of them it
\* deploys, and whether work is left.
DeploysBy(c, tried, good, left, apps, stage) ==
  /\ good \subseteq tried
  /\ \A a \in good : Succeeds(c, a)
  /\ apps = [a \in Apps |->
              IF a \in tried
              THEN [st[c].apps[a] EXCEPT !.phase = IF a \in good THEN "done" ELSE "failed"]
              ELSE st[c].apps[a]]
  /\ stage \in {"Pending", "InProgress"} => left /\ st[c].stage \in {"Pending", "InProgress"}
  /\ st[c].stage \in {"InProgress", "Complete"} => stage \in {"InProgress", "Complete"}
  /\ st' = [st EXCEPT ![c] = [st[c] EXCEPT !.apps = apps, !.stage = stage, !.busy = st[c].busy /\ left]]
  /\ pods' = [pods EXCEPT ![c] = [a \in Apps |-> IF a \in good
                                  THEN Download(a, st[c].apps[a].hash) ELSE pods[c][a]]]
  /\ run' = [run EXCEPT ![c].pc = "save", ![c].revisit = left]
  /\ events' = events \/ Happens("install")

LEMMA DeployEffect ==
  ASSUME TypeOK, NEW c \in CRs, Deploy(c)
  PROVE  \E tried \in SUBSET Apps, good \in SUBSET Apps, left \in BOOLEAN,
            apps \in [Apps -> AppInfo], stage \in {"Uninitialized", "Pending", "InProgress", "Complete"} :
           DeploysBy(c, tried, good, left, apps, stage)
<1> DEFINE Good(tried, broken) == {a \in tried \ broken : Succeeds(c, a)}
           NewApps(tried, good) ==
             [a \in Apps |-> IF a \in tried
                             THEN [st[c].apps[a] EXCEPT !.phase = IF a \in good THEN "done" ELSE "failed"]
                             ELSE st[c].apps[a]]
           Tmp(apps) == [st[c] EXCEPT !.apps = apps]
           Ctx(apps, stage) == [Tmp(apps) EXCEPT !.stage = stage]
           IsLeft(apps, stage) == Pending(Ctx(apps, stage)) # {} \/ PendingClusterScopeWork(Ctx(apps, stage))
           Ends(apps) == \E stage \in NextStages(Tmp(apps)) :
             /\ st' = [st EXCEPT ![c] = [Ctx(apps, stage) EXCEPT !.busy = @ /\ IsLeft(apps, stage)]]
             /\ run' = [run EXCEPT ![c].pc = "save", ![c].revisit = IsLeft(apps, stage)]
<1>1. st[c] \in Contexts /\ st \in [CRs -> Contexts] /\ pods \in [CRs -> [Apps -> Versions]]  BY DEF TypeOK
<1>2. st[c].apps \in [Apps -> AppInfo]  BY <1>1 DEF Contexts
<1>3. PICK tried \in SUBSET Pending(st[c]) : \E broken \in SUBSET tried :
        /\ IF broken = {} THEN UNCHANGED events ELSE Happens("install")
        /\ LET good == {a \in tried \ broken : Succeeds(c, a)}
               apps == [a \in Apps |->
                         IF a \in tried
                         THEN [st[c].apps[a] EXCEPT !.phase = IF a \in good THEN "done" ELSE "failed"]
                         ELSE st[c].apps[a]]
               tmp == [st[c] EXCEPT !.apps = apps] IN
           /\ pods' = [pods EXCEPT ![c] = [a \in Apps |-> IF a \in good
                                           THEN Download(a, st[c].apps[a].hash) ELSE @[a]]]
           /\ \E stage \in NextStages(tmp) :
                LET ctx == [tmp EXCEPT !.stage = stage]
                    left == Pending(ctx) # {} \/ PendingClusterScopeWork(ctx) IN
                /\ st' = [st EXCEPT ![c] = [ctx EXCEPT !.busy = @ /\ left]]
                /\ run' = [run EXCEPT ![c].pc = "save", ![c].revisit = left]
  BY Zenon DEF Deploy
<1>31. PICK broken \in SUBSET tried :
        /\ IF broken = {} THEN UNCHANGED events ELSE Happens("install")
        /\ LET good == {a \in tried \ broken : Succeeds(c, a)}
               apps == [a \in Apps |->
                         IF a \in tried
                         THEN [st[c].apps[a] EXCEPT !.phase = IF a \in good THEN "done" ELSE "failed"]
                         ELSE st[c].apps[a]]
               tmp == [st[c] EXCEPT !.apps = apps] IN
           /\ pods' = [pods EXCEPT ![c] = [a \in Apps |-> IF a \in good
                                           THEN Download(a, st[c].apps[a].hash) ELSE @[a]]]
           /\ \E stage \in NextStages(tmp) :
                LET ctx == [tmp EXCEPT !.stage = stage]
                    left == Pending(ctx) # {} \/ PendingClusterScopeWork(ctx) IN
                /\ st' = [st EXCEPT ![c] = [ctx EXCEPT !.busy = @ /\ left]]
                /\ run' = [run EXCEPT ![c].pc = "save", ![c].revisit = left]
  BY <1>3
<1>4. PICK good : good = Good(tried, broken)  OBVIOUS
<1>5. PICK apps : apps = NewApps(tried, good)  OBVIOUS
<1>51. pods' = [pods EXCEPT ![c] = [a \in Apps |-> IF a \in good
                                    THEN Download(a, st[c].apps[a].hash) ELSE @[a]]]
  BY <1>31, <1>4, Zenon
<1>52. Ends(NewApps(tried, Good(tried, broken)))  BY <1>31, Zenon
<1>53. Ends(apps)
  <2> HIDE DEF Ends, NewApps, Good
  <2> QED  BY <1>4, <1>5, <1>52
<1>11. PICK stage \in NextStages(Tmp(apps)) :
         /\ st' = [st EXCEPT ![c] = [Ctx(apps, stage) EXCEPT !.busy = @ /\ IsLeft(apps, stage)]]
         /\ run' = [run EXCEPT ![c].pc = "save", ![c].revisit = IsLeft(apps, stage)]
  BY <1>53, Zenon
<1>6. PICK ctx : ctx = Ctx(apps, stage)  OBVIOUS
<1>7. PICK left \in BOOLEAN : left = IsLeft(apps, stage)
  <2>1. IsLeft(apps, stage) \in BOOLEAN  BY DEF PendingClusterScopeWork
  <2> HIDE DEF IsLeft
  <2> QED  BY <2>1
<1>8. /\ st' = [st EXCEPT ![c] = [ctx EXCEPT !.busy = @ /\ left]]
      /\ pods' = [pods EXCEPT ![c] = [a \in Apps |-> IF a \in good
                                      THEN Download(a, st[c].apps[a].hash) ELSE @[a]]]
      /\ run' = [run EXCEPT ![c].pc = "save", ![c].revisit = left]
  <2> HIDE DEF IsLeft, Ctx
  <2> QED  BY <1>51, <1>6, <1>7, <1>11, Zenon
<1>9. tried \in SUBSET Apps /\ good \subseteq tried /\ (\A a \in good : Succeeds(c, a))
  BY <1>4 DEF Pending
<1>10. apps \in [Apps -> AppInfo]
  BY <1>2, <1>5, <1>9 DEF AppInfo
<1>12. ctx = [st[c] EXCEPT !.apps = apps, !.stage = stage]  BY <1>1, <1>6 DEF Contexts
<1>13. st[c].stage \in {"Uninitialized", "Pending", "InProgress", "Complete"}  BY <1>1 DEF Contexts
<1>14. Tmp(apps).stage = st[c].stage  BY <1>1 DEF Contexts
<1>15. stage \in {st[c].stage} \cup (IF st[c].stage = "Pending" THEN {"InProgress"} ELSE {})
       \/ (st[c].stage = "InProgress" /\ stage = "Complete")
  <2> HIDE DEF Tmp
  <2> QED  BY <1>11, <1>14 DEF NextStages
<1>17. ctx.stage = stage  BY <1>1, <1>12 DEF Contexts
<1>18. stage \in {"Pending", "InProgress"} => left
  BY <1>6, <1>7, <1>17 DEF PendingClusterScopeWork
<1>19. [ctx EXCEPT !.busy = @ /\ left] = [st[c] EXCEPT !.apps = apps, !.stage = stage,
                                                       !.busy = st[c].busy /\ left]
  BY <1>1, <1>12 DEF Contexts
<1>20. st' = [st EXCEPT ![c] = [st[c] EXCEPT !.apps = apps, !.stage = stage, !.busy = st[c].busy /\ left]]
  BY <1>8, <1>19
<1>21. pods' = [pods EXCEPT ![c] = [a \in Apps |-> IF a \in good
                                    THEN Download(a, st[c].apps[a].hash) ELSE pods[c][a]]]
  BY <1>1, <1>8
<1>22. events' = events \/ Happens("install")  BY <1>31
<1>23. good \in SUBSET Apps /\ stage \in {"Uninitialized", "Pending", "InProgress", "Complete"}
  BY <1>9, <1>13, <1>15
<1>24. /\ stage \in {"Pending", "InProgress"} => left /\ st[c].stage \in {"Pending", "InProgress"}
       /\ st[c].stage \in {"InProgress", "Complete"} => stage \in {"InProgress", "Complete"}
  BY <1>13, <1>15, <1>18
<1>25. run' = [run EXCEPT ![c].pc = "save", ![c].revisit = left]  BY <1>8
<1>26. DeploysBy(c, tried, good, left, apps, stage)
  BY <1>5, <1>9, <1>20, <1>21, <1>22, <1>24, <1>25, Zenon DEF DeploysBy
<1> HIDE DEF Good, Tmp, Ctx, IsLeft
<1> QED  BY <1>9, <1>10, <1>23, <1>26, Zenon

LEMMA DownloadType ==
  ASSUME TypeOK, NEW a \in Apps, NEW hash, Download(a, hash) # 0
  PROVE  /\ Download(a, hash) = repo[a].now /\ Download(a, hash) \in Versions
         /\ setup.provider \in {"aws", "minio"} => Download(a, hash) = hash
<1>1. setup.provider \in {"aws", "azure", "gcp", "minio"}  BY AppRepoAssumption DEF TypeOK
<1>2. repo[a].now \in Versions  BY DEF TypeOK
<1> QED  BY <1>1, <1>2 DEF Download, AwsDownload, MinioDownload, GcsDownload, AzureDownload, IfMatch

LEMMA PodsIsTyped ==
  ASSUME TypeOK, CRs' = CRs, NEW c \in CRs, Pods(c) PROVE TypeOK'
<1>1. setup' = setup /\ UNCHANGED maps  BY DEF Pods
<1>2. MapType'  BY <1>1, KeptTypes
<1>3. RunType'
  <2>1. CASE Goto(c, "deploy")  BY <2>1, GotoType, TypeParts
  <2>2. CASE Again(c)  BY <2>2, SaveRunType, TypeParts DEF Again
  <2> QED  BY <2>1, <2>2 DEF Pods
<1>4. QueueType'
  <2>1. CASE Happens("pod")  BY <2>1, EventsType, TypeParts DEF Pods, QueueType
  <2>2. CASE UNCHANGED events  BY <2>2 DEF Pods, TypeOK, QueueType
  <2> QED  BY <2>1, <2>2 DEF Pods
<1>5. ContextType'
  <2>1. CASE st' = [st EXCEPT ![c] = ScaledUp(@)]
    <3>1. ScaledUp(st[c]) \in Contexts  BY ScaledUpType DEF TypeOK
    <3> QED  BY <2>1, <3>1 DEF Pods, TypeOK, ContextType
  <2>2. CASE UNCHANGED st  BY <2>2 DEF Pods, TypeOK, ContextType
  <2> QED  BY <2>1, <2>2 DEF Pods
<1>6. WorldType'
  <2>1. 0 \in Versions  BY AppRepoAssumption DEF Versions
  <2>2. repo' = repo /\ repo \in [Apps -> [now : Versions, last : Versions]] /\ setup \in Setups
    BY DEF Pods, TypeOK
  <2>3. pods' \in [CRs -> [Apps -> Versions]]
    <3>1. pods' = pods \/ pods' = [pods EXCEPT ![c] = [a \in Apps |-> 0]]  BY DEF Pods
    <3>2. [a \in Apps |-> 0] \in [Apps -> Versions]  BY <2>1
    <3> QED  BY <3>1, <3>2 DEF TypeOK
  <2>4. spec' \in [CRs -> [exists : BOOLEAN, sources : SUBSET Sources, deleted : BOOLEAN, scaled : BOOLEAN]]
    <3>1. spec' = spec \/ spec' = [spec EXCEPT ![c].scaled = FALSE]  BY DEF Pods
    <3>2. spec \in [CRs -> Specs]  BY DEF TypeOK, Specs
    <3>3. [spec EXCEPT ![c].scaled = FALSE] \in [CRs -> Specs]  BY <3>2, SpecType, Zenon
    <3>4. spec' \in [CRs -> Specs]  BY <3>1, <3>2, <3>3, Zenon
    <3> QED  BY <3>4 DEF Specs
  <2> QED  BY <1>1, <2>2, <2>3, <2>4 DEF WorldType
<1> QED  BY <1>2, <1>3, <1>4, <1>5, <1>6, TypeParts, PTL

LEMMA DeployIsTyped ==
  ASSUME TypeOK, CRs' = CRs, NEW c \in CRs, Deploy(c) PROVE TypeOK'
<1>1. setup' = setup /\ UNCHANGED maps /\ repo' = repo /\ spec' = spec /\ saved' = saved
      /\ UNCHANGED <<queue, timer, unseen>>
  BY DEF Deploy
<1>2. MapType'  BY <1>1, KeptTypes
<1>3. PICK tried \in SUBSET Apps, good \in SUBSET Apps, left \in BOOLEAN,
           apps \in [Apps -> AppInfo], stage \in {"Uninitialized", "Pending", "InProgress", "Complete"} :
        DeploysBy(c, tried, good, left, apps, stage)
  BY DeployEffect
<1>4. RunType'  BY <1>3, SaveRunType, TypeParts DEF DeploysBy
<1>5. QueueType'
  <2>1. CASE Happens("install")  BY <1>1, <2>1, EventsType, TypeParts DEF QueueType
  <2>2. CASE events' = events  BY <1>1, <2>2 DEF TypeOK, QueueType
  <2> QED  BY <1>3, <2>1, <2>2 DEF DeploysBy
<1>6. ContextType'
  <2>1. PICK busy \in BOOLEAN : busy = (st[c].busy /\ left)  BY DEF TypeOK, Contexts
  <2>2. PICK ctx : ctx = [st[c] EXCEPT !.apps = apps, !.stage = stage, !.busy = busy]  OBVIOUS
  <2>3. ctx \in Contexts
    <3>1. st[c] \in Contexts  BY DEF TypeOK
    <3> QED  BY <2>2, <3>1 DEF Contexts
  <2>4. st' = [st EXCEPT ![c] = ctx]  BY <1>3, <2>1, <2>2 DEF DeploysBy
  <2> QED  BY <1>1, <2>3, <2>4 DEF TypeOK, ContextType
<1>7. WorldType'
  <2>1. \A a \in good : Download(a, st[c].apps[a].hash) \in Versions
    BY <1>3, DownloadType DEF Succeeds, DeploysBy
  <2>2. [a \in Apps |-> IF a \in good THEN Download(a, st[c].apps[a].hash) ELSE pods[c][a]] \in [Apps -> Versions]
    BY <2>1 DEF TypeOK
  <2> QED  BY <1>1, <1>3, <2>2 DEF TypeOK, WorldType, DeploysBy
<1> QED  BY <1>2, <1>4, <1>5, <1>6, <1>7, TypeParts, PTL

LEMMA SaveIsTyped ==
  ASSUME TypeOK, CRs' = CRs, NEW c \in CRs, Save(c) \/ Wake(c) \/ Tick(c) PROVE TypeOK'
<1>1. setup' = setup /\ UNCHANGED world /\ UNCHANGED maps  BY DEF Save, Wake, Tick
<1>2. WorldType' /\ MapType'  BY <1>1, KeptTypes
<1>3. QueueType'
  <2>1. events' \in 0 .. MaxEvents  BY EventsType, TypeParts DEF Save, Wake, Tick, TypeOK
  <2> QED  BY <2>1 DEF Save, Wake, Tick, TypeOK, QueueType
<1>4. RunType'  BY IdleType DEF Save, Wake, Tick, TypeOK, RunType
<1>5. ContextType'
  <2>1. CASE Save(c)
    <3>1. PICK ctx : ctx = [st[c] EXCEPT !.due = TRUE]  OBVIOUS
    <3>2. st[c] \in Contexts  BY DEF TypeOK
    <3>3. ctx \in Contexts  BY <3>1, <3>2 DEF Contexts
    <3>4. CASE saved' = [saved EXCEPT ![c] = st[c]] /\ st' = st  BY <3>2, <3>4 DEF TypeOK, ContextType
    <3>5. CASE st' = [st EXCEPT ![c].due = TRUE] /\ saved' = [saved EXCEPT ![c] = st'[c]]
      <4>1. st' = [st EXCEPT ![c] = ctx] /\ st'[c] = ctx  BY <3>1, <3>5 DEF TypeOK
      <4> QED  BY <3>3, <3>5, <4>1 DEF TypeOK, ContextType
    <3> QED  BY <2>1, <3>4, <3>5 DEF Save
  <2>2. CASE Wake(c)  BY <2>2 DEF Wake, TypeOK, ContextType
  <2>3. CASE Tick(c)
    <3>1. PICK ctx : ctx = [saved[c] EXCEPT !.due = TRUE]  OBVIOUS
    <3>2. ctx \in Contexts
      <4>1. saved[c] \in Contexts  BY DEF TypeOK
      <4> QED  BY <3>1, <4>1 DEF Contexts
    <3>3. saved' = [saved EXCEPT ![c] = ctx] /\ saved'[c] = ctx  BY <2>3, <3>1 DEF Tick, TypeOK
    <3>4. st' = [st EXCEPT ![c] = ctx]  BY <2>3, <3>3 DEF Tick
    <3> QED  BY <3>2, <3>3, <3>4 DEF TypeOK, ContextType
  <2> QED  BY <2>1, <2>2, <2>3
<1> QED  BY <1>2, <1>3, <1>4, <1>5, TypeParts, PTL

\* The user and a restart keep the types.
LEMMA UserIsTyped ==
  ASSUME TypeOK, CRs' = CRs, User PROVE TypeOK'
<1>1. CASE \E a \in Apps : Upload(a) \/ RemoveApp(a)
  <2>1. PICK a \in Apps : Upload(a) \/ RemoveApp(a)  BY <1>1
  <2>2. setup' = setup /\ UNCHANGED maps /\ UNCHANGED <<saved, st>> /\ UNCHANGED run
    BY <2>1 DEF Upload, RemoveApp
  <2>3. MapType' /\ ContextType' /\ RunType'  BY <2>2, KeptTypes
  <2>4. QueueType'  BY <2>1, EventsType, TypeParts DEF Upload, RemoveApp, QueueType
  <2>5. WorldType'
    <3>1. repo[a].last \in Nat /\ repo[a].last \in Versions /\ MaxVersion \in Nat /\ 0 \in Versions
      BY AppRepoAssumption DEF TypeOK, Versions
    <3>2. repo[a].last < MaxVersion => repo[a].last + 1 \in Versions  BY <3>1 DEF Versions
    <3>3. repo' \in [Apps -> [now : Versions, last : Versions]]
      <4>1. CASE repo[a].last < MaxVersion
                 /\ repo' = [repo EXCEPT ![a] = [now |-> @.last + 1, last |-> @.last + 1]]
        <5>1. PICK n : n = repo[a].last + 1  OBVIOUS
        <5>2. repo' = [repo EXCEPT ![a] = [now |-> n, last |-> n]] /\ n \in Versions
          BY <3>2, <4>1, <5>1 DEF TypeOK
        <5> QED  BY <5>2 DEF TypeOK
      <4>2. CASE repo' = [repo EXCEPT ![a].now = repo[a].last]  BY <3>1, <4>2 DEF TypeOK
      <4>3. CASE repo' = [repo EXCEPT ![a].now = 0]  BY <3>1, <4>3 DEF TypeOK
      <4> QED  BY <2>1, <4>1, <4>2, <4>3 DEF Upload, RemoveApp
    <3> QED  BY <2>1, <2>2, <3>3 DEF Upload, RemoveApp, TypeOK, WorldType
  <2> QED  BY <2>3, <2>4, <2>5, TypeParts, PTL
<1>2. CASE \E c \in CRs : EditCR(c)
  <2>1. PICK c \in CRs : EditCR(c)  BY <1>2
  <2>2. setup' = setup /\ UNCHANGED maps /\ UNCHANGED <<saved, st>> /\ UNCHANGED run  BY <2>1 DEF EditCR
  <2>3. MapType' /\ ContextType' /\ RunType'  BY <2>2, KeptTypes
  <2>4. QueueType'  BY <2>1, EventsType, TypeParts DEF EditCR, QueueType
  <2>5. WorldType'
    <3>1. setup.sources \subseteq Sources  BY CRsAreFinite DEF TypeOK
    <3>2. \/ \E s \in SUBSET Sources : spec' = [spec EXCEPT ![c].sources = s]
          \/ spec' = [spec EXCEPT ![c].scaled = TRUE]
          \/ spec' = [spec EXCEPT ![c].deleted = TRUE]
      BY <2>1, <3>1 DEF EditCR
    <3>3. spec' \in [CRs -> [exists : BOOLEAN, sources : SUBSET Sources, deleted : BOOLEAN, scaled : BOOLEAN]]
      <4>1. spec \in [CRs -> Specs]  BY DEF TypeOK, Specs
      <4>2. /\ [spec EXCEPT ![c].scaled = TRUE] \in [CRs -> Specs]
            /\ [spec EXCEPT ![c].deleted = TRUE] \in [CRs -> Specs]
            /\ \A s \in SUBSET Sources : [spec EXCEPT ![c].sources = s] \in [CRs -> Specs]
        BY <4>1, SpecType, Zenon
      <4>3. spec' \in [CRs -> Specs]  BY <3>2, <4>2, Zenon
      <4> QED  BY <4>3 DEF Specs
    <3> QED  BY <2>1, <2>2, <3>3 DEF EditCR, TypeOK, WorldType
  <2> QED  BY <2>3, <2>4, <2>5, TypeParts, PTL
<1>3. CASE \E c \in CRs : TriggerCR(c)
  <2>1. PICK c \in CRs : TriggerCR(c)  BY <1>3
  <2>2. setup' = setup /\ UNCHANGED world /\ UNCHANGED <<saved, st>> /\ UNCHANGED run  BY <2>1 DEF TriggerCR
  <2>3. WorldType' /\ ContextType' /\ RunType'  BY <2>2, KeptTypes
  <2>4. QueueType'  BY <2>1, EventsType, TypeParts DEF TriggerCR, QueueType
  <2>5. MapType'  BY <2>1 DEF TriggerCR, TypeOK, MapType
  <2> QED  BY <2>3, <2>4, <2>5, TypeParts, PTL
<1>4. CASE Trigger
  <2>1. setup' = setup /\ UNCHANGED world /\ UNCHANGED <<saved, st>> /\ UNCHANGED run  BY <1>4 DEF Trigger
  <2>2. WorldType' /\ ContextType' /\ RunType'  BY <2>1, KeptTypes
  <2>3. MapType'  BY <1>4 DEF Trigger, TypeOK, MapType
  <2>4. QueueType'
    <3>1. Notified(map') \subseteq CRs /\ LiveOwners(map) \subseteq CRs
      BY <1>4 DEF Trigger, Notified, LiveOwners, TypeOK
    <3> QED  BY <1>4, <3>1, EventsType, TypeParts DEF Trigger, QueueType
  <2> QED  BY <2>2, <2>3, <2>4, TypeParts, PTL
<1> QED  BY <1>1, <1>2, <1>3, <1>4 DEF User

LEMMA CrashIsTyped ==
  ASSUME TypeOK, CRs' = CRs, Crash PROVE TypeOK'
<1>1. setup' = setup /\ UNCHANGED world /\ UNCHANGED maps  BY DEF Crash
<1>2. WorldType' /\ MapType'  BY <1>1, KeptTypes
<1>3. ContextType' /\ RunType'  BY IdleType DEF Crash, TypeOK, ContextType, RunType
<1>4. QueueType'  BY EventsType, TypeParts DEF Crash, QueueType
<1> QED  BY <1>2, <1>3, <1>4, TypeParts, PTL

----------------------------------------------------------------------------
(* The manual update                                                        *)

\* How the spec of a resource changes: a deletion is never taken back.
LEMMA SpecChanges ==
  ASSUME TypeOK, [Next]_vars
  PROVE  /\ \/ spec' = spec
            \/ \E c \in CRs : spec' = [spec EXCEPT ![c].exists = FALSE]
            \/ \E c \in CRs : spec' = [spec EXCEPT ![c].scaled = FALSE]
            \/ \E c \in CRs, s \in SUBSET setup.sources : spec' = [spec EXCEPT ![c].sources = s]
            \/ \E c \in CRs : spec' = [spec EXCEPT ![c].deleted = TRUE]
            \/ Happens("scale") /\ \E c \in CRs : spec' = [spec EXCEPT ![c].scaled = TRUE]
         /\ \A d \in CRs : spec[d].deleted => spec'[d].deleted
<1>1. spec \in [CRs -> [exists : BOOLEAN, sources : SUBSET Sources, deleted : BOOLEAN, scaled : BOOLEAN]]
  BY DEF TypeOK
<1>2. \/ spec' = spec
      \/ \E c \in CRs : spec' = [spec EXCEPT ![c].exists = FALSE]
      \/ \E c \in CRs : spec' = [spec EXCEPT ![c].scaled = FALSE]
      \/ \E c \in CRs, s \in SUBSET setup.sources : spec' = [spec EXCEPT ![c].sources = s]
      \/ \E c \in CRs : spec' = [spec EXCEPT ![c].deleted = TRUE]
      \/ Happens("scale") /\ \E c \in CRs : spec' = [spec EXCEPT ![c].scaled = TRUE]
  BY DEF Next, Step, Check, CheckFails, List, ListFails, UpdateMap, UpdateCrMap, Configure, Leave, Delete, Collect,
         Pods, Deploy, Save, Wake, Tick, User, Upload, RemoveApp, EditCR, TriggerCR, Trigger, Crash, vars, world
<1>3. \A d \in CRs : spec[d].deleted => spec'[d].deleted  BY <1>1, <1>2
<1> QED  BY <1>2, <1>3

\* Who is at the end of a reconcile of a deletion has read that it is one.
LEMMA LeavesStep ==
  ASSUME TypeOK, LeavesWhenAsked, [Next]_vars PROVE LeavesWhenAsked'
<1>1. CRs' = CRs  BY SetupIsKept
<1>2. SUFFICES ASSUME NEW d \in CRs, run'[d].pc \in {"delete", "finalize"} PROVE spec'[d].deleted
  BY <1>1 DEF LeavesWhenAsked
<1>3. run \in [CRs -> Runs]  BY DEF TypeOK
<1>4. \A x \in CRs : spec[x].deleted => spec'[x].deleted  BY SpecChanges
<1>5. CASE run'[d] = run[d]  BY <1>2, <1>4, <1>5 DEF LeavesWhenAsked
<1>6. ASSUME NEW c \in CRs, c # d, Step(c) \/ Tick(c) PROVE run'[d] = run[d]
  BY <1>3, <1>6 DEF Step, Check, CheckFails, List, ListFails, UpdateMap, UpdateCrMap, Configure, Leave, Delete,
         Collect, Pods, Deploy, Save, Wake, Tick, Fail, Goto, Again
<1>7. ASSUME Step(d) \/ Tick(d) PROVE run'[d] = run[d] \/ spec[d].deleted
  <2>1. run[d] \in Runs  BY <1>3
  <2>2. CASE Configure(d)  BY <1>2, <1>3, <2>1, <2>2 DEF Configure, Goto, Runs
  <2>3. CASE Leave(d) \/ Delete(d)  BY <2>3 DEF Leave, Delete, Reconciles, LeavesWhenAsked
  <2>4. CASE Check(d) \/ CheckFails(d) \/ List(d) \/ ListFails(d) \/ UpdateMap(d) \/ UpdateCrMap(d)
    BY <1>2, <1>3, <2>1, <2>4
    DEF Check, CheckFails, List, ListFails, UpdateMap, UpdateCrMap, AfterList, Fail, Goto, Runs
  <2>5. CASE Deploy(d)
    <3>1. PICK again : run' = [run EXCEPT ![d].pc = "save", ![d].revisit = again]  BY <2>5 DEF Deploy
    <3> QED  BY <1>2, <1>3, <2>1, <3>1 DEF Runs
  <2>6. CASE Pods(d) \/ Save(d) \/ Collect(d) \/ Wake(d) \/ Tick(d)
    BY <1>2, <1>3, <2>1, <2>6 DEF Pods, Save, Collect, Wake, Tick, Again, Goto, Idle, Runs
  <2> QED  BY <1>7, <2>2, <2>3, <2>4, <2>5, <2>6 DEF Step
<1>8. ASSUME User \/ UNCHANGED vars PROVE run' = run
  BY <1>8 DEF User, Upload, RemoveApp, EditCR, TriggerCR, Trigger, vars
<1>9. ~Crash  BY <1>2, <1>3 DEF Crash, Idle
<1>10. CASE \E c \in CRs : Step(c) \/ Tick(c)
  <2>1. run'[d] = run[d] \/ spec[d].deleted  BY <1>6, <1>7, <1>10
  <2> QED  BY <1>4, <1>5, <2>1
<1> QED  BY <1>5, <1>8, <1>9, <1>10 DEF Next

\* The count is large enough, after every step that changes the ConfigMap.
LEMMA CountStep ==
  ASSUME CountInv, TypeOK', [Next]_vars PROVE RefCountRestored'
<1> DEFINE Enough == ~map'.on => map'.refCount >= Cardinality(Stays(map'.owners))
<1>1. ASSUME UNCHANGED map PROVE Enough  BY <1>1 DEF CountInv, RefCountRestored
<1>2. ASSUME NEW c \in CRs, Check(c) PROVE Enough
  <2>1. map' = map \/ map' = Joined(c)  BY <1>2 DEF Check
  <2> QED  BY <1>1, <2>1, JoinedType DEF CountInv, RefCountRestored
<1>3. ASSUME NEW c \in CRs, UpdateMap(c) PROVE Enough
  <2>1. map' = map \/ map' = Updated(run[c].turnOff)  BY <1>3 DEF UpdateMap
  <2>2. run[c].turnOff \in BOOLEAN  BY DEF CountInv, TypeOK, Runs
  <2> QED  BY <1>1, <2>1, <2>2, UpdatedType DEF CountInv, RefCountRestored
<1>4. ASSUME NEW c \in CRs, Leave(c) PROVE Enough
  <2>1. map' = map \/ map' = Left(c)  BY <1>4 DEF Leave
  <2>2. c \in map.owners /\ spec[c].deleted
    BY <1>4 DEF Leave, Reconciles, CountInv, OwnersHaveJoined, LeavesWhenAsked
  <2>3. Left(c).owners = map.owners /\ Left(c).refCount = Cardinality(map.owners \ {c})
    BY <2>2, LeftType DEF CountInv
  <2>4. PICK S \in SUBSET CRs : S = map.owners  BY DEF CountInv, TypeOK
  <2>5. PICK T \in SUBSET CRs : T = map.owners \ {c}  BY <2>4
  <2>6. Stays(S) \subseteq T /\ IsFiniteSet(T) /\ Cardinality(T) \in Nat
    BY <2>2, <2>4, <2>5, FewerStay DEF Stays, CountInv
  <2>7. Cardinality(Stays(S)) <= Cardinality(T) /\ Cardinality(Stays(S)) \in Nat
    BY <2>6, FewerStay, FS_Subset DEF CountInv
  <2> QED  BY <1>1, <2>1, <2>3, <2>4, <2>5, <2>6, <2>7 DEF CountInv, RefCountRestored
<1>5. ASSUME NEW c \in CRs, Collect(c) PROVE Enough
  <2>1. PICK S \in SUBSET CRs : S = map.owners  BY DEF CountInv, TypeOK
  <2>2. CASE map.owners = {c}
    <3>1. map'.owners = {} /\ map'.refCount = 0  BY <1>5, <2>2 DEF Collect
    <3>2. Stays({}) = {}  BY DEF Stays
    <3> QED  BY <3>1, <3>2, FS_EmptySet
  <2>3. CASE map.owners # {c}
    <3>1. map'.owners = map.owners \ {c} /\ map'.on = map.on /\ map'.refCount = map.refCount
      BY <1>5, <2>3 DEF Collect, CountInv, TypeOK
    <3>2. PICK T \in SUBSET CRs : T = map.owners \ {c}  BY <2>1
    <3>3. Stays(T) \subseteq Stays(S)  BY <2>1, <3>2 DEF Stays
    <3>4. Cardinality(Stays(T)) <= Cardinality(Stays(S))  BY <3>3, FewerStay, FS_Subset DEF CountInv
    <3>5. Cardinality(Stays(T)) \in Nat /\ Cardinality(Stays(S)) \in Nat /\ map.refCount \in Nat
      BY FewerStay DEF CountInv, TypeOK
    <3> QED  BY <2>1, <3>1, <3>2, <3>4, <3>5 DEF CountInv, RefCountRestored
  <2> QED  BY <2>2, <2>3
<1>7. Enough
  <2>2. \/ UNCHANGED map \/ Trigger
        \/ \E c \in CRs : Check(c) \/ UpdateMap(c) \/ Leave(c) \/ Collect(c)
    BY DEF Next, Step, CheckFails, List, ListFails, UpdateCrMap, Configure, Delete, Pods, Deploy, Save, Wake, Tick,
           User, Upload, RemoveApp, EditCR, TriggerCR, Crash, vars, maps
  <2>3. Trigger => map'.on  BY DEF Trigger, CountInv, TypeOK
  <2> HIDE DEF Enough
  <2>4. Trigger => Enough  BY <2>3 DEF Enough
  <2> QED  BY <1>1, <1>2, <1>3, <1>4, <1>5, <2>2, <2>4
<1>8. CRs' = CRs /\ \A x \in CRs : spec[x].deleted => spec'[x].deleted
  BY SetupIsKept, SpecChanges DEF CountInv
<1>9. PICK S \in SUBSET CRs : S = map'.owners  BY <1>8 DEF TypeOK
<1>10. PICK T : T = {x \in S : ~spec'[x].deleted}  OBVIOUS
<1>11. T \subseteq Stays(S)  BY <1>8, <1>9, <1>10 DEF Stays
<1>12. /\ Cardinality(T) <= Cardinality(Stays(S)) /\ Cardinality(T) \in Nat
       /\ Cardinality(Stays(S)) \in Nat /\ map'.refCount \in Nat
  BY <1>11, FewerStay, FS_Subset, FS_CardinalityType DEF CountInv, TypeOK
<1> QED  BY <1>7, <1>9, <1>10, <1>12 DEF RefCountRestored, Stays

\* Nobody leaves the owners before the deletion is done.
LEMMA OwnersStep ==
  ASSUME CountInv, [Next]_vars PROVE OwnersHaveJoined'
<1> SUFFICES ASSUME NEW d \in CRs, spec'[d].exists,
                    run'[d].pc \notin {"idle", "save"} \/ saved'[d].sources # {} \/ st'[d].sources # {}
             PROVE  d \in map'.owners
  BY SetupIsKept DEF OwnersHaveJoined
<1> DEFINE Known(x) == run[x].pc \notin {"idle", "save"} \/ saved[x].sources # {} \/ st[x].sources # {}
<1>1. \A x \in CRs : spec[x].exists /\ Known(x) => x \in map.owners
  BY DEF CountInv, OwnersHaveJoined
<1> USE DEF CountInv
<1>2. /\ spec \in [CRs -> [exists : BOOLEAN, sources : SUBSET Sources, deleted : BOOLEAN, scaled : BOOLEAN]]
      /\ saved \in [CRs -> Contexts] /\ st \in [CRs -> Contexts] /\ run \in [CRs -> Runs]
  BY DEF TypeOK
<1>3. CASE map' = map /\ (spec'[d].exists => spec[d].exists) /\ Known(d)  BY <1>1, <1>3
<1>4. CASE map' = map /\ UNCHANGED <<spec, saved, st, run>>  BY <1>1, <1>4
<1>5. ASSUME NEW c \in CRs, Check(c) PROVE d \in map'.owners
  <2>1. map'.owners = map.owners \/ map'.owners = map.owners \cup {c}  BY <1>5, JoinedType DEF Check
  <2>2. CASE d = c
    <3>1. spec[c].exists  BY <1>5 DEF Check, Reconciles
    <3>2. CASE First(c)  BY <1>5, <2>2, <3>2, JoinedType DEF Check
    <3>3. CASE ~First(c)  BY <1>1, <1>5, <2>2, <3>1, <3>3 DEF Check, First
    <3> QED  BY <3>2, <3>3
  <2>3. CASE d # c
    <3>1. UNCHANGED <<spec, saved, st>> /\ run'[d] = run[d]  BY <1>2, <1>5, <2>3 DEF Check, world
    <3> QED  BY <1>1, <2>1, <3>1
  <2> QED  BY <2>2, <2>3
<1>6. ASSUME NEW c \in CRs, CheckFails(c) PROVE d \in map'.owners
  <2>1. UNCHANGED <<spec, map, saved>>  BY <1>6 DEF CheckFails, world, maps
  <2>2. st'[d].sources = st[d].sources /\ (run'[d].pc = "save" \/ run'[d] = run[d])
    BY <1>2, <1>6 DEF CheckFails, Fail, Contexts, Runs
  <2> QED  BY <1>1, <2>1, <2>2
<1>7. ASSUME NEW c \in CRs, List(c) \/ ListFails(c) \/ Configure(c) \/ Pods(c) \/ Deploy(c) \/ UpdateCrMap(c)
      PROVE  d \in map'.owners
  <2>1. map' = map /\ saved' = saved
    BY <1>7 DEF List, ListFails, Configure, Pods, Deploy, UpdateCrMap, maps
  <2>2. spec' = spec \/ spec' = [spec EXCEPT ![c].scaled = FALSE]
    BY <1>7 DEF List, ListFails, Configure, Pods, Deploy, UpdateCrMap, world
  <2>3. spec[d].exists  BY <1>2, <2>2
  <2>4. CASE d = c
    <3>1. run[c].pc \notin {"idle", "save"}
      BY <1>7 DEF List, ListFails, Configure, Pods, Deploy, UpdateCrMap, Reconciles
    <3> QED  BY <1>1, <2>1, <2>3, <2>4, <3>1
  <2>5. CASE d # c
    <3>1. st'[d] = st[d]  BY <1>2, <1>7, <2>5 DEF List, ListFails, Configure, Pods, Deploy, UpdateCrMap, Fail
    <3>2. run'[d] = run[d]
      BY <1>2, <1>7, <2>5 DEF List, ListFails, Configure, Pods, Deploy, UpdateCrMap, Fail, Goto, Again
    <3> QED  BY <1>1, <2>1, <2>3, <3>1, <3>2
  <2> QED  BY <2>4, <2>5
<1>8. ASSUME NEW c \in CRs, UpdateMap(c) PROVE d \in map'.owners
  <2>1. UNCHANGED <<spec, saved>>  BY <1>8 DEF UpdateMap, world
  <2>2. run[c].turnOff \in BOOLEAN  BY <1>2 DEF Runs
  <2>3. map'.owners = map.owners  BY <1>8, <2>2, UpdatedType DEF UpdateMap
  <2>4. CASE d = c
    <3>1. run[c].pc = "map"  BY <1>8 DEF UpdateMap, Reconciles
    <3> QED  BY <1>1, <2>1, <2>3, <2>4, <3>1
  <2>5. CASE d # c
    <3>1. st'[d] = st[d] /\ run'[d] = run[d]  BY <1>2, <1>8, <2>5 DEF UpdateMap, Fail, Goto
    <3> QED  BY <1>1, <2>1, <2>3, <3>1
  <2> QED  BY <2>4, <2>5
<1>9. ASSUME NEW c \in CRs, Leave(c) \/ Delete(c) PROVE d \in map'.owners
  <2>1. c \in map.owners  BY <1>9 DEF Leave, Delete, Reconciles, OwnersHaveJoined
  <2>2. map'.owners = map.owners  BY <1>9, <2>1, LeftType DEF Leave, Delete, maps
  <2>3. CASE d = c  BY <2>1, <2>2, <2>3
  <2>4. CASE d # c
    <3>1. spec'[d] = spec[d] /\ saved' = saved /\ st'[d] = st[d] /\ run'[d] = run[d]
      BY <1>2, <1>9, <2>4 DEF Leave, Delete, Goto, Again, world
    <3> QED  BY <1>1, <2>2, <3>1
  <2> QED  BY <2>3, <2>4
<1>91. ASSUME NEW c \in CRs, Collect(c) PROVE d \in map'.owners
  <2>1. UNCHANGED <<spec, saved, st, run>> /\ ~spec[c].exists  BY <1>91 DEF Collect, world
  <2>2. d # c /\ d \in map.owners  BY <1>1, <2>1
  <2> QED  BY <1>91, <2>2 DEF Collect, TypeOK
<1>10. ASSUME NEW c \in CRs, Save(c) \/ Tick(c) PROVE d \in map'.owners
  <2>1. UNCHANGED <<spec, map>>  BY <1>10 DEF Save, Tick, world, maps
  <2>2. saved'[d].sources # {} \/ st'[d].sources # {} => saved[d].sources # {} \/ st[d].sources # {}
    <3>1. CASE Save(c)
      <4>1. st'[d].sources = st[d].sources  BY <1>2, <3>1 DEF Save, Contexts
      <4>2. saved'[d] = saved[d] \/ saved'[d].sources = st[d].sources  BY <1>2, <3>1 DEF Save, Contexts
      <4> QED  BY <4>1, <4>2
    <3>2. CASE Tick(c)
      <4>1. saved'[d].sources = saved[d].sources
        BY <1>2, <3>2 DEF Tick, Contexts
      <4>2. st'[d] = st[d] \/ st'[d] = saved'[d]  BY <1>2, <3>2 DEF Tick
      <4> QED  BY <4>1, <4>2
    <3> QED  BY <1>10, <3>1, <3>2
  <2>3. run'[d].pc = "idle" \/ run'[d] = run[d]  BY <1>2, <1>10 DEF Save, Tick, Idle
  <2> QED  BY <1>1, <2>1, <2>2, <2>3
<1>11. ASSUME NEW c \in CRs, Wake(c) PROVE d \in map'.owners  BY <1>4, <1>11 DEF Wake, world, maps
<1>12. ASSUME NEW a \in Apps, Upload(a) \/ RemoveApp(a) PROVE d \in map'.owners
  BY <1>4, <1>12 DEF Upload, RemoveApp, maps
<1>13. ASSUME NEW c \in CRs, EditCR(c) PROVE d \in map'.owners
  <2>1. map' = map /\ UNCHANGED <<saved, st, run>>  BY <1>13 DEF EditCR, maps
  <2>2. \/ \E s : spec' = [spec EXCEPT ![c].sources = s]
        \/ spec' = [spec EXCEPT ![c].scaled = TRUE]
        \/ spec' = [spec EXCEPT ![c].deleted = TRUE]
    BY <1>13 DEF EditCR
  <2>3. spec[d].exists  BY <1>2, <2>2
  <2> QED  BY <1>1, <2>1, <2>3
<1>14. ASSUME NEW c \in CRs, TriggerCR(c) PROVE d \in map'.owners
  BY <1>4, <1>14 DEF TriggerCR, world
<1>15. CASE Trigger
  <2>1. map'.owners = map.owners  BY <1>15 DEF Trigger, TypeOK
  <2> QED  BY <1>1, <1>15, <2>1 DEF Trigger, world
<1>16. CASE Crash
  <2>1. UNCHANGED <<map, spec, saved>> /\ run'[d].pc = "idle" /\ st'[d] = saved[d]
    BY <1>2, <1>16 DEF Crash, world, maps, Idle
  <2> QED  BY <1>1, <2>1
<1>17. CASE UNCHANGED vars  BY <1>4, <1>17 DEF vars, world, maps
<1> QED
  BY <1>5, <1>6, <1>7, <1>8, <1>9, <1>91, <1>10, <1>11, <1>12, <1>13, <1>14, <1>15, <1>16, <1>17
  DEF Next, Step, User

LEMMA TypeStep ==
  ASSUME TypeOK, OwnersHaveJoined, [Next]_vars PROVE TypeOK'
<1>1. CRs' = CRs  BY SetupIsKept
<1>2. CASE UNCHANGED vars
  <2>1. setup' = setup /\ UNCHANGED world /\ UNCHANGED maps /\ UNCHANGED <<saved, st>> /\ UNCHANGED run
        /\ UNCHANGED <<queue, timer, unseen, events>>
    BY <1>2 DEF vars
  <2>2. WorldType' /\ MapType' /\ ContextType' /\ RunType' /\ QueueType'  BY <1>1, <2>1, KeptTypes
  <2> QED  BY <2>2, TypeParts, PTL
<1> QED
  BY <1>1, <1>2, CheckIsTyped, CheckFailsIsTyped, ListIsTyped, UpdateMapIsTyped, UpdateCrMapIsTyped,
     ConfigureIsTyped, LeaveIsTyped, DeleteIsTyped, CollectIsTyped, PodsIsTyped, DeployIsTyped, SaveIsTyped, UserIsTyped, CrashIsTyped
  DEF Next, Step

LEMMA CountInit == Init => CountInv
<1> SUFFICES ASSUME Init PROVE CountInv  OBVIOUS
<1>1. OwnersHaveJoined  BY DEF Init, OwnersHaveJoined, Idle, NoContext
<1>2. RefCountRestored
  <2>1. Stays({}) = {}  BY DEF Stays
  <2>2. map.owners = {} /\ map.refCount = 0  BY DEF Init
  <2> QED  BY <2>1, <2>2, FS_EmptySet DEF RefCountRestored
<1>3. LeavesWhenAsked  BY DEF Init, LeavesWhenAsked, Idle
<1> QED  BY <1>1, <1>2, <1>3, InitIsTyped DEF CountInv

LEMMA CountIsInductive == CountInv /\ [Next]_vars => CountInv'
  BY TypeStep, OwnersStep, LeavesStep, CountStep DEF CountInv

LEMMA CountHolds == Spec => []CountInv
  BY CountInit, CountIsInductive, PTL DEF Spec

\* Every variable of AppRepo always has its type: initAndCheckAppInfoStatus and
\* the handlers of the ConfigMaps never leave a status or a count that is none.
THEOREM RepoTypeCorrect == Spec => []TypeOK
<1>1. CountInv => TypeOK  BY DEF CountInv
<1> QED  BY <1>1, CountHolds, PTL

\* Whatever resources join, leave, are kept from leaving, fail and restart, the
\* refCount of the manual update is no smaller than the number of its owners
\* that are not being deleted whenever the switch is off.
THEOREM CountIsRestored == Spec => []RefCountRestored
<1>1. CountInv => RefCountRestored  BY DEF CountInv
<1> QED  BY <1>1, CountHolds, PTL

----------------------------------------------------------------------------
(* No listing while a bundle is pushed                                      *)

\* ListingInv, for one resource.
ListingOf(c) ==
  /\ run[c].pc = "idle" => st[c] = saved[c]
  /\ run[c].pc = "list" => ~saved[c].busy
  /\ Polling => run[c].pc \notin {"map", "crmap"}
  /\ PushIsBusy(saved[c]) /\ PushIsBusy(st[c])
  /\ (Polling /\ saved[c].stage = "InProgress") => st[c].stage \in {"InProgress", "Complete"}

LEMMA ListingParts == ListingInv <=> \A c \in CRs : ListingOf(c)
  BY DEF ListingInv, ListingOf, IdleIsSaved, ListsWhenFree, PushesAreBusy, PushGoesOn

\* A step that concerns another resource, or another part of this one.
LEMMA ListingKept ==
  ASSUME NEW c \in CRs, ListingOf(c), Polling' <=> Polling,
         saved'[c] = saved[c], st'[c] = st[c], run'[c].pc = run[c].pc
  PROVE  ListingOf(c)'
  BY DEF ListingOf, PushIsBusy

\* A step goes on with the reconcile, and does not touch the two contexts
\* more than in the fields that are named.
LEMMA ListingGoesOn ==
  ASSUME NEW c \in CRs, ListingOf(c), Polling' <=> Polling, saved'[c] = saved[c],
         run'[c].pc \notin {"idle", "list"},
         Polling => run'[c].pc \notin {"map", "crmap"},
         st'[c].stage = st[c].stage, st'[c].sources = st[c].sources,
         Polling /\ st[c].stage \in {"Pending", "InProgress"} => st'[c].busy
  PROVE  ListingOf(c)'
  BY DEF ListingOf, PushIsBusy

LEMMA ListingStep ==
  ASSUME TypeOK, ListingInv, [Next]_vars PROVE ListingInv'
<1>1. CRs' = CRs /\ (Polling' <=> Polling)  BY SetupIsKept
<1> SUFFICES ASSUME NEW d \in CRs PROVE ListingOf(d)'
  BY <1>1 DEF ListingInv, ListingOf, IdleIsSaved, ListsWhenFree, PushesAreBusy, PushGoesOn
<1>2. ListingOf(d)  BY ListingParts
<1>3. /\ saved \in [CRs -> Contexts] /\ st \in [CRs -> Contexts] /\ run \in [CRs -> Runs]
      /\ saved[d] \in Contexts /\ st[d] \in Contexts /\ run[d] \in Runs
  BY DEF TypeOK
<1>4. CASE saved'[d] = saved[d] /\ st'[d] = st[d] /\ run'[d].pc = run[d].pc  BY <1>1, <1>2, <1>4, ListingKept
<1>5. CASE UNCHANGED <<saved, st, run>>  BY <1>4, <1>5
<1>6. ASSUME NEW c \in CRs, c # d, Step(c) \/ Tick(c) PROVE ListingOf(d)'
  <2>1. saved'[d] = saved[d]
    BY <1>3, <1>6 DEF Step, Check, CheckFails, List, ListFails, UpdateMap, UpdateCrMap, Configure, Leave, Delete, Collect, Pods,
         Deploy, Save, Wake, Tick
  <2>2. st'[d] = st[d]
    BY <1>3, <1>6 DEF Step, Check, CheckFails, List, ListFails, UpdateMap, UpdateCrMap, Configure, Leave, Delete, Collect, Pods,
         Deploy, Save, Wake, Tick, Fail
  <2>3. run'[d] = run[d]
    BY <1>3, <1>6 DEF Step, Check, CheckFails, List, ListFails, UpdateMap, UpdateCrMap, Configure, Leave, Delete, Collect, Pods,
         Deploy, Save, Wake, Tick, Fail, Goto, Again
  <2> QED  BY <1>4, <2>1, <2>2, <2>3
<1>7. CASE Check(d)
  <2>1. saved' = saved /\ st' = st  BY <1>7 DEF Check
  <2>2. run'[d].pc \in {"list", "config"} /\ (run'[d].pc = "list" => ~saved[d].busy)
    BY <1>3, <1>7 DEF Check, InProgress
  <2> QED  BY <1>1, <1>2, <2>1, <2>2 DEF ListingOf, PushIsBusy
<1>8. CASE CheckFails(d)
  <2>1. st[d] = saved[d] /\ saved[d].sources = {}  BY <1>2, <1>8 DEF CheckFails, Reconciles, First, ListingOf
  <2>2. saved'[d] = saved[d] /\ run'[d].pc = "save"  BY <1>3, <1>8 DEF CheckFails, Fail, Runs
  <2>3. st'[d].stage = st[d].stage /\ st'[d].sources = st[d].sources
    BY <1>3, <1>8 DEF CheckFails, Fail, Contexts
  <2>4. st[d].stage \notin {"Pending", "InProgress"}  BY <1>2, <2>1 DEF ListingOf, PushIsBusy
  <2> QED  BY <1>1, <1>2, <2>2, <2>3, <2>4, ListingGoesOn
<1>9. CASE List(d)
  <2>1. saved'[d] = saved[d] /\ run'[d].pc = AfterList  BY <1>3, <1>9 DEF List, Goto, Runs
  <2>2. ~saved[d].busy  BY <1>2, <1>9 DEF List, Reconciles, ListingOf
  <2>3. PICK ctx : ctx = HandleAppRepoChanges(st[d], run[d].config)  OBVIOUS
  <2>4. ctx \in Contexts
    <3>1. run[d].config \in SUBSET Sources  BY <1>3 DEF Runs
    <3> QED  BY <1>3, <2>3, <3>1, ListedType DEF TypeOK
  <2>5. st'[d] = [ctx EXCEPT !.busy = TRUE, !.due = FALSE]  BY <1>3, <1>9, <2>3 DEF List
  <2>6. st'[d].busy /\ st'[d].stage = ctx.stage /\ st'[d].sources = ctx.sources
    BY <2>4, <2>5 DEF Contexts
  <2>7. ctx.sources = st[d].sources \cup run[d].config  BY <1>3, <2>3 DEF HandleAppRepoChanges, Contexts
  <2>8. ctx.stage = IF BundleChanges(st[d].apps, run[d].config) THEN "Pending" ELSE st[d].stage
    <3> HIDE DEF BundleChanges, AppsAfter
    <3> QED  BY <1>3, <2>3 DEF HandleAppRepoChanges, Contexts
  <2>9. BundleChanges(st[d].apps, run[d].config) => run[d].config # {}  BY DEF BundleChanges
  <2>10. ctx.stage \in {"Pending", "InProgress"} => ctx.sources # {}
    BY <1>2, <2>7, <2>8, <2>9 DEF ListingOf, PushIsBusy
  <2>11. Polling => saved[d].stage # "InProgress"  BY <1>2, <2>2 DEF ListingOf, PushIsBusy
  <2>12. run'[d].pc \in {"map", "config"} /\ (Polling => run'[d].pc = "config")  BY <2>1 DEF AfterList
  <2>13. PushIsBusy(saved[d])  BY <1>2 DEF ListingOf
  <2> QED  BY <1>1, <2>1, <2>6, <2>10, <2>11, <2>12, <2>13 DEF ListingOf, PushIsBusy
<1>10. CASE ListFails(d)
  <2>1. saved'[d] = saved[d] /\ run'[d].pc = AfterList  BY <1>3, <1>10 DEF ListFails, Goto, Runs
  <2>2. run'[d].pc \in {"map", "config"} /\ (Polling => run'[d].pc = "config")  BY <2>1 DEF AfterList
  <2>3. st' = [st EXCEPT ![d].busy = TRUE, ![d].due = FALSE]  BY <1>10 DEF ListFails
  <2>4. st'[d].busy /\ st'[d].stage = st[d].stage /\ st'[d].sources = st[d].sources
    BY <1>3, <2>3 DEF Contexts
  <2> QED  BY <1>1, <1>2, <2>1, <2>2, <2>4, ListingGoesOn
<1>11. CASE UpdateMap(d) \/ UpdateCrMap(d)
  <2>1. ~Polling  BY <1>2, <1>11 DEF UpdateMap, UpdateCrMap, Reconciles, ListingOf
  <2>2. saved'[d] = saved[d]  BY <1>11 DEF UpdateMap, UpdateCrMap
  <2>3. run'[d].pc \notin {"idle", "list"}  BY <1>3, <1>11 DEF UpdateMap, UpdateCrMap, Goto, Fail, Runs
  <2>4. st'[d].stage = st[d].stage /\ st'[d].sources = st[d].sources
    BY <1>3, <1>11 DEF UpdateMap, UpdateCrMap, Fail, Contexts
  <2> QED  BY <1>1, <1>2, <2>1, <2>2, <2>3, <2>4, ListingGoesOn
<1>12. CASE Configure(d)
  <2>1. saved'[d] = saved[d] /\ st'[d] = st[d]  BY <1>12 DEF Configure
  <2>2. run'[d].pc \in {"delete", "pods"}  BY <1>3, <1>12 DEF Configure, Goto, Runs
  <2>3. Polling /\ st[d].stage \in {"Pending", "InProgress"} => st[d].busy
    BY <1>2 DEF ListingOf, PushIsBusy
  <2> QED  BY <1>1, <1>2, <2>1, <2>2, <2>3, ListingGoesOn
<1>13. CASE Leave(d) \/ Delete(d)
  <2>1. CASE st'[d] = saved[d] /\ run'[d].pc = "idle"
    <3>1. saved'[d] = saved[d]  BY <1>13 DEF Leave, Delete
    <3> QED  BY <1>1, <1>2, <2>1, <3>1 DEF ListingOf, PushIsBusy
  <2>2. CASE st'[d] = st[d] /\ run'[d].pc \in {"finalize", "save"}
    <3>1. saved'[d] = saved[d]  BY <1>13 DEF Leave, Delete
    <3>2. Polling /\ st[d].stage \in {"Pending", "InProgress"} => st[d].busy
      BY <1>2 DEF ListingOf, PushIsBusy
    <3> QED  BY <1>1, <1>2, <2>2, <3>1, <3>2, ListingGoesOn
  <2> QED  BY <1>3, <1>13, <2>1, <2>2 DEF Leave, Delete, Goto, Again, Idle, Runs
<1>131. CASE Collect(d)  BY <1>5, <1>131 DEF Collect
<1>14. CASE Pods(d)
  <2>1. saved'[d] = saved[d] /\ run'[d].pc \in {"save", "deploy"}  BY <1>3, <1>14 DEF Pods, Goto, Again, Runs
  <2>2. st'[d] = st[d] \/ st'[d] = ScaledUp(st[d])  BY <1>3, <1>14 DEF Pods
  <2>3. ScaledUp(st[d]).stage = st[d].stage /\ ScaledUp(st[d]).sources = st[d].sources /\ ScaledUp(st[d]).busy
    BY <1>3 DEF ScaledUp, Contexts
  <2>4. Polling /\ st[d].stage \in {"Pending", "InProgress"} => st[d].busy
    BY <1>2 DEF ListingOf, PushIsBusy
  <2> QED  BY <1>1, <1>2, <2>1, <2>2, <2>3, <2>4, ListingGoesOn
<1>15. CASE Deploy(d)
  <2>1. PICK tried \in SUBSET Apps, good \in SUBSET Apps, left \in BOOLEAN,
             apps \in [Apps -> AppInfo], stage \in {"Uninitialized", "Pending", "InProgress", "Complete"} :
          DeploysBy(d, tried, good, left, apps, stage)
    BY <1>15, DeployEffect
  <2>2. saved'[d] = saved[d] /\ run'[d].pc = "save"  BY <1>3, <1>15, <2>1 DEF Deploy, DeploysBy, Runs
  <2>3. PICK busy : busy = (st[d].busy /\ left)  OBVIOUS
  <2>4. st'[d] = [st[d] EXCEPT !.apps = apps, !.stage = stage, !.busy = busy]
    BY <1>3, <2>1, <2>3 DEF DeploysBy
  <2>5. st'[d].stage = stage /\ st'[d].sources = st[d].sources /\ st'[d].busy = busy
    BY <1>3, <2>4 DEF Contexts
  <2>6. /\ stage \in {"Pending", "InProgress"} => left /\ st[d].stage \in {"Pending", "InProgress"}
        /\ st[d].stage \in {"InProgress", "Complete"} => stage \in {"InProgress", "Complete"}
    BY <2>1 DEF DeploysBy
  <2>7. stage \in {"Pending", "InProgress"} => (Polling => busy) /\ st[d].sources # {}
    BY <1>2, <2>3, <2>6 DEF ListingOf, PushIsBusy
  <2>8. (Polling /\ saved[d].stage = "InProgress") => stage \in {"InProgress", "Complete"}
    BY <1>2, <2>6 DEF ListingOf
  <2>9. PushIsBusy(saved[d])  BY <1>2 DEF ListingOf
  <2> QED  BY <1>1, <2>2, <2>5, <2>7, <2>8, <2>9 DEF ListingOf, PushIsBusy
<1>16. CASE Save(d)
  <2>1. saved'[d] = st'[d] /\ run'[d].pc = "idle"  BY <1>3, <1>16 DEF Save, Idle
  <2>2. st'[d].stage = st[d].stage /\ st'[d].busy = st[d].busy /\ st'[d].sources = st[d].sources
    BY <1>3, <1>16 DEF Save, Contexts
  <2> QED  BY <1>1, <1>2, <2>1, <2>2 DEF ListingOf, PushIsBusy
<1>17. CASE Wake(d)  BY <1>5, <1>17 DEF Wake
<1>18. CASE Tick(d)
  <2>1. run' = run /\ run[d].pc = "idle" /\ st'[d] = saved'[d]  BY <1>3, <1>18 DEF Tick, Reconciles
  <2>2. saved'[d].stage = saved[d].stage /\ saved'[d].busy = saved[d].busy /\ saved'[d].sources = saved[d].sources
    BY <1>3, <1>18 DEF Tick, Contexts
  <2> QED  BY <1>1, <1>2, <2>1, <2>2 DEF ListingOf, PushIsBusy
<1>19. CASE User
  BY <1>5, <1>19 DEF User, Upload, RemoveApp, EditCR, TriggerCR, Trigger
<1>20. CASE Crash
  <2>1. saved'[d] = saved[d] /\ st'[d] = saved[d] /\ run'[d].pc = "idle"  BY <1>3, <1>20 DEF Crash, Idle
  <2> QED  BY <1>1, <1>2, <2>1 DEF ListingOf, PushIsBusy
<1>21. CASE UNCHANGED vars  BY <1>5, <1>21 DEF vars
<1>22. ASSUME NEW c \in CRs, Step(c) \/ Tick(c) PROVE ListingOf(d)'
  <2>1. CASE c # d  BY <1>6, <1>22, <2>1
  <2>2. CASE c = d
    <3>1. Step(d) \/ Tick(d)  BY <1>22, <2>2
    <3> QED  BY <1>7, <1>8, <1>9, <1>10, <1>11, <1>12, <1>13, <1>131, <1>14, <1>15, <1>16, <1>17, <1>18, <3>1
         DEF Step
  <2> QED  BY <2>1, <2>2
<1> QED  BY <1>19, <1>20, <1>21, <1>22 DEF Next

LEMMA ListingHolds == Spec => []ListingInv
<1>1. Init => ListingInv
  BY DEF Init, ListingInv, IdleIsSaved, ListsWhenFree, PushesAreBusy, PushGoesOn, PushIsBusy, Idle, NoContext
<1>2. TypeOK /\ ListingInv /\ [Next]_vars => ListingInv'  BY ListingStep
<1> QED  BY <1>1, <1>2, RepoTypeCorrect, PTL DEF Spec

\* While polling, handleAppRepoChanges never sets the stage of a bundle push back
\* to pending when the stored status says that one is running.
THEOREM NoPushIsCutShort == Spec => NoListingDuringPush
<1>1. TypeOK /\ ListingInv /\ [Next]_vars
        => [\A c \in CRs : (Polling /\ saved[c].stage = "InProgress") => saved'[c].stage # "Pending"]_vars
  <2> SUFFICES ASSUME TypeOK, ListingInv, [Next]_vars, NEW d \in CRs, Polling, saved[d].stage = "InProgress"
               PROVE  saved'[d].stage # "Pending"
    OBVIOUS
  <2>1. /\ saved \in [CRs -> Contexts] /\ st \in [CRs -> Contexts]
        /\ saved[d] \in Contexts /\ st[d] \in Contexts
    BY DEF TypeOK
  <2>2. \/ saved' = saved
        \/ \E c \in CRs : \/ saved' = [saved EXCEPT ![c] = st[c]] \/ saved' = [saved EXCEPT ![c].due = TRUE]
                          \/ st' = [st EXCEPT ![c].due = TRUE] /\ saved' = [saved EXCEPT ![c] = st'[c]]
    BY DEF Next, Step, Check, CheckFails, List, ListFails, UpdateMap, UpdateCrMap, Configure, Leave, Delete, Collect, Pods, Deploy,
        Save, Wake, Tick, User, Upload, RemoveApp, EditCR, TriggerCR, Trigger, Crash, vars
  <2>3. st[d].stage \in {"InProgress", "Complete"}  BY DEF ListingInv, PushGoesOn
  <2>4. saved'[d].stage \in {saved[d].stage, st[d].stage}  BY <2>1, <2>2 DEF Contexts
  <2> QED  BY <2>3, <2>4
<1> QED  BY <1>1, RepoTypeCorrect, ListingHolds, PTL DEF Spec, NoListingDuringPush

----------------------------------------------------------------------------
(* The status and the pods                                                  *)

\* A listing gives an app the version in the store or leaves its version alone,
\* and an app counts as deployed after it only if it did before.
LEMMA AppAfterKeeps ==
  ASSUME TypeOK, NEW a \in Apps, NEW info \in AppInfo, NEW config
  PROVE  /\ AppAfter(a, info, config).hash \in {info.hash, repo[a].now}
         /\ (AppAfter(a, info, config).state = "Active" /\ AppAfter(a, info, config).phase = "done")
              => AppAfter(a, info, config) = info
<1>1. AppAfter(a, info, config) \in {info, Disable(info), AddOrUpdate(info, repo[a].now)}
  BY Zenon DEF AppAfter
<1>2. Disable(info) = info \/ (Disable(info).hash = info.hash /\ Disable(info).state = "Deleted")
  BY DEF Disable, AppInfo
<1>3. AddOrUpdate(info, repo[a].now) = info
      \/ (AddOrUpdate(info, repo[a].now).hash = repo[a].now /\ AddOrUpdate(info, repo[a].now).phase = "pending")
  BY DEF AddOrUpdate
<1> QED  BY <1>1, <1>2, <1>3

LEMMA ListKeeps ==
  ASSUME TypeOK, NEW c \in CRs, List(c), NEW a \in Apps
  PROVE  /\ st'[c].apps[a].hash \in {st[c].apps[a].hash, repo[a].now}
         /\ (st'[c].apps[a].state = "Active" /\ st'[c].apps[a].phase = "done")
              => st'[c].apps[a] = st[c].apps[a]
<1>1. st[c] \in Contexts /\ st \in [CRs -> Contexts]  BY DEF TypeOK
<1>2. st[c].apps[a] \in AppInfo  BY <1>1 DEF Contexts
<1>3. PICK ctx : ctx = HandleAppRepoChanges(st[c], run[c].config)  OBVIOUS
<1>4. ctx \in Contexts
  <2>1. run[c].config \in SUBSET Sources  BY DEF TypeOK, Runs
  <2> QED  BY <1>1, <1>3, <2>1, ListedType DEF TypeOK
<1>5. st'[c] = [ctx EXCEPT !.busy = TRUE, !.due = FALSE]  BY <1>1, <1>3 DEF List
<1>6. st'[c].apps = ctx.apps  BY <1>4, <1>5 DEF Contexts
<1>7. ctx.apps = AppsAfter(st[c].apps, run[c].config)
  <2> HIDE DEF AppsAfter, BundleChanges
  <2> QED  BY <1>1, <1>3 DEF HandleAppRepoChanges, Contexts
<1>8. st'[c].apps[a] = AppAfter(a, st[c].apps[a], run[c].config)  BY <1>6, <1>7 DEF AppsAfter
<1> QED  BY <1>2, <1>8, AppAfterKeeps

LEMMA ScaledUpKeeps ==
  ASSUME NEW ctx \in Contexts, NEW a \in Apps
  PROVE  /\ ScaledUp(ctx).apps[a].hash = ctx.apps[a].hash
         /\ ~(ScaledUp(ctx).apps[a].state = "Active" /\ ScaledUp(ctx).apps[a].phase = "done")
<1> DEFINE Apps1 == [b \in Apps |-> IF ctx.apps[b].state = "Active" /\ ctx.apps[b].phase = "done"
                                    THEN [ctx.apps[b] EXCEPT !.phase = "pending"] ELSE ctx.apps[b]]
<1>1. ctx.apps[a] \in AppInfo  BY DEF Contexts
<1>2. ScaledUp(ctx).apps = Apps1  BY DEF ScaledUp, Contexts
<1>3. Apps1[a] = IF ctx.apps[a].state = "Active" /\ ctx.apps[a].phase = "done"
                 THEN [ctx.apps[a] EXCEPT !.phase = "pending"] ELSE ctx.apps[a]
  OBVIOUS
<1> HIDE DEF Apps1
<1> QED  BY <1>1, <1>2, <1>3 DEF AppInfo

\* What an entry of the scheduler does to one app.
LEMMA DeployKeeps ==
  ASSUME TypeOK, NEW c \in CRs, Deploy(c), NEW a \in Apps
  PROVE  /\ st'[c].apps[a].hash = st[c].apps[a].hash /\ run'[c].pc = "save"
         /\ \/ st'[c].apps[a] = st[c].apps[a] /\ pods'[c][a] = pods[c][a]
            \/ st'[c].apps[a].phase = "failed" /\ pods'[c][a] = pods[c][a]
            \/ /\ Download(a, st[c].apps[a].hash) # 0
               /\ pods'[c][a] = Download(a, st[c].apps[a].hash)
<1>1. st[c] \in Contexts /\ st \in [CRs -> Contexts] /\ run \in [CRs -> Runs] /\ run[c] \in Runs
      /\ pods \in [CRs -> [Apps -> Versions]]
  BY DEF TypeOK
<1>2. st[c].apps[a] \in AppInfo  BY <1>1 DEF Contexts
<1>3. PICK tried \in SUBSET Apps, good \in SUBSET Apps, left \in BOOLEAN,
           apps \in [Apps -> AppInfo], stage \in {"Uninitialized", "Pending", "InProgress", "Complete"} :
        DeploysBy(c, tried, good, left, apps, stage)
  BY DeployEffect
<1>4. run'[c].pc = "save"  BY <1>1, <1>3 DEF DeploysBy, Runs
<1>5. PICK busy : busy = (st[c].busy /\ left)  OBVIOUS
<1>6. st'[c] = [st[c] EXCEPT !.apps = apps, !.stage = stage, !.busy = busy]  BY <1>1, <1>3, <1>5 DEF DeploysBy
<1>7. st'[c].apps = apps  BY <1>1, <1>6 DEF Contexts
<1>8. apps[a] = IF a \in tried
                THEN [st[c].apps[a] EXCEPT !.phase = IF a \in good THEN "done" ELSE "failed"]
                ELSE st[c].apps[a]
  BY <1>3 DEF DeploysBy
<1>9. pods'[c][a] = IF a \in good THEN Download(a, st[c].apps[a].hash) ELSE pods[c][a]
  BY <1>1, <1>3 DEF DeploysBy
<1>10. good \subseteq tried /\ (a \in good => Download(a, st[c].apps[a].hash) # 0)
  BY <1>3 DEF DeploysBy, Succeeds
<1>11. st'[c].apps[a].hash = st[c].apps[a].hash  BY <1>2, <1>7, <1>8 DEF AppInfo
<1>12. CASE a \in good  BY <1>4, <1>9, <1>10, <1>11, <1>12
<1>13. CASE a \notin good
  <2>1. st'[c].apps[a] = st[c].apps[a] \/ st'[c].apps[a].phase = "failed"  BY <1>2, <1>7, <1>8, <1>13 DEF AppInfo
  <2> QED  BY <1>4, <1>9, <1>11, <1>13, <2>1
<1> QED  BY <1>12, <1>13

\* A step of the reconcile of c changes nothing else of another resource.
LEMMA OthersAreKept ==
  ASSUME TypeOK, NEW c \in CRs, NEW d \in CRs, c # d, Step(c) \/ Tick(c)
  PROVE  saved'[d] = saved[d] /\ st'[d] = st[d] /\ run'[d] = run[d] /\ pods'[d] = pods[d] /\ repo' = repo
<1>1. /\ saved \in [CRs -> Contexts] /\ st \in [CRs -> Contexts] /\ run \in [CRs -> Runs]
      /\ pods \in [CRs -> [Apps -> Versions]]
  BY DEF TypeOK
<1>2. CASE Check(c) \/ CheckFails(c) \/ List(c) \/ ListFails(c)
  <2>1. saved'[d] = saved[d] /\ st'[d] = st[d]  BY <1>1, <1>2 DEF Check, CheckFails, List, ListFails, Fail
  <2>2. run'[d] = run[d]  BY <1>1, <1>2 DEF Check, CheckFails, List, ListFails, Fail, Goto, Again
  <2>3. pods'[d] = pods[d] /\ repo' = repo  BY <1>1, <1>2 DEF Check, CheckFails, List, ListFails, world
  <2> QED  BY <2>1, <2>2, <2>3
<1>3. CASE UpdateMap(c) \/ UpdateCrMap(c) \/ Configure(c)
  <2>1. saved'[d] = saved[d] /\ st'[d] = st[d]  BY <1>1, <1>3 DEF UpdateMap, UpdateCrMap, Configure, Fail
  <2>2. run'[d] = run[d]  BY <1>1, <1>3 DEF UpdateMap, UpdateCrMap, Configure, Fail, Goto, Again
  <2>3. pods'[d] = pods[d] /\ repo' = repo  BY <1>1, <1>3 DEF UpdateMap, UpdateCrMap, Configure, world
  <2> QED  BY <2>1, <2>2, <2>3
<1>4. CASE Leave(c) \/ Delete(c) \/ Collect(c)
  <2>1. saved'[d] = saved[d] /\ st'[d] = st[d]  BY <1>1, <1>4 DEF Leave, Delete, Collect, Fail
  <2>2. run'[d] = run[d]  BY <1>1, <1>4 DEF Leave, Delete, Collect, Fail, Goto, Again
  <2>3. pods'[d] = pods[d] /\ repo' = repo  BY <1>1, <1>4 DEF Leave, Delete, Collect, world
  <2> QED  BY <2>1, <2>2, <2>3
<1>5. CASE Pods(c) \/ Save(c)
  <2>1. saved'[d] = saved[d] /\ st'[d] = st[d]  BY <1>1, <1>5 DEF Pods, Save, Fail
  <2>2. run'[d] = run[d]  BY <1>1, <1>5 DEF Pods, Save, Fail, Goto, Again
  <2>3. pods'[d] = pods[d] /\ repo' = repo  BY <1>1, <1>5 DEF Pods, Save, world
  <2> QED  BY <2>1, <2>2, <2>3
<1>6. CASE Deploy(c)
  <2>1. saved' = saved /\ repo' = repo  BY <1>6 DEF Deploy
  <2>2. PICK tried, good, left, apps, stage : DeploysBy(c, tried, good, left, apps, stage)
    BY <1>6, DeployEffect
  <2>3. st'[d] = st[d]  BY <1>1, <2>2 DEF DeploysBy
  <2>4. run'[d] = run[d]  BY <1>1, <2>2 DEF DeploysBy
  <2>5. pods'[d] = pods[d]  BY <1>1, <2>2 DEF DeploysBy
  <2> QED  BY <2>1, <2>3, <2>4, <2>5
<1>7. CASE Wake(c) \/ Tick(c)
  <2>1. saved'[d] = saved[d] /\ st'[d] = st[d]  BY <1>1, <1>7 DEF Wake, Tick, Fail
  <2>2. run'[d] = run[d]  BY <1>1, <1>7 DEF Wake, Tick, Fail, Goto, Again
  <2>3. pods'[d] = pods[d] /\ repo' = repo  BY <1>1, <1>7 DEF Wake, Tick, world
  <2> QED  BY <2>1, <2>2, <2>3
<1> QED  BY <1>2, <1>3, <1>4, <1>5, <1>6, <1>7, Zenon DEF Step

\* The steps of a reconcile that neither list, nor deploy, nor scale, nor save
\* leave the apps and the pods of the resource alone.
LEMMA QuietSteps ==
  ASSUME TypeOK, NEW c \in CRs,
         \/ Check(c) \/ CheckFails(c) \/ ListFails(c) \/ UpdateMap(c) \/ UpdateCrMap(c) \/ Configure(c)
         \/ Leave(c) \/ Collect(c) \/ Wake(c) \/ (Pods(c) /\ ~spec[c].scaled)
  PROVE  /\ saved' = saved /\ repo' = repo /\ pods' = pods /\ st'[c].apps = st[c].apps
         /\ run[c].pc = "save" => run'[c].pc = "save"
<1>1. /\ st \in [CRs -> Contexts] /\ st[c] \in Contexts /\ run \in [CRs -> Runs]  BY DEF TypeOK
<1>2. saved' = saved
  BY DEF Check, CheckFails, ListFails, UpdateMap, UpdateCrMap, Configure, Leave, Collect, Wake, Pods
<1>3. repo' = repo /\ pods' = pods
  BY DEF Check, CheckFails, ListFails, UpdateMap, UpdateCrMap, Configure, Leave, Collect, Wake, Pods, world
<1>4. st'[c].apps = st[c].apps
  <2>1. CASE Fail(c)  BY <1>1, <2>1 DEF Fail, Contexts
  <2>2. CASE st' = st  BY <2>2
  <2>3. CASE st' = [st EXCEPT ![c].busy = TRUE, ![c].due = FALSE]  BY <1>1, <2>3 DEF Contexts
  <2> QED  BY <2>1, <2>2, <2>3 DEF Check, CheckFails, ListFails, UpdateMap, UpdateCrMap, Configure, Leave, Collect, Wake, Pods
<1>5. run[c].pc = "save" => run' = run
  BY DEF Check, CheckFails, ListFails, UpdateMap, UpdateCrMap, Configure, Leave, Collect, Wake, Pods, Reconciles
<1> QED  BY <1>2, <1>3, <1>4, <1>5

LEMMA LatestStep ==
  ASSUME TypeOK, LastIsLatest, [Next]_vars PROVE LastIsLatest'
<1>1. CRs' = CRs  BY SetupIsKept
<1>2. SUFFICES ASSUME NEW a \in Apps
               PROVE  /\ repo'[a].now \in {0, repo'[a].last}
                      /\ \A d \in CRs : /\ pods'[d][a] <= repo'[a].last
                                        /\ saved'[d].apps[a].hash <= repo'[a].last
                                        /\ st'[d].apps[a].hash <= repo'[a].last
  BY <1>1 DEF LastIsLatest
<1>3. /\ saved \in [CRs -> Contexts] /\ st \in [CRs -> Contexts] /\ pods \in [CRs -> [Apps -> Versions]]
      /\ repo \in [Apps -> [now : Versions, last : Versions]] /\ repo[a] \in [now : Versions, last : Versions]
  BY DEF TypeOK
<1>4. repo[a].now \in Nat /\ repo[a].last \in Nat /\ repo[a].now <= repo[a].last
  BY <1>3, AppRepoAssumption DEF Versions, LastIsLatest
<1>5. \A d \in CRs : pods[d][a] \in Nat /\ saved[d].apps[a].hash \in Nat /\ st[d].apps[a].hash \in Nat
  BY <1>3, AppRepoAssumption DEF Versions, Contexts, AppInfo
<1>6. repo[a].now \in {0, repo[a].last}
      /\ \A d \in CRs : /\ pods[d][a] <= repo[a].last
                        /\ saved[d].apps[a].hash <= repo[a].last
                        /\ st[d].apps[a].hash <= repo[a].last
  BY DEF LastIsLatest
<1>7. CASE UNCHANGED <<repo, pods, saved, st>>  BY <1>6, <1>7
<1>8. ASSUME NEW c \in CRs, Step(c) \/ Tick(c),
             /\ pods'[c][a] <= repo[a].last /\ saved'[c].apps[a].hash <= repo[a].last
             /\ st'[c].apps[a].hash <= repo[a].last /\ repo' = repo
      PROVE  /\ repo'[a].now \in {0, repo'[a].last}
             /\ \A d \in CRs : /\ pods'[d][a] <= repo'[a].last
                               /\ saved'[d].apps[a].hash <= repo'[a].last
                               /\ st'[d].apps[a].hash <= repo'[a].last
  BY <1>6, <1>8, OthersAreKept
<1>9. ASSUME NEW c \in CRs, Step(c) \/ Tick(c)
      PROVE  /\ pods'[c][a] <= repo[a].last /\ saved'[c].apps[a].hash <= repo[a].last
             /\ st'[c].apps[a].hash <= repo[a].last /\ repo' = repo
  <2>1. CASE \/ Check(c) \/ CheckFails(c) \/ ListFails(c) \/ UpdateMap(c) \/ UpdateCrMap(c) \/ Configure(c)
             \/ Leave(c) \/ Collect(c) \/ Wake(c) \/ (Pods(c) /\ ~spec[c].scaled)
    BY <1>6, <2>1, QuietSteps
  <2>2. CASE List(c)
    <3>1. saved' = saved /\ repo' = repo /\ pods' = pods  BY <2>2 DEF List, world
    <3> QED  BY <1>4, <1>6, <2>2, <3>1, ListKeeps
  <2>3. CASE Pods(c) /\ spec[c].scaled
    <3>1. saved' = saved /\ repo' = repo /\ pods'[c][a] = 0 /\ st'[c] = ScaledUp(st[c])
      BY <1>3, <2>3 DEF Pods
    <3>2. st'[c].apps[a].hash = st[c].apps[a].hash  BY <1>3, <3>1, ScaledUpKeeps
    <3> QED  BY <1>4, <1>6, <3>1, <3>2
  <2>4. CASE Deploy(c)
    <3>1. saved' = saved /\ repo' = repo  BY <2>4 DEF Deploy
    <3> QED  BY <1>4, <1>6, <2>4, <3>1, DeployKeeps, DownloadType
  <2>5. CASE Delete(c)
    <3>1. saved' = saved /\ repo' = repo /\ pods' = pods /\ st'[c] \in {saved[c], st[c]}  BY <1>3, <2>5 DEF Delete
    <3> QED  BY <1>6, <3>1
  <2>6. CASE Save(c)
    <3>1. repo' = repo /\ pods' = pods  BY <2>6 DEF Save, world
    <3>2. st'[c].apps = st[c].apps /\ saved'[c].apps = st[c].apps  BY <1>3, <2>6 DEF Save, Contexts
    <3> QED  BY <1>6, <3>1, <3>2
  <2>7. CASE Tick(c)
    <3>1. saved'[c].apps = saved[c].apps /\ repo' = repo /\ pods' = pods  BY <1>3, <2>7 DEF Tick, world, Contexts
    <3>2. st'[c] = saved'[c]  BY <1>3, <2>7 DEF Tick
    <3> QED  BY <1>6, <3>1, <3>2
  <2> QED  BY <1>9, <2>1, <2>2, <2>3, <2>4, <2>5, <2>6, <2>7 DEF Step
<1>10. ASSUME NEW b \in Apps, Upload(b) \/ RemoveApp(b)
       PROVE  /\ repo'[a].now \in {0, repo'[a].last}
              /\ \A d \in CRs : /\ pods'[d][a] <= repo'[a].last
                                /\ saved'[d].apps[a].hash <= repo'[a].last
                                /\ st'[d].apps[a].hash <= repo'[a].last
  <2>1. UNCHANGED <<pods, saved, st>>  BY <1>10 DEF Upload, RemoveApp
  <2>2. repo'[a].now \in {0, repo'[a].last} /\ repo'[a].last \in Nat /\ repo'[a].last >= repo[a].last
    <3>1. CASE a # b
      <4>1. repo'[a] = repo[a]  BY <1>3, <1>10, <3>1 DEF Upload, RemoveApp
      <4> QED  BY <1>4, <1>6, <4>1
    <3>2. CASE a = b
      <4>1. CASE repo' = [repo EXCEPT ![b] = [now |-> @.last + 1, last |-> @.last + 1]]
        <5>1. repo'[a] = [now |-> repo[a].last + 1, last |-> repo[a].last + 1]  BY <1>3, <3>2, <4>1
        <5> QED  BY <1>4, <5>1
      <4>2. CASE repo' = [repo EXCEPT ![b].now = repo[b].last]
        <5>1. repo'[a].now = repo[a].last /\ repo'[a].last = repo[a].last  BY <1>3, <3>2, <4>2
        <5> QED  BY <1>4, <5>1
      <4>3. CASE repo' = [repo EXCEPT ![b].now = 0]
        <5>1. repo'[a].now = 0 /\ repo'[a].last = repo[a].last  BY <1>3, <3>2, <4>3
        <5> QED  BY <1>4, <5>1
      <4> QED  BY <1>10, <4>1, <4>2, <4>3 DEF Upload, RemoveApp
    <3> QED  BY <3>1, <3>2
  <2> QED  BY <1>4, <1>5, <1>6, <2>1, <2>2
<1>11. ASSUME (\E c \in CRs : EditCR(c) \/ TriggerCR(c)) \/ Trigger \/ UNCHANGED vars
       PROVE  UNCHANGED <<repo, pods, saved, st>>
  BY <1>11 DEF EditCR, TriggerCR, Trigger, vars, world
<1>12. ASSUME Crash PROVE UNCHANGED <<repo, pods, saved>> /\ st' = saved  BY <1>12 DEF Crash, world
<1>13. CASE Crash  BY <1>6, <1>12, <1>13
<1>14. CASE (\E c \in CRs : EditCR(c) \/ TriggerCR(c)) \/ Trigger \/ UNCHANGED vars  BY <1>7, <1>11, <1>14
<1>15. CASE \E c \in CRs : Step(c) \/ Tick(c)  BY <1>8, <1>9, <1>15
<1>16. CASE \E b \in Apps : Upload(b) \/ RemoveApp(b)  BY <1>10, <1>16
<1> QED  BY <1>13, <1>14, <1>15, <1>16 DEF Next, User

LEMMA ScalesStep ==
  ASSUME TypeOK, ScalesOnlyIfAsked, [Next]_vars PROVE ScalesOnlyIfAsked'
<1>1. CRs' = CRs /\ setup' = setup  BY SetupIsKept
<1>2. SUFFICES ASSUME NEW d \in CRs, spec'[d].scaled, ~spec[d].scaled PROVE "scale" \in setup.events
  BY <1>1 DEF ScalesOnlyIfAsked
<1>3. spec \in [CRs -> [exists : BOOLEAN, sources : SUBSET Sources, deleted : BOOLEAN, scaled : BOOLEAN]]
  BY DEF TypeOK
<1>4. \/ spec' = spec
      \/ \E c \in CRs : spec' = [spec EXCEPT ![c].exists = FALSE]
      \/ \E c \in CRs : spec' = [spec EXCEPT ![c].scaled = FALSE]
      \/ \E c \in CRs, s \in SUBSET setup.sources : spec' = [spec EXCEPT ![c].sources = s]
      \/ \E c \in CRs : spec' = [spec EXCEPT ![c].deleted = TRUE]
      \/ Happens("scale")
  BY SpecChanges
<1> QED  BY <1>2, <1>3, <1>4 DEF Happens

\* What the status says of the pods, in every step.
LEMMA TrueStep ==
  ASSUME TypeOK, LastIsLatest, ScalesOnlyIfAsked, NoLostScaleUp, HeldIsTrue, StoredIsTrue, [Next]_vars
  PROVE  HeldIsTrue' /\ StoredIsTrue'
<1>1. CRs' = CRs /\ setup' = setup  BY SetupIsKept
<1>2. (Restarts' <=> Restarts) /\ (ListedIsServed' <=> ListedIsServed)
  BY <1>1 DEF Restarts, ListedIsServed
<1>3. SUFFICES ASSUME NEW d \in CRs, NEW a \in Apps
               PROVE  /\ IsDeployed(st'[d].apps[a], pods'[d][a])
                      /\ (run'[d].pc # "save" \/ Restarts) => IsDeployed(saved'[d].apps[a], pods'[d][a])
  BY <1>1, <1>2 DEF HeldIsTrue, StoredIsTrue, IsDeployed
<1>4. /\ saved \in [CRs -> Contexts] /\ st \in [CRs -> Contexts] /\ pods \in [CRs -> [Apps -> Versions]]
      /\ run \in [CRs -> Runs] /\ st[d] \in Contexts /\ saved[d] \in Contexts
  BY DEF TypeOK
<1>5. /\ repo[a].last \in Nat /\ saved[d].apps[a].hash \in Nat /\ st[d].apps[a].hash \in Nat
      /\ saved[d].apps[a].hash <= repo[a].last /\ st[d].apps[a].hash <= repo[a].last
      /\ repo[a].now \in {0, repo[a].last}
  BY <1>4, AppRepoAssumption DEF TypeOK, Versions, LastIsLatest, Contexts, AppInfo
<1>6. /\ IsDeployed(st[d].apps[a], pods[d][a])
      /\ (run[d].pc # "save" \/ Restarts) => IsDeployed(saved[d].apps[a], pods[d][a])
  BY DEF HeldIsTrue, StoredIsTrue
<1>7. CASE saved'[d] = saved[d] /\ st'[d] = st[d] /\ run'[d] = run[d] /\ pods'[d] = pods[d]  BY <1>6, <1>7
<1>8. CASE \/ Check(d) \/ CheckFails(d) \/ ListFails(d) \/ UpdateMap(d) \/ UpdateCrMap(d) \/ Configure(d)
           \/ Leave(d) \/ Collect(d) \/ Wake(d) \/ (Pods(d) /\ ~spec[d].scaled)
  BY <1>6, <1>8, QuietSteps
<1>9. CASE List(d)
  <2>1. saved' = saved /\ pods' = pods /\ run[d].pc = "list"  BY <1>9 DEF List, world, Reconciles
  <2>2. IsDeployed(st'[d].apps[a], pods[d][a])  BY <1>6, <1>9, ListKeeps DEF IsDeployed
  <2> QED  BY <1>6, <2>1, <2>2
<1>10. CASE Pods(d) /\ spec[d].scaled
  <2>1. ~Restarts  BY <1>10 DEF ScalesOnlyIfAsked, NoLostScaleUp, Restarts
  <2>2. st'[d] = ScaledUp(st[d])  BY <1>4, <1>10 DEF Pods
  <2>3. run'[d].pc = "save"  BY <1>4, <1>10 DEF Pods, Again, Runs
  <2> QED  BY <1>4, <2>1, <2>2, <2>3, ScaledUpKeeps DEF IsDeployed
<1>11. CASE Deploy(d)
  <2>1. saved' = saved /\ run[d].pc = "deploy"  BY <1>11 DEF Deploy, Reconciles
  <2>2. run'[d].pc = "save" /\ st'[d].apps[a].hash = st[d].apps[a].hash  BY <1>11, DeployKeeps
  <2>3. CASE st'[d].apps[a] = st[d].apps[a] /\ pods'[d][a] = pods[d][a]  BY <1>6, <2>1, <2>3
  <2>4. CASE st'[d].apps[a].phase = "failed" /\ pods'[d][a] = pods[d][a]
    BY <1>6, <2>1, <2>4 DEF IsDeployed
  <2>5. CASE Download(a, st[d].apps[a].hash) # 0 /\ pods'[d][a] = Download(a, st[d].apps[a].hash)
    <3>1. pods'[d][a] = repo[a].now /\ pods'[d][a] # 0
          /\ (setup.provider \in {"aws", "minio"} => pods'[d][a] = st[d].apps[a].hash)
      BY <2>5, DownloadType
    <3>2. pods'[d][a] = repo[a].last  BY <1>5, <3>1
    <3>3. IsDeployed(st'[d].apps[a], pods'[d][a])
      BY <1>5, <2>2, <3>1, <3>2 DEF IsDeployed, ListedIsServed
    <3>4. Restarts => IsDeployed(saved[d].apps[a], pods'[d][a])
      BY <1>5, <3>2 DEF IsDeployed, ListedIsServed
    <3> QED  BY <2>1, <2>2, <3>3, <3>4
  <2> QED  BY <1>11, <2>3, <2>4, <2>5, DeployKeeps
<1>12. CASE Delete(d)
  <2>1. saved' = saved /\ pods' = pods /\ st'[d] \in {saved[d], st[d]} /\ run[d].pc = "finalize"
    BY <1>4, <1>12 DEF Delete, Reconciles
  <2> QED  BY <1>6, <2>1
<1>13. CASE Save(d)
  <2>1. pods' = pods  BY <1>13 DEF Save, world
  <2>2. st'[d].apps = st[d].apps /\ saved'[d].apps = st[d].apps  BY <1>4, <1>13 DEF Save, Contexts
  <2> QED  BY <1>6, <2>1, <2>2
<1>14. CASE Tick(d)
  <2>1. saved'[d].apps = saved[d].apps /\ pods' = pods /\ run[d].pc = "idle" /\ run' = run
    BY <1>4, <1>14 DEF Tick, world, Contexts, Reconciles
  <2>2. st'[d] = saved'[d]  BY <1>4, <1>14 DEF Tick
  <2> QED  BY <1>6, <2>1, <2>2
<1>15. CASE User \/ UNCHANGED vars
  <2>1. UNCHANGED <<saved, st, run, pods>>
    BY <1>15 DEF User, Upload, RemoveApp, EditCR, TriggerCR, Trigger, vars, world
  <2> QED  BY <1>7, <2>1
<1>16. CASE Crash
  <2>1. saved' = saved /\ st' = saved /\ pods' = pods /\ Restarts
    BY <1>16 DEF Crash, world, Happens, Restarts
  <2> QED  BY <1>6, <2>1
<1>17. ASSUME NEW c \in CRs, Step(c) \/ Tick(c)
       PROVE  /\ IsDeployed(st'[d].apps[a], pods'[d][a])
              /\ (run'[d].pc # "save" \/ Restarts) => IsDeployed(saved'[d].apps[a], pods'[d][a])
  <2>1. CASE c # d  BY <1>7, <1>17, <2>1, OthersAreKept
  <2>2. CASE c = d
    <3>1. Step(d) \/ Tick(d)  BY <1>17, <2>2
    <3> QED  BY <1>8, <1>9, <1>10, <1>11, <1>12, <1>13, <1>14, <3>1 DEF Step
  <2> QED  BY <2>1, <2>2
<1> QED  BY <1>15, <1>16, <1>17 DEF Next

LEMMA DeployedStep ==
  ASSUME TypeOK, DeployedInv, [Next]_vars PROVE DeployedInv'
<1>1. NoLostScaleUp' <=> NoLostScaleUp  BY SetupIsKept DEF NoLostScaleUp
<1>2. LastIsLatest' /\ ScalesOnlyIfAsked'  BY LatestStep, ScalesStep DEF DeployedInv
<1>3. NoLostScaleUp => HeldIsTrue' /\ StoredIsTrue'  BY TrueStep DEF DeployedInv
<1> QED  BY <1>1, <1>2, <1>3 DEF DeployedInv

LEMMA DeployedInit == Init => DeployedInv
<1> SUFFICES ASSUME Init PROVE DeployedInv  OBVIOUS
<1>1. LastIsLatest  BY DEF Init, LastIsLatest, NoContext, NoInfo
<1>2. ScalesOnlyIfAsked  BY DEF Init, ScalesOnlyIfAsked
<1>3. HeldIsTrue /\ StoredIsTrue  BY DEF Init, HeldIsTrue, StoredIsTrue, IsDeployed, NoContext, NoInfo
<1> QED  BY <1>1, <1>2, <1>3 DEF DeployedInv

\* Unless a restart of the operator can fall between a scale up and the save of
\* the status, the stored status never says that a version is deployed that some
\* pod lacks; where the store serves what was listed, the pods hold that version.
THEOREM StatusIsTrueOfPods == Spec => [](NoLostScaleUp => DeployedIsTrue)
<1>1. TypeOK /\ DeployedInv /\ [Next]_vars => DeployedInv'  BY DeployedStep
<1>2. DeployedInv => (NoLostScaleUp => DeployedIsTrue)
  BY DEF DeployedInv, StoredIsTrue, DeployedIsTrue, IsDeployed, ListedIsServed, Restarts
<1> QED  BY <1>1, <1>2, DeployedInit, RepoTypeCorrect, PTL DEF Spec
=============================================================================
