------------------------------- MODULE ModuleBoot -------------------------------
(***************************************************************************)
(* Boot and shutdown: the load units of an application and the instances   *)
(* with their singletons, in the registries of the process.                *)
(*                                                                         *)
(* Unit 1 is the one of the egg application or of the standalone runner;   *)
(* it holds one configuration object per module.  The modules follow, each *)
(* injects its configuration; in an egg application the last unit is the   *)
(* one of the controllers.  A standalone process may call main() again     *)
(* when it has returned.                                                   *)
(***************************************************************************)
EXTENDS Naturals, FiniteSets

CONSTANTS
  Runs,          \* calls of main(), 1 .. n; an egg application has one
  UnitCount,
  MaxFaults      \* bound on hooks and objects that throw

BootAssumption ==
  /\ UnitCount \in Nat \ {0, 1} /\ MaxFaults \in Nat
  /\ Runs \subseteq Nat \ {0} /\ \A r \in Runs : r = 1 \/ r - 1 \in Runs

Nobody == 0
UnitIds == 1 .. UnitCount

VARIABLES
  host,             \* app, standalone
  loadUnitMap,      \* LoadUnitFactory: of each unit the run that made it
  instanceMap,      \* LoadUnitInstanceFactory: instances
  publicProtoMap,   \* EggPrototypeFactory: <<unit, run, number>>
  live,             \* the instances whose singletons exist
  hooks,            \* the lifecycle hooks registered, of which run
  pc, at,           \* of a run: where it is, and at which unit
  loadUnits, loadUnitInstances,   \* what it holds
  faults, overlapped, failed      \* history: a run began before the last was
                                  \* destroyed; runs whose boot failed

registries == <<loadUnitMap, instanceMap, publicProtoMap, live, hooks>>
runVars == <<pc, at, loadUnits, loadUnitInstances>>
vars == <<host, registries, runVars, faults, overlapped, failed>>

\* An instance: of which unit, made by which run, and the run that made it.
Instance(u, owner, by) == [unit |-> u, owner |-> owner, by |-> by]
NoInstance == Instance(0, 0, 0)
Instances == [unit : UnitIds, owner : Runs, by : Runs] \cup {NoInstance}

Init ==
  /\ host \in {"app", "standalone"}
  /\ loadUnitMap = [u \in UnitIds |-> Nobody] /\ instanceMap = [u \in UnitIds |-> NoInstance]
  /\ publicProtoMap = {} /\ live = {} /\ hooks = {}
  /\ pc = [r \in Runs |-> "idle"] /\ at = [r \in Runs |-> 1]
  /\ loadUnits = [r \in Runs |-> [u \in UnitIds |-> Nobody]]
  /\ loadUnitInstances = [r \in Runs |-> [u \in UnitIds |-> NoInstance]]
  /\ faults = 0 /\ overlapped = FALSE /\ failed = {}

-----------------------------------------------------------------------------
(* Boot *)

Goes(r, from, to) == pc[r] = from /\ pc' = [pc EXCEPT ![r] = to]
Stays == UNCHANGED <<host, faults, overlapped, failed>>
Throws == faults < MaxFaults /\ faults' = faults + 1

HookKinds == {"configSource", "others"}

\* The constructor of Runner; configDidLoad and didLoad.
Start(r) ==
  /\ Goes(r, "idle", "load") /\ hooks' = hooks \cup ({r} \X HookKinds)
  /\ r > 1 => host = "standalone" /\ pc[r - 1] \in {"destroying", "destroyed", "destroyFailed"}
  /\ overlapped' = (overlapped \/ (r > 1 /\ pc[r - 1] = "destroying"))
  /\ UNCHANGED <<host, loadUnitMap, instanceMap, publicProtoMap, live, at, loadUnits,
                 loadUnitInstances, faults, failed>>

\* The controllers of an application are a unit of their own, made when all
\* others are ready.
Controllers(u) == host = "app" /\ u = UnitCount
Batch(u) == {v \in UnitIds : Controllers(v) = Controllers(u)}
First(s) == CHOOSE u \in s : \A v \in s : u <= v
Go(r, where, u) == pc' = [pc EXCEPT ![r] = where] /\ at' = [at EXCEPT ![r] = u]

\* What comes after a unit: the next one, or the instances; and after an
\* instance: the next one, the controllers, or the end.
UnitDone(r) ==
  IF at[r] + 1 \in Batch(at[r]) THEN Go(r, "load", at[r] + 1)
  ELSE Go(r, "instance", First(Batch(at[r])))
InstanceDone(r) ==
  IF at[r] + 1 \in Batch(at[r]) THEN Go(r, "instance", at[r] + 1)
  ELSE IF at[r] < UnitCount THEN Go(r, "load", UnitCount) ELSE Go(r, "ready", 1)

\* createLoadUnit of a unit that is registered returns it.
LoadUnitKnown(r) ==
  LET u == at[r] IN
  /\ pc[r] = "load" /\ loadUnitMap[u] # Nobody
  /\ loadUnits' = [loadUnits EXCEPT ![r][u] = loadUnitMap[u]]
  /\ UnitDone(r) /\ Stays /\ UNCHANGED <<registries, loadUnitInstances>>

\* Otherwise it is created, which takes a while.
CreateLoadUnit(r) ==
  /\ Goes(r, "load", "creating") /\ loadUnitMap[at[r]] = Nobody
  /\ Stays /\ UNCHANGED <<registries, at, loadUnits, loadUnitInstances>>

Configs == 1 .. UnitCount - 1

\* A module finds the configuration it injects, and only one.
Resolves(u) ==
  u > 1 /\ ~Controllers(u) =>
    Cardinality({p \in publicProtoMap : p[1] = 1 /\ p[3] = u - 1}) = 1

\* init registers the prototypes, and a module's resolve their injects.
LoadUnitCreated(r) ==
  LET u == at[r] IN
  /\ pc[r] = "creating" /\ Resolves(u)
  /\ publicProtoMap' = publicProtoMap \cup
       (IF u = 1 THEN {<<u, r, k>> : k \in Configs} ELSE {<<u, r, 1>>})
  /\ loadUnitMap' = [loadUnitMap EXCEPT ![u] = r]
  /\ loadUnits' = [loadUnits EXCEPT ![r][u] = r]
  /\ UnitDone(r)
  /\ Stays /\ UNCHANGED <<instanceMap, live, hooks, loadUnitInstances>>

\* A hook, a creator or init throws; or the configuration is not there, or is
\* there twice.  main() throws what init() threw; an application holds the
\* units so far until it is closed.
LoadUnitFails(r) ==
  LET u == at[r] IN
  /\ pc[r] = "creating"
  /\ IF Resolves(u) THEN Throws ELSE UNCHANGED faults
  /\ Go(r, "failed", 1) /\ failed' = failed \cup {r}
  /\ loadUnits' = IF host = "app" THEN loadUnits
                  ELSE [loadUnits EXCEPT ![r] = [v \in UnitIds |-> Nobody]]
  /\ UNCHANGED <<host, registries, loadUnitInstances, overlapped>>

\* createLoadUnitInstance: a known instance is returned as it is, ready or not;
\* a new one is registered before its init.
CreateInstance(r) ==
  LET u == at[r] IN
  /\ pc[r] = "instance"
  /\ IF instanceMap[u] # NoInstance
     THEN /\ loadUnitInstances' = [loadUnitInstances EXCEPT ![r][u] = instanceMap[u]]
          /\ InstanceDone(r) /\ UNCHANGED instanceMap
     ELSE /\ instanceMap' = [instanceMap EXCEPT ![u] = Instance(u, loadUnits[r][u], r)]
          /\ pc' = [pc EXCEPT ![r] = "init"] /\ UNCHANGED <<at, loadUnitInstances>>
  /\ Stays /\ UNCHANGED <<loadUnitMap, publicProtoMap, live, hooks, loadUnits>>

\* Its singletons are created, with what they inject: unit 1 must be there.
Initialized(r) ==
  LET u == at[r]
      i == Instance(u, loadUnits[r][u], r) IN
  /\ pc[r] = "init" /\ loadUnitMap[u] = i.owner /\ instanceMap[1] # NoInstance
  /\ live' = live \cup {i}
  /\ loadUnitInstances' = [loadUnitInstances EXCEPT ![r][u] = i]
  /\ InstanceDone(r)
  /\ Stays /\ UNCHANGED <<loadUnitMap, instanceMap, publicProtoMap, hooks, loadUnits>>

\* One of them fails, after none or some others: the instance stays registered,
\* and the instances so far are not kept by the one that would destroy them.
InitFails(r) ==
  LET u == at[r]
      i == Instance(u, loadUnits[r][u], r) IN
  /\ pc[r] = "init"
  /\ IF loadUnitMap[u] = i.owner /\ instanceMap[1] # NoInstance
     THEN Throws /\ live' \in {live, live \cup {i}} ELSE UNCHANGED <<faults, live>>
  /\ Go(r, "failed", 1) /\ failed' = failed \cup {r}
  /\ loadUnitInstances' = [loadUnitInstances EXCEPT ![r] =
       [v \in UnitIds |-> IF v \in Batch(u) THEN NoInstance ELSE @[v]]]
  /\ UNCHANGED <<host, loadUnitMap, instanceMap, publicProtoMap, hooks, loadUnits, overlapped>>

-----------------------------------------------------------------------------
(* Shutdown *)

\* main() ends, whatever the runner did, and does not wait for destroy().  An
\* application is closed, also after a boot that failed.
Close(r) ==
  /\ pc[r] = "ready" \/ (host = "app" /\ pc[r] = "failed")
  /\ pc' = [pc EXCEPT ![r] = "destroying"]
  /\ Stays /\ UNCHANGED <<registries, at, loadUnits, loadUnitInstances>>

\* What destroy() has still to destroy, in the order of creation; the
\* controllers go first, and the unit before the instance.
Held(r) == {u \in UnitIds : loadUnitInstances[r][u] # NoInstance}
HeldUnits(r) == {u \in UnitIds : loadUnits[r][u] # Nobody}
Foremost(s) == IF \E u \in s : Controllers(u) THEN UnitCount ELSE First(s)
ControllersUp(r) == \E u \in HeldUnits(r) : Controllers(u)

InstancesFirst(r) == Held(r) # {} /\ ~ControllersUp(r)

Fail(r) == pc' = [pc EXCEPT ![r] = "destroyFailed"]

\* destroyLoadUnitInstance: one that is not registered is a TypeError; preDestroy
\* or destroy may throw, after which it stays registered.
DestroyInstance(r) ==
  LET u == Foremost(Held(r))
      i == loadUnitInstances[r][u] IN
  /\ pc[r] = "destroying" /\ Held(r) # {} /\ InstancesFirst(r)
  /\ \/ /\ instanceMap[u] = NoInstance /\ Fail(r)
        /\ UNCHANGED <<instanceMap, live, loadUnitInstances, faults>>
     \/ /\ instanceMap[u] # NoInstance /\ Throws /\ Fail(r)
        /\ live' \in {live, live \ {i}} /\ UNCHANGED <<instanceMap, loadUnitInstances>>
     \/ /\ instanceMap[u] # NoInstance
        /\ live' = live \ {i} /\ instanceMap' = [instanceMap EXCEPT ![u] = NoInstance]
        /\ loadUnitInstances' = [loadUnitInstances EXCEPT ![r][u] = NoInstance]
        /\ UNCHANGED <<pc, faults>>
  /\ UNCHANGED <<host, loadUnitMap, publicProtoMap, hooks, at, loadUnits, overlapped, failed>>

\* What destroy() of a unit deletes of its prototypes.  The one of the
\* standalone runner deletes from the array it iterates: every second is left.
Deleted(u, owner) ==
  {p \in publicProtoMap : p[1] = u /\ p[2] = owner /\ (host = "standalone" => u > 1 \/ p[3] % 2 = 1)}

\* destroyLoadUnit: a unit that throws is unregistered all the same.
DestroyUnit(r) ==
  LET u == Foremost(HeldUnits(r))
      owner == loadUnits[r][u] IN
  /\ pc[r] = "destroying" /\ HeldUnits(r) # {} /\ ~InstancesFirst(r)
  /\ \/ /\ loadUnitMap[u] = Nobody /\ Fail(r)
        /\ UNCHANGED <<loadUnitMap, publicProtoMap, loadUnits, faults>>
     \/ /\ loadUnitMap[u] # Nobody /\ loadUnitMap' = [loadUnitMap EXCEPT ![u] = Nobody]
        /\ \/ /\ Throws /\ Fail(r)
              /\ publicProtoMap' \in {publicProtoMap, publicProtoMap \ Deleted(u, owner)}
              /\ UNCHANGED loadUnits
           \/ /\ publicProtoMap' = publicProtoMap \ Deleted(u, owner)
              /\ loadUnits' = [loadUnits EXCEPT ![r][u] = Nobody] /\ UNCHANGED <<pc, faults>>
  /\ UNCHANGED <<host, instanceMap, live, hooks, at, loadUnitInstances, overlapped, failed>>

\* Runner does not keep the hook of the configuration sources: it stays.
HooksDeleted(r) == {r} \X (IF host = "standalone" THEN {"others"} ELSE HookKinds)

\* Mutation: what is destroyed is not waited for.
Destroyed_Bug(r) ==
  /\ Goes(r, "destroying", "destroyed") /\ hooks' = hooks \ HooksDeleted(r)
  /\ Stays /\ UNCHANGED <<loadUnitMap, instanceMap, publicProtoMap, live, at, loadUnits,
                          loadUnitInstances>>

\* The hooks go last.
Destroyed(r) ==
  /\ Goes(r, "destroying", "destroyed") /\ Held(r) = {} /\ HeldUnits(r) = {}
  /\ hooks' = hooks \ HooksDeleted(r)
  /\ Stays /\ UNCHANGED <<loadUnitMap, instanceMap, publicProtoMap, live, at, loadUnits,
                          loadUnitInstances>>

Next == \E r \in Runs :
  \/ Start(r) \/ LoadUnitKnown(r) \/ CreateLoadUnit(r) \/ LoadUnitCreated(r) \/ LoadUnitFails(r)
  \/ CreateInstance(r) \/ Initialized(r) \/ InitFails(r)
  \/ Close(r) \/ DestroyInstance(r) \/ DestroyUnit(r) \/ Destroyed(r)

Spec == Init /\ [][Next]_vars

-----------------------------------------------------------------------------
(* Properties *)

\* Types.
TypeOK ==
  /\ loadUnitMap \in [UnitIds -> Runs \cup {Nobody}] /\ instanceMap \in [UnitIds -> Instances]
  /\ publicProtoMap \subseteq UnitIds \X Runs \X Configs /\ live \subseteq Instances
  /\ hooks \subseteq Runs \X HookKinds /\ at \in [Runs -> UnitIds]
  /\ loadUnits \in [Runs -> [UnitIds -> Runs \cup {Nobody}]]
  /\ loadUnitInstances \in [Runs -> [UnitIds -> Instances]]

\* Singletons never outlive their unit, unless the boot failed when some were
\* there, or main() was called again before the last run was destroyed; those
\* of the controllers do, until their instance is destroyed.
LiveHasUnit ==
  ~overlapped => \A i \in live :
    loadUnitMap[i.unit] = i.owner \/ Controllers(i.unit) \/ i.by \in failed

\* The hooks of a run are called for all its units, the last one included.
HooksOutliveUnits ==
  \A u \in UnitIds : loadUnitMap[u] # Nobody => {loadUnitMap[u]} \X HookKinds \subseteq hooks

\* When a run has been destroyed nothing of it is in the registries, but
\* configuration objects of the standalone runner, and its configuration hook.
NothingIsLeft ==
  \A r \in Runs : pc[r] = "destroyed" /\ r \notin failed /\ ~overlapped =>
    /\ \A u \in UnitIds : loadUnitMap[u] # r /\ instanceMap[u].by # r
    /\ \A i \in live : i.by # r
    /\ \A p \in publicProtoMap : p[2] = r => host = "standalone" /\ p[1] = 1
    /\ \A h \in hooks : h[1] = r => host = "standalone" /\ h[2] = "configSource"

\* "Delete prototype will delete item / array iterator is not safe": when a run
\* was destroyed main() may be called again, and boots.
NextRunBoots == faults = 0 /\ ~overlapped => failed = {}
=============================================================================
