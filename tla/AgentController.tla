--------------------------- MODULE AgentController ---------------------------
(***************************************************************************)
(* A class with @AgentController or @AgentControllerV2: the decorator that *)
(* gives it its routes, its prototype, and AgentControllerObject, whose    *)
(* life cycle builds the AgentRuntime between postInject and init.         *)
(*                                                                         *)
(* A route the class does not implement gets a stub; the object replaces   *)
(* the stubs by the methods of its runtime.  Runs may be asked for as soon *)
(* as there is a runtime: by init of the class, then by requests.  When    *)
(* init fails, and when the object is destroyed, the runtime aborts the    *)
(* runs it knows, waits for them, and destroys the store.                  *)
(***************************************************************************)
EXTENDS Naturals, FiniteSets, Sequences

CONSTANTS
  Runs,        \* the runs that are asked for
  Versions,    \* V1 and V2
  MaxThrows    \* bound on what throws

\* What the object delegates to its runtime (AGENT_METHOD_NAMES, streamRun),
\* and the one route it always takes over.
Delegated == {"createThread", "getThread", "getLatestRunId", "asyncRun", "syncRun",
              "getRun", "cancelRun", "streamRun"}
Routes == Delegated \cup {"getRunStream"}

AgentControllerAssumption == MaxThrows \in Nat /\ Versions # {} /\ "none" \notin Versions

VARIABLES
  defined,     \* the methods of the class as it was written
  version,     \* the decorator: a version, or "none" so far
  routes,      \* what the decorator left on the prototype of the class
  creators,    \* EggPrototypeCreatorFactory: impl type -> kind of prototype
  proto,       \* the prototype: its kind, or "none"
  own,         \* what the object itself carries, over its prototype
  at,          \* the steps of init or destroy that are done
  status,      \* EggObjectStatus
  store,       \* none, opened, ready, closed
  runtime,     \* none, up, stopping, down
  run,         \* of a run: idle, asked, running, ended
  waited,      \* the runs that runtime.destroy waits for
  throws

classVars == <<defined, version, routes, creators, proto>>
lifeVars == <<own, at, status, store, runtime, waited, throws>>
vars == <<classVars, lifeVars, run>>

Init ==
  /\ defined \in SUBSET Routes /\ version = "none"
  /\ routes = [r \in Routes |-> IF r \in defined THEN "user" ELSE "absent"]
  /\ creators = [v \in Versions |-> "none"] /\ proto = "none"
  /\ own = [r \in Routes |-> "absent"] /\ at = 0 /\ status = "PENDING"
  /\ store = "none" /\ runtime = "none"
  /\ run = [r \in Runs |-> "idle"] /\ waited = {} /\ throws = 0

-----------------------------------------------------------------------------
(* The class and its prototype *)

\* The decorator: every route is registered, and has a method from now on.
defineAgentController(v) ==
  /\ version = "none" /\ version' = v
  /\ routes' = [r \in Routes |-> IF routes[r] = "absent" THEN "stub" ELSE routes[r]]
  /\ UNCHANGED <<defined, creators, proto, lifeVars, run>>

\* The controller plugin: both versions have one creator.
registerPrototypeCreators ==
  /\ \E v \in Versions : creators[v] = "none"
  /\ creators' = [v \in Versions |-> "agent"]
  /\ UNCHANGED <<defined, version, routes, proto, lifeVars, run>>

\* createProto: the default prototype, wrapped.
createProto ==
  /\ version # "none" /\ proto = "none" /\ creators[version] # "none"
  /\ proto' = creators[version]
  /\ UNCHANGED <<defined, version, routes, creators, lifeVars, run>>

-----------------------------------------------------------------------------
(* init *)

InitSteps == <<"construct", "preCreate", "postConstruct", "preInject", "inject",
               "postCreate", "postInject", "createStore", "storeInit", "create", "init">>

Running == {r \in Runs : run[r] = "running"}

\* What the object answers a route with.
Serving(r) == IF own[r] = "absent" THEN routes[r] ELSE own[r]

\* Mutation: only what is missing is replaced, not the stubs.
Installed_Bug ==
  [r \in Routes |-> IF r = "getRunStream" \/ Serving(r) = "absent" THEN "runtime" ELSE own[r]]

\* installAgentRuntime: the stubs, and getRunStream in any case.
Installed ==
  [r \in Routes |-> IF r = "getRunStream" \/ Serving(r) \in {"absent", "stub"}
                    THEN "runtime" ELSE own[r]]

Step ==
  /\ proto = "agent" /\ status = "PENDING" /\ at < Len(InitSteps) /\ at' = at + 1
  /\ LET step == InitSteps[at'] IN
       /\ store' = CASE step = "createStore" -> "opened" [] step = "storeInit" -> "ready"
                     [] OTHER -> store
       /\ runtime' = IF step = "create" THEN "up" ELSE runtime
       /\ own' = IF step = "create" THEN Installed ELSE own
  /\ UNCHANGED <<classVars, status, waited, throws, run>>

Ready ==
  /\ status = "PENDING" /\ at = Len(InitSteps) /\ status' = "READY"
  /\ UNCHANGED <<classVars, own, at, store, runtime, waited, throws, run>>

\* runtime.destroy up to its wait: the runs it knows are aborted.
Stops == runtime' = "stopping" /\ waited' = Running

\* The next step throws: init of the class does so with a runtime.
StepThrows ==
  /\ proto = "agent" /\ status = "PENDING" /\ at < Len(InitSteps)
  /\ throws < MaxThrows /\ throws' = throws + 1
  /\ IF runtime = "up"
     THEN Stops /\ status' = "FAILING"
     ELSE status' = "ERROR" /\ UNCHANGED <<runtime, waited>>
  /\ UNCHANGED <<classVars, own, at, store, run>>

-----------------------------------------------------------------------------
(* destroy *)

DestroySteps == <<"preDestroy", "self preDestroy", "destroy">>

Destroy ==
  /\ status = "READY" /\ status' = "DESTROYING" /\ at' = 0
  /\ Stops
  /\ UNCHANGED <<classVars, own, store, throws, run>>

AllSettled == waited \cap Running = {}

\* The runs have ended: the store is destroyed, and the one who asked goes on.
\* When the store throws, init swallows it and destroy does not.
RuntimeDown ==
  /\ runtime = "stopping" /\ AllSettled
  /\ runtime' = "down" /\ store' = "closed"
  /\ status' = IF status = "FAILING" THEN "ERROR" ELSE status
  /\ \/ UNCHANGED throws
     \/ throws < MaxThrows /\ throws' = throws + 1
  /\ at' = IF status = "DESTROYING" /\ throws' # throws THEN Len(DestroySteps) + 1 ELSE at
  /\ UNCHANGED <<classVars, own, waited, run>>

\* A hook that throws leaves the object DESTROYING.
DestroyHook ==
  /\ status = "DESTROYING" /\ runtime = "down" /\ at < Len(DestroySteps)
  /\ \/ at' = at + 1 /\ UNCHANGED throws
     \/ throws < MaxThrows /\ throws' = throws + 1 /\ at' = Len(DestroySteps) + 1
  /\ UNCHANGED <<classVars, own, status, store, runtime, waited, run>>

Destroyed ==
  /\ status = "DESTROYING" /\ runtime = "down" /\ at = Len(DestroySteps)
  /\ status' = "DESTROYED"
  /\ UNCHANGED <<classVars, own, at, store, runtime, waited, throws, run>>

-----------------------------------------------------------------------------
(* The runs: a method of the runtime stays bound to it, and is never refused *)

Ask(r) ==
  /\ run[r] = "idle"
  /\ \E method \in {"asyncRun", "syncRun", "streamRun"} : Serving(method) = "runtime"
  /\ run' = [run EXCEPT ![r] = "asked"]
  /\ UNCHANGED <<classVars, lifeVars>>

\* The thread is there and the run recorded, unless the store refuses.
Register(r) ==
  /\ run[r] = "asked"
  /\ \E next \in {"running", "ended"} : run' = [run EXCEPT ![r] = next]
  /\ UNCHANGED <<classVars, lifeVars>>

End(r) ==
  /\ run[r] = "running" /\ run' = [run EXCEPT ![r] = "ended"]
  /\ UNCHANGED <<classVars, lifeVars>>

Next ==
  \/ \E v \in Versions : defineAgentController(v)
  \/ registerPrototypeCreators \/ createProto
  \/ Step \/ Ready \/ StepThrows
  \/ Destroy \/ RuntimeDown \/ DestroyHook \/ Destroyed
  \/ \E r \in Runs : Ask(r) \/ Register(r) \/ End(r)

Spec == Init /\ [][Next]_vars

-----------------------------------------------------------------------------
(* Properties *)

\* An object that is ready answers every route, with the method of the class where
\* it has one (getRunStream excepted) and never with a stub that throws: also of a
\* class that implements none, some, or what only one version would need.
RoutesAreServed ==
  status = "READY" =>
    \A r \in Routes :
      Serving(r) = IF r \in defined \ {"getRunStream"} THEN "user" ELSE "runtime"

\* Neither a failed init nor destroy leaves a runtime behind: its store is closed,
\* and the runs it knew have ended, before the failure is reported, and before the
\* hooks of the class that free what a run may use.  Init of the class has a runtime.
RuntimeIsReleased ==
  /\ (status \in {"ERROR", "DESTROYED"} \/ (status = "DESTROYING" /\ at > 0)) =>
       runtime \in {"none", "down"} /\ waited \cap Running = {}
  /\ status = "PENDING" /\ at + 1 >= Len(InitSteps) => runtime = "up" /\ store = "ready"

\* What AgentControllerObject says of its destroy, of every run.
DestroyedIsQuiet == status = "DESTROYED" => Running = {}
=============================================================================
