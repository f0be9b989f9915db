---------------------------- MODULE MCContainers ----------------------------
(* What is created on demand and torn down once, for TLC: a behaviour is one  *)
(* of the objects of a container, of the objects of a request context, of the *)
(* tasks a request leaves behind, or of a thread store until it is destroyed. *)
EXTENDS EggContainer, BackgroundTask, TLC

CONSTANTS
  CtxProtos, CtxDeps, InContext, Helper, Roots, Handler,
  Updates, Runs, Appends, Fields, FieldOf, ClientKinds

VARIABLES
  part,
  root, place, object, record, call, contextFaults,
  meta, messages, hasAppend, tails, previous, released, storePc, snapshot, asked, pending,
  storePhase, draining, storeFaults
contextVars == <<root, place, object, record, call, contextFaults>>
storeVars == <<meta, messages, hasAppend, tails, previous, released, storePc, snapshot, asked,
               pending, storePhase, draining, storeFaults>>
allVars == <<part, vars, contextVars, taskVars, storeVars>>

-----------------------------------------------------------------------------
(* The instances *)

Context == INSTANCE ContextObjects WITH
             Protos <- CtxProtos, Deps <- CtxDeps, faults <- contextFaults

Thread == INSTANCE ThreadStore WITH
            pc <- storePc, phase <- storePhase, faults <- storeFaults

-----------------------------------------------------------------------------
(* The values that TLC gives to the constants that are functions *)

\* a injects b and c, and b injects c too: two injections of one object overlap.
Triangle == "a" :> {"b", "c"} @@ "b" :> {"c"} @@ "c" :> {}
TopAndBottom == [r \in Requests |-> IF r = CHOOSE x \in Requests : TRUE THEN "a" ELSE "c"]

\* A request for a controller, for one that injects nothing, or for neither.
\* util is a singleton on the way to b, as service is to both.
Injects ==
  "controller" :> {"service", "a"} @@ "service" :> {"util"} @@ "util" :> {"b"}
    @@ "a" :> {"util", "c"} @@ [p \in {"light", "b", "c", "helper"} |-> {}]

\* All updates are of the same field.
OneField == [u \in Updates |-> CHOOSE x \in Fields : TRUE]

-----------------------------------------------------------------------------
\* The assumptions of the instances.
ASSUME InstancesAssumption ==
  Context!ContextAssumption /\ Context!NoLoopAssumption /\ Thread!CallsAssumption

MCInit ==
  /\ part \in {"objects", "context", "tasks", "store"}
  /\ root \in IF part = "context" THEN Roots \cup {None} ELSE {None}
  /\ hasTimeout \in IF part = "tasks" THEN TimeoutKinds ELSE {TRUE}
  /\ hung \in IF part = "tasks" THEN SUBSET Tasks ELSE {{}}
  /\ Init /\ Context!Init /\ TaskInit /\ Thread!Init
MCNext ==
  /\ UNCHANGED part
  /\ \/ part = "objects" /\ Next /\ UNCHANGED <<contextVars, taskVars, storeVars>>
     \/ part = "context" /\ Context!Next /\ UNCHANGED <<vars, taskVars, storeVars>>
     \/ part = "tasks" /\ TaskNext /\ UNCHANGED <<vars, contextVars, storeVars>>
     \/ part = "store" /\ Thread!Next /\ UNCHANGED <<vars, contextVars, taskVars>>
     \* Of the four only a store may not get stuck: it rests by a step of its own.
     \/ part # "store" /\ UNCHANGED <<vars, contextVars, taskVars, storeVars>>

\* The fairness of the modules, each for its own behaviours.
MCFairness ==
  /\ \A o \in Objects :
       /\ WF_vars(part = "objects" /\ ObjectStep(o))
       /\ WF_vars(part = "objects" /\ DestroyObject(o))
  /\ \A k \in Calls : WF_vars(part = "objects" /\ CallStep(k))
  /\ WF_vars(part = "objects" /\ Destroyed)
  /\ WF_contextVars(part = "context" /\ Context!Next)
  /\ \A t \in Tasks : WF_taskVars(part = "tasks" /\ End(t))
  /\ WF_taskVars(part = "tasks" /\ TasksWin)
  /\ WF_taskVars(part = "tasks" /\ TimeoutWins)
  /\ WF_taskVars(part = "tasks" /\ Again)
  /\ \A o \in Thread!Calls : WF_storeVars(part = "store" /\ (Thread!Step(o) \/ Thread!StorageThrows(o)))
  /\ \A p \in Thread!Tracked : WF_storeVars(part = "store" /\ Thread!Settle(p))
  /\ WF_storeVars(part = "store" /\ Thread!DrainAgain)
MCSpec == MCInit /\ [][MCNext]_allVars /\ MCFairness

-----------------------------------------------------------------------------
(* Properties *)

\* What was created is found and given back: a controller reaches the objects of
\* its context once these are there (ContextObjects), and a container that is
\* destroyed while nobody creates leaves no object alive.
ObjectsAreAccountedFor == CalmDestroyCollects /\ Context!AccessFinds

\* Nobody waits forever.  Every call for an object ends, although objects and
\* initialisations wait for one another; a request is handled or refused with all
\* its calls answered; doPreDestroy returns, whatever hangs, when there is a
\* timeout, and without one when nothing hangs; and every call on a thread ends
\* although others of its key fail, and so does destroy of the store although
\* index writes are added while it waits.
WaitsEnd ==
  []<>(/\ part = "objects" => NoCallIsLeft
       /\ part = "context" => Context!NoCallIsLeft
       /\ part = "tasks" => NoWaitIsLeft
       /\ part = "store" => Thread!NoCallIsLeft)
=============================================================================
