----------------------------- MODULE EggContainer -----------------------------
(***************************************************************************)
(* The container of one request context: AbstractEggContext, with the      *)
(* EggObjectImpl life cycle of the objects in it.                          *)
(*                                                                         *)
(* A caller captures the map of the proto before its first await, and      *)
(* either finds the object, or waits for the promise of the creation that  *)
(* is under way, or starts one and stores its object in the captured map   *)
(* when it is done.  Creating an object asks for the objects it injects,   *)
(* all at once.  destroy forgets the maps and destroys what was in them;   *)
(* nothing stops the callers that are still on their way: they go on with  *)
(* the maps of the scope they asked in.  ModuleLoadUnitInstance and        *)
(* AppLoadUnitInstance keep their singletons by the same code.             *)
(***************************************************************************)
EXTENDS Naturals, FiniteSets

CONSTANTS
  Protos, Deps,        \* Deps[p]: the protos p injects
  Requests, WantOf,    \* the callers from outside, and what each asks for
  None,
  MaxRounds,           \* bound on the creations of one proto
  MaxFaults            \* bound on the hooks that throw

Scopes == {0, 1}       \* before and after the maps are forgotten
Objects == Protos \X (1 .. MaxRounds)
Injections == Objects \X Protos
Calls == Requests \cup Injections

ASSUME ContainerAssumption ==
  /\ Deps \in [Protos -> SUBSET Protos]
  /\ WantOf \in [Requests -> Protos]
  /\ Requests \cap Injections = {}
  /\ None \notin Objects
  /\ MaxRounds \in Nat /\ MaxFaults \in Nat

\* The proto graph has no loop (GlobalGraph and AppGraph refuse one at boot).
ASSUME NoLoopAssumption ==
  \A P \in SUBSET Protos : P # {} => \E p \in P : Deps[p] \cap P = {}

VARIABLES
  store,       \* the object map of each scope
  scope,       \* which one eggObjectMap refers to now
  promise,     \* eggObjectPromiseMap: the creation under way, or failed
  made,        \* how many objects of a proto have been constructed
  status,      \* EggObjectStatus, PENDING split at the injection
  pc, seen, uses, got,  \* of a call: place, captured scope, creation, answer
  phase,       \* the context: up, destroying, destroyed, broken
  leaving,     \* what Promise.all of destroy waits for
  settled,     \* history: nobody was on the way when destroy forgot the maps
  faults

callVars == <<pc, seen, uses, got>>
mapVars == <<store, promise, made>>
downVars == <<scope, phase, leaving, settled>>
vars == <<mapVars, status, callVars, downVars, faults>>

Want(c) == IF c \in Requests THEN WantOf[c] ELSE c[2]
InjectionsOf(o) == {o} \X Deps[o[1]]
Built == {"ready", "destroying", "destroyed"}

Init ==
  /\ store = [s \in Scopes |-> [p \in Protos |-> None]] /\ scope = 0
  /\ promise = [p \in Protos |-> None]
  /\ made = [p \in Protos |-> 0]
  /\ status = [o \in Objects |-> "absent"]
  /\ pc = [c \in Calls |-> "idle"] /\ seen = [c \in Calls |-> 0]
  /\ uses = [c \in Calls |-> None] /\ got = [c \in Calls |-> None]
  /\ phase = "up" /\ leaving = {} /\ settled = FALSE
  /\ faults = 0

-----------------------------------------------------------------------------
(* getOrCreateEggObject, up to its first await.  Asked(C): the calls in C, *)
(* of distinct protos, run that part in one turn.                          *)

Stored(p) == store[scope][p]

New(p) == <<p, made[p] + 1>>

\* Mutation: the creations under way are not looked up.
Joins_Bug(c) == FALSE

Joins(c) == Stored(Want(c)) = None /\ promise[Want(c)] # None
Finds(c) == Stored(Want(c)) # None
Creates(c) == ~Finds(c) /\ ~Joins(c)

Asked(C) ==
  LET Starting == {Want(c) : c \in {d \in C : Creates(d)}} IN
  /\ \A p \in Starting : made[p] < MaxRounds
  /\ pc' = [c \in Calls |-> IF c \notin C THEN pc[c]
                            ELSE IF Finds(c) THEN "returned"
                            ELSE IF Joins(c) THEN "waiting" ELSE "owner"]
  /\ seen' = [c \in Calls |-> IF c \in C THEN scope ELSE seen[c]]
  /\ uses' = [c \in Calls |-> IF c \notin C \/ Finds(c) THEN uses[c]
                              ELSE IF Joins(c) THEN promise[Want(c)] ELSE New(Want(c))]
  /\ got' = [c \in Calls |-> IF c \in C /\ Finds(c) THEN Stored(Want(c)) ELSE got[c]]
  /\ promise' = [p \in Protos |-> IF p \in Starting THEN New(p) ELSE promise[p]]
  /\ made' = [p \in Protos |-> IF p \in Starting THEN made[p] + 1 ELSE made[p]]
  /\ UNCHANGED store

Started(C) == {New(Want(c)) : c \in {d \in C : Creates(d)}}
Becomes(O, st) == [o \in Objects |-> IF o \in O THEN st ELSE status[o]]

\* A caller asks; nothing stops it from asking a context that is destroyed.
Ask(r) ==
  /\ pc[r] = "idle"
  /\ Asked({r})
  /\ status' = Becomes(Started({r}), "pending")
  /\ UNCHANGED <<downVars, faults>>

-----------------------------------------------------------------------------
(* EggObjectImpl.init *)

\* The hooks before the injection are over: every dependency is asked for.
Inject(o) ==
  /\ status[o] = "pending"
  /\ Asked(InjectionsOf(o))
  /\ status' = [Becomes(Started(InjectionsOf(o)), "pending") EXCEPT ![o] = "injecting"]
  /\ UNCHANGED <<downVars, faults>>

Injected(o) == \A c \in InjectionsOf(o) : pc[c] = "returned"

\* Mutation: init does not wait for the injection.
Finish_Bug(o) ==
  /\ status[o] = "injecting"
  /\ status' = [status EXCEPT ![o] = "ready"]
  /\ UNCHANGED <<mapVars, callVars, downVars, faults>>

\* The hooks after it are over: READY, and the creation resolves.
Finish(o) ==
  /\ status[o] = "injecting" /\ Injected(o)
  /\ status' = [status EXCEPT ![o] = "ready"]
  /\ UNCHANGED <<mapVars, callVars, downVars, faults>>

\* A hook or the constructor throws: ERROR, and the creation rejects.
HookThrows(o) ==
  /\ faults < MaxFaults /\ faults' = faults + 1
  /\ status[o] = "pending" \/ (status[o] = "injecting" /\ Injected(o))
  /\ status' = [status EXCEPT ![o] = "error"]
  /\ UNCHANGED <<mapVars, callVars, downVars>>

\* One injection fails: ERROR at once; the others go on.
InjectionFails(o) ==
  /\ status[o] = "injecting"
  /\ \E c \in InjectionsOf(o) : pc[c] = "failed"
  /\ status' = [status EXCEPT ![o] = "error"]
  /\ UNCHANGED <<mapVars, callVars, downVars, faults>>

-----------------------------------------------------------------------------
(* getOrCreateEggObject, after its await *)

Answers(c, o) ==
  /\ pc' = [pc EXCEPT ![c] = IF o = None THEN "failed" ELSE "returned"]
  /\ got' = [got EXCEPT ![c] = o]
  /\ UNCHANGED <<seen, uses>>

\* The creator resumes first.
OwnerStores(c) ==
  /\ pc[c] = "owner" /\ status[uses[c]] \in Built
  /\ promise' = [promise EXCEPT ![Want(c)] = None]
  /\ store' = [store EXCEPT ![seen[c]][Want(c)] = uses[c]]
  /\ Answers(c, uses[c])
  /\ UNCHANGED <<made, status, downVars, faults>>

\* A waiter reads the map it captured.  When the creator had captured the map
\* of the scope before it finds nothing, and ContextInitiator throws.
WaiterResumes(c) ==
  /\ pc[c] = "waiting" /\ status[uses[c]] \in Built
  /\ promise[Want(c)] # uses[c]
  /\ Answers(c, store[seen[c]][Want(c)])
  /\ UNCHANGED <<mapVars, status, downVars, faults>>

\* Mutation: the failed creation is dropped by whoever sees it first.
CallFails_Bug(c) ==
  /\ pc[c] \in {"owner", "waiting"} /\ status[uses[c]] = "error"
  /\ promise' = [promise EXCEPT ![Want(c)] = None]
  /\ Answers(c, None)
  /\ UNCHANGED <<store, made, status, downVars, faults>>

\* The creation rejected.  Its promise stays in the map.
CallFails(c) ==
  /\ pc[c] \in {"owner", "waiting"} /\ status[uses[c]] = "error"
  /\ Answers(c, None)
  /\ UNCHANGED <<mapVars, status, downVars, faults>>

-----------------------------------------------------------------------------
(* destroy *)

Rests(c) == pc[c] \notin {"owner", "waiting"}

Kept == {store[scope][p] : p \in Protos} \ {None}

\* The maps are forgotten; every object that was in them and is READY starts
\* to be destroyed.
Destroy ==
  /\ phase = "up" /\ phase' = "destroying"
  /\ leaving' = Kept
  /\ status' = [o \in Objects |-> IF o \in Kept /\ status[o] = "ready"
                                  THEN "destroying" ELSE status[o]]
  /\ scope' = 1
  /\ settled' = \A c \in Calls : Rests(c)
  /\ UNCHANGED <<mapVars, callVars, faults>>

\* The destroy hooks of an object are over.
DestroyObject(o) ==
  /\ o \in leaving /\ leaving' = leaving \ {o}
  /\ status' = [status EXCEPT ![o] = IF @ = "destroying" THEN "destroyed" ELSE @]
  /\ UNCHANGED <<mapVars, callVars, scope, phase, settled, faults>>

\* One of them throws: destroy rejects at once; the others go on.
DestroyThrows(o) ==
  /\ faults < MaxFaults /\ faults' = faults + 1
  /\ o \in leaving /\ leaving' = leaving \ {o}
  /\ phase' = "broken"
  /\ UNCHANGED <<mapVars, callVars, status, scope, settled>>

Destroyed ==
  /\ phase = "destroying" /\ leaving = {}
  /\ phase' = "destroyed"
  /\ UNCHANGED <<mapVars, callVars, status, scope, leaving, settled, faults>>

-----------------------------------------------------------------------------
ObjectStep(o) ==
  Inject(o) \/ Finish(o) \/ InjectionFails(o)
CallStep(c) == OwnerStores(c) \/ WaiterResumes(c) \/ CallFails(c)

Next ==
  \/ \E r \in Requests : Ask(r)
  \/ \E o \in Objects : ObjectStep(o) \/ HookThrows(o)
  \/ \E c \in Calls : CallStep(c)
  \/ Destroy \/ Destroyed
  \/ \E o \in Objects : DestroyObject(o) \/ DestroyThrows(o)

Spec == Init /\ [][Next]_vars

\* Hooks end, and the microtasks of settled promises run.
Fairness ==
  /\ \A o \in Objects : WF_vars(ObjectStep(o)) /\ WF_vars(DestroyObject(o))
  /\ \A c \in Calls : WF_vars(CallStep(c))
  /\ WF_vars(Destroyed)
FairSpec == Spec /\ Fairness

-----------------------------------------------------------------------------
(* Properties *)

\* Types.
TypeOK ==
  /\ store \in [Scopes -> [Protos -> Objects \cup {None}]]
  /\ scope \in Scopes /\ scope = (IF phase = "up" THEN 0 ELSE 1)
  /\ promise \in [Protos -> Objects \cup {None}]
  /\ made \in [Protos -> 0 .. MaxRounds]
  /\ status \in [Objects -> {"absent", "pending", "injecting", "error"} \cup Built]
  /\ pc \in [Calls -> {"idle", "owner", "waiting", "returned", "failed"}]
  /\ seen \in [Calls -> Scopes]
  /\ uses \in [Calls -> Objects \cup {None}]
  /\ got \in [Calls -> Objects \cup {None}]
  /\ phase \in {"up", "destroying", "destroyed", "broken"}
  /\ leaving \subseteq Objects /\ settled \in BOOLEAN
  /\ faults \in 0 .. MaxFaults

\* Two callers that asked for a proto in the same scope and were answered
\* hold the same object, however their asks, the creation and destroy
\* interleave (getOrCreateEggObject).
OneObjectPerScope ==
  \A c, d \in Calls :
    /\ pc[c] = "returned" /\ pc[d] = "returned"
    /\ Want(c) = Want(d) /\ seen[c] = seen[d]
    => got[c] = got[d]

\* An object is READY only when everything it injects has been READY before
\* it, and no caller is handed an object under construction or a failed one
\* (EggObjectImpl.init, getOrCreateEggObject).
InjectedFirst ==
  /\ \A c \in Calls : pc[c] = "returned" => got[c] \in Objects /\ status[got[c]] \in Built
  /\ \A o \in Objects : status[o] \in Built => Injected(o)

\* The callers of a proto in a live context share its fate: when one of them
\* fails none of them is answered, then or later (the rejected promise stays).
FailureIsShared ==
  \A c, d \in Calls :
    /\ Want(c) = Want(d) /\ seen[c] = 0 /\ seen[d] = 0
    /\ pc[c] = "failed"
    => pc[d] # "returned"

\* When nobody was on the way as destroy forgot the maps, and nobody asked
\* after that, destroy leaves no object alive.
CalmDestroyCollects ==
  phase = "destroyed" /\ settled
    /\ (\A c \in Calls : pc[c] # "idle" => seen[c] = 0)
  => \A o \in Objects : status[o] \in {"absent", "error", "destroyed"}

\* Every caller is answered: the waits follow the injections, which have no
\* loop, and a caller that waits for a creation across destroy is woken too.
NoCallIsLeft == \A c \in Calls : pc[c] \in {"idle", "returned", "failed"}
CallsReturn == []<>NoCallIsLeft
=============================================================================
