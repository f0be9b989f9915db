---------------------------- MODULE ContextObjects ----------------------------
(***************************************************************************)
(* How the objects of one request come to be: ctxLifecycleMiddleware with  *)
(* EggContextCompatibleHook, EggContainerFactory, ContextInitiator and     *)
(* ContextObjectGraph.                                                     *)
(*                                                                         *)
(* A singleton is made at boot, when there is no context: what it injects  *)
(* of the init type CONTEXT is a getter, which looks the object up in the  *)
(* context of the moment and throws when it is not there.  So whoever asks *)
(* for an object in a context also has its initiator create every CONTEXT  *)
(* object that is read through a getter anywhere below it.  The lookups of *)
(* a container and its end are EggContainer's; here an object is absent,   *)
(* on its way, ready, or failed for good.  Each ask, injection and         *)
(* initialisation is a call with its own place.                            *)
(***************************************************************************)
EXTENDS Naturals, FiniteSets

CONSTANTS
  Protos, Deps,    \* Deps[p]: the protos that p injects
  InContext,       \* the protos whose init type is CONTEXT; others are singletons
  Helper,          \* BackgroundTaskHelper
  Roots,           \* the protos a request may be routed to
  Handler,         \* what the handler asks for, all at once
  None, MaxFaults

ContextAssumption ==
  /\ Deps \in [Protos -> SUBSET Protos]
  /\ InContext \subseteq Protos /\ Helper \in InContext
  /\ Roots \subseteq Protos /\ Handler \subseteq Protos
  /\ None \notin Protos /\ MaxFaults \in Nat

NoLoopAssumption ==
  \A P \in SUBSET Protos : P # {} => \E p \in P : Deps[p] \cap P = {}

\* A call is <<why, for which object, of which proto>>.
Calls == {k \in {"inject"} \X Protos \X Protos : k[3] \in Deps[k[2]]}
         \cup ({"init"} \X Protos \X InContext)
         \cup ({"pre", "list", "post", "handler"} \X {None} \X Protos)
Want(k) == k[3]

VARIABLES
  root,     \* ROOT_PROTO of the context, or None
  place,    \* where ctxLifecycleMiddleware is
  object,   \* per proto: absent, creating, injecting, ready, failed
  record,   \* the initiator's records: none, running, done, failed
  call,     \* per call: idle, object, init, returned, failed
  faults

vars == <<root, place, object, record, call, faults>>

TypeOK ==
  /\ root \in Roots \cup {None}
  /\ place \in {"new", "pre", "list", "post", "handler", "failed"}
  /\ object \in [Protos -> {"absent", "creating", "injecting", "ready", "failed"}]
  /\ record \in [Protos -> {"none", "running", "done", "failed"}]
  /\ call \in [Calls -> {"idle", "object", "init", "returned", "failed"}]
  /\ faults \in 0 .. MaxFaults

Init ==
  /\ root \in Roots \cup {None} /\ place = "new"
  /\ object = [p \in Protos |-> IF p \in InContext THEN "absent" ELSE "ready"]
  /\ record = [p \in Protos |-> "none"]
  /\ call = [k \in Calls |-> "idle"] /\ faults = 0

-----------------------------------------------------------------------------
(* ContextObjectGraph: the getters below an object *)

Grow(P) == P \cup UNION {Deps[p] : p \in P}
Reach[n \in 0 .. Cardinality(Protos)] ==
  [p \in Protos |-> IF n = 0 THEN {p} ELSE Grow(Reach[n - 1][p])]
BelowOf == [p \in Protos |-> Reach[Cardinality(Protos)][p]]
Below(p) == BelowOf[p]

\* What p reads through getters of its own.
Getters(p) == IF p \in InContext THEN {} ELSE Deps[p] \cap InContext

\* Mutation: the protos that are injected are not followed.
ContextProtos_Bug(p) == Getters(p)

ContextProtos(p) == UNION {Getters(q) : q \in Below(p)}

-----------------------------------------------------------------------------
(* EggContainerFactory.getOrCreateEggObject, up to the container's answer *)

Asked(K, also) ==
  /\ call' = [k \in Calls |-> IF k \in K THEN "object" ELSE also[k]]
  /\ object' = [p \in Protos |->
       IF object[p] = "absent" /\ p \in {Want(k) : k \in K} THEN "creating" ELSE object[p]]

InjectionsOf(p) == {"inject"} \X {p} \X Deps[p]
InitsOf(p) == {"init"} \X {p} \X ContextProtos(p)

\* The hooks of an object on its way are over: it asks for what it injects.
Inject(p) ==
  /\ object[p] = "creating"
  /\ call' = [k \in Calls |-> IF k \in InjectionsOf(p) THEN "object" ELSE call[k]]
  /\ object' = [q \in Protos |->
       IF q = p THEN "injecting"
       ELSE IF object[q] = "absent" /\ q \in Deps[p] THEN "creating" ELSE object[q]]
  /\ UNCHANGED <<root, place, record, faults>>

\* Mutation: a CONTEXT object waits for its own initialisation too.
Made_Bug(p) ==
  /\ object[p] = "injecting" /\ \A k \in InjectionsOf(p) : call[k] = "returned"
  /\ record[p] = "done"
  /\ object' = [object EXCEPT ![p] = "ready"]
  /\ UNCHANGED <<root, place, record, call, faults>>

\* What it injects has come, initialised for this context: the object is ready.
Made(p) ==
  /\ object[p] = "injecting" /\ \A k \in InjectionsOf(p) : call[k] = "returned"
  /\ object' = [object EXCEPT ![p] = "ready"]
  /\ UNCHANGED <<root, place, record, call, faults>>

\* A hook throws, or an injection fails; the promise stays and stays rejected.
Breaks(p) ==
  /\ \/ object[p] = "creating" /\ faults < MaxFaults /\ faults' = faults + 1
     \/ /\ object[p] = "injecting" /\ \E k \in InjectionsOf(p) : call[k] = "failed"
        /\ faults' = faults
  /\ object' = [object EXCEPT ![p] = "failed"]
  /\ UNCHANGED <<root, place, record, call>>

-----------------------------------------------------------------------------
(* ContextInitiator.init *)

\* The first call for an object starts it, the others wait for it.
Starts(k) ==
  LET p == Want(k) IN
  IF record[p] = "none"
  THEN /\ record' = [record EXCEPT ![p] = "running"]
       /\ Asked(InitsOf(p), [call EXCEPT ![k] = "init"])
  ELSE /\ call' = [call EXCEPT ![k] = "init"] /\ UNCHANGED <<record, object>>

\* The container has answered; the objects of protoToCreate are not initiated.
Got(k) ==
  /\ call[k] = "object" /\ object[Want(k)] = "ready"
  /\ IF k[1] = "list" THEN call' = [call EXCEPT ![k] = "returned"] /\ UNCHANGED <<record, object>>
                      ELSE Starts(k)
  /\ UNCHANGED <<root, place, faults>>

Initiated(p) ==
  /\ record[p] = "running" /\ \A k \in InitsOf(p) : call[k] = "returned"
  /\ record' = [record EXCEPT ![p] = "done"]
  /\ UNCHANGED <<root, place, object, call, faults>>

InitiationFails(p) ==
  /\ record[p] = "running" /\ \E k \in InitsOf(p) : call[k] = "failed"
  /\ record' = [record EXCEPT ![p] = "failed"]
  /\ UNCHANGED <<root, place, object, call, faults>>

Return(k) ==
  /\ call[k] = "init" /\ record[Want(k)] = "done"
  /\ call' = [call EXCEPT ![k] = "returned"]
  /\ UNCHANGED <<root, place, object, record, faults>>

Throw(k) ==
  /\ \/ call[k] = "object" /\ object[Want(k)] = "failed"
     \/ call[k] = "init" /\ record[Want(k)] = "failed"
  /\ call' = [call EXCEPT ![k] = "failed"]
  /\ UNCHANGED <<root, place, object, record, faults>>

-----------------------------------------------------------------------------
(* ctxLifecycleMiddleware: init of the context, then next() *)

Of(why) == {k \in Calls : k[1] = why /\ call[k] # "idle"}
Over(why) == \A k \in Of(why) : call[k] = "returned"
AsksFor(why, P) == Asked({why} \X {None} \X P, call)

\* preCreate: with a root proto, BackgroundTaskHelper, which must be there for
\* a call that cannot wait; without one, everything of the context is listed.
PreCreate ==
  /\ place = "new" /\ place' = "pre"
  /\ AsksFor("pre", IF root = None THEN {} ELSE {Helper})
  /\ UNCHANGED <<root, record, faults>>

\* init creates what was listed, one after the other.  The list is kept by name: the
\* protos of a context have one each here.
Listed == {Want(k) : k \in Of("list")}
CreateListed ==
  /\ place = "pre" /\ Over("pre") /\ Over("list") /\ root = None
  /\ \E p \in InContext \ Listed : AsksFor("list", {p})
  /\ UNCHANGED <<root, place, record, faults>>

PostCreate ==
  /\ place = "pre" /\ Over("pre") /\ Over("list")
  /\ root = None => Listed = InContext
  /\ place' = "post"
  /\ AsksFor("post", IF root = None THEN {} ELSE {root})
  /\ UNCHANGED <<root, record, faults>>

\* next(): the handler runs, and asks for objects of its own.
Handle ==
  /\ place = "post" /\ Over("post") /\ place' = "handler"
  /\ AsksFor("handler", Handler)
  /\ UNCHANGED <<root, record, faults>>

\* init throws: the request ends there.
Refuse ==
  /\ place \in {"pre", "post"}
  /\ \E why \in {"pre", "list", "post"} : \E k \in Of(why) : call[k] = "failed"
  /\ place' = "failed"
  /\ UNCHANGED <<root, object, record, call, faults>>

Step ==
  \/ \E p \in Protos : Inject(p) \/ Made(p) \/ Breaks(p) \/ Initiated(p) \/ InitiationFails(p)
  \/ \E k \in Calls : Got(k) \/ Return(k) \/ Throw(k)
Middleware == PreCreate \/ CreateListed \/ PostCreate \/ Handle \/ Refuse
Next == Step \/ Middleware

\* The promises of a process settle: whatever is enabled is run at last.
Fairness == WF_vars(Next)
Spec == Init /\ [][Next]_vars /\ Fairness

-----------------------------------------------------------------------------
(* Properties *)

\* Nothing that is read through p, at any depth, throws for want of an object.
Readable(p) == \A q \in Below(p) : \A d \in Getters(q) : object[d] = "ready"

\* Who has its object, whether it started the initialisation or found it under
\* way, can read through every getter below it, in this context; so can the
\* handler, through its root proto, and through anything when it has none, and
\* it has BackgroundTaskHelper at hand (ContextInitiator.init,
\* ContextObjectGraph.getContextProto, EggContextCompatibleHook).
AccessFinds ==
  /\ \A k \in Calls : call[k] = "returned" /\ k[1] # "list" => Readable(Want(k))
  /\ place = "handler" =>
       /\ object[Helper] = "ready"
       /\ IF root = None THEN \A p \in Protos : Readable(p) ELSE Readable(root)

\* Objects and initialisations wait for one another, and never in a ring: every
\* call of a request returns or throws, and the request is handled or refused.
NoCallIsLeft ==
  /\ place \in {"handler", "failed"}
  /\ \A k \in Calls : call[k] \notin {"object", "init"}
EveryCallEnds == []<>NoCallIsLeft
=============================================================================
