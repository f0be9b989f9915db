--------------------------------- MODULE Aop ---------------------------------
(***************************************************************************)
(* Aspects: how advices are woven into classes while the modules of an     *)
(* application boot, and one call of an advised method (aop-decorator,     *)
(* aop-runtime, plugin/aop).                                               *)
(*                                                                         *)
(* The build hooks of GlobalGraph make a class depend on the advices that  *)
(* are cut into it, so that their modules are created first: a crosscut    *)
(* advice registers itself when its prototype is created, and              *)
(* LoadUnitAopHook reads who is registered when a load unit has all its    *)
(* prototypes.  The method of an object is then replaced by an             *)
(* AspectExecutor.  A class has one advised method here, and an advice has *)
(* every hook: one it lacks is one that passes its input on.               *)
(***************************************************************************)
EXTENDS Naturals, FiniteSets, SequencesExt

CONSTANTS
  Designs,    \* [home, needs, pointcuts, crosscuts]: see DesignAssumption
  None,
  MaxThrows   \* bound on the hooks and calls that throw

\* home: the module of each class; needs: the other edges between modules;
\* pointcuts: per class, what @Pointcut names, from top to bottom;
\* crosscuts: per advice, what @Crosscut matches.  Orders: options?.order.
DesignAssumption ==
  \A d \in Designs :
    /\ d.needs \subseteq Range(d.home) \X Range(d.home)
    /\ IsFiniteSet(DOMAIN d.home)
    /\ \A c \in DOMAIN d.pointcuts :
         d.pointcuts[c] \in Seq([advice : DOMAIN d.crosscuts, order : Nat])
    /\ \A a \in DOMAIN d.crosscuts : d.crosscuts[a] \in Seq([class : DOMAIN d.home, order : Nat])
    /\ DOMAIN d.pointcuts = DOMAIN d.home /\ DOMAIN d.crosscuts \subseteq DOMAIN d.home

VARIABLES
  design,
  edges,        \* the module graph
  created,      \* the load units, in the order of their creation
  registered,   \* crosscutAdviceClazzList
  aspects,      \* per class: the advices of its method, or None
  boot,         \* hooks, units, up, or why it failed
  at, i,        \* of the call: its phase, and the advice whose turn it is
  class,        \* whose method is called
  args,         \* whose arguments ctx.args are: 0 the caller's, or an advice's
  called,       \* the arguments the method was called with, or None
  outcome,      \* value or error, as it stands
  heard,        \* history: the hooks that were called
  throws

weaving == <<design, edges, created, registered, aspects, boot>>
calling == <<at, i, class, args, called, outcome, heard, throws>>
vars == <<weaving, calling>>

AppClasses == DOMAIN design.home
AppModules == Range(design.home)

Init ==
  /\ design \in Designs
  /\ edges = design.needs /\ created = <<>> /\ registered = <<>>
  /\ aspects = [c \in AppClasses |-> None] /\ boot = "hooks"
  /\ at = "idle" /\ i = 0 /\ class = None /\ args = 0 /\ called = None
  /\ outcome = "none" /\ heard = <<>> /\ throws = 0

-----------------------------------------------------------------------------
(* The graph hooks *)

Cuts(a, c) == \E k \in DOMAIN design.crosscuts[a] : design.crosscuts[a][k].class = c
Points(c, a) == \E k \in DOMAIN design.pointcuts[c] : design.pointcuts[c][k].advice = a

\* Every advice is public, as @Advice makes it, so that a pointcut finds it from any module.
Pairs == {p \in AppClasses \X DOMAIN design.crosscuts : Cuts(p[2], p[1]) \/ Points(p[1], p[2])}

\* Mutation: a class does not come to depend on what is cut into it.
Woven_Bug == {p \in Pairs : Points(p[1], p[2])}

\* crossCutGraphHook and pointCutGraphHook: whose load unit must come first.
Woven == Pairs

Loops(V, E) == \E M \in (SUBSET V) \ {{}} : \A m \in M : \E n \in M : <<m, n>> \in E

BuildHooks ==
  /\ boot = "hooks"
  /\ LET homes == {<<design.home[p[1]], design.home[p[2]]>> : p \in Woven}
         E == edges \cup {e \in homes : e[1] # e[2]}
     IN /\ edges' = E
        /\ boot' = IF Loops(AppModules, E) \/ Loops(AppClasses, Woven) THEN "recursive deps" ELSE "units"
  /\ UNCHANGED <<design, created, registered, aspects, calling>>

-----------------------------------------------------------------------------
(* A load unit is created: its prototypes, then LoadUnitAopHook.postCreate *)

ClassesOf(m) == {c \in AppClasses : design.home[c] = m}
Cutting(m) == {a \in ClassesOf(m) \cap DOMAIN design.crosscuts : design.crosscuts[a] # <<>>}
HasProto(c, m) == design.home[c] \in Range(created) \cup {m}

\* An advice of the method: its order, and where it was added.
Info(advice, order, k, j) == [advice |-> advice, order |-> order, at |-> <<k, j>>]

\* CrosscutAdviceFactory.getAdvice, in the order of registration.
Matching(list, c) ==
  UNION {{Info(list[k], design.crosscuts[list[k]][j].order, k, j) :
            j \in {n \in DOMAIN design.crosscuts[list[k]] :
                     design.crosscuts[list[k]][n].class = c}} : k \in DOMAIN list}

\* The pointcuts of the method come after them.
Pointed(list, c) ==
  {Info(design.pointcuts[c][j].advice, design.pointcuts[c][j].order, Len(list) + 1, j) :
     j \in DOMAIN design.pointcuts[c]}

\* Array.prototype.sort is stable: what has one order stays as it was added.
Before(x, y) ==
  \/ x.order < y.order
  \/ x.order = y.order /\ x.at[1] < y.at[1]
  \/ x.order = y.order /\ x.at[1] = y.at[1] /\ x.at[2] < y.at[2]
ByOrder(infos) ==
  [n \in 1 .. Cardinality(infos) |->
     CHOOSE x \in infos : Cardinality({y \in infos : Before(y, x)}) = n - 1]

\* doBuildMethodAspect: the crosscuts, then the pointcuts, by their order.
Aspect(list, c) ==
  LET infos == Matching(list, c) \cup Pointed(list, c) IN
  [n \in 1 .. Cardinality(infos) |-> ByOrder(infos)[n].advice]

CreateUnit(m) ==
  /\ boot = "units" /\ m \notin Range(created)
  /\ \A n \in AppModules : <<m, n>> \in edges => n \in Range(created)
  /\ \E list \in {registered \o s : s \in SetToSeqs(Cutting(m))} :
       /\ registered' = list
       /\ aspects' = [c \in AppClasses |-> IF c \in ClassesOf(m) THEN Aspect(list, c) ELSE aspects[c]]
       /\ boot' = IF \E c \in ClassesOf(m) : \E a \in Range(Aspect(list, c)) : ~HasProto(a, m)
                  THEN "advice_not_found"
                  ELSE IF AppModules = Range(created) \cup {m} THEN "up" ELSE "units"
  /\ created' = Append(created, m)
  /\ UNCHANGED <<design, edges, calling>>

-----------------------------------------------------------------------------
(* AspectExecutor.execute *)

N == Len(aspects[class])
Hear(hook) == heard' = Append(heard, <<hook, i>>)
Throws == throws < MaxThrows /\ throws' = throws + 1
Goes(phase, k) == at' = phase /\ i' = k

Call(c) ==
  /\ boot = "up" /\ at = "idle" /\ aspects[c] # <<>>
  /\ class' = c /\ Goes("beforeCall", 1)
  /\ UNCHANGED <<weaving, args, called, outcome, heard, throws>>

ArgsOf(a) == a

\* Outside the try: one that throws ends the call.
BeforeCall ==
  /\ at = "beforeCall"
  /\ \/ /\ \/ Hear("beforeCall") /\ UNCHANGED args
           \/ heard' = heard \o <<<<"beforeCall", i>>, <<"replaces", i>>>> /\ args' = ArgsOf(i)
        /\ IF i < N THEN Goes("beforeCall", i + 1) ELSE Goes("around", 1)
        /\ UNCHANGED <<throws, outcome>>
     \/ Hear("beforeCall") /\ Throws /\ outcome' = "error" /\ Goes("done", 0) /\ UNCHANGED args
  /\ UNCHANGED <<weaving, class, called>>

\* koa-compose: an advice calls next, or answers without it.
Around ==
  /\ at = "around" /\ i <= N /\ Hear("around")
  /\ \/ Goes("around", i + 1) /\ UNCHANGED <<throws, outcome>>
     \/ outcome' = "value" /\ Goes("back", i - 1) /\ UNCHANGED throws
     \/ Throws /\ outcome' = "error" /\ Goes("back", i - 1)
  /\ UNCHANGED <<weaving, class, args, called>>

\* lastCall
Method ==
  /\ at = "around" /\ i = N + 1
  /\ called' = args
  /\ \/ outcome' = "value" /\ UNCHANGED throws
     \/ Throws /\ outcome' = "error"
  /\ Goes("back", N)
  /\ UNCHANGED <<weaving, class, args, heard>>

\* next() has settled: the advice passes it on, answers an error, or throws;
\* calling next once more is an error of its own.
Back ==
  /\ at = "back" /\ i > 0
  /\ \/ outcome' \in {outcome, "value"} /\ UNCHANGED throws
     \/ Throws /\ outcome' = "error"
  /\ Goes("back", i - 1)
  /\ UNCHANGED <<weaving, class, args, called, heard>>

Executed ==
  /\ at = "back" /\ i = 0
  /\ IF outcome = "value" THEN Goes("afterReturn", 1) ELSE Goes("afterThrow", 1)
  /\ UNCHANGED <<weaving, class, args, called, outcome, heard, throws>>

\* It is caught, unless it comes from the catch itself; finally follows.
Thrown == IF at = "afterReturn" THEN Goes("afterThrow", 1) ELSE Goes("afterFinally", 1)

After ==
  /\ at \in {"afterReturn", "afterThrow"} /\ Hear(at)
  /\ \/ /\ IF i < N THEN Goes(at, i + 1) ELSE Goes("afterFinally", 1)
        /\ UNCHANGED <<throws, outcome>>
     \/ Throws /\ outcome' = "error" /\ Thrown
  /\ UNCHANGED <<weaving, class, args, called>>

AfterFinally ==
  /\ at = "afterFinally" /\ Hear(at)
  /\ \/ /\ IF i < N THEN Goes(at, i + 1) ELSE Goes("done", 0)
        /\ UNCHANGED <<throws, outcome>>
     \/ Throws /\ outcome' = "error" /\ Goes("done", 0)
  /\ UNCHANGED <<weaving, class, args, called>>

Next ==
  \/ BuildHooks
  \/ \E m \in AppModules : CreateUnit(m)
  \/ \E c \in AppClasses : Call(c)
  \/ BeforeCall \/ Around \/ Method \/ Back \/ Executed \/ After \/ AfterFinally
Spec == Init /\ [][Next]_vars

-----------------------------------------------------------------------------
(* Properties *)

Declared(c) == {a \in DOMAIN design.crosscuts : Cuts(a, c) \/ Points(c, a)}

\* Whatever order the load units come in, a class of an application that is up
\* has every advice that a crosscut or a pointcut declares for it; the boot fails
\* only when the modules, with what is cut into them, need each other in a ring
\* (crossCutGraphHook, pointCutGraphHook, LoadUnitAopHook.postCreate).
WovenAsDeclared ==
  /\ boot = "up" => \A c \in AppClasses : Range(aspects[c]) = Declared(c)
  /\ boot # "advice_not_found"

Heard(hook) == {k \in DOMAIN heard : heard[k][1] = hook}
InTurn(hook) == \A k \in Heard(hook) : heard[k][2] = Cardinality({j \in Heard(hook) : j <= k})
LastOf(hook) == heard[CHOOSE k \in Heard(hook) : \A j \in Heard(hook) : j <= k][2]
\* Of a call that got past its beforeCalls every advice hears the end, in order,
\* whatever threw on the way, until an afterFinally throws; and no hook is called
\* twice.  The method has the arguments the beforeCalls made, and the caller has
\* an error only if something threw (AspectExecutor.execute).
CallIsFramed ==
  class # None =>
    /\ \A hook \in {"beforeCall", "afterReturn", "afterThrow", "afterFinally"} : InTurn(hook)
    /\ called # None =>
         called = IF Heard("replaces") = {} THEN 0 ELSE LastOf("replaces")
    /\ outcome = "error" => throws > 0
    /\ at = "done" /\ Cardinality(Heard("beforeCall")) = N /\ Heard("around") # {} =>
         \/ Cardinality(Heard("afterFinally")) = N
         \/ outcome = "error" /\ Heard("afterFinally") # {}

\* plugin/aop/README.md, of afterFinally: it runs when the function is left.  When
\* a beforeCall throws, the advices whose beforeCall was over do not hear of it.
WhoEnteredLeaves ==
  at = "done" => \A k \in 1 .. N - 1 :
    (\E n \in DOMAIN heard : heard[n] = <<"beforeCall", k + 1>>)
      => \E n \in DOMAIN heard : heard[n] = <<"afterFinally", k>>
=============================================================================
