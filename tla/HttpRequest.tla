----------------------------- MODULE HttpRequest -----------------------------
(***************************************************************************)
(* One request to an HTTP method of a controller, in the egg plugin and in *)
(* the service worker: the layers the method has, one for each of its      *)
(* hosts, the middlewares, access control and advices that wrap it, its    *)
(* timeout, and the answer that is made of what it returns.                *)
(* (HTTPMethodRegister of both, Acl, TimerUtil; the router calls the       *)
(* layers that match the path one inside the other, as koa does.)          *)
(* Middlewares write the response, methods and advices return.             *)
(***************************************************************************)
EXTENDS Naturals, SequencesExt

CONSTANTS
  ClassFns, MethodFns,      \* function middlewares of the class, of the method
  ClassAdvices, MethodAdvices,
  HostLists,                \* the hosts a method may have
  RequestHosts,             \* the hosts a request may be for
  None                      \* also the host of a method that has none

Wrappers == <<ClassFns, MethodFns, ClassAdvices, MethodAdvices>>

\* What wraps a method is named by its use: each use has a name of its own.
HttpAssumption ==
  /\ \A k \in DOMAIN Wrappers :
       /\ Wrappers[k] \in Seq(ToSet(Wrappers[k])) /\ IsInjective(Wrappers[k])
       /\ ToSet(Wrappers[k]) \cap {None, "acl", "handler", "method", "null"} = {}
  /\ \A j, k \in DOMAIN Wrappers :
       j # k => ToSet(Wrappers[j]) \cap ToSet(Wrappers[k]) = {}
  /\ None \notin {"acl", "handler", "method", "null"}
  /\ \A s \in HostLists : s \in Seq(ToSet(s)) /\ s # <<>>

VARIABLES
  host,         \* "egg" or "worker"
  served,       \* the hosts of the method, <<None>> of one that has none
  wanted,       \* the host of the request
  acl, timed,   \* what the method or its class declares
  layer,        \* the layer the request is in
  entered,      \* of each layer, what was entered, in order
  inside,       \* how many of the layer's chain are inside their next
  going,        \* "in", "out" or "done"
  failed,       \* an error is on its way out
  result,       \* what came out of the innermost: None, "null", or who returned it
  method,       \* "idle", "running", "late" or "over"
  explicit,     \* a status was set
  body          \* whose body the response has

vars == <<host, served, wanted, acl, timed, layer, entered, inside, going, failed, result,
          method, explicit, body>>

given == <<host, served, wanted, acl, timed>>

Init ==
  /\ host \in {"egg", "worker"} /\ acl \in BOOLEAN /\ timed \in BOOLEAN
  /\ served \in HostLists /\ wanted \in RequestHosts
  /\ layer = 1 /\ entered = [k \in DOMAIN served |-> <<>>]
  /\ inside = 0 /\ going = "in" /\ failed = FALSE
  /\ result = None /\ method = "idle" /\ explicit = FALSE /\ body = None

-----------------------------------------------------------------------------
(* The chain of a layer *)

\* Mutation: a class that has middlewares hides those of its methods.
MethodMiddlewares_Bug == IF ClassFns = <<>> THEN MethodFns ELSE ClassFns

MethodMiddlewares == ClassFns \o MethodFns

\* The service worker runs the advices of the class and the method as middlewares,
\* and knows neither access control nor timeouts.
AopMiddlewares == ClassAdvices \o MethodAdvices

Layers ==
  IF host = "worker" THEN AopMiddlewares \o MethodMiddlewares
  ELSE MethodMiddlewares \o IF acl THEN <<"acl">> ELSE <<>>

\* The egg plugin makes pointcuts of them, the method's outermost.
Pointcuts == IF host = "egg" THEN MethodAdvices \o ClassAdvices ELSE <<>>

Chain == Layers \o <<"handler">> \o Pointcuts
AtHandler == Len(Layers) + 1

\* The handler of a layer takes the requests for its host, or all.
Takes(k) == served[k] \in {None, wanted}

-----------------------------------------------------------------------------
(* On the way in *)

Goes == inside' = inside + 1 /\ UNCHANGED <<going, failed>>
Throws == inside' = inside /\ going' = "out" /\ failed' = TRUE
Returns == inside' = inside /\ going' = "out" /\ failed' = FALSE

Entering == entered' = [entered EXCEPT ![layer] = Append(@, Chain[inside + 1])]

\* A middleware may write the response, and calls next, throws, or does neither.
EnterMiddleware ==
  LET w == Chain[inside + 1] IN
  /\ going = "in" /\ inside + 1 < AtHandler /\ w # "acl" /\ Entering
  /\ Goes \/ Throws \/ Returns
  /\ body' \in {body, w} /\ explicit' = (explicit \/ body' = w)
  /\ UNCHANGED <<given, layer, result, method>>

\* Access control that denies throws, or writes where to go instead.
CheckAcl ==
  /\ going = "in" /\ inside + 1 < AtHandler /\ Chain[inside + 1] = "acl" /\ Entering
  /\ \/ (Goes \/ Throws) /\ UNCHANGED <<body, explicit>>
     \/ Returns /\ body' = "acl" /\ explicit' = TRUE
  /\ UNCHANGED <<given, layer, result, method>>

\* The handler may not get its object.
EnterHandler ==
  /\ going = "in" /\ inside + 1 = AtHandler /\ Takes(layer) /\ Entering
  /\ Goes \/ Throws
  /\ UNCHANGED <<given, layer, result, method, explicit, body>>

\* The handler of a layer for another host calls next: the layer of the next host,
\* with its own middlewares, or nothing.
PassOn ==
  /\ going = "in" /\ inside + 1 = AtHandler /\ ~Takes(layer)
  /\ \/ layer < Len(served) /\ layer' = layer + 1 /\ inside' = 0 /\ UNCHANGED going
     \/ layer = Len(served) /\ going' = "out" /\ UNCHANGED <<layer, inside>>
  /\ UNCHANGED <<given, entered, failed, result, method, explicit, body>>

\* An advice may return something itself.
EnterAdvice ==
  LET w == Chain[inside + 1] IN
  /\ going = "in" /\ AtHandler <= inside /\ inside < Len(Chain) /\ method = "idle" /\ Entering
  /\ \/ (Goes \/ Throws) /\ UNCHANGED result
     \/ Returns /\ result' \in {w, "null"}
  /\ UNCHANGED <<given, layer, method, explicit, body>>

CallMethod ==
  /\ going = "in" /\ inside = Len(Chain) /\ method = "idle"
  /\ method' = "running"
  /\ UNCHANGED <<given, layer, entered, inside, going, failed, result, explicit, body>>

\* It may have set a status.
Return ==
  /\ method = "running" /\ method' = "over" /\ explicit' \in {explicit, TRUE}
  /\ \/ Returns /\ result' \in {"null", "method"}
     \/ Throws /\ UNCHANGED result
  /\ UNCHANGED <<given, layer, entered, body>>

-----------------------------------------------------------------------------
(* The timeout *)

\* It covers the method and its advices, and leaves them running: what they have
\* not done yet is done late, and nobody gets what they return.
Timeout ==
  /\ timed /\ host = "egg" /\ inside >= AtHandler
  /\ inside' = AtHandler - 1 /\ going' = "out" /\ failed' = TRUE /\ result' = None
  /\ method' = IF going = "in" THEN "late" ELSE method
  /\ UNCHANGED <<given, layer, entered, explicit, body>>

\* Nobody waits for it any more.
LateBody == body

LateReturn ==
  /\ method = "late" /\ method' = "over" /\ body' = LateBody
  /\ UNCHANGED <<given, layer, entered, inside, going, failed, result, explicit>>

-----------------------------------------------------------------------------
(* On the way out *)

\* An advice returns what it got, or something itself whatever it got, or throws.
LeaveAdvice ==
  /\ going = "out" /\ inside > AtHandler /\ inside' = inside - 1
  /\ \/ failed' = TRUE /\ result' = None
     \/ failed' = FALSE /\ result' \in {Chain[inside], "null"}
     \/ UNCHANGED <<failed, result>>
  /\ UNCHANGED <<given, layer, entered, going, method, explicit, body>>

\* The handler answers with the result: in egg one that is null does not replace
\* what was set with a status.
Answer ==
  IF host = "egg" /\ result = "null" /\ explicit THEN body ELSE result

LeaveHandler ==
  /\ going = "out" /\ inside = AtHandler /\ inside' = inside - 1
  /\ body' = IF failed THEN body ELSE Answer
  /\ explicit' = (explicit \/ ~failed)
  /\ UNCHANGED <<given, layer, entered, going, failed, result, method>>

\* A middleware may write the response, catch what was thrown, and throw; the access
\* control does none of it.
LeaveMiddleware ==
  LET w == Chain[inside] IN
  /\ going = "out" /\ 0 < inside /\ inside < AtHandler /\ inside' = inside - 1
  /\ IF w = "acl" THEN UNCHANGED <<failed, body>>
     ELSE failed' \in BOOLEAN /\ body' \in {body, w}
  /\ UNCHANGED <<given, layer, entered, going, result, method, explicit>>

\* Back through the handler that passed the request on.
LeaveLayer ==
  /\ going = "out" /\ inside = 0 /\ layer > 1
  /\ layer' = layer - 1 /\ inside' = AtHandler - 1
  /\ UNCHANGED <<given, entered, going, failed, result, method, explicit, body>>

Done ==
  /\ going = "out" /\ inside = 0 /\ layer = 1 /\ going' = "done"
  /\ UNCHANGED <<given, layer, entered, inside, failed, result, method, explicit, body>>

Next ==
  \/ EnterMiddleware \/ CheckAcl \/ EnterHandler \/ PassOn \/ EnterAdvice
  \/ CallMethod \/ Return \/ Timeout \/ LateReturn
  \/ LeaveAdvice \/ LeaveHandler \/ LeaveMiddleware \/ LeaveLayer \/ Done

Spec == Init /\ [][Next]_vars

-----------------------------------------------------------------------------
(* Properties *)

Fns == ToSet(ClassFns) \cup ToSet(MethodFns)
Advices == ToSet(ClassAdvices) \cup ToSet(MethodAdvices)
At(e, w) == CHOOSE i \in DOMAIN e : e[i] = w

\* What was entered of a layer is each function middleware, once, those of the class
\* first, and in egg after them the access control the method declares.
Wrapped(e) ==
  /\ Fns \subseteq ToSet(e)
  /\ \A i, j \in DOMAIN e : e[i] = e[j] => i = j
  /\ \A c \in ToSet(ClassFns), m \in ToSet(MethodFns) : At(e, c) < At(e, m)
  /\ host = "egg" /\ acl => "acl" \in ToSet(e) /\ \A f \in Fns : At(e, f) < At(e, "acl")

\* A method is called only for a host it has, inside all its middlewares and advices:
\* those of its host's layer and, around them, the middlewares of the layers of the
\* hosts before it, which ran too; no layer behind it was entered (register).
MethodIsWrapped ==
  method = "running" =>
    /\ Takes(layer)
    /\ \A k \in DOMAIN served : IF k <= layer THEN Wrapped(entered[k]) ELSE entered[k] = <<>>
    /\ Advices \subseteq ToSet(entered[layer])

\* The response has what the method returned only when it returned in time and its
\* advices let it through; and then it has just that, unless a middleware wrote over
\* it afterwards (createHandler, TimerUtil.timeout).
AnswersOnce ==
  /\ method = "late" => body # "method"
  /\ body = "method" => method = "over" /\ result = "method"
  /\ going = "done" /\ result = "method" => body \in {"method"} \cup Fns \cup Advices
=============================================================================
