--------------------------------- MODULE Routes ---------------------------------
(***************************************************************************)
(* The routes of HTTP and WebSocket controllers: collected while load      *)
(* units are created, sorted by priority, checked for conflicts, put into  *)
(* the router, and matched with requests.  An egg application registers    *)
(* them at didLoad, a service worker when the first event comes.           *)
(***************************************************************************)
EXTENDS SequencesExt, FiniteSets, Integers

CONSTANTS
  Controllers,   \* what a controller may be, one method each
  EggRoutes,     \* what egg's own router has, by verb and path
  Requests,      \* requests, by verb, path and host
  Events,        \* events of a service worker, or upgrades of a server
  MaxControllers, MaxFaults

\* A path is a sequence of segments; ":" is a parameter. No host is "".
RoutesAssumption ==
  /\ \A c \in Controllers :
       /\ c.kind \in {"HTTP", "WEBSOCKET"} /\ c.priority \in Int
       /\ c.path # <<>> /\ c.path \in Seq(Range(c.path))
       /\ c.kind = "WEBSOCKET" => c.verb = "GET"
       /\ c.hosts \in Seq(Range(c.hosts)) /\ "" \notin Range(c.hosts) /\ IsInjective(c.hosts)
  /\ \A q \in Requests : q.path \in Seq(Range(q.path)) /\ ":" \notin Range(q.path)
  /\ MaxControllers \in Nat /\ MaxFaults \in Nat

VARIABLES
  host,          \* "egg" or "worker"
  controllers,   \* the controllers collected
  phase,         \* of egg: collect, ready, or the error
  checkRouters,  \* by kind and host: the routes checked so far
  router,        \* the layers of the router
  rootProtos,    \* RootProtoManager: by verb and host
  routes,        \* of WebSocketControllerRegister
  fetchInit, wsInit, \* FetchEventHandler and WebSocketEventHandler: none, running, done
  event,         \* of each event: new, init, handling, or how it ended
  listening,
  faults

vars == <<host, controllers, phase, checkRouters, router, rootProtos, routes,
          fetchInit, wsInit, event, listening, faults>>

Kinds == {"HTTP", "WEBSOCKET"}
Hosts == UNION {Range(c.hosts) : c \in Controllers}
Verbs == {c.verb : c \in Controllers}
NotFound == [kind |-> "none"]

Layer(c, h) == [verb |-> c.verb, path |-> c.path, host |-> h, controller |-> c]
Layers == {Layer(c, h) : c \in Controllers, h \in Hosts \cup {""}}
EggLayer(r) == [verb |-> r.verb, path |-> r.path, host |-> "", controller |-> [kind |-> "egg"]]

Init ==
  /\ host \in {"egg", "worker"}
  /\ controllers = <<>> /\ phase = "collect"
  /\ checkRouters = [kh \in Kinds \X (Hosts \cup {""}) |-> <<>>]
  /\ router = IF host = "egg" THEN [i \in DOMAIN EggRoutes |-> EggLayer(EggRoutes[i])] ELSE <<>>
  /\ rootProtos = [vh \in Verbs \X (Hosts \cup {""}) |-> <<>>]
  /\ routes = <<>> /\ fetchInit = "none" /\ wsInit = "none"
  /\ event = [e \in Events |-> "new"] /\ listening = FALSE /\ faults = 0

-----------------------------------------------------------------------------
(* Paths *)

TOKEN_PRIORITY == 1000
DEFAULT_PRIORITY == 100000

\* What a pattern matches; a parameter of the path itself is matched as a text.
Matches(pattern, path) ==
  Len(pattern) = Len(path) /\ \A i \in DOMAIN path : pattern[i] \in {":", path[i]}

\* calcPathPriority
CalcPathPriority(path) ==
  LET sum[i \in 0 .. Len(path)] ==
        IF i = 0 THEN 0 ELSE sum[i - 1] + IF path[i] = ":" THEN (i - 1) * TOKEN_PRIORITY ELSE 0 IN
  IF ":" \in Range(path) THEN sum[Len(path)] ELSE DEFAULT_PRIORITY

\* getPriority; zero stands for none.
GetPriority(c) == IF c.priority # 0 THEN c.priority ELSE CalcPathPriority(c.path)

\* What of a sequence is in a set, in its order.
Within(s, S) ==
  LET kept[i \in 0 .. Len(s)] ==
        IF i = 0 THEN <<>>
        ELSE IF s[i] \in S THEN Append(kept[i - 1], s[i]) ELSE kept[i - 1] IN
  kept[Len(s)]

\* The stable sort by descending priority: each after those that are not below it.
Put(c, cs) ==
  LET below == {d \in Controllers : GetPriority(d) < GetPriority(c)} IN
  Append(Within(cs, Controllers \ below), c) \o Within(cs, below)
Sorted(cs) ==
  LET sorted[i \in 0 .. Len(cs)] == IF i = 0 THEN <<>> ELSE Put(cs[i], sorted[i - 1]) IN
  sorted[Len(cs)]

\* doRegister: the methods of the controllers of one kind.
AllMethods(kind) == Sorted(Within(controllers, {c \in Controllers : c.kind = kind}))

-----------------------------------------------------------------------------
(* Conflicts *)

\* checkDuplicateInRouter
Duplicate(layers, c) == \E l \in Range(layers) : l.verb = c.verb /\ Matches(l.path, c.path)

\* Checked host by host, then there for those that follow, up to the first that clashes.
InHosts(kind, check, c, hosts) ==
  LET clashing == {k \in DOMAIN hosts : Duplicate(check[<<kind, hosts[k]>>], c)}
      passed == {<<kind, hosts[k]>> : k \in {k \in DOMAIN hosts : \A j \in clashing : k < j}} IN
  [ok |-> clashing = {},
   check |-> [at \in DOMAIN check |->
                IF at \in passed THEN Append(check[at], Layer(c, at[2])) ELSE check[at]]]

HostsOf(c) == IF c.hosts = <<>> THEN <<"">> ELSE c.hosts

\* checkDuplicate of an HTTP method: with the router, and host by host.
HTTPCheckDuplicate(check, layers, c) ==
  IF Duplicate(layers, c) THEN [ok |-> FALSE, check |-> check]
  ELSE InHosts("HTTP", check, c, c.hosts)

\* Mutation: without a host nothing is remembered.
WebSocketCheckDuplicate_Bug(check, c) == InHosts("WEBSOCKET", check, c, c.hosts)

\* checkDuplicate of a WebSocket method: without a host in a router of its own.
WebSocketCheckDuplicate(check, c) == InHosts("WEBSOCKET", check, c, HostsOf(c))

Check(kind, check, layers, c) ==
  IF kind = "HTTP" THEN HTTPCheckDuplicate(check, layers, c) ELSE WebSocketCheckDuplicate(check, c)
CheckAll(kind, check, layers) ==
  LET methods == AllMethods(kind)
      after[i \in 0 .. Len(methods)] ==
        IF i = 0 THEN [ok |-> TRUE, check |-> check]
        ELSE IF ~after[i - 1].ok THEN after[i - 1]
        ELSE Check(kind, after[i - 1].check, layers, methods[i]) IN
  after[Len(methods)]

-----------------------------------------------------------------------------
(* Registration *)

LayersOf(cs) ==
  LET layers[i \in 0 .. Len(cs)] ==
        IF i = 0 THEN <<>>
        ELSE layers[i - 1] \o [j \in DOMAIN HostsOf(cs[i]) |-> Layer(cs[i], HostsOf(cs[i])[j])] IN
  layers[Len(cs)]

\* registerRootProto, of each method.
RegisterRootProtos(roots, layers) ==
  [at \in DOMAIN roots |->
     roots[at] \o Within(layers, {l \in Layers : l.verb = at[1] /\ l.host = at[2]})]

\* register of each method, once all are checked; what failed stays checked.
HTTPDoRegister(checked) ==
  LET layers == LayersOf(AllMethods("HTTP")) IN
  /\ checkRouters' = checked.check
  /\ router' = IF checked.ok THEN router \o layers ELSE router
  /\ rootProtos' = IF checked.ok THEN RegisterRootProtos(rootProtos, layers) ELSE rootProtos

\* createWebSocketRoutes
CreateWebSocketRoutes == LayersOf(AllMethods("WEBSOCKET"))

\* addController: names are unique within a type.
IsDuplicate(c) ==
  \E d \in Range(controllers) : d.kind = c.kind /\ (d.name = c.name \/ d.proto = c.proto)

\* postCreate: the controllers of a load unit.
Collect(c) ==
  /\ phase = "collect" /\ Len(controllers) < MaxControllers
  /\ controllers' = Append(controllers, c)
  /\ phase' = IF IsDuplicate(c) THEN "duplicate controller" ELSE phase
  /\ UNCHANGED <<host, checkRouters, router, rootProtos, routes, fetchInit, wsInit, event, listening, faults>>

\* didLoad of an egg application: HTTP, then WebSocket.
DidLoad ==
  LET http == CheckAll("HTTP", checkRouters, router)
      webSocket == CheckAll("WEBSOCKET", http.check, router) IN
  /\ host = "egg" /\ phase = "collect"
  /\ HTTPDoRegister([ok |-> http.ok, check |-> IF http.ok THEN webSocket.check ELSE http.check])
  /\ IF http.ok /\ webSocket.ok
     THEN phase' = "ready" /\ routes' = CreateWebSocketRoutes
     ELSE phase' = "conflict" /\ UNCHANGED routes
  /\ UNCHANGED <<host, controllers, fetchInit, wsInit, event, listening, faults>>

\* The units of a service worker are loaded.
Loaded ==
  /\ host = "worker" /\ phase = "collect" /\ phase' = "ready"
  /\ UNCHANGED <<host, controllers, checkRouters, router, rootProtos, routes, fetchInit, wsInit, event, listening, faults>>

-----------------------------------------------------------------------------
(* A service worker initialises its routes with the first event *)

Answer(e, how) == event' = [event EXCEPT ![e] = how]
Waiting == {e \in Events : event[e] = "init"}
AnswerWaiting(how) == event' = [e \in Events |-> IF e \in Waiting THEN how ELSE event[e]]

\* doInitRoutes, up to the MCP servers, which it awaits.
DoInitRoutes(e) ==
  LET checked == CheckAll("HTTP", checkRouters, router) IN
  /\ HTTPDoRegister(checked)
  /\ IF checked.ok THEN fetchInit' = "running" /\ Answer(e, "init")
     ELSE Answer(e, "failed") /\ UNCHANGED fetchInit

\* Mutation: events in between initialise too.
InitRoutes_Bug(e) == fetchInit # "done" /\ DoInitRoutes(e)

\* initRoutes: one initialises, the others wait for it.
InitRoutes(e) ==
  \/ fetchInit = "none" /\ DoInitRoutes(e)
  \/ /\ fetchInit = "running" /\ Answer(e, "init")
     /\ UNCHANGED <<checkRouters, router, rootProtos, fetchInit>>

FetchEvent(e) ==
  /\ host = "worker" /\ phase = "ready" /\ event[e] = "new"
  /\ \/ InitRoutes(e)
     \/ /\ fetchInit = "done" /\ Answer(e, "handling")
        /\ UNCHANGED <<checkRouters, router, rootProtos, fetchInit>>
  /\ UNCHANGED <<host, controllers, phase, routes, wsInit, listening, faults>>

\* doInitRoutes: the MCP servers are there, and the events that waited go on.
McpRegistered ==
  /\ fetchInit = "running" /\ fetchInit' = "done" /\ AnswerWaiting("handling")
  /\ UNCHANGED <<host, controllers, phase, checkRouters, router, rootProtos, routes, wsInit, listening, faults>>

\* ... or not: all that waited fail, and the next one tries again.
McpFails ==
  /\ fetchInit = "running" /\ faults < MaxFaults
  /\ faults' = faults + 1 /\ fetchInit' = "none" /\ AnswerWaiting("failed")
  /\ UNCHANGED <<host, controllers, phase, checkRouters, router, rootProtos, routes, wsInit, listening>>

\* The first of some layers that a request gets to: those of another host, or of another
\* verb or path, call the next one.
FirstOf(layers, verbs, q, hosts) ==
  LET hits == {i \in DOMAIN layers : /\ layers[i].verb \in verbs /\ layers[i].host \in hosts
                                     /\ Matches(layers[i].path, q.path)} IN
  IF hits = {} THEN NotFound ELSE layers[Min(hits)]
Serve(q) == FirstOf(router, {q.verb}, q, {"", q.host})

\* matchWebSocketRoute
MatchWebSocketRoute(q) == FirstOf(routes, Verbs, q, {"", q.host})

\* getRootProto: those of the host first.
GetRootProto(q) ==
  LET of(h) == IF <<q.verb, h>> \in DOMAIN rootProtos
               THEN FirstOf(rootProtos[<<q.verb, h>>], {q.verb}, q, {h}) ELSE NotFound IN
  IF of(q.host) # NotFound THEN of(q.host) ELSE of("")

\* handleEvent, once the routes are there.
HandleFetch(e, q) ==
  /\ event[e] = "handling" /\ Answer(e, IF Serve(q) = NotFound THEN "missing" ELSE "served")
  /\ UNCHANGED <<host, controllers, phase, checkRouters, router, rootProtos, routes, fetchInit, wsInit, listening, faults>>

\* doRegister of WebSocketControllerRegister; in a conflict it is done again.
WebSocketDoRegister ==
  LET checked == CheckAll("WEBSOCKET", checkRouters, router) IN
  /\ checkRouters' = checked.check
  /\ IF checked.ok
     THEN /\ routes' = CreateWebSocketRoutes /\ wsInit' = "done"
          /\ rootProtos' = RegisterRootProtos(rootProtos, routes')
     ELSE UNCHANGED <<routes, wsInit, rootProtos>>

\* WebSocketEventHandler: an upgrade without a route is rejected.
WebSocketEvent(e, q) ==
  /\ host = "worker" /\ phase = "ready" /\ event[e] = "new"
  /\ \/ wsInit = "none" /\ WebSocketDoRegister
     \/ wsInit = "done" /\ UNCHANGED <<checkRouters, routes, wsInit, rootProtos>>
  /\ Answer(e, IF wsInit' = "none" THEN "failed"
               ELSE IF MatchWebSocketRoute(q)' = NotFound THEN "missing" ELSE "served")
  /\ UNCHANGED <<host, controllers, phase, router, fetchInit, listening, faults>>

-----------------------------------------------------------------------------
(* Upgrades of an egg server *)

\* listen, once, and for nothing without routes.
Listen ==
  /\ host = "egg" /\ phase = "ready" /\ ~listening /\ routes # <<>> /\ listening' = TRUE
  /\ UNCHANGED <<host, controllers, phase, checkRouters, router, rootProtos, routes, fetchInit, wsInit, event, faults>>

\* handleUpgrade: what is not matched may be another listener's.
Upgrade(e, q) ==
  /\ listening /\ event[e] = "new"
  /\ Answer(e, IF MatchWebSocketRoute(q) = NotFound THEN "unclaimed" ELSE "served")
  /\ UNCHANGED <<host, controllers, phase, checkRouters, router, rootProtos, routes, fetchInit, wsInit, listening, faults>>

\* In the next turn it is rejected, unless it has an owner by then.
Unclaimed(e) ==
  /\ event[e] = "unclaimed" /\ \E how \in {"missing", "claimed"} : Answer(e, how)
  /\ UNCHANGED <<host, controllers, phase, checkRouters, router, rootProtos, routes, fetchInit, wsInit, listening, faults>>

\* clean
Clean ==
  /\ host = "egg" /\ phase = "ready" /\ phase' = "closed"
  /\ listening' = FALSE /\ routes' = <<>> /\ controllers' = <<>>
  /\ checkRouters' = [kh \in DOMAIN checkRouters |-> <<>>]
  /\ UNCHANGED <<host, router, rootProtos, fetchInit, wsInit, event, faults>>

Next ==
  \/ \E c \in Controllers : Collect(c)
  \/ DidLoad \/ Loaded \/ Listen \/ Clean \/ McpRegistered \/ McpFails
  \/ \E e \in Events : FetchEvent(e) \/ Unclaimed(e)
  \/ \E e \in Events, q \in Requests : HandleFetch(e, q) \/ WebSocketEvent(e, q) \/ Upgrade(e, q)

Spec == Init /\ [][Next]_vars

-----------------------------------------------------------------------------
(* Properties *)

TypeOK ==
  /\ host \in {"egg", "worker"} /\ controllers \in Seq(Controllers)
  /\ phase \in {"collect", "ready", "duplicate controller", "conflict", "closed"}
  /\ fetchInit \in {"none", "running", "done"} /\ wsInit \in {"none", "done"}
  /\ event \in [Events -> {"new", "init", "handling", "served", "missing", "failed", "unclaimed", "claimed"}]
  /\ listening \in BOOLEAN /\ faults \in 0 .. MaxFaults

\* A WebSocket route is reached by its own path at its host, unless a route of
\* another scope (all hosts, or one) comes first: none is dead code
\* (WebSocketControllerRegister.checkDuplicate with matchWebSocketRoute).
WebSocketRoutesAreReachable ==
  \A r \in Range(routes) :
    LET at == IF r.host = "" THEN "other" ELSE r.host
        hit == MatchWebSocketRoute([verb |-> "GET", path |-> r.path, host |-> at]) IN
    hit # NotFound /\ (hit = r \/ hit.host # r.host)

\* Of the methods without a priority of their own, at one host, a literal path
\* is served before a parameter (calcPathPriority, doRegister's sort, router).
LiteralIsServedFirst ==
  fetchInit # "none" \/ (host = "egg" /\ phase = "ready") =>
    \A q \in Requests :
      LET hit == Serve(q) IN
      hit # NotFound /\ hit.controller.kind # "egg" /\ hit.controller.priority = 0 =>
        \A l \in Range(router) :
          l.verb = q.verb /\ l.path = q.path /\ l.host = hit.host
            => hit.path = q.path \/ (l.controller.kind = "HTTP" /\ l.controller.priority # 0)

\* The request is set up for the prototype that serves it; only a method of
\* all hosts may be taken for one of this host, which the manager asks first
\* (RootProtoManager.getRootProto with HTTPMethodRegister.createHandler).
RootProtoIsServed ==
  host = "egg" /\ phase = "ready" =>
    \A q \in Requests :
      LET hit == Serve(q) root == GetRootProto(q) IN
      hit # NotFound /\ hit.controller.kind = "HTTP" =>
        root # NotFound /\ (root = hit \/ (hit.host = "" /\ root.host = q.host))

\* No event fails while routes are without a conflict and registration did not
\* fail: events that come together initialise once (FetchEventHandler.initRoutes).
EventsFailForACause ==
  \A e \in Events : event[e] = "failed" =>
    \/ faults > 0
    \/ \E kind \in Kinds : ~CheckAll(kind, [kh \in DOMAIN checkRouters |-> <<>>], <<>>).ok
=============================================================================
