------------------------------ MODULE MCControllers ------------------------------
(* Controllers, from their decorators to the calls of their handlers, for    *)
(* TLC: a behaviour is one of classes and their metadata, of the routes of    *)
(* HTTP and WebSocket controllers, of MCP servers, or of one HTTP request.    *)
EXTENDS ControllerMeta, SequencesExt, TLC

CONSTANTS Events, MaxControllers, MaxFaults, Nothing,
          ClassFns, MethodFns, ClassAdvices, MethodAdvices   \* HttpRequest

-----------------------------------------------------------------------------
(* Metadata *)

Declaration(len, http, ws, context, middleware, method, fetch) ==
  [length |-> len, httpParamType |-> http, webSocketParamType |-> ws, contextIndex |-> context,
   middlewares |-> middleware, methodType |-> method, fetchType |-> fetch]
None == [i \in Indices |-> Undefined]
At(i, type) == [None EXCEPT ![i] = type]
ForFetch ==
  {Declaration(1, None, At(0, type), Undefined, Undefined, "WEBSOCKET_FETCH", event) :
     type \in {"CLOSE", "ERROR", "STREAM"}, event \in {"DATA", "OPEN", "ERROR", "CLOSE"}}
ForHTTP ==
  {Declaration(len, params, None, context, Undefined, "HTTP", Undefined) :
     len \in 0 .. 2, params \in {None, At(0, "QUERY"), At(1, "BODY")}, context \in {0, 1, Undefined}}
Others ==
  {Declaration(1, None, At(0, "STREAM"), 1, Undefined, "WEBSOCKET", Undefined),
   Declaration(1, At(0, "BODY"), None, Undefined, Undefined, "WEBSOCKET", Undefined),
   Declaration(1, At(0, "QUERY"), At(1, "SOCKET"), Undefined, "some", "WEBSOCKET", Undefined),
   Declaration(1, At(0, "COOKIES"), None, Undefined, Undefined, "HTTP", Undefined),
   Declaration(0, None, None, Undefined, "some", Undefined, Undefined)}
MCDeclarations == ForFetch \cup ForHTTP \cup Others

-----------------------------------------------------------------------------
(* Routes: two paths of which one covers the other, with and without hosts *)

Controller(kind, name, path, hosts, priority) ==
  [kind |-> kind, name |-> name, proto |-> name, verb |-> "GET", path |-> path,
   hosts |-> hosts, priority |-> priority]
MCControllerRoutes ==
  {Controller(kind, name, path, hosts, 0) :
     kind \in {"HTTP", "WEBSOCKET"}, name \in {"c", "d"}, path \in {<<"a">>, <<":">>},
     hosts \in {<<>>, <<"h">>}}
  \cup {Controller("HTTP", "e", <<":">>, <<"h", "i">>, 200000)}
MCEggRoutes == <<[verb |-> "GET", path |-> <<"egg">>]>>
MCRequests == [verb : {"GET"}, path : {<<"a">>, <<"b">>}, host : {"h", "i"}]

VARIABLES host, controllers, phase, checkRouters, router, rootProtos, routes,
          fetchInit, wsInit, event, listening, faults
routeVars == <<host, controllers, phase, checkRouters, router, rootProtos, routes,
               fetchInit, wsInit, event, listening, faults>>
R == INSTANCE Routes WITH Controllers <- MCControllerRoutes, EggRoutes <- MCEggRoutes,
                          Requests <- MCRequests

-----------------------------------------------------------------------------
(* MCP: every placement of a tool's arguments, the extra and the context over two  *)
(* parameters; resources and prompts; two controllers that name one tool            *)

Decorator(is, on, value) == [is |-> is, on |-> on, value |-> value]
Params(name, template) == [name |-> name, template |-> template]
Placements == {p \in [{"toolArgs", "extra", "context"} -> 0 .. 2] :
                 \A a, b \in DOMAIN p : a # b /\ p[a] # 0 => p[a] # p[b]}
AsSequence(S) == FoldSet(LAMBDA e, s : Append(s, e), <<>>, S)
Method(p) == 100 * p.toolArgs + 10 * p.extra + p.context
Tools ==
  [proto |-> "tools", name |-> "s",
   decorators |-> AsSequence(
     {Decorator("tool", Method(p), Params(Method(p), FALSE)) : p \in Placements}
     \cup {Decorator(kp[1], Method(kp[2]), kp[2][kp[1]]) : kp \in
             {q \in {"toolArgs", "extra", "context"} \X Placements : q[2][q[1]] # 0}})]
Resources ==
  [proto |-> "resources", name |-> "s",
   decorators |-> <<Decorator("extra", 1001, 1), Decorator("resource", 1001, Params(1, FALSE)),
                    Decorator("context", 1002, 2), Decorator("extra", 1002, 1),
                    Decorator("resource", 1002, Params(2, TRUE))>>]
Hooked == 1004
Prompts ==
  [proto |-> "prompts", name |-> Nothing,
   decorators |-> <<Decorator("promptArgs", 1003, 2), Decorator("extra", 1003, 1),
                    Decorator("prompt", 1003, Params(1, FALSE)),
                    Decorator("extra", Hooked, 2), Decorator("tool", Hooked, Params(1, FALSE))>>]
OneTool(proto, method) ==
  [proto |-> proto, name |-> "t",
   decorators |-> <<Decorator("tool", method, Params(1, FALSE))>>]
MCClasses == {Tools, Resources, Prompts, OneTool("one", 1005), OneTool("other", 1006)}

VARIABLES platform, ignore, metadata, created, registered, registerMap, mcpRoutes, multiple,
          mcpMiddlewares, session, mcpCall
mcpVars == <<platform, ignore, metadata, created, registered, registerMap, mcpRoutes, multiple,
             mcpMiddlewares, session, mcpCall>>
MS == INSTANCE McpServer WITH
        Classes <- MCClasses, Unnamed <- Nothing, None <- Nothing, HookSchema <- {Hooked},
        Overrides <- {<<"s", "stream">>}, Ignores <- {"none", "list"},
        routes <- mcpRoutes, middlewares <- mcpMiddlewares, call <- mcpCall

-----------------------------------------------------------------------------
(* A request: a middleware and an advice of the class and of the method each *)

FnOfClass == <<"f1">>
FnOfMethod == <<"g1">>
AdviceOfClass == <<"a1">>
AdviceOfMethod == <<"b1">>

\* Without hosts, and with two of which the request is for the first, the second or none.
MCHostLists == {<<Nothing>>, <<"h", "i">>}
MCRequestHosts == {"h", "i", "other"}

VARIABLES httpHost, served, wanted, acl, timed, layer, entered, inside, going, failed, result,
          method, explicit, body
httpVars == <<httpHost, served, wanted, acl, timed, layer, entered, inside, going, failed,
              result, method, explicit, body>>
H == INSTANCE HttpRequest WITH
       None <- Nothing, host <- httpHost, HostLists <- MCHostLists,
       RequestHosts <- MCRequestHosts

-----------------------------------------------------------------------------
VARIABLE part
partVars == <<vars, routeVars, mcpVars, httpVars, part>>

\* What a behaviour is not about has one initial state.
Only(name, set) == IF part = name THEN set ELSE {CHOOSE e \in set : TRUE}

\* The assumptions of the instances.
ASSUME InstancesAssumption ==
  R!RoutesAssumption /\ MS!McpServerAssumption /\ H!HttpAssumption

MCInit ==
  /\ part \in {"meta", "routes", "mcp", "request"}
  /\ host \in Only("routes", {"egg", "worker"})
  /\ platform \in Only("mcp", {"egg", "worker"}) /\ ignore \in Only("mcp", {"none", "list"})
  /\ httpHost \in Only("request", {"egg", "worker"})
  /\ served \in Only("request", MCHostLists) /\ wanted \in Only("request", MCRequestHosts)
  /\ acl \in Only("request", BOOLEAN) /\ timed \in Only("request", BOOLEAN)
  /\ Init /\ R!Init /\ MS!Init /\ H!Init
MCNext ==
  /\ UNCHANGED part
  /\ \/ part = "meta" /\ Next /\ UNCHANGED <<routeVars, mcpVars, httpVars>>
     \/ part = "routes" /\ R!Next /\ UNCHANGED <<vars, mcpVars, httpVars>>
     \/ part = "mcp" /\ MS!Next /\ UNCHANGED <<vars, routeVars, httpVars>>
     \/ part = "request" /\ H!Next /\ UNCHANGED <<vars, routeVars, mcpVars>>
MCSpec == MCInit /\ [][MCNext]_partVars

-----------------------------------------------------------------------------
(* Properties *)

\* A handler that is built gets what its decorators bind: every parameter its
\* argument, and a data handler its payload (ControllerMeta).
HandlersGetWhatTheyBind == ArgumentsAreBound /\ PayloadIsThere

\* A registered WebSocket route is reached by its own path at its host, unless one of
\* another scope, at no host or at one, comes first; at one host a literal path is
\* served before a parameter; and a request is set up for the prototype that serves it.
\* Of HTTP routes without a host nothing is said, the check leaves them out (Routes).
RoutesAreReached ==
  R!WebSocketRoutesAreReachable /\ R!LiteralIsServedFirst /\ R!RootProtoIsServed

\* A fetch event is refused only for a failure of its own application's routes,
\* however many events came before they were there (FetchEventHandler).
EventsFailForACause == R!EventsFailForACause

\* A session of an MCP server has the tools of all its controllers, with the
\* arguments where the method asks for them, on paths that neither csrf nor the
\* body parser gets at (McpServer).
SessionServesItsServer ==
  MS!SessionServesItsServer /\ MS!ArgumentsAsAsked /\ MS!PathsAreExempt

\* A method runs inside all its middlewares and advices, and what it returned is the
\* answer or is not, whatever throws and however late the method ends (HttpRequest).
AnswersOnce == H!MethodIsWrapped /\ H!AnswersOnce
=============================================================================
