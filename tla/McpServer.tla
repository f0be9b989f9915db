------------------------------- MODULE McpServer -------------------------------
(* MCP controllers: what their decorators record, the servers they are       *)
(* registered on, the paths of those servers in an egg application and in a  *)
(* service worker, and the arguments a handler calls its method with.        *)
EXTENDS Integers, Sequences, FiniteSets, SequencesExt

CONSTANTS
  Classes,       \* the controller classes: [proto, name, decorators]
  Unnamed,       \* the name of a controller without one, and of its server ('default')
  None,          \* no index, no session, no call
  HookSchema,    \* the methods for which a hook's schemaLoader returns a schema
  Overrides,     \* what config.mcp.multipleServer gives: a set of <<server, path key>>
  Ignores        \* how config.security.csrf.ignore may be set: "none", "list", "single"

IsSequence(s) == s \in Seq(Range(s))
McpServerAssumption ==
  /\ Ignores \subseteq {"none", "list", "single"}
  /\ \A c \in Classes :
       /\ {"proto", "name", "decorators"} \subseteq DOMAIN c /\ IsSequence(c.decorators)
       \* A parameter is for one thing.
       /\ \A d, e \in Range(c.decorators) :
            /\ d.on = e.on /\ d.is # e.is /\ d.is \in {"extra", "context"}
            /\ e.is \in {"extra", "context", "toolArgs", "promptArgs"}
            => d.value # e.value

PathKeys == {"sseInit", "sseMessage", "stream", "statelessStream"}

VARIABLES
  platform,      \* "egg", or "worker" (the service worker)
  ignore,        \* config.security.csrf.ignore
  metadata,      \* class -> what its builder returned, {} before its prototype is made
  created,       \* controllerProtos: the classes given to create(), in their order
  registered,    \* registeredControllerProtos
  registerMap,   \* server -> the classes whose methods its sessions register, in order
  routes,        \* the POST routes: a set of [server, path]
  multiple,      \* the servers of config.mcp.multipleServer that have all four paths
  middlewares,   \* server -> the classes whose middlewares its route runs (service worker)
  session,       \* server -> its last session: [is, items]; is "none", "open" or "throws"
  call           \* the last call: [item, args], or None

vars == <<platform, ignore, metadata, created, registered, registerMap, routes,
          multiple, middlewares, session, call>>

Servers == {c.name : c \in Classes}
NoSession == [is |-> "none", items |-> {}]

\* A decorator records its value for its method; a second one of the same kind on the
\* same method replaces it (the decorators of later parameters run first).
Key(d) == <<d.is, d.on>>
Decorate(decorators, key) ==
  LET last == CHOOSE i \in DOMAIN decorators :
                /\ Key(decorators[i]) = key
                /\ \A j \in DOMAIN decorators : j > i => Key(decorators[j]) # key
  IN  decorators[last].value
MetaOf(c) == [key \in {Key(d) : d \in Range(c.decorators)} |-> Decorate(c.decorators, key)]
Recorded(meta, what, method) ==
  IF <<what, method>> \in DOMAIN meta THEN meta[<<what, method>>] ELSE None
\* What a builder makes of a method: the decorator of its kind has recorded the name it is
\* served under, and whether a resource has a template.
Item(meta, proto, kind, method, detail) ==
  LET params == Recorded(meta, kind, method) IN
  [proto |-> proto, kind |-> kind, method |-> method, name |-> params.name,
   template |-> params.template, detail |-> detail,
   extra |-> Recorded(meta, "extra", method), context |-> Recorded(meta, "context", method)]
Tool(meta, proto, method) ==
  Item(meta, proto, "tool", method, Recorded(meta, "toolArgs", method))
Prompt(meta, proto, method) ==
  Item(meta, proto, "prompt", method, Recorded(meta, "promptArgs", method))
Resource(meta, proto, method) == Item(meta, proto, "resource", method, None)
\* MCPControllerMetaBuilder.build: the methods each kind's decorator has recorded.
Build(c) ==
  LET meta == MetaOf(c)
      Of(kind) == {k[2] : k \in {j \in DOMAIN meta : j[1] = kind}}
  IN  {Tool(meta, c.proto, m) : m \in Of("tool")}
      \cup {Resource(meta, c.proto, m) : m \in Of("resource")}
      \cup {Prompt(meta, c.proto, m) : m \in Of("prompt")}

\* MCPConfig: the path of a server, an override of the configuration or the default.
Path(server, key) ==
  IF <<server, key>> \in Overrides THEN <<"custom", server, key>>
  ELSE IF server = Unnamed THEN <<"global", key>>
  ELSE <<"mcp", server, key>>
\* The service worker has two paths of its own for each server.
WorkerPaths(server) == {<<"mcp", server, "stream">>, <<"mcp", server>>}

Init ==
  /\ platform \in {"egg", "worker"} /\ ignore \in Ignores
  /\ metadata = [c \in Classes |-> {}] /\ created = <<>> /\ registered = {}
  /\ routes = {} /\ multiple = {}
  /\ registerMap = [s \in Servers |-> <<>>] /\ middlewares = [s \in Servers |-> <<>>]
  /\ session = [s \in Servers |-> NoSession] /\ call = None

\* The classes of a sequence that are in a set, in order.
Within(cs, S) ==
  LET kept[i \in 0 .. Len(cs)] ==
        IF i = 0 THEN <<>>
        ELSE IF cs[i] \in S THEN Append(kept[i - 1], cs[i]) ELSE kept[i - 1] IN
  kept[Len(cs)]
\* register() goes over every class created so far and skips the registered ones.
ToRegister_Bug(cs) == cs
ToRegister(cs) == Within(cs, Classes \ registered)
OfServer(cs, s) == Within(cs, {c \in Classes : c.name = s})
\* The routes of a server whose helper is not in mcpServerHelperMap yet.
EggRoutes(cs) ==
  {[server |-> s, path |-> Path(s, k)] :
     s \in {c.name : c \in Range(cs)} \ {r.server : r \in routes}, k \in PathKeys \ {"sseInit"}}
\* setMultipleServerPath: the configuration gets the four paths of a named server.
WithAllPaths(cs) == {d.name : d \in Range(cs)} \ {Unnamed}
EggRegister(cs) ==
  /\ platform = "egg"
  /\ routes' = routes \cup EggRoutes(cs) /\ multiple' = multiple \cup WithAllPaths(cs)
  /\ UNCHANGED middlewares
\* The service worker collects the middlewares of a server instead.
WorkerRegister(cs) ==
  /\ platform = "worker"
  /\ middlewares' = [s \in Servers |-> middlewares[s] \o OfServer(cs, s)]
  /\ UNCHANGED <<routes, multiple>>
Register(c) ==
  LET cs == ToRegister(Append(created, c)) IN
  /\ c \notin Range(created) /\ call = None /\ session = [s \in Servers |-> NoSession]
  /\ metadata' = [metadata EXCEPT ![c] = Build(c)]
  /\ created' = Append(created, c)
  /\ registered' = registered \cup Range(cs)
  /\ registerMap' = [s \in Servers |-> registerMap[s] \o OfServer(cs, s)]
  /\ EggRegister(cs) \/ WorkerRegister(cs)
  /\ UNCHANGED <<platform, ignore, session, call>>

\* registerTool, registerResource and registerPrompt of the SDK throw for a name (for a
\* resource: a URI or a template's name) of their kind that is taken.
Clash(cs) ==
  \/ \E i, j \in 1..Len(cs) : i # j /\ cs[i] = cs[j] /\ metadata[cs[i]] # {}
  \/ \E a, b \in UNION {metadata[c] : c \in Range(cs)} :
       a # b /\ a.kind = b.kind /\ a.name = b.name
\* mcpToolRegister, mcpResourceRegister, mcpPromptRegister: one handler for each method.
Handlers(c) == metadata[c]
\* A server helper of one session: every class of the server registers what it has.
Opened(s) ==
  IF Clash(registerMap[s]) THEN [is |-> "throws", items |-> {}]
  ELSE [is |-> "open", items |-> UNION {Handlers(c) : c \in Range(registerMap[s])}]
\* A request of an egg server's session, or of its stateless stream.
Open(s) ==
  /\ platform = "egg" /\ \E r \in routes : r.server = s
  /\ Range(created) = Classes
  /\ session' = [session EXCEPT ![s] = Opened(s)]
  /\ UNCHANGED <<platform, ignore, metadata, created, registered, registerMap, routes,
                 multiple, middlewares, call>>
\* The servers in the order of registerMap's keys.
First(s) == CHOOSE i \in 1..Len(created) :
              created[i].name = s /\ \A j \in 1..i - 1 : created[j].name # s
\* doRegister of the service worker: the routes of each server and its one session, up to
\* the first that throws.
DoRegister ==
  LET Reached(s) == \A t \in Servers : First(t) < First(s) => Opened(t).is = "open"
      names == {s \in Servers : Reached(s)} IN
  /\ platform = "worker" /\ Range(created) = Classes /\ routes = {}
  /\ routes' = UNION {{[server |-> s, path |-> p] : p \in WorkerPaths(s)} : s \in names}
  /\ session' = [s \in Servers |-> IF s \in names THEN Opened(s) ELSE NoSession]
  /\ UNCHANGED <<platform, ignore, metadata, created, registered, registerMap, multiple,
                 middlewares, call>>

\* The schema of a tool or a prompt: its own, or the first a hook loads (egg only).
HasSchema(item) ==
  item.detail # None \/ (platform = "egg" /\ item.kind # "resource" /\ item.method \in HookSchema)
\* What the SDK calls a handler with.
SdkArgs(item) ==
  IF item.kind = "resource"
    THEN IF item.template THEN <<"uri", "variables", "extra">> ELSE <<"uri", "extra">>
    ELSE IF HasSchema(item) THEN <<"args", "extra">> ELSE <<"extra">>
ExtraOf(item) ==
  IF item.kind = "resource"
    THEN IF item.template THEN SdkArgs(item)[3] ELSE SdkArgs(item)[2]
    ELSE IF HasSchema(item) THEN SdkArgs(item)[2] ELSE SdkArgs(item)[1]
\* newArgs[index] = value, when the method has that index.
Placed(args, index, value) ==
  IF index = None THEN args
  ELSE [i \in (DOMAIN args) \cup {index} |-> IF i = index THEN value ELSE args[i]]
\* buildToolArgs, buildPromptArgs, buildResourceArgs; indices count from 1 here.
BuildArgs(item) ==
  LET sdk == SdkArgs(item)
      details == IF HasSchema(item) THEN Placed(sdk, item.detail, sdk[1]) ELSE sdk
  IN  Placed(Placed(details, item.extra, ExtraOf(item)), item.context, "context")
Call(s) ==
  /\ \E item \in session[s].items : call' = [item |-> item, args |-> BuildArgs(item)]
  /\ UNCHANGED <<platform, ignore, metadata, created, registered, registerMap, routes,
                 multiple, middlewares, session>>

Next ==
  \/ \E c \in Classes : Register(c)
  \/ \E s \in Servers : Open(s) \/ Call(s)
  \/ DoRegister
Spec == Init /\ [][Next]_vars

TypeOK ==
  /\ platform \in {"egg", "worker"} /\ ignore \in Ignores
  /\ created \in Seq(Classes) /\ registered \subseteq Classes
  /\ DOMAIN registerMap = Servers /\ DOMAIN session = Servers
  /\ multiple \subseteq Servers

\* A session serves every method of every controller of its server, each with its own
\* controller; it throws only when two controllers of the server took one name of one
\* kind (boot does not notice that). In a service worker the route runs the middlewares
\* of all of them.
SessionServesItsServer ==
  \A s \in Servers :
    LET mine == {c \in Classes : c.name = s}
        items == UNION {metadata[c] : c \in mine}
    IN  session[s].is # "none" =>
          /\ IF \E a, b \in items : a # b /\ a.kind = b.kind /\ a.name = b.name
               THEN session[s].is = "throws"
               ELSE session[s] = [is |-> "open", items |-> items]
          /\ platform = "worker" => Range(middlewares[s]) = mine

\* A method is called with what its decorators asked for, each at its parameter: the
\* client's arguments, the extra of the SDK, the context of the request.
ArgumentsAsAsked ==
  call # None =>
    LET item == call.item
        Gets(index, value) == index # None => call.args[index] = value
    IN  /\ Gets(item.extra, "extra") /\ Gets(item.context, "context")
        /\ Gets(item.detail, "args")

\* What configWillLoad exempts from the csrf check, from the configured ignore.
CsrfExempt(path) ==
  /\ ignore # "single"
  /\ path[1] = "custom" => <<path[2], path[3]>> \in Overrides
\* What mcpBodyMiddleware keeps the body parser from: the global paths, and the four of
\* each server of multipleServer, as it is at the request.
BodyKept(path) ==
  \/ path[1] = "global"
  \/ path[1] # "global" /\ (path[2] \in multiple \/ <<path[2], path[3]>> \in Overrides)
\* In an egg application every path an MCP client posts to is exempt from the csrf check
\* and reaches its handler with the body unread, whichever server configured it.
PathsAreExempt ==
  platform = "egg" => \A r \in routes : CsrfExempt(r.path) /\ BodyKept(r.path)
=============================================================================
