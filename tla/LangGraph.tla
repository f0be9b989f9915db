------------------------------ MODULE LangGraph ------------------------------
(***************************************************************************)
(* The langchain plugin: agent graphs made of classes.  GraphPrototypeHook *)
(* adds what a node and a graph use to their injections, in whatever order *)
(* the prototypes are created; GraphObjectHook gives a node its tools;     *)
(* CompiledStateGraphObject compiles a graph, and hands every traced call  *)
(* the one LangGraphTracer of the application.                             *)
(***************************************************************************)
EXTENDS Naturals, FiniteSets, SequencesExt

CONSTANTS
  Tools, Nodes, Edges, Graphs,  \* the classes
  Clients,                      \* the prototypes named mcpClient
  Savers,                       \* checkpoint savers that are classes
  ChatSaver,                    \* the prototype named chatCheckpointSaver
  ToolsOf, ServersOf,           \* of a node: tool classes, MCP servers it names
  ModelsOf,                     \* of a node: the fields that take a chat model, in order
  NodesOf, EdgesOf, SaverOf,    \* of a graph (SaverOf: a class, a name, or None)
  Renamed,                      \* the graphs whose decorator gives a name
  Calls, GraphOf, ConfigOf,     \* calls of stream, traced, with a config object
  ChatModel,                    \* the field that has the name of the prototype
  None

Protos == Tools \cup Nodes \cup Edges \cup Graphs \cup Clients \cup Savers \cup {ChatSaver}
Kinds == <<Tools, Nodes, Edges, Graphs, Clients, Savers, {ChatSaver}>>

\* A class is of one kind, and so is a ref: they have the kind in their names.  Who
\* names a server has the plugin of the MCP clients.
LangGraphAssumption ==
  /\ \A j, k \in DOMAIN Kinds : j # k => Kinds[j] \cap Kinds[k] = {}
  /\ "checkpoint" \notin Protos /\ None \notin Protos \cup Calls
  /\ \A n \in Nodes : /\ ToolsOf[n] \subseteq Tools /\ IsFiniteSet(ToolsOf[n])
                      /\ ServersOf[n] \cap Protos = {} /\ IsFiniteSet(ServersOf[n])
                      /\ ServersOf[n] # {} => Clients # {}
  /\ \A g \in Graphs : /\ NodesOf[g] \subseteq Nodes /\ IsFiniteSet(NodesOf[g])
                       /\ EdgesOf[g] \subseteq Edges /\ IsFiniteSet(EdgesOf[g])
  /\ GraphOf \in [Calls -> Graphs] /\ Renamed \subseteq Graphs

VARIABLES
  created,     \* the prototypes that are there
  client,      \* mcpServerProto: the last of Clients, or None
  injects,     \* of a node or graph: what its prototype injects, as refs
  missing,     \* of a graph: what it waited for when it was created
  bound,       \* of a node: its state, and the fields whose model has the tools
  compiled,    \* of a graph: its state, and what was compiled: nodes, edges, saver
  tracerName,
  config,      \* of a config object: how many tracers, and its runId
  call,        \* of a call: its state, and the config the graph was run with
  logged       \* <<call, the graph it was logged for>>

protoVars == <<created, client, injects, missing>>
objVars == <<bound, compiled>>
callVars == <<tracerName, config, call, logged>>
vars == <<protoVars, objVars, callVars>>

NoCall == [state |-> "none", tracers |-> 0, runId |-> None]
NotYet(state) == [state |-> state, nodes |-> {}, edges |-> {}, saver |-> None]

Init ==
  /\ created = {} /\ client = None
  /\ injects = [p \in Nodes \cup Graphs |-> <<>>]
  /\ missing = [g \in Graphs |-> {}]
  /\ bound = [n \in Nodes |-> [state |-> "none", fields |-> {}]]
  /\ compiled = [g \in Graphs |-> NotYet("none")]
  /\ tracerName = None
  /\ config = [c \in {ConfigOf[k] : k \in Calls} |-> [tracers |-> 0, runId |-> None]]
  /\ call = [k \in Calls |-> NoCall] /\ logged = {}

-----------------------------------------------------------------------------
(* GraphPrototypeHook.postCreate *)

Creates(p) == p \notin created /\ created' = created \cup {p} /\ UNCHANGED <<objVars, callVars>>
Has(p, ref) == ref \in ToSet(injects[p])
AddTo(P, ref) == [p \in DOMAIN injects |-> IF p \in P THEN Append(injects[p], ref) ELSE injects[p]]

\* A tool goes to the nodes that are there; the others find it.
CreateTool(t) ==
  /\ Creates(t) /\ injects' = AddTo({n \in Nodes \cap created : t \in ToolsOf[n]}, t)
  /\ UNCHANGED <<client, missing>>

\* Every client is given to every node, once for each server it names.
CreateClient(c) ==
  /\ Creates(c) /\ client' = c
  /\ injects' = [p \in DOMAIN injects |->
                   IF p \in Nodes \cap created THEN injects[p] \o SetToSeq(ServersOf[p])
                   ELSE injects[p]]
  /\ UNCHANGED missing

\* The graphs that wait for a node or an edge, and have not got it.
Waiting(p) == {g \in Graphs \cap created : p \in missing[g] /\ ~Has(g, p)}

CreateNode(n) ==
  /\ Creates(n)
  /\ injects' = [AddTo(Waiting(n), n) EXCEPT ![n] =
                   SetToSeq(ToolsOf[n] \cap created)
                     \o IF client = None THEN <<>> ELSE SetToSeq(ServersOf[n])]
  /\ UNCHANGED <<client, missing>>

CreateEdge(e) ==
  /\ Creates(e) /\ injects' = AddTo(Waiting(e), e)
  /\ UNCHANGED <<client, missing>>

\* Its saver, nodes and edges, those that are there; all of it only for a graph
\* that has a saver.
CreateGraph(g) ==
  LET parts == NodesOf[g] \cup EdgesOf[g]
      saver == IF SaverOf[g] \in Savers THEN SaverOf[g] ELSE ChatSaver IN
  /\ Creates(g)
  /\ IF SaverOf[g] = None THEN UNCHANGED <<injects, missing>>
     ELSE /\ injects' = [injects EXCEPT ![g] =
                           (IF saver \in created THEN <<"checkpoint">> ELSE <<>>)
                             \o SetToSeq(parts \cap created)]
          /\ missing' = [missing EXCEPT ![g] = parts \ created]
  /\ UNCHANGED client

\* A saver that is a class goes to the graphs that have one already.
CreateSaver(s) ==
  /\ Creates(s)
  /\ injects' = AddTo({g \in Graphs \cap created : SaverOf[g] = s /\ Has(g, "checkpoint")},
                      "checkpoint")
  /\ UNCHANGED <<client, missing>>

\* The one of module.yml is compared with the checkpoint of its own class: to none.
CreateChatSaver == Creates(ChatSaver) /\ UNCHANGED <<client, injects, missing>>

-----------------------------------------------------------------------------
(* The objects, once every prototype is there *)

AllThere == created = Protos

\* boundTools defines the property named like the prototype, for each model in
\* turn: again only if it was injected under that name, since it is configurable.
BindNode(n) ==
  /\ AllThere /\ bound[n].state = "none"
  /\ bound' = [bound EXCEPT ![n] =
       [state |-> IF Len(ModelsOf[n]) > 1 /\ ChatModel \notin ToSet(ModelsOf[n])
                  THEN "error" ELSE "done",
        fields |-> ToSet(ModelsOf[n]) \cap {ChatModel}]]
  /\ UNCHANGED <<protoVars, compiled, callVars>>

\* build: every node, every edge, then compile with the saver.
Built(g) == [state |-> "done", nodes |-> NodesOf[g], edges |-> EdgesOf[g], saver |-> SaverOf[g]]

\* The compiled graph was registered with the name of the class of its graph, and
\* asks for the graph by that.
Found(g) == g \notin Renamed

\* With the first graph that is compiled the tracer has a name.
Compile(g) ==
  /\ AllThere /\ compiled[g].state = "none" /\ \A n \in NodesOf[g] : bound[n].state # "none"
  /\ compiled' = [compiled EXCEPT ![g] =
       IF \/ ~Found(g)
          \/ \E n \in NodesOf[g] : bound[n].state = "error"
       THEN NotYet("error") ELSE Built(g)]
  /\ tracerName' = IF compiled'[g].state = "done" THEN g ELSE tracerName
  /\ UNCHANGED <<protoVars, bound, config, call, logged>>

-----------------------------------------------------------------------------
(* The calls of stream: wrapGraphMethod *)

\* The tracer is put before those the object has.
Traced(k) == [config[ConfigOf[k]] EXCEPT !.tracers = @ + 1]

\* A config that carries an id keeps it, and the graph runs at once.
Start(k) ==
  /\ compiled[GraphOf[k]].state = "done" /\ call[k].state = "none"
  /\ tracerName' = GraphOf[k]
  /\ config' = [config EXCEPT ![ConfigOf[k]] = Traced(k)]
  /\ call' = [call EXCEPT ![k] =
       IF Traced(k).runId = None THEN [@ EXCEPT !.state = "asks"]
       ELSE [state |-> "runs", tracers |-> Traced(k).tracers, runId |-> Traced(k).runId]]
  /\ UNCHANGED <<protoVars, objVars, logged>>

\* The tracer of the request has been awaited: its id is written over what is there.
SetRunId(k) ==
  LET c == ConfigOf[k] IN
  /\ call[k].state = "asks"
  /\ config' = [config EXCEPT ![c].runId = k]
  /\ call' = [call EXCEPT ![k] = [state |-> "runs", tracers |-> config[c].tracers, runId |-> k]]
  /\ UNCHANGED <<protoVars, objVars, tracerName, logged>>

\* The run is over: the tracers of the config log it, under the name of now.
PersistRun(k) ==
  /\ call[k].state = "runs" /\ \A entry \in logged : entry[1] # k
  /\ logged' = logged \cup {<<k, tracerName>>}
  /\ UNCHANGED <<protoVars, objVars, tracerName, config, call>>

Next ==
  \/ \E t \in Tools : CreateTool(t)
  \/ \E c \in Clients : CreateClient(c)
  \/ \E n \in Nodes : CreateNode(n) \/ BindNode(n)
  \/ \E e \in Edges : CreateEdge(e)
  \/ \E g \in Graphs : CreateGraph(g) \/ Compile(g)
  \/ \E s \in Savers : CreateSaver(s)
  \/ CreateChatSaver
  \/ \E k \in Calls : Start(k) \/ SetRunId(k) \/ PersistRun(k)

Spec == Init /\ [][Next]_vars

-----------------------------------------------------------------------------
(* Properties *)

Count(p, ref) == Cardinality({k \in DOMAIN injects[p] : injects[p][k] = ref})

\* In whatever order the prototypes were created, a node injects every tool once
\* and every server, and a graph with a saver every node and edge once; what is
\* compiled then is the whole graph (GraphPrototypeHook, build).
GraphIsWhole ==
  /\ AllThere =>
       /\ \A n \in Nodes : /\ \A t \in ToolsOf[n] : Count(n, t) = 1
                           /\ \A s \in ServersOf[n] : Count(n, s) >= 1
       /\ \A g \in Graphs : SaverOf[g] # None =>
            \A p \in NodesOf[g] \cup EdgesOf[g] : Count(g, p) = 1
  /\ \A g \in Graphs : compiled[g].state = "done" =>
       compiled[g].edges = EdgesOf[g] /\ \A n \in compiled[g].nodes : bound[n].state = "done"

\* A call with a config object of its own is traced once, and its run has the id of
\* its request, whatever else is called meanwhile; with an object that is used again
\* the id is that of one of its calls (wrapGraphMethod writes to the object).
OwnConfigOwnTrace ==
  \A k \in Calls : call[k].state = "runs" =>
    /\ call[k].tracers > 0
    /\ call[k].runId \in {j \in Calls : ConfigOf[j] = ConfigOf[k]}
    /\ (\A j \in Calls \ {k} : ConfigOf[j] # ConfigOf[k]) =>
         call[k].tracers = 1 /\ call[k].runId = k

\* What GraphPrototypeHook says: a saver that comes later is injected then.
CheckpointIsInjected ==
  AllThere => \A g \in Graphs : SaverOf[g] # None => Has(g, "checkpoint")

\* A run is logged under the name of its graph.
LoggedAsItself == \A entry \in logged : entry[2] = GraphOf[entry[1]]

\* A node calls its models with its tools, under whatever name it injects them.
ModelsAreBound ==
  \A n \in Nodes : bound[n].state # "none" =>
    bound[n].state = "done" /\ ToSet(ModelsOf[n]) = bound[n].fields
=============================================================================
