------------------------------- MODULE MCPlugins -------------------------------
(* What plugins do for an application, for TLC: a behaviour is one of a table  *)
(* and its DAO, of a statement that is minified, of data sources, of advices,  *)
(* of a language graph, of ORM realms, of schedules, of the DNS cache, of      *)
(* appends to an OSS object, or of the trace of an agent's execution.          *)
EXTENDS DalTable

CONSTANTS
  None, v, w,
  Fragments, MaxFragments,                                     \* SqlMinify
  Default, Modules, RetryTimes, MaxConnectFaults, MaxBoots,    \* DalSource
  Designs, MaxThrows,                                          \* Aop
  Tools, Nodes, Edges, Graphs, Clients, Savers, ChatSaver,     \* LangGraph
  ToolsOf, ServersOf, ModelsOf, NodesOf, EdgesOf, SaverOf, Renamed,
  Calls, GraphOf, ConfigOf, ChatModel,
  Models, Lists, Single, MaxRealms,                            \* Orm
  Classes, Paths, File, Disabled, MaxFires,                    \* Schedules
  Hosts, Lookups, HostOf, MaxCacheSize, MaxAddresses,          \* DnsCache
  Processes, Appends, WriterOf, MaxFaults,                     \* OssAppend
  ToolUses, MaxMessages                                        \* ClaudeTrace

VARIABLES
  part,
  text,
  clients, tries, indices, stores, phase, delegates, advices, faults, boots,
  design, edges, classes, registered, aspects, boot, at, i, class, args, called, outcome,
  heard, throws,
  protos, client, injects, missing, bound, compiled, tracerName, config, call, logged,
  listed, database, stage, models, realms, realmMap, connecting, connected, realmOf, given,
  agent, worker, registrations, tracked, closed, fired, tasks,
  addressRotation, recent, older, entry, pc, answer, used, last,
  object, appendPositions, ossPc, position, ossFaults, begun, broken,
  rootRun, executionOrder, pendingToolUses, children, log, messages
tableVars == vars
sourceVars == <<clients, tries, indices, stores, phase, delegates, advices, faults, boots>>
aopVars == <<design, edges, classes, registered, aspects, boot, at, i, class, args, called,
             outcome, heard, throws>>
graphVars == <<protos, client, injects, missing, bound, compiled, tracerName, config, call,
               logged>>
ormVars == <<listed, database, stage, models, realms, realmMap, connecting, connected,
             realmOf, given>>
scheduleVars == <<agent, worker, registrations, tracked, closed, fired, tasks>>
dnsVars == <<addressRotation, recent, older, entry, pc, answer, used, last>>
ossVars == <<object, appendPositions, ossPc, position, ossFaults, begun, broken>>
traceVars == <<rootRun, executionOrder, pendingToolUses, children, log, messages>>

-----------------------------------------------------------------------------
(* Values for the constants.  The tables have a name for each kind of statement: *)
(* an automatic key and crossed column names, a composite primary index with a *)
(* unique index, and no primary key at all.                                    *)

Col(property, type, params) == [property |-> property, type |-> [type |-> type], params |-> params]
MCTables ==
  {[columns |-> <<Col("id", "INT", [primaryKey |-> TRUE, autoIncrement |-> TRUE]),
                  Col("name", "VARCHAR", [name |-> "alias", canNull |-> TRUE]),
                  Col("alias", "JSON", [name |-> "name", default |-> v]),
                  Col("gmtCreate", "INT", <<>>), Col("gmtModified", "BIGINT", <<>>)>>,
    indices |-> <<[keys |-> <<"name">>]>>],
   [columns |-> <<Col("a", "INT", <<>>), Col("b", "INT", <<>>),
                  Col("c", "POINT", [canNull |-> TRUE]),
                  Col("d", "VARCHAR", [uniqueKey |-> TRUE])>>,
    indices |-> <<[keys |-> <<"a", "b">>, type |-> "PRIMARY"],
                  [keys |-> <<"d", "a">>, type |-> "UNIQUE", name |-> "foo"]>>],
   [columns |-> <<Col("x", "CHAR", [canNull |-> TRUE]), Col("y", "DATE", <<>>)>>,
    indices |-> <<[keys |-> <<"x">>], [keys |-> <<"y">>]>>]}

(* Words, blanks, strings, hints and comments, with what the automaton is    *)
(* known to misread among them.                                              *)
Pieces ==
  {<<"a">>, <<" ">>, <<"\n">>, <<"+">>, <<"*">>,
   <<"'", "-", "-", "'">>, <<"'", "\\", "'", "#", "'">>, <<"\"", "/", "*", "\"">>,
   <<"-", "-", " ", "c", "\n">>, <<"#", "c", "\n">>, <<"/", "*", " ", "c", "*", "/">>,
   <<"/", "*", "+", "h", "*", "/">>,
   <<"-", "-", "\n">>, <<"/", "*", "*", "/">>, <<"-", "#", "c", "\n">>}

(* Two modules with a data source of one key, whose configurations differ   *)
(* in what it does not tell, and a third with two sources of its own.        *)
Config(told, rest) == [told |-> told, rest |-> rest]
Table(clazz, source) == [clazz |-> clazz, dataSource |-> source]
MCModules ==
  [m1 |-> [sources |-> [foo |-> Config(1, 1)], tables |-> {Table("T", "foo")},
           transactions |-> {[method |-> "save", dataSource |-> None]}],
   m2 |-> [sources |-> [foo |-> Config(1, 2)], tables |-> {Table("U", "foo")},
           transactions |-> {[method |-> "save", dataSource |-> "foo"]}],
   m3 |-> [sources |-> [foo |-> Config(2, 1), default |-> Config(1, 1)],
           tables |-> {Table("T", None), Table("V", "foo")},
           transactions |-> {[method |-> "move", dataSource |-> "default"]}]]

-----------------------------------------------------------------------------
(* Aspects: classes x and y and advices a and b in three modules, with every   *)
(* edge between modules, and pointcuts and crosscuts with equal and unequal    *)
(* orders; an advice may be cut itself.                                        *)

Design(needs, points, a, b) ==
  [home |-> [x |-> "m1", y |-> "m2", a |-> "m2", b |-> "m3"], needs |-> needs,
   pointcuts |-> [x |-> points, y |-> <<>>, a |-> <<>>, b |-> <<>>],
   crosscuts |-> [a |-> a, b |-> b]]
Point(advice, order) == [advice |-> advice, order |-> order]
Cross(target, order) == [class |-> target, order |-> order]
AllDesigns ==
  {Design(needs, points, a, b) :
     needs \in SUBSET {<<"m1", "m3">>, <<"m2", "m1">>, <<"m3", "m2">>},
     points \in {<<>>, <<Point("a", 1)>>, <<Point("a", 2), Point("b", 1)>>},
     a \in {<<>>, <<Cross("x", 1)>>, <<Cross("y", 1)>>, <<Cross("x", 3), Cross("b", 1)>>},
     b \in {<<>>, <<Cross("x", 2)>>, <<Cross("y", 1), Cross("x", 0)>>, <<Cross("b", 1)>>}}

-----------------------------------------------------------------------------
(* Language graphs: g1 has two nodes, an edge and a saver that is a class, g2  *)
(* one of the nodes and a saver that is named; two calls share a config.       *)

OneTool == [n \in Nodes |-> {"t1"}]
TwoServers == [n1 |-> {"srv1", "srv2"}, n2 |-> {}]
ModelFields == [n1 |-> <<"chatModel">>, n2 |-> <<"model">>]
GraphNodes == [g1 |-> {"n1", "n2"}, g2 |-> {"n1"}]
GraphEdges == [g1 |-> {"e1"}, g2 |-> {}]
GraphSavers == [g1 |-> "s1", g2 |-> "named"]
GraphCalls == [k1 |-> "g1", k2 |-> "g2", k3 |-> "g1"]
CallConfigs == [k1 |-> "c1", k2 |-> "c2", k3 |-> "c1"]

\* Databases that are listed or not; two schedules in one file.
ListedOrNot == {{}, {"apple", "banana"}}
TwoInOneFile == [s1 |-> "p1", s2 |-> "p2", s3 |-> "p2"]

\* Clients of the outside: three lookups of one host and one of another over a
\* cache of one; two processes that append twice each.
ThreeOfOneHost == [l1 |-> "h1", l2 |-> "h1", l3 |-> "h1", l4 |-> "h2"]
TwoEach == [a1 |-> "p1", a2 |-> "p1", a3 |-> "p2", a4 |-> "p2"]

-----------------------------------------------------------------------------
(* The instances *)

Sql == INSTANCE SqlMinify
Source == INSTANCE DalSource WITH MaxFaults <- MaxConnectFaults
Aspect == INSTANCE Aop WITH created <- classes
Language == INSTANCE LangGraph WITH created <- protos
Realm == INSTANCE Orm WITH protos <- models, made <- realms
Schedule == INSTANCE Schedules WITH made <- registrations
Dns == INSTANCE DnsCache
Oss == INSTANCE OssAppend WITH pc <- ossPc, faults <- ossFaults
Trace == INSTANCE ClaudeTrace WITH Tools <- ToolUses

-----------------------------------------------------------------------------
Some(set) == CHOOSE e \in set : TRUE
\* What a behaviour is not about has one initial state.
Only(name, set) == IF part = name THEN set ELSE {Some(set)}

\* The assumptions of the instances.
ASSUME InstancesAssumption ==
  /\ Aspect!DesignAssumption /\ Language!LangGraphAssumption
  /\ Realm!OrmAssumption /\ Schedule!ScheduleAssumption
  /\ Dns!DnsAssumption /\ Oss!OssAssumption /\ Trace!TraceAssumption

MCInit ==
  /\ part \in {"table", "statement", "sources", "aspects", "graphs", "realms", "schedules",
              "dns", "oss", "trace"}
  /\ tableModel \in Only("table", {BuildTable(t) : t \in MCTables})
  /\ design \in Only("aspects", Designs)
  /\ listed \in Only("realms", Lists)
  /\ database \in Only("realms", [Models -> Realm!Databases \cup {None}])
  /\ agent \in Only("schedules", Schedule!AgentRegistered)
  /\ addressRotation \in Only("dns", BOOLEAN)
  /\ Init /\ Sql!Init /\ Source!Init /\ Aspect!Init /\ Language!Init
  /\ Realm!Init /\ Schedule!Init /\ Dns!Init /\ Oss!Init /\ Trace!Init

NoTable == UNCHANGED tableVars
NoDal == UNCHANGED <<tableVars, text, sourceVars>>
NoAop == UNCHANGED aopVars
NoGraph == UNCHANGED graphVars
NoPlugin == UNCHANGED <<ormVars, scheduleVars>>
NoClient == UNCHANGED <<dnsVars, ossVars, traceVars>>
MCNext ==
  /\ UNCHANGED part
  /\ \/ part = "table" /\ Next
        /\ UNCHANGED <<text, sourceVars>> /\ NoAop /\ NoGraph /\ NoPlugin /\ NoClient
     \/ part = "statement" /\ Sql!Next
        /\ UNCHANGED <<tableVars, sourceVars>> /\ NoAop /\ NoGraph /\ NoPlugin /\ NoClient
     \/ part = "sources" /\ Source!Next
        /\ UNCHANGED <<tableVars, text>> /\ NoAop /\ NoGraph /\ NoPlugin /\ NoClient
     \/ part = "aspects" /\ Aspect!Next /\ NoDal /\ NoGraph /\ NoPlugin /\ NoClient
     \/ part = "graphs" /\ Language!Next /\ NoDal /\ NoAop /\ NoPlugin /\ NoClient
     \/ part = "realms" /\ Realm!Next /\ UNCHANGED scheduleVars
        /\ NoDal /\ NoAop /\ NoGraph /\ NoClient
     \/ part = "schedules" /\ Schedule!Next /\ UNCHANGED ormVars
        /\ NoDal /\ NoAop /\ NoGraph /\ NoClient
     \/ part = "dns" /\ Dns!Next /\ UNCHANGED <<ossVars, traceVars>>
        /\ NoDal /\ NoAop /\ NoGraph /\ NoPlugin
     \/ part = "oss" /\ Oss!Next /\ UNCHANGED <<dnsVars, traceVars>>
        /\ NoDal /\ NoAop /\ NoGraph /\ NoPlugin
     \/ part = "trace" /\ Trace!Next /\ UNCHANGED <<dnsVars, ossVars>>
        /\ NoDal /\ NoAop /\ NoGraph /\ NoPlugin
MCSpec ==
  MCInit /\ [][MCNext]_<<part, tableVars, text, sourceVars, aopVars, graphVars, ormVars,
                         scheduleVars, dnsVars, ossVars, traceVars>>

-----------------------------------------------------------------------------
(* Properties *)

\* What a DAO saved its finders find, by its keys and with null among the values;
\* what is sent to the database means what was rendered; and a method with
\* @Transactional runs on the source that its table writes to (DalTable, SqlMinify,
\* DalSource).
DalKeepsItsWord ==
  SavedIsFound /\ Sql!MinifyKeepsTheStatement /\ Source!TransactionsCoverTheirWrites

\* Hooks of the life of an object find it complete, whatever order the prototypes
\* came in: a class that is up has every advice declared for it, an advice that was
\* called hears the end of the call, whatever threw (Aop), and a language graph is
\* compiled with all that was declared of it and traces a call once (LangGraph).
HooksSeeTheWhole ==
  /\ Aspect!WovenAsDeclared /\ Aspect!CallIsFramed
  /\ Language!GraphIsWhole /\ Language!OwnConfigOwnTrace

\* Whoever asks for a database has the realm its models are in, and a tick calls
\* the class of its file, never a disabled one or after the end (Orm, Schedules).
OneOfEach == Realm!OneRealmForADatabase /\ Schedule!TicksCallTheirClass

\* What a client keeps of the outside stays true of it: the addresses of a cached
\* host answer a query of that host and share its load (DnsCache), and an append to
\* an object that returned is in it once, one that failed is not, unless the very
\* call was hit by a fault (OssAppend).
ClientsKeepTheTruth == Dns!RotationIsFair /\ Dns!CacheHoldsAnswers /\ Oss!AppendedOnce

\* The logged runs are one tree, each closed when the result is logged (ClaudeTrace).
TraceIsWellFormed == Trace!TraceIsWellFormed
=============================================================================
