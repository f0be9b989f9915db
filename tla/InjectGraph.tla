------------------------------ MODULE InjectGraph ------------------------------
(***************************************************************************)
(* How injects are resolved, twice: GlobalGraph resolves them over all     *)
(* declared prototypes, to know the order in which modules and prototypes  *)
(* are created; EggPrototypeBuilder resolves them again when it creates a  *)
(* prototype, over the prototypes registered so far.                       *)
(***************************************************************************)
EXTENDS Naturals, Sequences, SequencesExt, FiniteSets, TLC

CONSTANTS
  Units,        \* the modules, in the order in which they are read
  Shapes,       \* what a class can declare
  MaxProtos,    \* bound on the prototypes of the application
  MaxHooks      \* bound on the injects that build hooks add

IsSequence(s) == s \in Seq(Range(s))

\* A prototype: its name, module, init type, access level, and the injects of
\* its class, each by name and qualifiers.
ASSUME InjectAssumption ==
  /\ MaxProtos \in Nat /\ MaxHooks \in Nat /\ IsSequence(Units)
  /\ \A s \in Shapes :
       /\ s.unit \in Range(Units) /\ s.init \in {"CONTEXT", "SINGLETON", "ALWAYS_NEW"}
       /\ s.public \in BOOLEAN
       /\ IsSequence(s.injects)
       /\ \A i \in DOMAIN s.injects :
            LET r == s.injects[i] IN
            DOMAIN r.qualifiers \subseteq {"init", "unit"} /\ r.optional \in BOOLEAN

VARIABLES
  protos,            \* the declared prototypes; a node is an index of it
  optional,          \* the modules that are only wanted when used
  phase,             \* declare, built, boot, done, or the error
  protoGraph, moduleGraph, hooks,
  order,             \* the prototypes in the order of their creation
  created,           \* how many of them are
  injected           \* what the builder found for each inject

graphVars == <<protoGraph, moduleGraph, hooks, order>>
vars == <<protos, optional, phase, graphVars, created, injected>>

Nodes == 1 .. Len(protos)
NotFound == 0

-----------------------------------------------------------------------------
(* Graph of common-util: a map of nodes, each with the map of the nodes it    *)
(* points to; both keep the order of insertion.  Here it is a function from   *)
(* its nodes to the sequences of the nodes they point to.                     *)

\* addEdge, from each of these: a second edge to the same node is not kept.
AddEdge(graph, froms, to) ==
  [node \in DOMAIN graph |->
     IF node \in froms /\ ~Contains(graph[node], to) THEN Append(graph[node], to)
     ELSE graph[node]]

\* The two searches recur along edges; a path without a loop has each node once, so it
\* is no longer than this.
Depth(graph) == Cardinality(DOMAIN graph)

\* appendVertexToPath, from a node over the path that led to it, and loopPath.
HasLoop(graph) ==
  LET loops[n \in 0 .. Depth(graph)] ==
        [node \in DOMAIN graph |-> [path \in SUBSET DOMAIN graph |->
           \/ node \in path
           \/ n > 0 /\ \E to \in Range(graph[node]) : loops[n - 1][to][path \cup {node}]]] IN
  \E node \in DOMAIN graph : loops[Depth(graph)][node][{}]

\* One node after the other is accessed.
Visit(access, res, nodes) ==
  LET visited[i \in 0 .. Len(nodes)] ==
        IF i = 0 THEN res ELSE access[visited[i - 1]][nodes[i]] IN
  visited[Len(nodes)]

\* accessNode: a node comes after all it points to.
AccessNode(graph) ==
  LET access[n \in 0 .. Depth(graph)] ==
        [res \in Seq(DOMAIN graph) |-> [node \in DOMAIN graph |->
           IF n = 0 \/ Contains(res, node) THEN res
           ELSE Append(Visit(access[n - 1], res, graph[node]), node)]] IN
  access[Depth(graph)]

\* sort, of a graph whose nodes were added in this order.
Sort(graph, nodes) == Visit(AccessNode(graph), <<>>, nodes)

\* The elements of a sequence that are in a set, in order.
Within(s, S) ==
  LET kept[i \in 0 .. Len(s)] ==
        IF i = 0 THEN <<>>
        ELSE IF s[i] \in S THEN Append(kept[i - 1], s[i]) ELSE kept[i - 1] IN
  kept[Len(s)]

-----------------------------------------------------------------------------
(* The application *)

Init ==
  /\ protos = <<>> /\ optional \in SUBSET Range(Units) /\ phase = "declare"
  /\ protoGraph = <<>> /\ moduleGraph = <<>> /\ hooks = 0 /\ order = <<>>
  /\ created = 0 /\ injected = <<>>

-----------------------------------------------------------------------------
(* Resolution over the declared prototypes *)

\* addDefaultQualifier
Qualifiers(p) == [init |-> p.init, unit |-> p.unit]

\* mergeQualifiers: a later one replaces an earlier one of its attribute.
Merge(earlier, later) ==
  [a \in DOMAIN earlier \cup DOMAIN later |-> IF a \in DOMAIN later THEN later[a] ELSE earlier[a]]

\* matchQualifiers
MatchQualifiers(own, request) == \A a \in DOMAIN request : own[a] = request[a]

\* selectProto
Select(q, name, unit, qualifiers) ==
  /\ q.name = name /\ (q.public \/ q.unit = unit) /\ MatchQualifiers(Qualifiers(q), qualifiers)

\* The nodes one round of findDependencyProtoNode leaves: none, one, or many.
Pick(p, name, qualifiers) ==
  LET With(more) ==
        {n \in Nodes : Select(protos[n], name, p.unit, Merge(qualifiers, more))}
      found == With(<<>>)
      context == With([init |-> "CONTEXT"])
      self == With([init |-> p.init]) IN
  CASE Cardinality(found) <= 1 -> found
    [] Cardinality(found) > 1 /\ Cardinality(context) = 1 -> context
    [] Cardinality(found) > 1 /\ Cardinality(context) # 1 /\ Cardinality(self) = 1 -> self
    [] OTHER -> found

\* findDependencyProtoNode
FindDependency(p, r) ==
  LET first == Pick(p, r.name, r.qualifiers) IN
  IF Cardinality(first) <= 1 \/ "unit" \in DOMAIN r.qualifiers THEN first
  ELSE Pick(p, r.name, Merge(r.qualifiers, [unit |-> p.unit]))

Injects == UNION {{n} \X DOMAIN protos[n].injects : n \in Nodes}
Wired(n, i) == FindDependency(protos[n], protos[n].injects[i])

-----------------------------------------------------------------------------
(* The graph *)

\* createProtoId
ProtoId(p) == <<p.name, p.unit, Qualifiers(p)>>

\* addClazz and addModuleNode: the modules one after the other.
Declare(s) ==
  LET At(unit) == CHOOSE i \in DOMAIN Units : Units[i] = unit IN
  /\ phase = "declare" /\ Len(protos) < MaxProtos
  /\ \A n \in Nodes : At(protos[n].unit) <= At(s.unit)
  /\ IF \E n \in Nodes : ProtoId(protos[n]) = ProtoId(s)
     THEN phase' = "duplicate proto" /\ UNCHANGED protos
     ELSE protos' = Append(protos, s) /\ UNCHANGED phase
  /\ UNCHANGED <<optional, graphVars, created, injected>>

\* addInject, on both graphs, from each of these prototypes.
AddInject(graphs, froms, to) ==
  LET unit == protos[to].unit IN
  [proto |-> AddEdge(graphs.proto, froms, to),
   module |-> AddEdge(graphs.module, {protos[n].unit : n \in froms} \ {unit}, unit)]

\* buildInjectEdge, of an inject that is found or left out.
BuildInject(graphs, n, i) ==
  IF Wired(n, i) = {} THEN graphs
  ELSE AddInject(graphs, {n}, CHOOSE to \in Wired(n, i) : TRUE)
\* The edges of one prototype after the other, and of one inject after the other.
BuildNode(graphs, n) ==
  LET edges[i \in 0 .. Len(protos[n].injects)] ==
        IF i = 0 THEN graphs ELSE BuildInject(edges[i - 1], n, i) IN
  edges[Len(protos[n].injects)]
BuildGraphs ==
  LET none == [proto |-> [n \in Nodes |-> <<>>], module |-> [u \in Range(Units) |-> <<>>]]
      edges[n \in 0 .. Len(protos)] == IF n = 0 THEN none ELSE BuildNode(edges[n - 1], n) IN
  edges[Len(protos)]

\* build
Build ==
  /\ phase = "declare"
  /\ IF \E ni \in Injects : Cardinality(Wired(ni[1], ni[2])) > 1
     THEN phase' = "multi prototype" /\ UNCHANGED <<protoGraph, moduleGraph>>
     ELSE phase' = "built" /\ protoGraph' = BuildGraphs.proto /\ moduleGraph' = BuildGraphs.module
  /\ UNCHANGED <<protos, optional, hooks, order, created, injected>>

\* The edges a build hook adds, from each of these to one.
Hooked(froms, to) ==
  LET graphs == AddInject([proto |-> protoGraph, module |-> moduleGraph], froms, to) IN
  /\ hooks < MaxHooks /\ hooks' = hooks + 1
  /\ protoGraph' = graphs.proto /\ moduleGraph' = graphs.module

\* crossCutGraphHook: what an advice cuts across needs it.
CrossCutGraphHook(advice, matched) ==
  /\ phase = "built" /\ Hooked(matched, advice)
  /\ UNCHANGED <<protos, optional, phase, order, created, injected>>

\* pointCutGraphHook: a class needs the advice it names, if one is found.
PointCutGraphHook(n, name) ==
  LET found == FindDependency(protos[n], [name |-> name, qualifiers |-> <<>>]) IN
  /\ phase = "built" /\ found # {}
  /\ IF Cardinality(found) = 1
     THEN Hooked({n}, CHOOSE to \in found : TRUE) /\ UNCHANGED phase
     ELSE phase' = "multi prototype" /\ UNCHANGED graphVars
  /\ UNCHANGED <<protos, optional, order, created, injected>>

\* middlewareGraphHook: a controller needs its middlewares, given as classes.
MiddlewareGraphHook(controller, middleware) ==
  /\ phase = "built" /\ Hooked({controller}, middleware)
  /\ UNCHANGED <<protos, optional, phase, order, created, injected>>

\* Used by another module.
IsUsed(unit) == \E u \in DOMAIN moduleGraph : Contains(moduleGraph[u], unit)

\* sortModule: without the optional modules nobody uses.
SortModule ==
  Within(Sort(moduleGraph, Units), {u \in Range(Units) : u \notin optional \/ IsUsed(u)})

Of(unit) == {n \in Nodes : protos[n].unit = unit}
\* Mutation: the prototypes of a module as they were declared.
SortClazz_Bug(unit) == Within([n \in Nodes |-> n], Of(unit))

\* sortClazz: of all prototypes, those of the module.
SortClazz(unit) == Within(Sort(protoGraph, [n \in Nodes |-> n]), Of(unit))

\* sort, and the order in which the loader creates: the modules one after the other.
Joined(units) ==
  LET joined[i \in 0 .. Len(units)] ==
        IF i = 0 THEN <<>> ELSE joined[i - 1] \o SortClazz(units[i]) IN
  joined[Len(units)]
SortAll ==
  /\ phase = "built"
  /\ IF HasLoop(moduleGraph) \/ HasLoop(protoGraph)
     THEN phase' = "recursive deps" /\ UNCHANGED order
     ELSE phase' = "boot" /\ order' = Joined(SortModule)
  /\ UNCHANGED <<protos, optional, protoGraph, moduleGraph, hooks, created, injected>>

-----------------------------------------------------------------------------
(* Creation *)

\* registerPrototype
Registered == {order[i] : i \in 1 .. created}

\* verifyQualifiers
VerifyQualifiers(p, qualifiers) == \A a \in DOMAIN qualifiers : Qualifiers(p)[a] = qualifiers[a]

\* doGetPrototype: those of the own module, else the public ones.
GetPrototype(unit, name, qualifiers) ==
  LET named == {n \in Registered : protos[n].name = name /\ VerifyQualifiers(protos[n], qualifiers)}
      own == {n \in named : protos[n].unit = unit} IN
  IF own # {} THEN own ELSE {n \in named : protos[n].public}

\* tryFindDefaultPrototype, and with an init type.
TryFind(p, r, more) == GetPrototype(p.unit, r.name, Merge(r.qualifiers, more))

\* findInjectObjectPrototype: as asked for; if they are many and no init type
\* was asked for, those of the context; if there are none, of the own type.
FindInject(p, r) ==
  LET asked == TryFind(p, r, <<>>)
      context == TryFind(p, r, [init |-> "CONTEXT"])
      self == TryFind(p, r, [init |-> p.init]) IN
  CASE Cardinality(asked) <= 1 \/ "init" \in DOMAIN r.qualifiers -> asked
    [] Cardinality(asked) > 1 /\ "init" \notin DOMAIN r.qualifiers /\ context # {} -> context
    [] OTHER -> self

\* build, of a prototype: an inject is found, or optional and not there.
IsBuilt(p, found) ==
  \A i \in DOMAIN found : Cardinality(found[i]) = 1 \/ (found[i] = {} /\ p.injects[i].optional)

\* init of a module: the prototypes one after the other.
Create ==
  LET p == protos[order[created + 1]]
      found == [i \in DOMAIN p.injects |-> FindInject(p, p.injects[i])] IN
  /\ phase = "boot" /\ created < Len(order)
  /\ IF IsBuilt(p, found)
     THEN /\ created' = created + 1 /\ UNCHANGED phase
          /\ injected' = Append(injected, [i \in DOMAIN found |->
               IF found[i] = {} THEN NotFound ELSE CHOOSE n \in found[i] : TRUE])
     ELSE /\ phase' = IF \E i \in DOMAIN found : Cardinality(found[i]) > 1
                      THEN "multi at boot" ELSE "not found at boot"
          /\ UNCHANGED <<created, injected>>
  /\ UNCHANGED <<protos, optional, graphVars>>

Booted ==
  /\ phase = "boot" /\ created = Len(order) /\ phase' = "done"
  /\ UNCHANGED <<protos, optional, graphVars, created, injected>>

Next ==
  \/ \E s \in Shapes : Declare(s)
  \/ Build
  \/ \E advice \in Nodes : \E matched \in (SUBSET Nodes) \ {{}} : CrossCutGraphHook(advice, matched)
  \/ \E n \in Nodes, name \in {s.name : s \in Shapes} : PointCutGraphHook(n, name)
  \/ \E controller, middleware \in Nodes : MiddlewareGraphHook(controller, middleware)
  \/ SortAll \/ Create \/ Booted

Spec == Init /\ [][Next]_vars

-----------------------------------------------------------------------------
(* Properties *)

\* What a prototype was wired to exists when it is created.
Position(n) == CHOOSE i \in DOMAIN order : order[i] = n
CreatedAfterWired ==
  phase \in {"boot", "done"} =>
    \A i \in DOMAIN order : \A to \in Range(protoGraph[order[i]]) :
      Contains(order, to) /\ Position(to) < i

\* An inject that one prototype alone can answer, of all that are declared, gets
\* that one: at its creation it is there, and nothing else answers.
UnambiguousIsInjected ==
  \A i \in DOMAIN injected : \A k \in DOMAIN injected[i] :
       LET p == protos[order[i]]
           r == p.injects[k]
           all == {n \in Nodes : Select(protos[n], r.name, p.unit, r.qualifiers)} IN
       Cardinality(all) = 1 => injected[i][k] \in all

\* The context prototypes that an inject may be given, of all that are declared.
OfContext(p, r) ==
  {n \in Nodes : Select(protos[n], r.name, p.unit, Merge(r.qualifiers, [init |-> "CONTEXT"]))}

\* The prototype that is created next finds each inject that was wired, and finds
\* one prototype only, unless several of the context answer it: those the builder
\* does not tell apart, while the graph goes on to the own init type and module.
\* An inject that asks for an init type is not covered, see WiredAsAsked.
WiredIsFound ==
  created < Len(order) =>
    LET n == order[created + 1]
        p == protos[n] IN
    \A i \in DOMAIN p.injects :
      LET r == p.injects[i]
          found == FindInject(p, r) IN
      Wired(n, i) # {} /\ "init" \notin DOMAIN r.qualifiers =>
        found # {} /\ (Cardinality(OfContext(p, r)) <= 1 => Cardinality(found) = 1)

\* "2. try to add Context qualifier to find": an inject is wired to a prototype
\* that has the qualifiers it asks for.
WiredAsAsked ==
  phase = "built" => \A ni \in Injects : \A to \in Wired(ni[1], ni[2]) :
    VerifyQualifiers(protos[to], protos[ni[1]].injects[ni[2]].qualifiers)
=============================================================================
