--------------------------------- MODULE MCBoot ---------------------------------
(* From the modules of an application to its shutdown, for TLC: a behaviour   *)
(* is one of the modules and their configuration, of the injects that a class *)
(* declares, of the resolution of injects, of the units and their instances,  *)
(* or of the properties of egg that are objects too.                          *)
EXTENDS InjectGraph

CONSTANTS Runs, UnitCount, MaxFaults,                                    \* of the units
          Dirs, Trees, Listings, NoName, Envs, FileSets, MaxApps, d1, d2, d3,   \* of the modules
          Names, Contexts, NoContext, NoValue,                           \* of the properties
          None, Modules, Home, Present                                   \* of the classes

VARIABLES
  part,
  host, loadUnitMap, instanceMap, publicProtoMap, live, lifecycles, pc, at, loadUnits,
  loadUnitInstances, faults, overlapped, failed,
  tree, listings, kind, refs, next, moduleMap, nameMap, error, files, configNames, apps,
  appProperties, contextProperties, loggers, current, given, cache, read,
  class, todo, injectType, injects, initType, infoIndex, units, described, descriptors, args,
  thrown
bootVars == <<host, loadUnitMap, instanceMap, publicProtoMap, live, lifecycles, pc, at,
              loadUnits, loadUnitInstances, faults, overlapped, failed>>
moduleVars == <<tree, listings, kind, refs, next, moduleMap, nameMap, error, files,
                configNames, apps>>
eggVars == <<appProperties, contextProperties, loggers, current, given, cache, read>>
classVars == <<class, todo, injectType, injects, initType, infoIndex, units, described,
               descriptors, args, thrown>>

-----------------------------------------------------------------------------
(* Prototypes: a and b, with what they may declare *)

Ask(name, qualifiers, opt) ==
  <<[name |-> name, qualifiers |-> qualifiers, optional |-> opt]>>
AShapes ==
  [name : {"a"}, unit : {"m1", "m2"}, init : {"CONTEXT", "SINGLETON"}, public : BOOLEAN,
   injects : {<<>>}]
  \cup [name : {"a"}, unit : {"m1"}, init : {"SINGLETON"}, public : {TRUE},
        injects : {Ask("b", <<>>, FALSE)}]
BShapes ==
  [name : {"b"}, unit : {"m1", "m3"}, init : {"SINGLETON"}, public : {TRUE},
   injects : {Ask("a", <<>>, FALSE)}]
  \cup [name : {"b"}, unit : {"m1"}, init : {"SINGLETON"}, public : {TRUE},
        injects : {Ask("a", [init |-> "SINGLETON"], TRUE)}]
AllShapes == AShapes \cup BShapes

Boot == INSTANCE ModuleBoot WITH hooks <- lifecycles

-----------------------------------------------------------------------------
(* Modules: three directories, two of which may have one name or one path;    *)
(* module.json, or a scan that may meet a directory twice; every set of five  *)
(* configuration files.                                                       *)

Dir(name, base) == [name |-> name, base |-> base]
AllTrees ==
  {d1 :> Dir("a", "x") @@ d2 :> second @@ d3 :> third :
     second \in {Dir("b", "x"), Dir("a", "y")},
     third \in {Dir("c", "z"), Dir(NoName, "x"), Dir("a", "z")}}
UpTo(n) == BoundedSeq({d1, d2, d3}, n)
AllListings ==
  [json : {FALSE}, dirs : UpTo(2), deps : UpTo(1)]
  \cup [json : {TRUE}, dirs : UpTo(2), deps : {<<>>}]
AllFileSets ==
  SUBSET {<<"module", "yml">>, <<"module.default", "json">>, <<"prod", "yml">>,
          <<"prod", "json">>, <<"unit", "json">>}
M == INSTANCE ModuleConfig WITH host <- kind

E == INSTANCE EggProperties

-----------------------------------------------------------------------------
(* Classes: up to three parameters, or properties, in every form an inject    *)
(* takes; and classes of multiple instances, of which a module describes some. *)

Member(decorators, own, asName, type) ==
  [decorators |-> decorators, own |-> own, given |-> asName, typed |-> type]
Forms ==
  {Member(decorators, "p1", None, type) :
     decorators \in {<<"inject">>, <<"optional">>, <<"inject", "asked">>, <<"asked", "inject">>},
     type \in {None, "typed"}}
  \cup {Member(<<>>, "p1", None, None), Member(<<"info">>, "p1", None, None),
        Member(<<"inject">>, "p1", "given", None), Member(<<"optional">>, "p1", "gone", None)}
IsInfo(m) == Contains(m.decorators, "info")
MemberLists ==
  {[i \in DOMAIN s |-> [s[i] EXCEPT !.own = <<"p1", "p2", "p3">>[i]]] :
     s \in {l \in BoundedSeq(Forms, 3) : Len(SelectSeq(l, IsInfo)) <= 1}}
Class(properties, parameters, instances, type, shared) ==
  [properties |-> properties, parameters |-> parameters, kind |-> type,
   instances |-> instances, shared |-> shared]
Instance(name, unit) == [name |-> name, unit |-> unit]
One == {Instance("x", None)}
Classes ==
  {Class(<<>>, l, One, "none", FALSE) : l \in MemberLists}
  \cup {Class(l, <<>>, One, "none", FALSE) :
         l \in {s \in MemberLists : Len(s) = 2 /\ \A m \in Range(s) : m.decorators # <<>> /\ ~IsInfo(m)}}
  \cup {Class(<<Member(<<"inject">>, "own", None, "typed")>>, l, One, "none", FALSE) :
         l \in {s \in MemberLists : Len(s) = 1}}
  \cup {Class(<<>>, <<>>, several, type, shared) :
         several \in SUBSET {Instance("x", None), Instance("y", None), Instance("x", "m1")},
         type \in {"static", "dynamic"}, shared \in BOOLEAN}
ThreeModules == <<"m1", "m2", "m3">>
I == INSTANCE Injection WITH next <- described, error <- thrown

-----------------------------------------------------------------------------
Parts == {"graph", "units", "modules", "configuration", "egg", "class"}
Some(S) == CHOOSE e \in S : TRUE
\* What a behaviour is not about has one initial state.
Only(name, S) == IF part = name THEN S ELSE {Some(S)}

\* The assumptions of the instances.
ASSUME InstancesAssumption ==
  Boot!BootAssumption /\ M!ModuleConfigAssumption /\ I!InjectionAssumption

MCInit ==
  /\ part \in Parts
  /\ optional \in Only("graph", SUBSET Range(Units))
  /\ host \in Only("units", {"app", "standalone"})
  /\ tree \in Only("modules", Trees) /\ kind \in Only("modules", {"egg", "standalone"})
  /\ listings \in Only("modules", Listings \X Listings)
  /\ files \in Only("configuration", FileSets)
  /\ appProperties \in Only("egg", SUBSET Names)
  /\ contextProperties \in Only("egg", SUBSET Names)
  /\ loggers \in Only("egg", SUBSET Names)
  /\ class \in Only("class", Classes)
  /\ Init /\ Boot!Init /\ M!Init /\ E!Init /\ I!Init
MCNext ==
  /\ UNCHANGED part
  /\ \/ part = "graph" /\ Next /\ UNCHANGED <<bootVars, moduleVars, eggVars, classVars>>
     \/ part = "units" /\ Boot!Next /\ UNCHANGED <<vars, moduleVars, eggVars, classVars>>
     \/ part = "modules" /\ M!References /\ UNCHANGED <<vars, bootVars, eggVars, classVars>>
     \/ part = "configuration" /\ M!Configuration
        /\ UNCHANGED <<vars, bootVars, eggVars, classVars>>
     \/ part = "egg" /\ E!Next /\ UNCHANGED <<vars, bootVars, moduleVars, classVars>>
     \/ part = "class" /\ I!Next /\ UNCHANGED <<vars, bootVars, moduleVars, eggVars>>
MCSpec == MCInit /\ [][MCNext]_<<part, vars, bootVars, moduleVars, eggVars, classVars>>
UnitsSpec == part = "units" /\ MCSpec

-----------------------------------------------------------------------------
(* Properties *)

\* A boot keeps to the graph: a prototype is created after all it was wired to, an
\* inject that one prototype alone can answer gets that one, and creating a prototype
\* fails only for an inject that the graph left out, that asks for an init type, or
\* that several prototypes of the context answer.
GraphForeseesBoot == CreatedAfterWired /\ UnambiguousIsInjected /\ WiredIsFound

\* The singletons of a unit do not outlive it, the hooks of a boot are called
\* for all its units, and a run that was destroyed leaves nothing (ModuleBoot).
BootIsUndone == Boot!LiveHasUnit /\ Boot!HooksOutliveUnits /\ Boot!NothingIsLeft

\* A module is there once, by path and by name, or the application is told; and
\* an egg application has the configuration of its own env (ModuleConfig).
ModulesAreWhole == M!ModulesAreUnique /\ M!EggConfigIsOfItsEnv

\* A property of egg is one object, of the application or of the context, and
\* what is read of it is its value at that time (EggProperties).
PropertiesAreObjects == E!OneObjectForAName /\ E!ReadIsCurrent

\* What a class asks for is what its object gets: a parameter at its place, the
\* init type as asked, and each module the instances it describes (Injection).
DeclaredIsInjected == I!ArgumentsAreInPlace /\ I!AskedIsKept /\ I!InstancesAreTheModules

\* What a comment says of the deletion of prototypes: see ModuleBoot.
NextRunBoots == Boot!NextRunBoots
=============================================================================
