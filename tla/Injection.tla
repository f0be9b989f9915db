------------------------------ MODULE Injection ------------------------------
(* A class and its prototypes: the decorators of its members fill the        *)
(* metadata; every module describes its instances of the class; a prototype   *)
(* is made and an object constructed with what was found for its members.    *)
EXTENDS Sequences, Naturals, FiniteSets, Functions

CONSTANTS
  None,
  Classes,      \* [properties, parameters: Seq of members, instances: a set of ObjectInfo,
                \*  kind: none | static | dynamic, shared: getObjects returns the same objects]
  Modules,      \* a sequence, in the order the graph builds them
  Home,         \* the module whose loader has the class
  Present       \* the names of objects that exist

\* A member: [decorators: Seq({"inject", "optional", "asked", "info"}) as they are applied,
\*            own, given, typed: names, of which given and typed may be None].
\* An ObjectInfo: [name, unit: the module its qualifiers name, or None].
\* A member is injected once at most, and one parameter alone has MultiInstanceInfo.
Injections == {"inject", "optional", "info"}
Infos(c) == {i \in DOMAIN c.parameters : "info" \in Range(c.parameters[i].decorators)}
InjectionAssumption ==
  /\ Modules \in Seq(Range(Modules)) /\ Home \in Range(Modules) /\ None \notin Range(Modules)
  /\ "undefined" \notin Present
  /\ \A c \in Classes :
       /\ \A members \in {c.properties, c.parameters} :
            /\ Len(members) \in Nat /\ DOMAIN members = 1..Len(members)
            /\ \A i \in DOMAIN members :
                 LET ds == members[i].decorators IN
                 \A j, k \in DOMAIN ds : ds[j] \in Injections /\ ds[k] \in Injections => j = k
       /\ \A i, j \in Infos(c) : i = j
       /\ \A i \in DOMAIN c.properties : "info" \notin Range(c.properties[i].decorators)

VARIABLES
  class,
  todo,         \* decorators still to be applied: [where, index, nth: of the member's]
  injectType,   \* none, "PROPERTY", "CONSTRUCTOR"
  injects,      \* INJECT_OBJECT_NAME_SET or INJECT_CONSTRUCTOR_NAME_SET, as it grew
  initType,     \* member index -> its init type qualifier: none, guessed, asked
  infoIndex,    \* of the parameter with MultiInstanceInfo, 0 for none
  units,        \* ObjectInfo -> the unit its qualifiers name by now
  next,         \* how many modules have described their instances
  descriptors,  \* [module, object, unit]
  args,         \* what the constructor was called with, None before
  error

vars == <<class, todo, injectType, injects, initType, infoIndex, units, next, descriptors,
          args, error>>
declared == <<todo, injectType, injects, initType, infoIndex>>

-----------------------------------------------------------------------------
(* Decorators: of the properties in order, then of the parameters from last to first *)

Of(where, members) ==
  {[where |-> where, index |-> x[1], nth |-> x[2]] : x \in
     UNION {{i} \X DOMAIN members[i].decorators : i \in DOMAIN members}}
Applied(c) == Of("PROPERTY", c.properties) \cup Of("CONSTRUCTOR", c.parameters)
Before(a, b) ==
  \/ a.where = "PROPERTY" /\ b.where = "CONSTRUCTOR"
  \/ a.where = "PROPERTY" /\ b.where = "PROPERTY" /\ a.index < b.index
  \/ a.where = "CONSTRUCTOR" /\ b.where = "CONSTRUCTOR" /\ a.index > b.index
  \/ a.where = b.where /\ a.index = b.index /\ a.nth < b.nth

Init ==
  /\ class \in Classes /\ todo = Applied(class)
  /\ injectType = "none" /\ injects = <<>> /\ infoIndex = 0
  /\ initType = [i \in 1..(Len(class.properties) + Len(class.parameters)) |-> "none"]
  /\ units = [o \in class.instances |-> o.unit] /\ next = 0 /\ descriptors = {}
  /\ args = None /\ error = "none"

Members(where) == IF where = "PROPERTY" THEN class.properties ELSE class.parameters
\* InjectOptional gives a parameter object, so nothing is guessed from the member's type.
Guesses(member, d) == d = "inject" /\ member.given = None /\ member.typed # None
\* The name injected: the given one, that of the prototype of the member's type, its own.
ObjName(member, d) ==
  IF member.given # None THEN member.given
  ELSE IF Guesses(member, d) THEN member.typed ELSE member.own
\* guessInjectInfo: the type's init type, unless a qualifier asks for one.
Guessed(i) == IF initType[i] = "asked" THEN "asked" ELSE "guessed"
Inject(where, i, d) ==
  LET member == Members(where)[i] IN
  IF injectType \notin {"none", where}
    THEN error' = "mixed" /\ UNCHANGED <<injectType, injects, initType>>
    ELSE /\ injectType' = where
         /\ injects' = Append(injects, [index |-> i, optional |-> d = "optional",
                                        name |-> ObjName(member, d)])
         /\ initType' = IF Guesses(member, d) THEN [initType EXCEPT ![i] = Guessed(i)]
                        ELSE initType
         /\ UNCHANGED error
Decorate ==
  /\ error = "none"
  /\ \E here \in todo :
       /\ \A other \in todo \ {here} : Before(here, other)
       /\ LET where == here.where i == here.index d == Members(where)[i].decorators[here.nth] IN
          \/ d \in {"inject", "optional"} /\ Inject(where, i, d) /\ UNCHANGED infoIndex
          \/ /\ d = "asked" /\ initType' = [initType EXCEPT ![i] = "asked"]
             /\ UNCHANGED <<injectType, injects, infoIndex, error>>
          \/ /\ d = "info" /\ infoIndex' = i
             /\ UNCHANGED <<injectType, injects, initType, error>>
       /\ todo' = todo \ {here}
  /\ UNCHANGED <<class, units, next, descriptors, args>>

-----------------------------------------------------------------------------
(* Descriptors *)

\* getObjects returns the objects, or copies of them: what was written to one it shares stays.
Objects(m) == IF class.kind = "dynamic" THEN class.instances
              ELSE IF m = Home THEN class.instances ELSE {}
\* addDefaultQualifier, to a copy of the qualifiers.
UnitOf(o, m) == IF units[o] = None THEN m ELSE units[o]
Written(o, m) == units[o]
Describe ==
  /\ todo = {} /\ error = "none" /\ next < Len(Modules)
  /\ LET m == Modules[next + 1] IN
     /\ descriptors' = descriptors \cup
          {[module |-> m, object |-> o, unit |-> UnitOf(o, m)] : o \in Objects(m)}
     /\ units' = [o \in DOMAIN units |-> IF o \in Objects(m) THEN Written(o, m) ELSE units[o]]
  /\ next' = next + 1
  /\ UNCHANGED <<class, declared, args, error>>

-----------------------------------------------------------------------------
(* The prototype and its object *)

InOrder_Bug(S) ==
  [k \in 1..Cardinality(S) |->
     injects[CHOOSE j \in DOMAIN injects :
               injects[j] \in S /\ Cardinality({l \in 1..j : injects[l] \in S}) = k]]
\* getInjectObjects: sorted by the index of the parameter.
InOrder(S) ==
  [k \in 1..Cardinality(S) |->
     CHOOSE r \in S : Cardinality({s \in S : s.index <= r.index}) = k]
\* EggPrototypeBuilder.build: an optional object that is not found is left out.
Found == InOrder({r \in Range(injects) : r.name \in Present})
Required == {r.name : r \in {s \in Range(injects) : ~s.optional}}
\* initWithInjectConstructor: what was found, and the ObjectInfo where it belongs.
ConstructArgs ==
  IF infoIndex = 0 THEN [k \in DOMAIN Found |-> Found[k].name]
  ELSE LET place == IF infoIndex > Len(Found) THEN Len(Found) + 1 ELSE infoIndex IN
       [k \in 1..(Len(Found) + 1) |->
          IF k < place THEN Found[k].name ELSE IF k = place THEN "info" ELSE Found[k - 1].name]
Construct ==
  /\ next = Len(Modules) /\ args = None /\ error = "none"
  /\ IF Required \subseteq Present
       THEN args' = (IF injectType = "CONSTRUCTOR" THEN ConstructArgs ELSE <<>>) /\ UNCHANGED error
       ELSE error' = "not found" /\ UNCHANGED args
  /\ UNCHANGED <<class, declared, units, next, descriptors>>

Next == Decorate \/ Describe \/ Construct
Spec == Init /\ [][Next]_vars

TypeOK ==
  /\ injectType \in {"none", "PROPERTY", "CONSTRUCTOR"}
  /\ error \in {"none", "mixed", "not found"}
  /\ next \in 0..Len(Modules) /\ infoIndex \in 0..Len(class.parameters)

-----------------------------------------------------------------------------
Has(member, d) == d \in Range(member.decorators)
Injected(member) == Has(member, "inject") \/ Has(member, "optional")
\* What the class means a parameter to hold.
Meant(member) ==
  IF Has(member, "info") THEN "info"
  ELSE LET name == ObjName(member, IF Has(member, "inject") THEN "inject" ELSE "optional")
       IN  IF name \in Present THEN name ELSE "undefined"
Argument(i) == IF i \in DOMAIN args THEN args[i] ELSE "undefined"
InPlace(C) ==
  args # None => \A i \in C : Argument(i) = Meant(class.parameters[i])
Parameters == IF injectType = "CONSTRUCTOR" THEN DOMAIN class.parameters ELSE {}
Regular ==
  \A i \in Parameters :
    /\ Injected(class.parameters[i]) \/ Has(class.parameters[i], "info")
    /\ Meant(class.parameters[i]) = "undefined" =>
         \A j \in Parameters : j > i => Meant(class.parameters[j]) = "undefined"
\* However the decorators of the parameters are applied, the constructor is called with the
\* object of each parameter in its place, and the ObjectInfo in its own, if every parameter
\* is decorated and only the last ones are missing (PrototypeUtil.getInjectObjects,
\* EggObjectImpl.initWithInjectConstructor).
ArgumentsAreInPlace == Regular => InPlace(Parameters)

\* README.md:479, of an optional object: "若为 true，且未找到对象时，该属性值为 undefined".
\* The missing one's parameter gets the object of the next instead.
OptionalIsUndefined ==
  (\A i \in Parameters : Injected(class.parameters[i])) =>
    InPlace({i \in Parameters : Has(class.parameters[i], "optional")})

\* A qualifier that asks for an init type outlives what is guessed from the member's type,
\* whichever decorator comes first (Inject, InitTypeQualifier).
AskedIsKept ==
  todo = {} /\ error = "none" =>
    \A i \in DOMAIN Members(injectType) :
      Has(Members(injectType)[i], "asked") => initType[i] = "asked"

\* A module has the instances of a dynamic class, each qualified as the module's own unless
\* its ObjectInfo says otherwise, also when getObjects returns the same objects to all; those
\* of a static class are in its own module only (ProtoDescriptorHelper).
InstancesAreTheModules ==
  descriptors =
    {[module |-> m, object |-> o, unit |-> IF o.unit = None THEN m ELSE o.unit] :
       m \in {n \in {Modules[k] : k \in 1..next} : class.kind = "dynamic" \/ n = Home},
       o \in class.instances}
=============================================================================
