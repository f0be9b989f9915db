------------------------------ MODULE EggProperties ------------------------------
(* The properties of egg's application and context as objects a class may    *)
(* have injected: the classes made of them, the qualifier the hook adds to an *)
(* injected property, the prototype that is found, and when its value is read. *)
EXTENDS FiniteSets

CONSTANTS
  Names,         \* the names of properties, of loggers, of injected objects
  Contexts,      \* the contexts of requests
  NoContext, NoValue

AppBlackList == {"eggObjectFactory", "moduleConfigs"}
ContextBlackList == {"logger"}
DefaultContext == {"user"}

VARIABLES
  appProperties, contextProperties, loggers,
  current,       \* app.currentContext
  given,         \* the properties of the application that have a value by now
  cache,         \* name -> the value its application object keeps, or NoValue
  read           \* the last value read: [proto, value], or NoValue

vars == <<appProperties, contextProperties, loggers, current, given, cache, read>>

Proto(name, type) == [name |-> name, type |-> type]
\* EggAppLoader.load
AppNames == appProperties \ AppBlackList
ContextNames == (contextProperties \cup DefaultContext) \ ContextBlackList
LoggerNames == loggers \ (AppNames \cup ContextNames)
Inner == {Proto("eggObjectFactory", "none"), Proto("moduleConfigs", "APP")}
Protos ==
  {Proto(n, "APP") : n \in AppNames \cup LoggerNames}
    \cup {Proto(n, "CONTEXT") : n \in ContextNames} \cup Inner
\* EggQualifierProtoHook
IsContextObject(name) ==
  name \notin ContextBlackList /\ (name \in DefaultContext \/ name \in contextProperties)
IsAppObject(name) == name \notin AppBlackList /\ name \in appProperties
Added(name) ==
  IF IsContextObject(name) THEN {"CONTEXT"} ELSE IF IsAppObject(name) THEN {"APP"} ELSE {}
\* The prototypes of the application's load unit an injected property may mean.
Found(name) == {p \in Protos : p.name = name /\ \A t \in Added(name) : p.type = t}

Init ==
  /\ appProperties \in SUBSET Names /\ contextProperties \in SUBSET Names
  /\ loggers \in SUBSET (Names \ AppBlackList)
  /\ current = NoContext /\ given = {} /\ cache = [n \in Names |-> NoValue] /\ read = NoValue

Begin(c) ==
  /\ current = NoContext /\ current' = c /\ read' = NoValue
  /\ UNCHANGED <<appProperties, contextProperties, loggers, given, cache>>
End ==
  /\ current # NoContext /\ current' = NoContext /\ read' = NoValue
  /\ UNCHANGED <<appProperties, contextProperties, loggers, given, cache>>
\* The application, or one of its plugins, gives a property its value.
Give(name) ==
  /\ name \in appProperties \cup loggers /\ given' = given \cup {name} /\ read' = NoValue
  /\ UNCHANGED <<appProperties, contextProperties, loggers, current, cache>>

\* What the function of a class returns; that of a context throws without one.
Constructed(p) ==
  IF p.type = "CONTEXT" THEN current ELSE IF p.name \in given THEN "value" ELSE NoValue
\* EggCompatibleObject.obj: an application's object keeps its first value.
Keeps_Bug(p) == TRUE
Keeps(p) == p.type # "CONTEXT"
Value(p) == IF Keeps(p) /\ cache[p.name] # NoValue THEN cache[p.name] ELSE Constructed(p)
Obj(p) ==
  /\ p \in Protos /\ p.type = "CONTEXT" => current # NoContext
  /\ read' = [proto |-> p, value |-> Value(p)]
  /\ cache' = IF Keeps(p) THEN [cache EXCEPT ![p.name] = Value(p)] ELSE cache
  /\ UNCHANGED <<appProperties, contextProperties, loggers, current, given>>

Next ==
  \/ End \/ \E c \in Contexts : Begin(c)
  \/ \E n \in Names : Give(n)
  \/ \E p \in [name : Names, type : {"APP", "CONTEXT", "none"}] : Obj(p)
Spec == Init /\ [][Next]_vars

TypeOK ==
  /\ given \subseteq Names /\ current \in Contexts \cup {NoContext}
  /\ \A n \in Names : cache[n] \in Contexts \cup {NoValue, "value"}

\* The lists the loader and the hook go by agree: whatever the application and its plugins
\* define, an injected name that one of them has means exactly one prototype of the
\* application's load unit, and a name they do not have means none.
OneObjectForAName ==
  \A n \in Names :
    Cardinality(Found(n)) =
      IF n \in appProperties \cup contextProperties \cup loggers \cup DefaultContext
               \cup {p.name : p \in Inner}
        THEN IF n \in ContextBlackList /\ n \notin appProperties \cup loggers THEN 0 ELSE 1
        ELSE 0

\* An object of the context is that of the current request, never one of a request before;
\* an object of the application has its value as soon as the application has.
ReadIsCurrent ==
  read # NoValue =>
    read.value = IF read.proto.type = "CONTEXT" THEN current
                 ELSE IF read.proto.name \in given THEN "value" ELSE NoValue
=============================================================================
