----------------------------- MODULE ControllerMeta -----------------------------
(***************************************************************************)
(* What decorators note of a controller class and its methods, how the     *)
(* builders check it, and the arguments a handler is then called with.  A  *)
(* class may extend another one, whose metadata it inherits.               *)
(***************************************************************************)
EXTENDS Integers, FiniteSets

CONSTANTS
  Undefined,
  Methods,       \* names of methods
  Declarations,  \* what a method may be declared with
  MaxIndex,      \* the last parameter
  MaxMethods     \* bound on the declarations of an application

HTTPParamTypes == {"PARAM", "QUERY", "QUERIES", "HEADERS", "REQUEST", "BODY", "COOKIES"}
WebSocketParamTypes ==
  {"SOCKET", "STREAM", "DATA", "CLOSE", "ERROR", "CLOSE_CODE", "CLOSE_REASON"}
ParamTypes == HTTPParamTypes \cup WebSocketParamTypes
Kinds == {"HTTP", "WEBSOCKET", "WEBSOCKET_FETCH"}
FetchTypes == {"CONNECTION", "OPEN", "DATA", "ERROR", "CLOSE"}
Classes == {"parent", "child"}
Indices == 0 .. MaxIndex

\* A declaration: the length of the function, which leaves parameters with a
\* default value out, and the decorators of the method and its parameters.
ASSUME ControllerMetaAssumption ==
  /\ MaxIndex \in Nat /\ MaxMethods \in Nat
  /\ Undefined \notin Int /\ Undefined \notin {"context", "nothing"}
  /\ \A d \in Declarations :
       /\ d.length \in 0 .. MaxIndex + 1
       /\ d.httpParamType \in [Indices -> HTTPParamTypes \cup {Undefined}]
       /\ d.webSocketParamType \in [Indices -> WebSocketParamTypes \cup {Undefined}]
       /\ d.contextIndex \in Indices \cup {Undefined}
       /\ d.fetchType # Undefined => d.methodType = "WEBSOCKET_FETCH"

VARIABLES
  loading,       \* the class whose decorators run; then all are built
  length,        \* by class and method: the length of the function, if it has it
  own,           \* by class and key: the own map, by method, if there is one
  cells,         \* the inner maps, by the class, key and method that made them
  controllerType,
  declared,      \* how many methods are declared
  noted,         \* history: the parent's inner maps when its class was complete
  built,         \* by class: what its builder returned
  call           \* the last call of a handler: its arguments

vars == <<loading, length, own, cells, controllerType, declared, noted, built, call>>

FlatKeys == {"methodType", "fetchType", "contextIndex", "middlewares"}
NestedKeys == {"httpParamType", "webSocketParamType"}
Keys == FlatKeys \cup NestedKeys
NoMap == [m \in Methods |-> Undefined]
NoParams == [i \in Indices |-> Undefined]

Init ==
  /\ loading = "parent"
  /\ length = [c \in Classes |-> [m \in Methods |-> Undefined]]
  /\ own = [c \in Classes |-> [k \in Keys |-> Undefined]]
  /\ cells = [r \in Classes \X NestedKeys \X Methods |-> NoParams]
  /\ controllerType = [c \in Classes |-> Undefined]
  /\ declared = 0 /\ noted = Undefined
  /\ built = [c \in Classes |-> Undefined]
  /\ call = Undefined

-----------------------------------------------------------------------------
(* Metadata *)

\* getMetaData: its own, or the parent's.
GetMetaData(c, k) ==
  CASE own[c][k] # Undefined -> own[c][k]
    [] own[c][k] = Undefined /\ c = "child" /\ own["parent"][k] # Undefined -> own["parent"][k]
    [] OTHER -> NoMap

\* initOwnMapMetaData, and set: a copy of the parent's map has the same values,
\* inner maps too.
SetOwn(c, k, m, v) == [GetMetaData(c, k) EXCEPT ![m] = v]

\* setHTTPMethodParamType: the inner map is made by the first that needs it.
Cell(c, k, m) == IF GetMetaData(c, k)[m] = Undefined THEN <<c, k, m>> ELSE GetMetaData(c, k)[m]

\* getHTTPMethodParamType
ParamMap(c, k, m) ==
  LET cell == GetMetaData(c, k)[m] IN IF cell = Undefined THEN NoParams ELSE cells[cell]

-----------------------------------------------------------------------------
(* Decorators *)

Decorated(d, k) == IF k \in NestedKeys THEN \E i \in Indices : d[k][i] # Undefined ELSE d[k] # Undefined

\* The decorators of a method and its parameters: @HTTPMethod, @HTTPQuery,
\* @WebSocketFetchMethod, @WebSocketData, @Context, @Middleware and the others.
Declare(c, m, d) ==
  /\ loading = c /\ length[c][m] = Undefined /\ declared < MaxMethods
  /\ declared' = declared + 1
  /\ length' = [length EXCEPT ![c][m] = d.length]
  /\ own' = [own EXCEPT ![c] =
       [k \in Keys |-> IF ~Decorated(d, k) THEN own[c][k]
                       ELSE SetOwn(c, k, m, IF k \in NestedKeys THEN Cell(c, k, m) ELSE d[k])]]
  /\ cells' = [r \in DOMAIN cells |->
       IF \E k \in NestedKeys : Decorated(d, k) /\ r = Cell(c, k, m)
       THEN [i \in Indices |-> IF d[r[2]][i] # Undefined THEN d[r[2]][i] ELSE cells[r][i]]
       ELSE cells[r]]
  /\ UNCHANGED <<loading, controllerType, noted, built, call>>

\* The decorator of a class comes last; without one it is no controller.
DecorateClass(c, kind) ==
  /\ loading = c
  /\ controllerType' = [controllerType EXCEPT ![c] = kind]
  /\ loading' = IF c = "parent" THEN "child" ELSE "none"
  /\ noted' = IF c = "parent" THEN [k \in NestedKeys |-> [m \in Methods |-> ParamMap(c, k, m)]]
              ELSE noted
  /\ UNCHANGED <<length, own, cells, declared, built, call>>

-----------------------------------------------------------------------------
(* The builders *)

\* clazz.prototype[methodName].length
Length(c, m) ==
  CASE length[c][m] # Undefined -> length[c][m]
    [] length[c][m] = Undefined /\ c = "child" -> length["parent"][m]
    [] OTHER -> Undefined
MethodsOf(c) == {m \in Methods : Length(c, m) # Undefined}

\* fromHTTPParamType
FromHTTPParamType(t) ==
  IF t \in {"PARAM", "QUERY", "QUERIES", "HEADERS", "REQUEST"} THEN t ELSE Undefined

\* getCompatibleMethodParamType
CompatibleParamMap(c, m) ==
  [i \in Indices |->
     LET ws == ParamMap(c, "webSocketParamType", m)[i] IN
     IF ws # Undefined THEN ws ELSE FromHTTPParamType(ParamMap(c, "httpParamType", m)[i])]

Annotated(map) == {i \in Indices : map[i] # Undefined}

\* getParamIndexList, getCompatibleParamIndexList: an HTTP type that a
\* WebSocket has not counts too.
ParamIndexList(c, m, kind) ==
  Annotated(ParamMap(c, "httpParamType", m))
    \cup (IF kind = "HTTP" THEN {} ELSE Annotated(ParamMap(c, "webSocketParamType", m)))

ParamTypeMap(c, m, kind) ==
  IF kind = "HTTP" THEN ParamMap(c, "httpParamType", m) ELSE CompatibleParamMap(c, m)

ContextIndex(c, m) == GetMetaData(c, "contextIndex")[m]

Larger(a, b) == IF a > b THEN a ELSE b

\* Mutation: the context is not counted.
MaxParamCount_Bug(len, annotated, context) == Larger(len, Cardinality(annotated))

\* checkParamDecorators: how many parameters must have a decorator.
MaxParamCount(len, annotated, context) ==
  Larger(len, IF context = Undefined THEN Cardinality(annotated) ELSE Cardinality(annotated) + 1)

\* checkParamDecorators: each but the context has a type.
ParamsAreChecked(len, annotated, typed, context) ==
  \A i \in 0 .. MaxParamCount(len, annotated, context) - 1 : i = context \/ i \in typed

\* isCommonParamType
CommonParamTypes == {"PARAM", "QUERY", "QUERIES", "HEADERS", "REQUEST", "SOCKET"}

\* isFetchOnlyParamType
FetchOnlyParamTypes == {"DATA", "CLOSE", "ERROR", "CLOSE_CODE", "CLOSE_REASON"}

\* isAllowedParamType
AllowedParamTypes(type) ==
  CommonParamTypes
    \cup (IF type = "CLOSE" THEN {} ELSE {"CLOSE"})
    \cup CASE type = "DATA" -> {"DATA"}
           [] type = "ERROR" -> {"ERROR"}
           [] type = "CLOSE" -> {"CLOSE_CODE", "CLOSE_REASON"}
           [] OTHER -> {}

MethodType(c, m) == GetMetaData(c, "methodType")[m]
FetchType(c, m) == GetMetaData(c, "fetchType")[m]

\* MethodValidator.validate
MethodIsValid(c, m, kind) ==
  IF MethodType(c, m) = Undefined
  THEN GetMetaData(c, "middlewares")[m] = Undefined /\ ContextIndex(c, m) = Undefined
  ELSE MethodType(c, m) = kind

\* buildParamType
ParamTypesAreValid(c, m, kind) ==
  LET types == ParamTypeMap(c, m, kind)
      types_ == {types[i] : i \in Annotated(types)} IN
  /\ ParamsAreChecked(Length(c, m), ParamIndexList(c, m, kind), Annotated(types), ContextIndex(c, m))
  /\ ParamIndexList(c, m, kind) = Annotated(types)
  /\ kind = "WEBSOCKET" => types_ \cap FetchOnlyParamTypes = {}
  /\ kind = "WEBSOCKET_FETCH" => types_ \subseteq AllowedParamTypes(FetchType(c, m))

\* The metadata of a method.
MethodMeta(c, m, kind) ==
  [name |-> m, kind |-> kind, length |-> Length(c, m), contextParamIndex |-> ContextIndex(c, m),
   paramMap |-> ParamTypeMap(c, m, kind),
   type |-> IF kind = "WEBSOCKET_FETCH" THEN FetchType(c, m) ELSE "none"]

\* build: of a controller class.
BuiltMethods(c, kind) == {m \in MethodsOf(c) : MethodType(c, m) # Undefined}

\* buildMethods of fetch: at most one of each type, and one for data.
FetchMethodsAreValid(c) ==
  LET of(type) == {m \in BuiltMethods(c, "WEBSOCKET_FETCH") : FetchType(c, m) = type} IN
  Cardinality(of("DATA")) = 1 /\ \A type \in FetchTypes : Cardinality(of(type)) <= 1

Build(c) ==
  LET kind == controllerType[c]
      valid == /\ \A m \in MethodsOf(c) : MethodIsValid(c, m, kind)
               /\ \A m \in BuiltMethods(c, kind) : ParamTypesAreValid(c, m, kind)
               /\ kind = "WEBSOCKET_FETCH" => FetchMethodsAreValid(c) IN
  /\ loading = "none" /\ built[c] = Undefined /\ kind # Undefined
  /\ built' = [built EXCEPT ![c] =
       [valid |-> valid, methods |-> {MethodMeta(c, m, kind) : m \in BuiltMethods(c, kind)}]]
  /\ UNCHANGED <<loading, length, own, cells, controllerType, declared, noted, call>>

-----------------------------------------------------------------------------
(* The handlers *)

\* What createHandler of a service worker takes from a request.
WorkerTypes == {"BODY", "PARAM", "QUERY", "QUERIES", "HEADERS", "REQUEST"}

\* invokeFetchController's payloads.
FetchPayload(type) ==
  {"CLOSE"} \cup CASE type = "DATA" -> {"DATA"}
                   [] type = "ERROR" -> {"ERROR"}
                   [] type = "CLOSE" -> {"CLOSE_CODE", "CLOSE_REASON"}
                   [] OTHER -> {}

\* What a handler finds: that of an egg application has cookies too, and
\* invokeController a stream.
Payload(method, host) ==
  CASE method.kind = "HTTP" -> WorkerTypes \cup (IF host = "egg" THEN {"COOKIES"} ELSE {})
    [] method.kind = "WEBSOCKET" -> CommonParamTypes \cup {"STREAM"}
    [] OTHER -> CommonParamTypes \cup FetchPayload(method.type)

\* buildMethodArgs: undefined where nothing is bound.
BuildMethodArgs(method, host) ==
  [i \in Indices |->
     IF method.paramMap[i] # Undefined
     THEN IF method.paramMap[i] \in Payload(method, host) THEN method.paramMap[i] ELSE "nothing"
     ELSE IF i = method.contextParamIndex THEN "context" ELSE Undefined]

\* createHandler, invokeMethod
Call(c, host) ==
  /\ built[c] # Undefined /\ built[c].valid
  /\ \E method \in built[c].methods :
       call' = [method |-> method, host |-> host, args |-> BuildMethodArgs(method, host)]
  /\ UNCHANGED <<loading, length, own, cells, controllerType, declared, noted, built>>

Next ==
  \/ \E c \in Classes : Build(c) \/ (\E host \in {"egg", "worker"} : Call(c, host))
  \/ \E c \in Classes, m \in Methods, d \in Declarations : Declare(c, m, d)
  \/ \E c \in Classes, kind \in Kinds \cup {Undefined} : DecorateClass(c, kind)

Spec == Init /\ [][Next]_vars

-----------------------------------------------------------------------------
(* Properties *)

TypeOK ==
  /\ loading \in Classes \cup {"none"} /\ declared \in 0 .. MaxMethods
  /\ length \in [Classes -> [Methods -> (0 .. MaxIndex + 1) \cup {Undefined}]]
  /\ cells \in [Classes \X NestedKeys \X Methods -> [Indices -> ParamTypes \cup {Undefined}]]
  /\ controllerType \in [Classes -> Kinds \cup {Undefined}]

\* A handler that was built is called with all it declares, and without a gap
\* before an argument that is bound, though the length of a function leaves out
\* the parameters from the first default on (checkParamDecorators with
\* createHandler and buildMethodArgs).
ArgumentsAreBound ==
  call # Undefined =>
    \A i \in Indices :
      (i < call.method.length \/ \E j \in Indices : j > i /\ call.args[j] # Undefined)
        => call.args[i] # Undefined

\* Nor does one ask for what its event does not bring, cookies of a service
\* worker aside (isAllowedParamType with the payloads of
\* WebSocketControllerRuntime, and createHandler).
PayloadIsThere ==
  call # Undefined =>
    \A i \in Indices :
      call.args[i] = "nothing" => call.host = "worker" /\ call.method.paramMap[i] = "COOKIES"

\* What decorators note of a class stays as it is when another class extends
\* it: each has a map of its own (MetadataUtil.initOwnMapMetaData).
ParentIsLeftAlone ==
  loading # "parent" =>
    \A k \in NestedKeys, m \in Methods : ParamMap("parent", k, m) = noted[k][m]
=============================================================================
